--------------------------- MODULE ContextAccess ----------------------------
(***************************************************************************)
(* Reading and writing UnleashClient::_context, whose fields are copied    *)
(* one after the other: updateContext() and the polling and evaluating     *)
(* threads do it with _mutexPolling, context() does it without.            *)
(*                                                                         *)
(* The contexts that the application passes to updateContext() are         *)
(* numbered, and a field is known by the number of the context it is from. *)
(* (Formally the unlocked copy is a data race on strings; the model gives  *)
(* it the mildest meaning, each field by itself is read whole.)            *)
(***************************************************************************)
EXTENDS Naturals

CONSTANTS
  Fields,     \* _userId, _remoteAddress, _currentTime, _properties
  Writers,    \* threads in updateContext()
  Readers,    \* threads that copy _context with the mutex
  Callers,    \* threads in context()
  MaxUpdates  \* bound: calls of updateContext()

ASSUME ContextAccessAssumption ==
  /\ MaxUpdates \in Nat
  /\ Writers \cap (Readers \cup Callers) = {}
  /\ Readers \cap Callers = {}

VARIABLES
  field,   \* the fields of _context
  held,    \* _mutexPolling: the thread in its critical section, if any
  version, \* the number of the context that is being or was assigned last
  todo,    \* the fields each thread still has to copy
  copy,    \* what each reading thread has copied, or copied last
  done     \* the number of the newest whole context: assigned, mutex released

vars == <<field, held, version, todo, copy, done>>

Threads == Writers \cup Readers \cup Callers
NoCopy  == [f \in Fields |-> 0]

Init ==
  /\ field = NoCopy
  /\ held = {}
  /\ version = 0
  /\ todo = [t \in Threads |-> {}]
  /\ copy = [t \in Readers \cup Callers |-> NoCopy]
  /\ done = 0

\* Wrong variant: updateContext() does not lock.
UpdateLockMissing(t) ==
  /\ todo[t] = {}
  /\ version < MaxUpdates
  /\ held' = held \cup {t}
  /\ version' = version + 1
  /\ todo' = [todo EXCEPT ![t] = Fields]
  /\ UNCHANGED <<field, copy, done>>

UpdateLock(t) ==
  /\ held = {}
  /\ version < MaxUpdates
  /\ held' = {t}
  /\ version' = version + 1
  /\ todo' = [todo EXCEPT ![t] = Fields]
  /\ UNCHANGED <<field, copy, done>>

updateMutableContext(t, f) ==
  /\ f \in todo[t]
  /\ field' = [field EXCEPT ![f] = version]
  /\ todo' = [todo EXCEPT ![t] = @ \ {f}]
  /\ UNCHANGED <<held, version, copy, done>>

UpdateUnlock(t) ==
  /\ t \in held
  /\ todo[t] = {}
  /\ held' = held \ {t}
  /\ done' = version
  /\ UNCHANGED <<field, version, todo, copy>>

\* The snapshot of the polling thread, and that of an impression event.
SnapshotLock(t) ==
  /\ held = {}
  /\ held' = {t}
  /\ todo' = [todo EXCEPT ![t] = Fields]
  /\ UNCHANGED <<field, version, copy, done>>

SnapshotUnlock(t) ==
  /\ t \in held
  /\ todo[t] = {}
  /\ held' = held \ {t}
  /\ UNCHANGED <<field, version, todo, copy, done>>

context(t) ==
  /\ todo[t] = {}
  /\ todo' = [todo EXCEPT ![t] = Fields]
  /\ UNCHANGED <<field, held, version, copy, done>>

CopyField(t, f) ==
  /\ f \in todo[t]
  /\ copy' = [copy EXCEPT ![t] = [@ EXCEPT ![f] = field[f]]]
  /\ todo' = [todo EXCEPT ![t] = @ \ {f}]
  /\ UNCHANGED <<field, held, version, done>>

Next ==
  \/ \E t \in Writers :
       \/ UpdateLock(t)
       \/ \E f \in Fields : updateMutableContext(t, f)
       \/ UpdateUnlock(t)
  \/ \E t \in Readers : SnapshotLock(t) \/ SnapshotUnlock(t)
  \/ \E t \in Callers : context(t)
  \/ \E t \in Readers \cup Callers, f \in Fields : CopyField(t, f)

SafeSpec == Init /\ [][Next]_vars
-----------------------------------------------------------------------------
(* Properties.                                                             *)

\* Every variable has its type, and one thread at a time holds the mutex.
TypeOK ==
  /\ field \in [Fields -> Nat]
  /\ held \subseteq Threads
  /\ \A t, u \in held : t = u
  /\ version \in Nat
  /\ todo \in [Threads -> SUBSET Fields]
  /\ copy \in [Readers \cup Callers -> [Fields -> Nat]]
  /\ done \in Nat

Whole(t) == \E v \in 0 .. version : copy[t] = [f \in Fields |-> v]

\* A request, and an impression, is made for a context that the application has
\* set, never for a mixture of two: when a thread has copied _context it has
\* the newest whole one.
SnapshotsWhole ==
  \A t \in Readers :
    t \in held /\ todo[t] = {} => copy[t] = [f \in Fields |-> done]

\* "returns current context copy": what context() returns is a context that the
\* application has set.
CopiesWhole == \A t \in Callers : todo[t] = {} => Whole(t)
=============================================================================
