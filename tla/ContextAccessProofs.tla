-------------------------- MODULE ContextAccessProofs --------------------------
(***************************************************************************)
(* Theorems about ContextAccess, for any fields, any number of threads in  *)
(* each role and of updates.                                               *)
(***************************************************************************)
EXTENDS ContextAccess, TLAPS

USE ContextAccessAssumption

\* Only the thread in the critical section, and the callers of context(), are
\* in the middle of copying; a writer there has written what it does not have
\* to write any more, a reader has read the newest whole context.
LockInv ==
  /\ held \subseteq Writers \cup Readers
  /\ \A t \in Writers \cup Readers : todo[t] # {} => t \in held
  /\ held \cap Writers = {} => version = done /\ \A f \in Fields : field[f] = done
  /\ \A t \in Writers : t \in held => \A f \in Fields \ todo[t] : field[f] = version
  /\ \A t \in Readers : t \in held => \A f \in Fields \ todo[t] : copy[t][f] = done

IInv == TypeOK /\ LockInv

LEMMA Initially == Init => IInv
<1> SUFFICES ASSUME Init PROVE IInv
  OBVIOUS
<1>1. NoCopy \in [Fields -> Nat] /\ \A f \in Fields : NoCopy[f] = 0
  BY DEF NoCopy
<1>2. TypeOK
  BY <1>1 DEF Init, TypeOK
<1>3. LockInv
  BY <1>1 DEF Init, LockInv, Threads
<1> QED
  BY <1>2, <1>3 DEF IInv

\* What a thread that has one field less to do has left to do.
LEMMA OneField ==
  ASSUME TypeOK, NEW t \in Threads, NEW f \in Fields,
         todo' = [todo EXCEPT ![t] = @ \ {f}]
  PROVE  /\ todo' \in [Threads -> SUBSET Fields]
         /\ todo'[t] = todo[t] \ {f}
         /\ \A u \in Threads : u # t => todo'[u] = todo[u]
BY DEF TypeOK

\* What a thread that begins has to do.
LEMMA AllFields ==
  ASSUME TypeOK, NEW t \in Threads, todo' = [todo EXCEPT ![t] = Fields]
  PROVE  /\ todo' \in [Threads -> SUBSET Fields]
         /\ todo'[t] = Fields
         /\ \A u \in Threads : u # t => todo'[u] = todo[u]
BY DEF TypeOK

LEMMA Write ==
  ASSUME IInv, NEW t \in Writers,
         \/ UpdateLock(t)
         \/ \E f \in Fields : updateMutableContext(t, f)
         \/ UpdateUnlock(t)
  PROVE  IInv'
<1> USE DEF IInv
<1>0. t \in Threads /\ t \notin Readers /\ Readers \subseteq Threads /\ Writers \subseteq Threads
  BY DEF Threads
<1>1. CASE UpdateLock(t)
  <2>1. /\ held = {} /\ held' = {t} /\ version' = version + 1
        /\ UNCHANGED <<field, copy, done>>
    BY <1>1 DEF UpdateLock
  <2>2. /\ todo' \in [Threads -> SUBSET Fields] /\ todo'[t] = Fields
        /\ \A u \in Threads : u # t => todo'[u] = todo[u]
    BY <1>0, <1>1, AllFields DEF UpdateLock
  <2>3. TypeOK'
    BY <1>0, <2>1, <2>2 DEF TypeOK
  <2>4. LockInv'
    BY <1>0, <2>1, <2>2 DEF LockInv
  <2> QED
    BY <2>3, <2>4
<1>2. ASSUME NEW f \in Fields, updateMutableContext(t, f)
      PROVE  IInv'
  <2>1. /\ f \in todo[t] /\ field' = [field EXCEPT ![f] = version]
        /\ UNCHANGED <<held, version, copy, done>>
    BY <1>2 DEF updateMutableContext
  <2>2. /\ todo' \in [Threads -> SUBSET Fields] /\ todo'[t] = todo[t] \ {f}
        /\ \A u \in Threads : u # t => todo'[u] = todo[u]
    BY <1>0, <1>2, OneField DEF updateMutableContext
  <2>3. t \in held /\ \A u \in held : u = t
    BY <1>0, <2>1 DEF LockInv, TypeOK
  <2>4. /\ field' \in [Fields -> Nat] /\ field'[f] = version
        /\ \A g \in Fields : g # f => field'[g] = field[g]
    BY <2>1 DEF TypeOK
  <2>5. TypeOK'
    BY <2>1, <2>2, <2>4 DEF TypeOK
  <2>6. LockInv'
    BY <1>0, <2>1, <2>2, <2>3, <2>4 DEF LockInv
  <2> QED
    BY <2>5, <2>6
<1>3. CASE UpdateUnlock(t)
  <2>1. /\ t \in held /\ todo[t] = {} /\ held' = held \ {t} /\ done' = version
        /\ UNCHANGED <<field, version, todo, copy>>
    BY <1>3 DEF UpdateUnlock
  <2>2. held' = {}
    BY <2>1 DEF TypeOK
  <2>3. \A f \in Fields : field[f] = version
    BY <2>1 DEF LockInv
  <2>4. \A u \in Writers \cup Readers : todo[u] = {}
    BY <1>0, <2>1, <2>2 DEF LockInv
  <2>5. TypeOK'
    BY <2>1, <2>2 DEF TypeOK
  <2>6. LockInv'
    BY <2>1, <2>2, <2>3, <2>4 DEF LockInv
  <2> QED
    BY <2>5, <2>6
<1> QED
  BY <1>1, <1>2, <1>3

LEMMA Copy ==
  ASSUME IInv,
         \/ \E t \in Readers : SnapshotLock(t) \/ SnapshotUnlock(t)
         \/ \E t \in Callers : context(t)
         \/ \E t \in Readers \cup Callers, f \in Fields : CopyField(t, f)
  PROVE  IInv'
<1> USE DEF IInv
<1>0. /\ Readers \subseteq Threads /\ Writers \subseteq Threads /\ Callers \subseteq Threads
      /\ Writers \cap Readers = {} /\ Writers \cap Callers = {} /\ Readers \cap Callers = {}
  BY DEF Threads
<1>1. ASSUME NEW t \in Readers, SnapshotLock(t)
      PROVE  IInv'
  <2>1. /\ held = {} /\ held' = {t}
        /\ UNCHANGED <<field, version, copy, done>>
    BY <1>1 DEF SnapshotLock
  <2>2. /\ todo' \in [Threads -> SUBSET Fields] /\ todo'[t] = Fields
        /\ \A u \in Threads : u # t => todo'[u] = todo[u]
    BY <1>0, <1>1, AllFields DEF SnapshotLock
  <2>3. TypeOK'
    BY <1>0, <2>1, <2>2 DEF TypeOK
  <2>4. LockInv'
    BY <1>0, <2>1, <2>2 DEF LockInv
  <2> QED
    BY <2>3, <2>4
<1>2. ASSUME NEW t \in Readers, SnapshotUnlock(t)
      PROVE  IInv'
  <2>1. /\ t \in held /\ todo[t] = {} /\ held' = held \ {t}
        /\ UNCHANGED <<field, version, todo, copy, done>>
    BY <1>2 DEF SnapshotUnlock
  <2>2. held = {t} /\ held' = {}
    BY <2>1 DEF TypeOK
  <2>3. TypeOK'
    BY <2>1, <2>2 DEF TypeOK
  <2>4. LockInv'
    BY <1>0, <2>1, <2>2 DEF LockInv
  <2> QED
    BY <2>3, <2>4
<1>3. ASSUME NEW t \in Callers, context(t)
      PROVE  IInv'
  <2>1. UNCHANGED <<field, held, version, copy, done>>
    BY <1>3 DEF context
  <2>2. /\ todo' \in [Threads -> SUBSET Fields]
        /\ \A u \in Threads : u # t => todo'[u] = todo[u]
    BY <1>0, <1>3, AllFields DEF context
  <2>3. \A u \in Writers \cup Readers : todo'[u] = todo[u]
    BY <1>0, <2>2
  <2>4. TypeOK'
    BY <2>1, <2>2 DEF TypeOK
  <2>5. LockInv'
    BY <2>1, <2>3 DEF LockInv
  <2> QED
    BY <2>4, <2>5
<1>4. ASSUME NEW t \in Readers \cup Callers, NEW f \in Fields, CopyField(t, f)
      PROVE  IInv'
  <2>1. /\ f \in todo[t]
        /\ copy' = [copy EXCEPT ![t] = [@ EXCEPT ![f] = field[f]]]
        /\ UNCHANGED <<field, held, version, done>>
    BY <1>4 DEF CopyField
  <2>2. /\ todo' \in [Threads -> SUBSET Fields] /\ todo'[t] = todo[t] \ {f}
        /\ \A u \in Threads : u # t => todo'[u] = todo[u]
    BY <1>0, <1>4, OneField DEF CopyField
  <2>3. /\ copy' \in [Readers \cup Callers -> [Fields -> Nat]]
        /\ copy'[t][f] = field[f]
        /\ \A g \in Fields : g # f => copy'[t][g] = copy[t][g]
        /\ \A u \in Readers \cup Callers : u # t => copy'[u] = copy[u]
    BY <2>1 DEF TypeOK
  <2>4. TypeOK'
    BY <2>1, <2>2, <2>3 DEF TypeOK
  <2>5. t \in Readers => t \in held /\ field[f] = done
    BY <1>0, <2>1 DEF LockInv, TypeOK
  <2>6. \A u \in Writers : todo'[u] = todo[u]
    BY <1>0, <2>2
  <2>7. \A u \in Readers : u \in held =>
          \A g \in Fields \ todo'[u] : copy'[u][g] = done
    BY <1>0, <2>2, <2>3, <2>5 DEF LockInv
  <2>8. \A u \in Writers \cup Readers : todo'[u] # {} => todo[u] # {}
    BY <1>0, <2>1, <2>2
  <2>9. LockInv'
    BY <2>1, <2>6, <2>7, <2>8 DEF LockInv
  <2> QED
    BY <2>4, <2>9
<1> QED
  BY <1>1, <1>2, <1>3, <1>4

LEMMA Inductive == SafeSpec => []IInv
<1>1. IInv /\ [Next]_vars => IInv'
  <2>1. IInv /\ UNCHANGED vars => IInv'
    BY DEF vars, IInv, TypeOK, LockInv
  <2> QED
    BY <2>1, Write, Copy DEF Next
<1> QED
  BY <1>1, Initially, PTL DEF SafeSpec

\* Every variable keeps its type, and one thread at a time holds the mutex.
THEOREM TypeCorrect == SafeSpec => []TypeOK
<1>1. IInv => TypeOK
  BY DEF IInv
<1> QED
  BY <1>1, Inductive, PTL

\* A thread that copies _context with the mutex gets the newest whole context,
\* whatever other threads do without it.
THEOREM LockedCopiesWhole == SafeSpec => []SnapshotsWhole
<1>1. IInv => SnapshotsWhole
  <2> SUFFICES ASSUME IInv, NEW t \in Readers, t \in held, todo[t] = {}
               PROVE  copy[t] = [f \in Fields |-> done]
    BY DEF SnapshotsWhole
  <2>1. copy[t] \in [Fields -> Nat] /\ \A f \in Fields : copy[t][f] = done
    BY DEF IInv, LockInv, TypeOK
  <2> QED
    BY <2>1
<1> QED
  BY <1>1, Inductive, PTL
=============================================================================
