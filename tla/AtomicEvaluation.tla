-------------------------- MODULE AtomicEvaluation --------------------------
(***************************************************************************)
(* What isEnabled() and getVariant() promise to the threads that call them *)
(* while the polling thread replaces the toggles: every call answers from  *)
(* the toggles and the readiness of one single instant between its call    *)
(* and its return.                                                         *)
(***************************************************************************)
CONSTANTS
  Threads,         \* threads of the application
  Calls,           \* what may be evaluated: an operation and a flag
  Stores,          \* what the store may hold
  Answer(_, _, _)  \* the answer to a call, from a readiness and a store

VARIABLES ready, store, call, reply

None == <<>>   \* no call, and no reply yet

Init ==
  /\ ready = FALSE
  /\ store \in Stores
  /\ call = [t \in Threads |-> None]
  /\ reply = [t \in Threads |-> None]

\* The client gets new toggles; once it is ready it stays ready.
Provide ==
  /\ store' \in Stores
  /\ ready' \in BOOLEAN
  /\ ready => ready'
  /\ UNCHANGED <<call, reply>>

Ask(t, c) ==
  /\ call[t] = None
  /\ call' = [call EXCEPT ![t] = <<c>>]
  /\ reply' = [reply EXCEPT ![t] = None]
  /\ UNCHANGED <<ready, store>>

Decide(t) ==
  /\ call[t] # None
  /\ reply[t] = None
  /\ reply' = [reply EXCEPT ![t] = <<Answer(call[t][1], ready, store)>>]
  /\ UNCHANGED <<ready, store, call>>

Return(t) ==
  /\ call[t] # None
  /\ reply[t] # None
  /\ call' = [call EXCEPT ![t] = None]
  /\ reply' = [reply EXCEPT ![t] = None]
  /\ UNCHANGED <<ready, store>>

Next ==
  \/ Provide
  \/ \E t \in Threads :
       \/ \E c \in Calls : Ask(t, c)
       \/ Decide(t)
       \/ Return(t)

Spec == Init /\ [][Next]_<<ready, store, call, reply>>
=============================================================================
