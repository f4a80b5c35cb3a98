------------------------------- MODULE Worker -------------------------------
(***************************************************************************)
(* What a worker thread of the client promises to the thread that owns the *)
(* client, without the flag, the condition variables and the intervals     *)
(* that provide it: it works and rests in turn until it is told to leave;  *)
(* from then on it finishes what it is at, begins nothing new, and leaves, *)
(* and whoever waits for it goes on.  The process may die under it.        *)
(* FeaturePolling and MetricSending implement this module.                 *)
(***************************************************************************)

VARIABLES
  up,      \* is there a client?
  told,    \* has its owner told the worker to leave, and waits for it?
  state    \* is the worker gone, resting or working?

workerVars == <<up, told, state>>

Init ==
  /\ up \in BOOLEAN
  /\ told = FALSE
  /\ state = "gone"

Boot ==
  /\ ~up
  /\ up' = TRUE
  /\ UNCHANGED <<told, state>>

Die ==
  /\ up
  /\ up' = FALSE
  /\ told' = FALSE
  /\ state' = "gone"

\* One kind of worker begins with its work, another with a rest.
Launch ==
  /\ up
  /\ ~told
  /\ state = "gone"
  /\ state' \in {"resting", "working"}
  /\ UNCHANGED <<up, told>>

Tell ==
  /\ ~told
  /\ state # "gone"
  /\ told' = TRUE
  /\ UNCHANGED <<up, state>>

Begin ==
  /\ ~told
  /\ state = "resting"
  /\ state' = "working"
  /\ UNCHANGED <<up, told>>

Finish ==
  /\ state = "working"
  /\ state' = "resting"
  /\ UNCHANGED <<up, told>>

Leave ==
  /\ told
  /\ state = "resting"
  /\ state' = "gone"
  /\ UNCHANGED <<up, told>>

Join ==
  /\ told
  /\ state = "gone"
  /\ told' = FALSE
  /\ UNCHANGED <<up, state>>

Next == Boot \/ Die \/ Launch \/ Tell \/ Begin \/ Finish \/ Leave \/ Join

SafeSpec == Init /\ [][Next]_workerVars

\* A worker works again and again, and is not in the way of a stop().
Fairness ==
  /\ WF_workerVars(Begin)
  /\ WF_workerVars(Finish)
  /\ WF_workerVars(Leave)
  /\ WF_workerVars(Join)

Spec == SafeSpec /\ Fairness
=============================================================================
