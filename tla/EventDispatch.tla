--------------------------- MODULE EventDispatch ---------------------------
(***************************************************************************)
(* What the event dispatcher of the SDK promises its users, without the    *)
(* threads, the mutex and the condition variable that provide it: a        *)
(* bounded first-in first-out mailbox whose messages are handed to their   *)
(* callbacks one at a time and at most once, a service that serves the     *)
(* mailbox as long as it is open, and that comes to rest once it is        *)
(* closed.  EventHandler implements this module, and UnleashClient is      *)
(* composed with it in place of EventHandler.                              *)
(***************************************************************************)
EXTENDS Naturals, Sequences

CONSTANTS
  Capacity,   \* the largest number of messages the mailbox holds
  Payloads,   \* what a message carries besides its identity
  NoPayload   \* the payload of the message delivered before the first one

VARIABLES
  open,       \* may the service be served (between start and stop)?
  alive,      \* is there a server that delivers messages?
  mailbox,    \* the accepted messages still to be delivered, oldest first
  active,     \* is the message last taken still being handled?
  task,       \* the message last taken from the mailbox
  accepted    \* how many messages have ever been accepted

dispatchVars == <<open, alive, mailbox, active, task, accepted>>

Init ==
  /\ open = FALSE
  /\ alive = FALSE
  /\ mailbox = <<>>
  /\ active = FALSE
  /\ task = [id |-> 0, cb |-> NoPayload]
  /\ accepted = 0

Open ==
  /\ ~open
  /\ open' = TRUE
  /\ UNCHANGED <<alive, mailbox, active, task, accepted>>

Launch ==
  /\ open
  /\ ~alive
  /\ alive' = TRUE
  /\ UNCHANGED <<open, mailbox, active, task, accepted>>

\* A message may arrive at any time, also late, when the service is closed.
Accept(p) ==
  /\ Len(mailbox) < Capacity
  /\ accepted' = accepted + 1
  /\ mailbox' = Append(mailbox, [id |-> accepted + 1, cb |-> p])
  /\ UNCHANGED <<open, alive, active, task>>

Deliver ==
  /\ alive
  /\ ~active
  /\ mailbox # <<>>
  /\ active' = TRUE
  /\ task' = Head(mailbox)
  /\ mailbox' = Tail(mailbox)
  /\ UNCHANGED <<open, alive, accepted>>

Complete ==
  /\ active
  /\ active' = FALSE
  /\ UNCHANGED <<open, alive, mailbox, task, accepted>>

Close ==
  /\ open
  /\ open' = FALSE
  /\ UNCHANGED <<alive, mailbox, active, task, accepted>>

\* Only a closed service may throw messages away.
Drop ==
  /\ ~open
  /\ mailbox' = <<>>
  /\ UNCHANGED <<open, alive, active, task, accepted>>

\* The server goes away only when the service is closed and nothing is being
\* handled.
Halt ==
  /\ ~open
  /\ alive
  /\ ~active
  /\ alive' = FALSE
  /\ UNCHANGED <<open, mailbox, active, task, accepted>>

Next ==
  \/ Open
  \/ Launch
  \/ \E p \in Payloads : Accept(p)
  \/ Deliver
  \/ Complete
  \/ Close
  \/ Drop
  \/ Halt

SafeSpec == Init /\ [][Next]_dispatchVars

\* An open service is launched and delivers; a closed one comes to rest.
Fairness ==
  /\ WF_dispatchVars(Launch)
  /\ WF_dispatchVars(open /\ Deliver)
  /\ WF_dispatchVars(Complete)
  /\ WF_dispatchVars(Halt)

Spec == SafeSpec /\ Fairness
=============================================================================
