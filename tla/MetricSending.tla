--------------------------- MODULE MetricSending ----------------------------
(***************************************************************************)
(* Usage metrics: the application's evaluations recorded in MetricsStore,  *)
(* and the metrics thread that reports them to the backend interval after  *)
(* interval.                                                               *)
(*                                                                         *)
(* Every recorded evaluation has a number, and the counters of the store   *)
(* are the set of the numbers they count.  The backend is external: it     *)
(* takes a report or not, and its answer arrives or not.                   *)
(***************************************************************************)
EXTENDS Naturals, Sequences

CONSTANTS
  InitialDelay,  \* is metricsIntervalInitial positive?
  MaxEvals,      \* bound: evaluations recorded
  MaxTime,       \* bound: how far the clock advances
  MaxFaults,     \* bound: reports that are lost or whose answer is
  MaxStarts      \* bound: calls of start()

ASSUME MetricSendingAssumption ==
  /\ InitialDelay \in BOOLEAN
  /\ MaxEvals \in Nat
  /\ MaxTime \in Nat
  /\ MaxFaults \in Nat
  /\ MaxStarts \in Nat

VARIABLES
  life,      \* where the thread that owns the client is
  exit,      \* _exitThreads
  send,      \* where the metrics thread is
  clock,     \* nowMs()
  list,      \* the evaluations counted in MetricsStore::_list
  startMs,   \* MetricsStore::_startMs
  payload,   \* the report being sent
  ok,        \* did the latest report succeed, as far as the client knows?
  evals,     \* when each evaluation was recorded
  received,  \* the reports the backend took, in order
  faults,    \* how many reports went wrong
  starts,    \* how often start() was called
  seen       \* history: how many evaluations had been recorded when
             \*          sendMetrics() last looked at the counters

vars == <<life, exit, send, clock, list, startMs, payload, ok, evals, received,
          faults, starts, seen>>
owner == <<life, exit, starts>>
wire  == <<payload, ok, received, faults, seen>>
store == <<list, startMs>>

NoReport == [from |-> 0, to |-> 0, list |-> {}]

Init ==
  /\ life = "idle"
  /\ exit = FALSE
  /\ send = "off"
  /\ clock = 0
  /\ list = {}
  /\ startMs = 0
  /\ payload = NoReport
  /\ ok = TRUE
  /\ evals = <<>>
  /\ received = <<>>
  /\ faults = 0
  /\ starts = 0
  /\ seen = 0

Tick ==
  /\ clock < MaxTime
  /\ clock' = clock + 1
  /\ UNCHANGED <<owner, send, store, wire, evals>>

\* Wrong variant: an evaluation is counted that was not made.
RecordUnseen ==
  /\ Len(evals) < MaxEvals
  /\ list' = list \cup {Len(evals) + 1}
  /\ UNCHANGED <<owner, send, clock, startMs, wire, evals>>

\* addEnableMetric() and addVariantMetric(): one critical section.
Record ==
  /\ Len(evals) < MaxEvals
  /\ evals' = Append(evals, clock)
  /\ list' = list \cup {Len(evals) + 1}
  /\ UNCHANGED <<owner, send, clock, startMs, wire>>
-----------------------------------------------------------------------------
(* The owner.                                                              *)

Start ==
  /\ life = "idle"
  /\ starts < MaxStarts
  /\ starts' = starts + 1
  /\ life' = "running"
  /\ exit' = FALSE
  /\ send' = IF InitialDelay THEN "wait" ELSE "test"
  /\ UNCHANGED <<clock, store, wire, evals>>

\* Wrong variant: stop() does not tell the threads to exit.
StopUnsignalled ==
  /\ life = "running"
  /\ life' = "signalled"
  /\ UNCHANGED <<exit, starts, send, clock, store, wire, evals>>

StopSignal ==
  /\ life = "running"
  /\ life' = "signalled"
  /\ exit' = TRUE
  /\ UNCHANGED <<starts, send, clock, store, wire, evals>>

\* notify_all(): the metrics thread is the only waiter.
StopNotify ==
  /\ life = "signalled"
  /\ life' = "joining"
  /\ send' = IF send = "blocked" THEN "wait" ELSE send
  /\ UNCHANGED <<exit, starts, clock, store, wire, evals>>

StopJoin ==
  /\ life = "joining"
  /\ send = "off"
  /\ life' = "idle"
  /\ UNCHANGED <<exit, starts, send, clock, store, wire, evals>>
-----------------------------------------------------------------------------
(* metricSendingLoop(): wait, with _mutexMetrics, until exit or timeout.   *)

SendTest ==
  /\ send = "test"
  /\ send' = IF exit THEN "off" ELSE "wait"
  /\ UNCHANGED <<owner, clock, store, wire, evals>>

\* wait_for(): read the predicate, then block.  Nobody else locks the mutex.
SendWait ==
  /\ send = "wait"
  /\ send' = IF exit THEN "taken" ELSE "arming"
  /\ UNCHANGED <<owner, clock, store, wire, evals>>

SendBlock ==
  /\ send = "arming"
  /\ send' = "blocked"
  /\ UNCHANGED <<owner, clock, store, wire, evals>>

SendTimeout ==
  /\ send = "blocked"
  /\ send' = "taken"
  /\ UNCHANGED <<owner, clock, store, wire, evals>>

SendSpurious ==
  /\ send = "blocked"
  /\ send' = "wait"
  /\ UNCHANGED <<owner, clock, store, wire, evals>>

\* Wrong variant: the thread sends only when it is notified.
SendWhenNotified ==
  /\ send = "taken"
  /\ send' = IF exit THEN "off" ELSE "test"
  /\ UNCHANGED <<owner, clock, store, wire, evals>>

SendTaken ==
  /\ send = "taken"
  /\ send' = IF exit THEN "off" ELSE "empty"
  /\ UNCHANGED <<owner, clock, store, wire, evals>>
-----------------------------------------------------------------------------
(* sendMetrics().                                                          *)

\* Wrong variant: sendMetrics() does not look whether there is anything.
SendAlways ==
  /\ send = "empty"
  /\ send' = "payload"
  /\ seen' = Len(evals)
  /\ UNCHANGED <<owner, clock, store, payload, ok, received, faults, evals>>

SendEmpty ==
  /\ send = "empty"
  /\ send' = IF list = {} THEN "clear" ELSE "payload"
  /\ seen' = Len(evals)
  /\ UNCHANGED <<owner, clock, store, payload, ok, received, faults, evals>>

\* toJsonMetricsPayload(): a copy of the counters and the window.
SendPayload ==
  /\ send = "payload"
  /\ send' = "post"
  /\ payload' = [from |-> startMs, to |-> clock, list |-> list]
  /\ seen' = Len(evals)
  /\ UNCHANGED <<owner, clock, store, ok, received, faults, evals>>

\* Wrong variant: a request without an answer counts as a success.
SendPostHopefully(taken, answered) ==
  /\ send = "post"
  /\ IF taken /\ answered
       THEN UNCHANGED faults
       ELSE faults < MaxFaults /\ faults' = faults + 1
  /\ received' = IF taken THEN Append(received, payload) ELSE received
  /\ ok' = TRUE
  /\ send' = "reset"
  /\ UNCHANGED <<owner, clock, store, payload, evals, seen>>

\* The request, as the backend and as the client see it.
SendPost(taken, answered) ==
  /\ send = "post"
  /\ IF taken /\ answered
       THEN UNCHANGED faults
       ELSE faults < MaxFaults /\ faults' = faults + 1
  /\ received' = IF taken THEN Append(received, payload) ELSE received
  /\ ok' = (taken /\ answered)
  /\ send' = "reset"
  /\ UNCHANGED <<owner, clock, store, payload, evals, seen>>

\* Wrong variant: reset() leaves _startMs alone.
resetCountersOnly ==
  /\ send \in {"reset", "clear"}
  /\ list' = {}
  /\ send' = IF send = "clear" \/ ok THEN "test" ELSE "error"
  /\ UNCHANGED <<owner, clock, startMs, wire, evals>>

\* Wrong variant: reset() leaves _list alone.
resetWindowOnly ==
  /\ send \in {"reset", "clear"}
  /\ startMs' = clock
  /\ send' = IF send = "clear" \/ ok THEN "test" ELSE "error"
  /\ UNCHANGED <<owner, clock, list, wire, evals>>

\* Wrong variant: what was not acknowledged is kept for the next report.
resetWhenTaken ==
  /\ send \in {"reset", "clear"}
  /\ IF send = "clear" \/ ok
       THEN list' = {} /\ startMs' = clock /\ send' = "test"
       ELSE send' = "error" /\ UNCHANGED store
  /\ UNCHANGED <<owner, clock, wire, evals>>

\* reset(), whatever came of the report; a failure is emitted as an Error.
reset ==
  /\ send \in {"reset", "clear"}
  /\ list' = {}
  /\ startMs' = clock
  /\ send' = IF send = "clear" \/ ok THEN "test" ELSE "error"
  /\ UNCHANGED <<owner, clock, wire, evals>>

EmitError ==
  /\ send = "error"
  /\ send' = "test"
  /\ UNCHANGED <<owner, clock, store, wire, evals>>
-----------------------------------------------------------------------------
Owner == Start \/ StopSignal \/ StopNotify \/ StopJoin

SendingLoop ==
  \/ SendTest
  \/ SendWait
  \/ SendBlock
  \/ SendTaken
  \/ SendEmpty
  \/ SendPayload
  \/ reset
  \/ EmitError

Post == \E taken, answered \in BOOLEAN : SendPost(taken, answered)

Next ==
  \/ Tick
  \/ Record
  \/ Owner
  \/ SendingLoop
  \/ Post
  \/ SendTimeout
  \/ SendSpurious

SafeSpec == Init /\ [][Next]_vars

\* The threads that are in a call keep running, a request is answered or fails,
\* and the interval elapses, however often the thread is woken before.
Fairness ==
  /\ WF_vars(StopNotify \/ StopJoin)
  /\ WF_vars(SendingLoop)
  /\ WF_vars(Post)
  /\ SF_vars(SendTimeout)

Spec == SafeSpec /\ Fairness
-----------------------------------------------------------------------------
(* Properties.                                                             *)

LifeStates == {"idle", "running", "signalled", "joining"}
SendStates == {"off", "test", "wait", "arming", "blocked", "taken", "empty",
               "clear", "payload", "post", "reset", "error"}
Report     == [from : Nat, to : Nat, list : SUBSET Nat]

\* Every variable has its type, and only recorded evaluations are counted.
TypeOK ==
  /\ life \in LifeStates
  /\ exit \in BOOLEAN
  /\ send \in SendStates
  /\ clock \in Nat
  /\ list \subseteq 1 .. Len(evals)
  /\ startMs \in Nat
  /\ payload \in Report
  /\ ok \in BOOLEAN
  /\ evals \in Seq(Nat)
  /\ received \in Seq(Report)
  /\ faults \in Nat
  /\ starts \in Nat
  /\ seen \in Nat

\* The optional that sendMetrics() opens without a test holds a payload: what
\* was there when empty() was called is there when the payload is made.
PayloadPresent == send = "payload" => list # {}

\* The backend takes no evaluation twice, although the client cannot tell a
\* report that was lost from one whose answer was.
NoDoubleReport ==
  \A i, j \in 1 .. Len(received) :
    i # j => received[i].list \cap received[j].list = {}

\* The windows of the reports do not overlap, and follow one another.
WindowsInOrder ==
  \A i, j \in 1 .. Len(received) : i < j => received[i].to <= received[j].from

\* An evaluation is reported in a window that contains the time it was made.
EvalsInWindow ==
  \A i \in 1 .. Len(received) : \A e \in received[i].list :
    received[i].from <= evals[e] /\ evals[e] <= received[i].to

\* The windows of the reports tell when their evaluations were made: each contains
\* its own and none of the time of another.
WindowsSound == WindowsInOrder /\ EvalsInWindow

\* No evaluation is erased unnoticed but by the race that NothingLost is about:
\* one that leaves the counters is in a report that the backend took, or in one
\* that failed, of which an Error event tells, or it was recorded after
\* sendMetrics() had looked at the counters for the last time.
LossesKnown ==
  [][\A e \in list \ list' :
       \/ \E i \in 1 .. Len(received) : e \in received[i].list
       \/ send = "reset" /\ ~ok /\ e \in payload.list
       \/ e > seen]_vars

\* The counters do not grow for ever: what is counted is reported, or given up.
CountersEmptied == list # {} ~> list = {} \/ life # "running"

Resting == {"test", "wait", "arming", "blocked", "taken"}

\* The metrics thread as its owner sees it.
Shape(s) == IF s = "off" THEN "gone"
            ELSE IF s \in Resting THEN "resting" ELSE "working"

Thread == INSTANCE Worker WITH
  up    <- TRUE,
  told  <- life \in {"signalled", "joining"},
  state <- Shape(send)

\* Once stop() has told it to exit the metrics thread sends no report but the one
\* it is at, and stop() returns; until then the thread reports again and again.
WorkerSpec == Thread!Spec

\* "SDK updates [...] usage counters", which the metrics loop sends: as long as
\* no report fails, every recorded evaluation is counted or has been reported.
NothingLost ==
  \A e \in 1 .. Len(evals) :
    \/ e \in list
    \/ send \in {"post", "reset"} /\ e \in payload.list
    \/ \E i \in 1 .. Len(received) : e \in received[i].list
=============================================================================
