--------------------------- MODULE UnleashClient ----------------------------
(***************************************************************************)
(* The client as a whole: start() and stop(), step by step, the metrics    *)
(* and the polling thread they start and join, the application that        *)
(* evaluates flags, and the events all of them emit.  The event dispatcher *)
(* is EventDispatch, which EventHandler implements; the two threads are    *)
(* FeaturePolling and MetricSending without their data.                    *)
(*                                                                         *)
(* One thread at a time calls start() and stop(), and not from within a    *)
(* callback.  A callback is registered for every kind of event.            *)
(***************************************************************************)
EXTENDS Naturals, Sequences

CONSTANTS
  Cached,             \* did the constructor find toggles (file or bootstrap)?
  maxEventQueueSize,  \* the capacity of the event queue
  MaxEvents,          \* bound: work that may emit begins until this many events
                      \*        were queued
  MaxStarts           \* bound: calls of start() that take effect

ASSUME UnleashClientAssumption ==
  /\ Cached \in BOOLEAN
  /\ maxEventQueueSize \in Nat
  /\ MaxEvents \in Nat
  /\ MaxStarts \in Nat

VARIABLES
  running,   \* _running
  exit,      \* _exitThreads
  ready,     \* _ready
  toggles,   \* _flagStore.isReady()
  call,      \* where the owner is in start() or stop()
  at,        \* where the threads are that emit events
  pend,      \* the events each of them still has to emit, in order
  heard,     \* the announcements that were delivered
  lost,      \* the announcements that found the queue full, or were thrown out
             \*        of it by stop()
  starts,    \* how often start() took effect
  enabled,   \* the workers whose interval is not 0
  open, alive, mailbox, active, task, accepted   \* see EventDispatch

client   == <<running, exit, ready, toggles, call, starts, enabled>>
threads  == <<at, pend>>
fates    == <<heard, lost>>
dispatch == <<open, alive, mailbox, active, task, accepted>>
vars     == <<client, threads, fates, dispatch>>

Workers  == {"metrics", "polling"}
Emitters == Workers \cup {"app", "owner"}
Events   == {"init", "ready", "update", "error", "impression"}

\* The events that tell listeners how far the client has come; what becomes of
\* the others is not recorded.
Announcements == {"init", "ready", "update"}

Handler == INSTANCE EventDispatch WITH
  Capacity <- maxEventQueueSize, Payloads <- Events, NoPayload <- "none"

Init ==
  /\ running = FALSE
  /\ exit = FALSE
  /\ ready = FALSE
  /\ toggles = Cached
  /\ call = "idle"
  /\ at = [t \in Emitters |-> IF t \in Workers THEN "none" ELSE "test"]
  /\ pend = [t \in Emitters |-> <<>>]
  /\ heard = {}
  /\ lost = {}
  /\ starts = 0
  /\ enabled \in SUBSET Workers
  /\ Handler!Init

Goto(from, to) == call = from /\ call' = to

Move(t, from, to) == at[t] = from /\ at' = [at EXCEPT ![t] = to]

\* notify_all() on the condition variable of one worker.
Notify(t) ==
  at' = [at EXCEPT ![t] = IF @ = "blocked" THEN "test" ELSE @]
-----------------------------------------------------------------------------
(* start().                                                                *)

StartCall ==
  /\ Goto("idle", "init")
  /\ ~running
  /\ starts < MaxStarts
  /\ starts' = starts + 1
  /\ running' = TRUE
  /\ UNCHANGED <<exit, ready, toggles, enabled, threads, fates, dispatch>>

\* emitInit(), and emitReady() for a client that has toggles already.
StartAnnounce ==
  /\ Goto("init", "announcing")
  /\ Move("owner", "test", "emit")
  /\ pend' = [pend EXCEPT !["owner"] =
       IF toggles THEN <<"init", "ready">> ELSE <<"init">>]
  /\ UNCHANGED <<running, exit, ready, toggles, starts, enabled, fates, dispatch>>

StartReady ==
  /\ Goto("announcing", "clear")
  /\ at["owner"] = "test"
  /\ ready' = (ready \/ toggles)
  /\ UNCHANGED <<running, exit, toggles, starts, enabled, threads, fates, dispatch>>

\* Wrong variant: a restarted client keeps telling its threads to exit.
StartUncleared ==
  /\ Goto("clear", "open")
  /\ UNCHANGED <<running, exit, ready, toggles, starts, enabled, threads, fates,
                 dispatch>>

StartClear ==
  /\ Goto("clear", "open")
  /\ exit' = FALSE
  /\ UNCHANGED <<running, ready, toggles, starts, enabled, threads, fates, dispatch>>

StartHandler ==
  /\ \/ Goto("open", "launch") /\ Handler!Open
     \/ Goto("launch", "spawn metrics") /\ Handler!Launch
  /\ UNCHANGED <<running, exit, ready, toggles, starts, enabled, threads, fates>>

\* isRefreshEnabled() and isMetricsEnabled(): a worker without an interval returns
\* at once.
Entry(t, first) == IF t \in enabled THEN first ELSE "exited"

\* The metrics thread begins with its wait, the polling thread with a fetch.
StartWorkers ==
  /\ \/ /\ Goto("spawn metrics", "spawn polling")
        /\ Move("metrics", "none", Entry("metrics", "test"))
     \/ /\ Goto("spawn polling", "running")
        /\ Move("polling", "none", Entry("polling", "busy"))
  /\ UNCHANGED <<running, exit, ready, toggles, starts, enabled, pend, fates,
                 dispatch>>

StartReturn ==
  /\ Goto("running", "idle")
  /\ running' = TRUE
  /\ UNCHANGED <<exit, ready, toggles, starts, enabled, threads, fates, dispatch>>
-----------------------------------------------------------------------------
(* stop().                                                                 *)

StopCall ==
  /\ Goto("idle", "signal")
  /\ running
  /\ running' = FALSE
  /\ UNCHANGED <<exit, ready, toggles, starts, enabled, threads, fates, dispatch>>

\* Wrong variant: stop() does not tell the threads to exit.
StopUnsignalled ==
  /\ Goto("signal", "notify metrics")
  /\ UNCHANGED <<running, exit, ready, toggles, starts, enabled, threads, fates,
                 dispatch>>

StopSignal ==
  /\ Goto("signal", "notify metrics")
  /\ exit' = TRUE
  /\ UNCHANGED <<running, ready, toggles, starts, enabled, threads, fates, dispatch>>

StopNotify ==
  /\ \/ Goto("notify metrics", "notify polling") /\ Notify("metrics")
     \/ Goto("notify polling", "join metrics") /\ Notify("polling")
  /\ UNCHANGED <<running, exit, ready, toggles, starts, enabled, pend, fates,
                 dispatch>>

\* Wrong variant: the polling thread is not joined.
StopJoinMetricsOnly ==
  /\ \/ Goto("join metrics", "join polling") /\ Move("metrics", "exited", "none")
     \/ Goto("join polling", "close") /\ UNCHANGED at
  /\ UNCHANGED <<running, exit, ready, toggles, starts, enabled, pend, fates,
                 dispatch>>

StopJoin ==
  /\ \/ Goto("join metrics", "join polling") /\ Move("metrics", "exited", "none")
     \/ Goto("join polling", "close") /\ Move("polling", "exited", "none")
  /\ UNCHANGED <<running, exit, ready, toggles, starts, enabled, pend, fates,
                 dispatch>>

\* Wrong variant: the event thread is not joined.
StopHandlerDetached ==
  /\ \/ Goto("close", "drop") /\ Handler!Close
     \/ Goto("halt", "stopped") /\ UNCHANGED dispatch
  /\ UNCHANGED <<running, exit, ready, toggles, starts, enabled, threads, fates>>

StopHandler ==
  /\ \/ Goto("close", "drop") /\ Handler!Close
     \/ Goto("halt", "stopped") /\ Handler!Halt
  /\ UNCHANGED <<running, exit, ready, toggles, starts, enabled, threads, fates>>

\* What is still queued is thrown away.
StopDrop ==
  /\ Goto("drop", "halt")
  /\ Handler!Drop
  /\ lost' = lost \cup ({mailbox[i].cb : i \in DOMAIN mailbox} \cap Announcements)
  /\ UNCHANGED <<running, exit, ready, toggles, starts, enabled, threads, heard>>

StopReturn ==
  /\ Goto("stopped", "idle")
  /\ running' = FALSE
  /\ UNCHANGED <<exit, ready, toggles, starts, enabled, threads, fates, dispatch>>
-----------------------------------------------------------------------------
(* The workers and the application.                                        *)

\* Wrong variant: the polling thread prefers a context to pick up to its exit.
WorkerTestContextFirst(t) ==
  /\ \/ exit /\ Move(t, "test", "exited")
     \/ ~exit /\ Move(t, "test", "arming")
     \/ t = "polling" /\ Move(t, "test", "busy")
  /\ UNCHANGED <<client, pend, fates, dispatch>>

\* The head of the loop, and the predicate of the wait.  Without exit the
\* thread blocks, unless the polling thread has a context to pick up.
WorkerTest(t) ==
  /\ \/ exit /\ Move(t, "test", "exited")
     \/ ~exit /\ Move(t, "test", "arming")
     \/ ~exit /\ t = "polling" /\ Move(t, "test", "busy")
  /\ UNCHANGED <<client, pend, fates, dispatch>>

WorkerBlock(t) ==
  /\ Move(t, "arming", "blocked")
  /\ UNCHANGED <<client, pend, fates, dispatch>>

\* The interval has elapsed.
WorkerTimeout(t) ==
  /\ Move(t, "blocked", IF exit THEN "exited" ELSE "busy")
  /\ UNCHANGED <<client, pend, fates, dispatch>>

WorkerSpurious(t) ==
  /\ Move(t, "blocked", "test")
  /\ UNCHANGED <<client, pend, fates, dispatch>>

\* A report or a fetch that leaves nothing to emit.
WorkQuietly(t) ==
  /\ Move(t, "busy", "test")
  /\ UNCHANGED <<client, pend, fates, dispatch>>

WorkFails(t) ==
  /\ accepted < MaxEvents
  /\ Move(t, "busy", "emit")
  /\ pend' = [pend EXCEPT ![t] = <<"error">>]
  /\ UNCHANGED <<client, fates, dispatch>>

\* Wrong variant: the Update event is emitted before the Ready event.
FetchUpdateFirst ==
  /\ accepted < MaxEvents
  /\ Move("polling", "busy", "emit")
  /\ toggles' = TRUE
  /\ ready' = TRUE
  /\ pend' = [pend EXCEPT !["polling"] =
       IF ready THEN <<"update">> ELSE <<"update", "ready">>]
  /\ UNCHANGED <<running, exit, call, starts, enabled, fates, dispatch>>

\* Wrong variant: _ready is set before it is tested for the Ready event.
FetchMarkedReady ==
  /\ accepted < MaxEvents
  /\ Move("polling", "busy", "emit")
  /\ toggles' = TRUE
  /\ ready' = TRUE
  /\ pend' = [pend EXCEPT !["polling"] = <<"update">>]
  /\ UNCHANGED <<running, exit, call, starts, enabled, fates, dispatch>>

\* New toggles are in the store; Ready the first time, then Update.
FetchToggles ==
  /\ accepted < MaxEvents
  /\ Move("polling", "busy", "emit")
  /\ toggles' = TRUE
  /\ ready' = TRUE
  /\ pend' = [pend EXCEPT !["polling"] =
       IF ready THEN <<"update">> ELSE <<"ready", "update">>]
  /\ UNCHANGED <<running, exit, call, starts, enabled, fates, dispatch>>

\* isEnabled() or getVariant() of a flag with impression data.
Evaluate ==
  /\ ready
  /\ accepted < MaxEvents
  /\ Move("app", "test", "emit")
  /\ pend' = [pend EXCEPT !["app"] = <<"impression">>]
  /\ UNCHANGED <<client, fates, dispatch>>

\* Wrong variant: an event that finds the dispatcher closed is kept.
EmitTestKept(t) ==
  /\ IF open
       THEN Move(t, "emit", "push")
       ELSE Move(t, "emit", IF Len(pend[t]) = 1 THEN "test" ELSE "emit")
  /\ UNCHANGED <<client, pend, fates, dispatch>>

\* emitX(): test _started, then push under the mutex.
EmitTest(t) ==
  /\ IF open
       THEN Move(t, "emit", "push") /\ UNCHANGED pend
       ELSE /\ Move(t, "emit", IF Len(pend[t]) = 1 THEN "test" ELSE "emit")
            /\ pend' = [pend EXCEPT ![t] = Tail(@)]
  /\ UNCHANGED <<client, fates, dispatch>>

EmitPush(t) ==
  /\ Move(t, "push", IF Len(pend[t]) = 1 THEN "test" ELSE "emit")
  /\ pend' = [pend EXCEPT ![t] = Tail(@)]
  /\ \/ /\ Len(mailbox) < maxEventQueueSize
        /\ Handler!Accept(Head(pend[t]))
        /\ UNCHANGED lost
     \/ /\ Len(mailbox) >= maxEventQueueSize
        /\ lost' = lost \cup ({Head(pend[t])} \cap Announcements)
        /\ UNCHANGED dispatch
  /\ UNCHANGED <<client, heard>>
-----------------------------------------------------------------------------
(* The event thread.                                                       *)

Deliver ==
  /\ Handler!Deliver
  /\ heard' = heard \cup ({Head(mailbox).cb} \cap Announcements)
  /\ UNCHANGED <<client, threads, lost>>

Complete ==
  /\ Handler!Complete
  /\ UNCHANGED <<client, threads, fates>>
-----------------------------------------------------------------------------
StartStep == StartAnnounce \/ StartReady \/ StartClear \/ StartHandler
             \/ StartWorkers \/ StartReturn

StopStep == StopSignal \/ StopNotify \/ StopJoin \/ StopHandler \/ StopDrop
            \/ StopReturn

Work(t) == WorkQuietly(t) \/ WorkFails(t) \/ (t = "polling" /\ FetchToggles)

Worker(t) == WorkerTest(t) \/ WorkerBlock(t) \/ Work(t)

Emit(t) == EmitTest(t) \/ EmitPush(t)

Next ==
  \/ StartCall
  \/ StartStep
  \/ StopCall
  \/ StopStep
  \/ \E t \in Workers : Worker(t) \/ WorkerTimeout(t) \/ WorkerSpurious(t)
  \/ Evaluate
  \/ \E t \in Emitters : Emit(t)
  \/ Deliver
  \/ Complete

SafeSpec == Init /\ [][Next]_vars

\* Calls that have begun go on, the workers go on and their waits time out
\* however often they are woken before, the event thread delivers (see
\* EventDispatch) and callbacks return.
Fairness ==
  /\ WF_vars(StartStep)
  /\ WF_vars(StopStep)
  /\ \A t \in Workers : WF_vars(Worker(t)) /\ SF_vars(WorkerTimeout(t))
  /\ \A t \in Emitters : WF_vars(Emit(t))
  /\ WF_vars(open /\ Deliver)
  /\ WF_vars(Complete)

Spec == SafeSpec /\ Fairness
-----------------------------------------------------------------------------
(* Properties.                                                             *)

CallStates == {"idle", "init", "announcing", "clear", "open", "launch",
               "spawn metrics", "spawn polling", "running", "signal",
               "notify metrics", "notify polling", "join metrics",
               "join polling", "close", "drop", "halt", "stopped"}
ThreadStates == {"none", "busy", "emit", "push", "test", "arming", "blocked",
                 "exited"}
Message == [id : Nat, cb : Events]
NoTask  == [id |-> 0, cb |-> "none"]

\* Every variable has its type; a thread that is emitting has something to
\* emit.
TypeOK ==
  /\ running \in BOOLEAN
  /\ exit \in BOOLEAN
  /\ ready \in BOOLEAN
  /\ toggles \in BOOLEAN
  /\ call \in CallStates
  /\ at \in [Emitters -> ThreadStates]
  /\ pend \in [Emitters -> Seq(Events)]
  /\ \A t \in Emitters : at[t] \in {"emit", "push"} <=> pend[t] # <<>>
  /\ heard \subseteq Announcements
  /\ lost \subseteq Announcements
  /\ starts \in Nat
  /\ enabled \subseteq Workers
  /\ open \in BOOLEAN
  /\ alive \in BOOLEAN
  /\ mailbox \in Seq(Message)
  /\ active \in BOOLEAN
  /\ task \in Message \cup {NoTask}
  /\ accepted \in Nat

\* When stop() has returned nothing of the client runs any more.
StoppedIsQuiet ==
  call = "idle" /\ ~running =>
    ~open /\ ~alive /\ \A t \in Workers : at[t] = "none"

\* When start() has returned, also the second time, the dispatcher and the
\* workers that are enabled run, and nobody has been told to exit.
StartedIsServed ==
  call = "idle" /\ running =>
    /\ open /\ alive /\ ~exit
    /\ \A t \in Workers : at[t] \notin {"none", "exited"} <=> t \in enabled

\* What the workers emit until they are joined finds the dispatcher started:
\* no Error, Ready or Update event is dropped for being late.
WorkersFindHandler ==
  \A t \in Workers : at[t] \in {"emit", "push"} => open /\ alive

\* Between start() and stop() everything runs, and runs for as long as it is
\* needed: the workers until they are joined, the dispatcher beyond that.
ServiceComplete == StartedIsServed /\ WorkersFindHandler

\* Whatever queue and threads do, listeners hear Ready before they hear Update,
\* unless it found the queue full or stop() threw it out of the queue.
ReadyHeardFirst == "update" \in heard => "ready" \in heard \cup lost

\* A client that stays started, since its first start(), and has become ready
\* says so to its listeners, unless the queue was full.
ReadyHeard ==
  <>[](running /\ starts = 1) => [](ready => <>("ready" \in heard \cup lost))

\* A client that has toggles when it is started, and stays so, is heard to say
\* something of its start, be it Init or Ready.
StartHeard == <>[]running => <>(heard \cap {"init", "ready"} # {})

\* stop() returns: both workers and the event thread come to their end.
StopReturns == call = "signal" ~> call = "idle"

\* How many steps a worker that is told to exit has at most before it, with what
\* it still has to emit.
Distance(t) ==
  CASE at[t] = "none"    -> 0
    [] at[t] = "exited"  -> 1
    [] at[t] = "test"    -> 2
    [] at[t] = "blocked" -> 3
    [] at[t] = "arming"  -> 4
    [] at[t] = "push"    -> 3 + 2 * Len(pend[t])
    [] at[t] = "emit"    -> 4 + 2 * Len(pend[t])
    [] at[t] = "busy"    -> 9

\* stop() is kept waiting by nobody for ever: once _exitThreads is set every step
\* that a worker takes, or is made to take, brings it nearer to its end, so that
\* neither wakeups nor contexts to pick up nor events make it go round again.
StopApproaches ==
  [][exit => \A t \in Workers :
       <<at'[t], pend'[t]>> # <<at[t], pend[t]>> => Distance(t)' < Distance(t)]_vars

\* A worker as its owner sees it; one that is not enabled is never there.
Shape(t) ==
  CASE at[t] \in {"none", "exited"}             -> "gone"
    [] at[t] \in {"test", "arming", "blocked"}  -> "resting"
    [] at[t] \in {"busy", "emit", "push"}       -> "working"

Told(t) ==
  /\ t \in enabled
  /\ \/ call \in {"notify metrics", "notify polling", "join metrics"}
     \/ t = "polling" /\ call = "join polling"

Metrics == INSTANCE Worker WITH
  up <- TRUE, told <- Told("metrics"), state <- Shape("metrics")

Polling == INSTANCE Worker WITH
  up <- TRUE, told <- Told("polling"), state <- Shape("polling")

\* Each worker of the client behaves as FeaturePolling and MetricSending do in
\* detail, whatever it emits: told to leave it begins nothing new, and stop()
\* joins it once, when it is gone, having told it before.
WorkersSafe == Metrics!SafeSpec /\ Polling!SafeSpec
=============================================================================
