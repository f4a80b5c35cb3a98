---------------------------- MODULE EventHandler ----------------------------
(***************************************************************************)
(* The asynchronous event dispatcher of the SDK: a bounded queue of        *)
(* callbacks guarded by _queueMutex and _queueCV, the event thread that    *)
(* runs them, start() and stop(), the five emitX() functions (which differ *)
(* only in the callback slot they read) and the callback setters.          *)
(*                                                                         *)
(* One step of the model is one access to an atomic, or one critical       *)
(* section of _queueMutex.  The section in which the event thread waits    *)
(* is cut in two (the predicate is read, then the thread blocks) because   *)
(* stop() writes _started without holding the mutex.                       *)
(***************************************************************************)
EXTENDS Naturals, Sequences

CONSTANTS
  Emitters,           \* threads that call emitInit() .. emitImpression()
  Owners,             \* threads that call start() and stop()
  Dispatcher,         \* the event thread, as a caller from within a callback
  NumKinds,           \* kinds of events, in the order of ClientEvent
  Callbacks,          \* the non-empty functions a user may register
  NoCallback,         \* an empty callback slot
  maxEventQueueSize,  \* the capacity of the queue
  MaxEvents,          \* bound: emissions begin until this many were queued
  MaxStarts           \* bound: calls of start() that take effect

ASSUME EventHandlerAssumption ==
  /\ NumKinds \in Nat
  /\ maxEventQueueSize \in Nat
  /\ MaxEvents \in Nat
  /\ MaxStarts \in Nat
  /\ NoCallback \notin Callbacks

VARIABLES
  started,     \* _started
  queue,       \* _eventQueue
  loop,        \* where the event thread is; "none": _eventThread not joinable
  task,        \* the task the event thread took last
  slot,        \* the callback registered for each kind (_initCb .. )
  clearing,    \* the slot clearAll() empties next; 0: no call in progress
  pc,          \* where each calling thread is
  held,        \* the callback an emitting thread has loaded
  nextId,      \* how many tasks were ever queued: each has its own number
  starts,      \* how many times start() took effect
  terminated   \* std::terminate was called

vars == <<started, queue, loop, task, slot, clearing, pc, held, nextId, starts,
          terminated>>

Threads == Emitters \cup Owners
Kinds   == 1 .. NumKinds
Slots   == Callbacks \cup {NoCallback}
Task    == [id : Nat, cb : Slots]
NoTask  == [id |-> 0, cb |-> NoCallback]

Init ==
  /\ started = FALSE
  /\ queue = <<>>
  /\ loop = "none"
  /\ task = NoTask
  /\ slot = [k \in Kinds |-> NoCallback]
  /\ clearing = 0
  /\ pc = [t \in Threads |-> "idle"]
  /\ held = [t \in Threads |-> NoCallback]
  /\ nextId = 0
  /\ starts = 0
  /\ terminated = FALSE

Goto(t, from, to) ==
  /\ pc[t] = from
  /\ pc' = [pc EXCEPT ![t] = to]

\* A thread begins a call when it is in none; the event thread makes calls
\* only from the callback it is running.
Calls(t) == pc[t] = "idle" /\ (t = Dispatcher => loop = "run")

\* _queueMutex is held between steps only by the event thread about to block.
MutexFree == loop # "arming"

\* notify_one() and notify_all(): the event thread is the only waiter.
Notify == loop' = IF loop = "blocked" THEN "wait" ELSE loop
-----------------------------------------------------------------------------
(* Registering callbacks: each slot is one atomic shared_ptr.              *)

SetCallback(k, c) ==
  /\ slot' = [slot EXCEPT ![k] = c]
  /\ UNCHANGED <<started, queue, loop, task, clearing, pc, held, nextId, starts,
                 terminated>>

ClearAllCall ==
  /\ clearing = 0
  /\ NumKinds > 0
  /\ clearing' = 1
  /\ UNCHANGED <<started, queue, loop, task, slot, pc, held, nextId, starts,
                 terminated>>

ClearAllStep ==
  /\ clearing # 0
  /\ slot' = [slot EXCEPT ![clearing] = NoCallback]
  /\ clearing' = IF clearing = NumKinds THEN 0 ELSE clearing + 1
  /\ UNCHANGED <<started, queue, loop, task, pc, held, nextId, starts,
                 terminated>>
-----------------------------------------------------------------------------
(* emitX(): test _started, load the callback, push under the mutex, notify *)
(* after releasing it.                                                     *)

EmitTest(t) ==
  /\ Calls(t)
  /\ nextId < MaxEvents
  /\ started
  /\ Goto(t, "idle", "load")
  /\ UNCHANGED <<started, queue, loop, task, slot, clearing, held, nextId,
                 starts, terminated>>

\* Wrong variant: emitX() does not test the callback it has loaded.
EmitLoadUnchecked(t, k) ==
  /\ Goto(t, "load", "push")
  /\ held' = [held EXCEPT ![t] = slot[k]]
  /\ UNCHANGED <<started, queue, loop, task, slot, clearing, nextId, starts,
                 terminated>>

EmitLoad(t, k) ==
  /\ Goto(t, "load", IF slot[k] = NoCallback THEN "idle" ELSE "push")
  /\ held' = [held EXCEPT ![t] = slot[k]]
  /\ UNCHANGED <<started, queue, loop, task, slot, clearing, nextId, starts,
                 terminated>>

\* Wrong variant: one task too many.
EmitPushOneMore(t) ==
  /\ MutexFree
  /\ Goto(t, "push", "notify")
  /\ held' = [held EXCEPT ![t] = NoCallback]
  /\ IF Len(queue) <= maxEventQueueSize
       THEN /\ nextId' = nextId + 1
            /\ queue' = Append(queue, [id |-> nextId + 1, cb |-> held[t]])
       ELSE UNCHANGED <<nextId, queue>>
  /\ UNCHANGED <<started, loop, task, slot, clearing, starts, terminated>>

EmitPush(t) ==
  /\ MutexFree
  /\ Goto(t, "push", "notify")
  /\ held' = [held EXCEPT ![t] = NoCallback]
  /\ IF Len(queue) < maxEventQueueSize
       THEN /\ nextId' = nextId + 1
            /\ queue' = Append(queue, [id |-> nextId + 1, cb |-> held[t]])
       ELSE UNCHANGED <<nextId, queue>>
  /\ UNCHANGED <<started, loop, task, slot, clearing, starts, terminated>>

\* Wrong variant: emitX() pushes and never notifies.
EmitSilently(t) ==
  /\ Goto(t, "notify", "idle")
  /\ UNCHANGED <<started, queue, loop, task, slot, clearing, held, nextId,
                 starts, terminated>>

EmitNotify(t) ==
  /\ Goto(t, "notify", "idle")
  /\ Notify
  /\ UNCHANGED <<started, queue, task, slot, clearing, held, nextId, starts,
                 terminated>>
-----------------------------------------------------------------------------
(* start() and stop().                                                     *)

StartCall(o) ==
  /\ Calls(o)
  /\ starts < MaxStarts
  /\ ~started
  /\ started' = TRUE
  /\ starts' = starts + 1
  /\ Goto(o, "idle", "spawn")
  /\ UNCHANGED <<queue, loop, task, slot, clearing, held, nextId, terminated>>

\* Assigning to a std::thread that is still joinable calls std::terminate.
StartSpawn(o) ==
  /\ Goto(o, "spawn", "idle")
  /\ IF loop = "none"
       THEN loop' = "test" /\ UNCHANGED terminated
       ELSE terminated' = TRUE /\ UNCHANGED loop
  /\ UNCHANGED <<started, queue, task, slot, clearing, held, nextId, starts>>

StopCall(o) ==
  /\ Calls(o)
  /\ started
  /\ started' = FALSE
  /\ Goto(o, "idle", "drop")
  /\ UNCHANGED <<queue, loop, task, slot, clearing, held, nextId, starts,
                 terminated>>

\* Wrong variant: stop() drops the pending tasks without the mutex.
StopDropUnlocked(o) ==
  /\ Goto(o, "drop", "wake")
  /\ queue' = <<>>
  /\ UNCHANGED <<started, loop, task, slot, clearing, held, nextId, starts,
                 terminated>>

StopDrop(o) ==
  /\ MutexFree
  /\ Goto(o, "drop", "wake")
  /\ queue' = <<>>
  /\ UNCHANGED <<started, loop, task, slot, clearing, held, nextId, starts,
                 terminated>>

\* Wrong variant: stop() joins without waking the event thread.
StopSilently(o) ==
  /\ Goto(o, "wake", "join")
  /\ UNCHANGED <<started, queue, loop, task, slot, clearing, held, nextId,
                 starts, terminated>>

\* Wrong variant: stop() returns without having joined the event thread.
StopDetached(o) ==
  /\ Goto(o, "wake", "idle")
  /\ Notify
  /\ UNCHANGED <<started, queue, task, slot, clearing, held, nextId, starts,
                 terminated>>

StopNotify(o) ==
  /\ Goto(o, "wake", "join")
  /\ Notify
  /\ UNCHANGED <<started, queue, task, slot, clearing, held, nextId, starts,
                 terminated>>

\* Not joinable: nothing to join.  A thread that joins itself gets a
\* std::system_error, which leaves the callback it is running and is caught
\* by the event loop.
StopJoin(o) ==
  /\ Goto(o, "join", "idle")
  /\ \/ loop \in {"none", "exited"} /\ loop' = "none"
     \/ o = Dispatcher /\ loop = "run" /\ loop' = "relock"
  /\ UNCHANGED <<started, queue, task, slot, clearing, held, nextId, starts,
                 terminated>>
-----------------------------------------------------------------------------
(* eventLoop().                                                            *)

\* Wrong variant: the tasks are kept on a stack.
TakeBack ==
  /\ queue # <<>>
  /\ task' = queue[Len(queue)]
  /\ queue' = SubSeq(queue, 1, Len(queue) - 1)
  /\ loop' = "run"

TakeFront ==
  /\ queue # <<>>
  /\ task' = Head(queue)
  /\ queue' = Tail(queue)
  /\ loop' = "run"

LoopTest ==
  /\ loop = "test"
  /\ loop' = IF started THEN "wait" ELSE "exited"
  /\ UNCHANGED <<started, queue, task, slot, clearing, pc, held, nextId, starts,
                 terminated>>

\* Wrong variant: the predicate of the wait asks for a task only.
LoopWaitForTask ==
  /\ loop = "wait"
  /\ \/ TakeFront
     \/ /\ queue = <<>>
        /\ loop' = "arming"
        /\ UNCHANGED <<queue, task>>
  /\ UNCHANGED <<started, slot, clearing, pc, held, nextId, starts, terminated>>

\* _queueCV.wait(): lock, then read the predicate.  When it holds because of
\* _started alone, the inner loop finds nothing and the mutex is released.
LoopWait ==
  /\ loop = "wait"
  /\ \/ TakeFront
     \/ /\ queue = <<>>
        /\ loop' = IF started THEN "arming" ELSE "test"
        /\ UNCHANGED <<queue, task>>
  /\ UNCHANGED <<started, slot, clearing, pc, held, nextId, starts, terminated>>

LoopBlock ==
  /\ loop = "arming"
  /\ loop' = "blocked"
  /\ UNCHANGED <<started, queue, task, slot, clearing, pc, held, nextId, starts,
                 terminated>>

\* A condition variable may wake up without being notified.
LoopSpurious ==
  /\ loop = "blocked"
  /\ loop' = "wait"
  /\ UNCHANGED <<started, queue, task, slot, clearing, pc, held, nextId, starts,
                 terminated>>

\* The callback returns or throws, after the calls it has made have returned.
LoopReturn ==
  /\ loop = "run"
  /\ Dispatcher \in Threads => pc[Dispatcher] = "idle"
  /\ loop' = "relock"
  /\ UNCHANGED <<started, queue, task, slot, clearing, pc, held, nextId, starts,
                 terminated>>

LoopRelock ==
  /\ loop = "relock"
  /\ \/ TakeFront
     \/ /\ queue = <<>>
        /\ loop' = "test"
        /\ UNCHANGED <<queue, task>>
  /\ UNCHANGED <<started, slot, clearing, pc, held, nextId, starts, terminated>>
-----------------------------------------------------------------------------
Register ==
  \/ \E k \in Kinds, c \in Slots : SetCallback(k, c)
  \/ ClearAllCall
  \/ ClearAllStep

Emit(t) ==
  \/ EmitTest(t)
  \/ \E k \in Kinds : EmitLoad(t, k)
  \/ EmitPush(t)
  \/ EmitNotify(t)

Own(o) ==
  \/ StartCall(o)
  \/ StartSpawn(o)
  \/ StopCall(o)
  \/ StopDrop(o)
  \/ StopNotify(o)
  \/ StopJoin(o)

EventLoop ==
  \/ LoopTest
  \/ LoopWait
  \/ LoopBlock
  \/ LoopSpurious
  \/ LoopReturn
  \/ LoopRelock

Next ==
  /\ ~terminated
  /\ \/ Register
     \/ \E t \in Emitters : Emit(t)
     \/ \E o \in Owners : Own(o)
     \/ EventLoop

SafeSpec == Init /\ [][Next]_vars

\* Threads that are in a call keep running, a thread that keeps trying to lock
\* the mutex gets it, and a callback returns after finitely many calls.
Fairness ==
  /\ \A t \in Emitters :
       /\ WF_vars(~terminated /\ \E k \in Kinds : EmitLoad(t, k))
       /\ SF_vars(~terminated /\ EmitPush(t))
       /\ WF_vars(~terminated /\ EmitNotify(t))
  /\ \A o \in Owners :
       /\ WF_vars(~terminated /\ StartSpawn(o))
       /\ SF_vars(~terminated /\ StopDrop(o))
       /\ WF_vars(~terminated /\ StopNotify(o))
       /\ WF_vars(~terminated /\ StopJoin(o))
  /\ WF_vars(~terminated /\ (LoopTest \/ LoopWait \/ LoopBlock \/ LoopRelock))
  /\ SF_vars(~terminated /\ LoopReturn)

Spec == SafeSpec /\ Fairness
-----------------------------------------------------------------------------
(* Properties.                                                             *)

LoopStates   == {"none", "test", "wait", "arming", "blocked", "run", "relock",
                 "exited"}
CallerStates == {"idle", "load", "push", "notify", "spawn", "drop", "wake",
                 "join"}

\* Every variable has its type, and _eventQueue never holds more than
\* maxEventQueueSize tasks.
TypeOK ==
  /\ started \in BOOLEAN
  /\ queue \in Seq(Task)
  /\ Len(queue) <= maxEventQueueSize
  /\ loop \in LoopStates
  /\ task \in Task
  /\ slot \in [Kinds -> Slots]
  /\ clearing \in 0 .. NumKinds
  /\ pc \in [Threads -> CallerStates]
  /\ held \in [Threads -> Slots]
  /\ nextId \in Nat
  /\ starts \in Nat
  /\ terminated \in BOOLEAN

\* Tasks run in the order in which emitX() queued them, and none runs twice:
\* those in the queue are in order and younger than the one taken last.
InOrder ==
  /\ \A i, j \in 1 .. Len(queue) : i < j => queue[i].id < queue[j].id
  /\ \A i \in 1 .. Len(queue) : task.id < queue[i].id /\ queue[i].id <= nextId

\* No empty std::function is ever invoked by the event thread, though the slots
\* may be cleared between the test of a callback and its call.
RunsCallbacks ==
  /\ \A i \in 1 .. Len(queue) : queue[i].cb \in Callbacks
  /\ loop = "run" => task.cb \in Callbacks

\* What the event thread runs, and will run: each task once, in the order in which
\* they were queued, and with a callback in it.
QueueSound == InOrder /\ RunsCallbacks

Busy(o) == pc[o] \in {"spawn", "drop", "wake", "join"}

\* When stop() has returned, and before the first start(), there is no event
\* thread, hence no callback runs and none will until the next start().
SilentAfterStop == ~started /\ (\A o \in Owners : ~Busy(o)) => loop = "none"

\* start() never overwrites the handle of a thread that was not joined.
NoTerminate == ~terminated

\* The event thread never sleeps through its wakeup: if it is blocked, or about
\* to block, while there is a task or a stop() to see, someone who will notify
\* it is on the way.  stop() writes _started without the mutex, and only its
\* critical section that drops the tasks makes this hold.
NoLostWakeup ==
  /\ loop = "blocked" /\ queue # <<>> => \E t \in Emitters : pc[t] = "notify"
  /\ loop = "arming" /\ ~started => \E o \in Owners : pc[o] = "drop"
  /\ loop = "blocked" /\ ~started =>
       \E o \in Owners : pc[o] \in {"drop", "wake"}

\* stop() returns: the event thread it joins always ends.
StopReturns == \A o \in Owners : pc[o] = "drop" ~> pc[o] = "idle"

\* How many steps the event thread has at most before a stop() that waits for
\* it, with the tasks that are left to it.
Left ==
  3 * Len(queue) + CASE loop = "none"                 -> 0
                     [] loop = "exited"               -> 1
                     [] loop = "test"                 -> 2
                     [] loop \in {"wait", "relock"}   -> 3
                     [] loop \in {"run", "blocked"}   -> 4
                     [] loop = "arming"               -> 5

\* What keeps stop() waiting runs out: once _started is FALSE every step of the
\* event thread, or one that wakes it, brings it nearer to its end, although
\* tasks may still be queued behind the back of stop(); those are of emissions
\* that had begun before, for no thread, not even a callback, begins another.
EndApproaches ==
  [][~started /\ ~started' =>
       /\ loop' # loop => Left' < Left
       /\ \A t \in Emitters : pc'[t] \in {"load", "push"} =>
                               pc[t] \in {"load", "push"}]_vars

\* The dispatcher keeps the promises of EventDispatch.
Dispatch == INSTANCE EventDispatch WITH
  open <- started, alive <- loop # "none", mailbox <- queue,
  active <- loop = "run", task <- task, accepted <- nextId,
  Capacity <- maxEventQueueSize, Payloads <- Callbacks,
  NoPayload <- NoCallback

DispatchSafe == Dispatch!SafeSpec

DispatchSpec == Dispatch!Spec
=============================================================================
