------------------------- MODULE EventHandlerProofs -------------------------
(***************************************************************************)
(* Theorems about EventHandler, for any number of emitting threads, kinds  *)
(* of events and tasks: the types, the order of the tasks, the callbacks   *)
(* they hold, the absence of lost wakeups, what stop() leaves behind, what *)
(* brings its return nearer, and that the dispatcher implements            *)
(* EventDispatch (its safety part).                                        *)
(*                                                                         *)
(* The last three hold when one thread at a time calls start() and stop()  *)
(* and it is not the event thread; a run shows what happens otherwise.     *)
(***************************************************************************)
EXTENDS EventHandler, TLAPS

USE EventHandlerAssumption

-----------------------------------------------------------------------------
(* Types.                                                                  *)

\* Queueing a task where there is room keeps the types and the bound.
LEMMA PushType ==
  ASSUME queue \in Seq(Task), Len(queue) < maxEventQueueSize, nextId \in Nat,
         NEW c \in Slots
  PROVE  LET q == Append(queue, [id |-> nextId + 1, cb |-> c])
         IN  q \in Seq(Task) /\ Len(q) <= maxEventQueueSize
<1>1. [id |-> nextId + 1, cb |-> c] \in Task
  BY DEF Task
<1> QED
  BY <1>1

\* Taking the oldest task keeps the types and the bound of the queue.
LEMMA TakeFrontType ==
  ASSUME queue \in Seq(Task), Len(queue) <= maxEventQueueSize, TakeFront
  PROVE  /\ queue' \in Seq(Task)
         /\ Len(queue') <= maxEventQueueSize
         /\ task' \in Task
         /\ loop' = "run"
  BY DEF TakeFront

\* Every variable keeps its type, and the queue its bound, whatever the threads
\* do: no emission overruns maxEventQueueSize.
THEOREM TypeCorrect == SafeSpec => []TypeOK
<1>1. Init => TypeOK
  <2> SUFFICES ASSUME Init PROVE TypeOK
    OBVIOUS
  <2>1. NoTask \in Task
    BY DEF NoTask, Task, Slots
  <2>2. queue \in Seq(Task) /\ Len(queue) <= maxEventQueueSize
    BY DEF Init
  <2>3. clearing \in 0 .. NumKinds /\ nextId \in Nat /\ starts \in Nat
    BY DEF Init
  <2> QED
    BY <2>1, <2>2, <2>3 DEF Init, TypeOK, Slots, LoopStates, CallerStates
<1>2. TypeOK /\ [Next]_vars => TypeOK'
  <2> SUFFICES ASSUME TypeOK, [Next]_vars PROVE TypeOK'
    OBVIOUS
  <2> USE DEF TypeOK
  <2>1. CASE UNCHANGED vars
    BY <2>1 DEF vars
  <2>2. CASE Next
    <3>1. ASSUME NEW k \in Kinds, NEW c \in Slots, SetCallback(k, c)
          PROVE  TypeOK'
      BY <3>1 DEF SetCallback
    <3>2. CASE ClearAllCall
      BY <3>2 DEF ClearAllCall
    <3>3. CASE ClearAllStep
      BY <3>3 DEF ClearAllStep, Slots, Kinds
    <3>4. ASSUME NEW t \in Emitters, EmitTest(t) PROVE TypeOK'
      BY <3>4 DEF EmitTest, Goto, Threads, CallerStates
    <3>5. ASSUME NEW t \in Emitters, NEW k \in Kinds, EmitLoad(t, k)
          PROVE  TypeOK'
      BY <3>5 DEF EmitLoad, Goto, Threads, CallerStates
    <3>6. ASSUME NEW t \in Emitters, EmitPush(t) PROVE TypeOK'
      <4>1. pc' \in [Threads -> CallerStates] /\ held' \in [Threads -> Slots]
        BY <3>6 DEF EmitPush, Goto, Threads, CallerStates, Slots
      <4>2. held[t] \in Slots
        BY DEF Threads
      <4>3. queue' \in Seq(Task) /\ Len(queue') <= maxEventQueueSize
        BY <3>6, <4>2, PushType DEF EmitPush
      <4> QED
        BY <3>6, <4>1, <4>3 DEF EmitPush
    <3>7. ASSUME NEW t \in Emitters, EmitNotify(t) PROVE TypeOK'
      BY <3>7 DEF EmitNotify, Notify, Goto, Threads, CallerStates, LoopStates
    <3>8. ASSUME NEW o \in Owners, StartCall(o) PROVE TypeOK'
      BY <3>8 DEF StartCall, Goto, Threads, CallerStates
    <3>9. ASSUME NEW o \in Owners, StartSpawn(o) PROVE TypeOK'
      BY <3>9 DEF StartSpawn, Goto, Threads, CallerStates, LoopStates
    <3>10. ASSUME NEW o \in Owners, StopCall(o) PROVE TypeOK'
      BY <3>10 DEF StopCall, Goto, Threads, CallerStates
    <3>11. ASSUME NEW o \in Owners, StopDrop(o) PROVE TypeOK'
      BY <3>11 DEF StopDrop, Goto, Threads, CallerStates
    <3>12. ASSUME NEW o \in Owners, StopNotify(o) PROVE TypeOK'
      BY <3>12 DEF StopNotify, Notify, Goto, Threads, CallerStates, LoopStates
    <3>13. ASSUME NEW o \in Owners, StopJoin(o) PROVE TypeOK'
      BY <3>13 DEF StopJoin, Goto, Threads, CallerStates, LoopStates
    <3>14. CASE LoopTest
      BY <3>14 DEF LoopTest, LoopStates
    <3>15. CASE LoopWait
      BY <3>15, TakeFrontType DEF LoopWait, LoopStates
    <3>16. CASE LoopBlock
      BY <3>16 DEF LoopBlock, LoopStates
    <3>17. CASE LoopSpurious
      BY <3>17 DEF LoopSpurious, LoopStates
    <3>18. CASE LoopReturn
      BY <3>18 DEF LoopReturn, LoopStates
    <3>19. CASE LoopRelock
      BY <3>19, TakeFrontType DEF LoopRelock, LoopStates
    <3> QED
      BY <2>2, <3>1, <3>2, <3>3, <3>4, <3>5, <3>6, <3>7, <3>8, <3>9, <3>10,
         <3>11, <3>12, <3>13, <3>14, <3>15, <3>16, <3>17, <3>18, <3>19
      DEF Next, Register, Emit, Own, EventLoop
  <2> QED
    BY <2>1, <2>2
<1> QED
  BY <1>1, <1>2, PTL DEF SafeSpec
-----------------------------------------------------------------------------
(* The order of the tasks.                                                 *)

\* What a step may do to the queue: leave it alone, append a new task, drop
\* everything, or take the oldest task.
LEMMA QueueStep ==
  ASSUME [Next]_vars
  PROVE  \/ UNCHANGED <<queue, task, nextId>> /\ (loop' = "run" => loop = "run")
         \/ \E c \in {held[t] : t \in {u \in Emitters : pc[u] = "push"}} :
              /\ queue' = Append(queue, [id |-> nextId + 1, cb |-> c])
              /\ nextId' = nextId + 1
              /\ task' = task
              /\ loop' = loop
         \/ queue' = <<>> /\ UNCHANGED <<loop, task, nextId>>
         \/ TakeFront /\ UNCHANGED nextId
<1>1. CASE UNCHANGED vars
  BY <1>1 DEF vars
<1>2. CASE Register
  BY <1>2 DEF Register, SetCallback, ClearAllCall, ClearAllStep
<1>3. ASSUME NEW t \in Emitters, Emit(t)
      PROVE  \/ /\ UNCHANGED <<queue, task, nextId>>
                /\ loop' = "run" => loop = "run"
             \/ /\ pc[t] = "push"
                /\ queue' = Append(queue, [id |-> nextId + 1, cb |-> held[t]])
                /\ nextId' = nextId + 1
                /\ task' = task
                /\ loop' = loop
  BY <1>3 DEF Emit, EmitTest, EmitLoad, EmitPush, EmitNotify, Goto,
     Notify
<1>4. ASSUME NEW o \in Owners, Own(o)
      PROVE  \/ /\ UNCHANGED <<queue, task, nextId>>
                /\ loop' = "run" => loop = "run"
             \/ queue' = <<>> /\ UNCHANGED <<loop, task, nextId>>
  BY <1>4 DEF Own, StartCall, StartSpawn, StopCall, StopDrop, StopNotify,
     StopJoin, Notify
<1>5. CASE EventLoop
  BY <1>5 DEF EventLoop, LoopTest, LoopWait, LoopBlock, LoopSpurious,
     LoopReturn, LoopRelock
<1> QED
  BY <1>1, <1>2, <1>3, <1>4, <1>5 DEF Next

\* InOrder is not inductive while the queue is empty: the task taken last must
\* be known to be older than the next one to be queued.
OrderInv == InOrder /\ task.id <= nextId

LEMMA OrderStep ==
  ASSUME TypeOK, OrderInv, [Next]_vars
  PROVE  OrderInv'
<1> USE DEF TypeOK, OrderInv, InOrder
<1>0. \A i \in 1 .. Len(queue) : queue[i] \in Task
  OBVIOUS
<1>1. CASE UNCHANGED <<queue, task, nextId>>
  BY <1>1
<1>2. ASSUME NEW c,
             queue' = Append(queue, [id |-> nextId + 1, cb |-> c]),
             nextId' = nextId + 1, task' = task
      PROVE  OrderInv'
  <2>1. /\ Len(queue') = Len(queue) + 1
        /\ \A i \in 1 .. Len(queue) : queue'[i] = queue[i]
        /\ queue'[Len(queue) + 1].id = nextId + 1
    BY <1>2
  <2>2. \A i \in 1 .. Len(queue) : queue[i].id \in Nat
    BY <1>0 DEF Task
  <2>3. task.id \in Nat
    BY DEF Task
  <2> QED
    BY <1>2, <2>1, <2>2, <2>3
<1>3. CASE queue' = <<>> /\ UNCHANGED <<task, nextId>>
  BY <1>3
<1>4. CASE TakeFront /\ UNCHANGED nextId
  <2>1. /\ queue # <<>>
        /\ Len(queue') = Len(queue) - 1
        /\ \A i \in 1 .. Len(queue') : queue'[i] = queue[i + 1]
        /\ task' = queue[1]
    BY <1>4 DEF TakeFront
  <2>2. Len(queue) \in Nat /\ Len(queue) >= 1
    BY <2>1
  <2>3. nextId' = nextId
    BY <1>4
  <2>4. \A i \in 1 .. Len(queue') : i + 1 \in 1 .. Len(queue)
    BY <2>1, <2>2
  <2>5. \A i, j \in 1 .. Len(queue') : i < j => queue'[i].id < queue'[j].id
    <3> SUFFICES ASSUME NEW i \in 1 .. Len(queue'), NEW j \in 1 .. Len(queue'),
                        i < j
                 PROVE  queue'[i].id < queue'[j].id
      OBVIOUS
    <3>1. queue'[i] = queue[i + 1] /\ queue'[j] = queue[j + 1]
      BY <2>1
    <3>2. i + 1 \in 1 .. Len(queue) /\ j + 1 \in 1 .. Len(queue) /\ i + 1 < j + 1
      BY <2>4
    <3> QED
      BY <3>1, <3>2
  <2>6. \A i \in 1 .. Len(queue') :
          task'.id < queue'[i].id /\ queue'[i].id <= nextId'
    <3> SUFFICES ASSUME NEW i \in 1 .. Len(queue')
                 PROVE  task'.id < queue'[i].id /\ queue'[i].id <= nextId'
      OBVIOUS
    <3>1. i + 1 \in 1 .. Len(queue) /\ 1 \in 1 .. Len(queue) /\ 1 < i + 1
      BY <2>2, <2>4
    <3>2. queue[1].id < queue[i + 1].id /\ queue[i + 1].id <= nextId
      BY <3>1
    <3> QED
      BY <2>1, <2>3, <3>2
  <2>7. task'.id <= nextId'
    BY <2>1, <2>2, <2>3
  <2> QED
    BY <2>5, <2>6, <2>7
<1> QED
  BY <1>1, <1>2, <1>3, <1>4, QueueStep

\* Tasks run in the order in which they were queued, none of them twice.
THEOREM TasksInOrder == SafeSpec => []InOrder
<1>1. Init => OrderInv
  BY DEF Init, OrderInv, InOrder, NoTask
<1>2. TypeOK /\ OrderInv /\ [Next]_vars => OrderInv'
  BY OrderStep
<1>3. OrderInv => InOrder
  BY DEF OrderInv
<1> QED
  BY <1>1, <1>2, <1>3, TypeCorrect, PTL DEF SafeSpec
-----------------------------------------------------------------------------
(* The callbacks.                                                          *)

\* What a thread is about to queue is a callback, too.
CallbackInv ==
  /\ RunsCallbacks
  /\ \A t \in Emitters : pc[t] = "push" => held[t] \in Callbacks

LEMMA HeldStep ==
  ASSUME TypeOK, [Next]_vars, NEW t \in Emitters, pc'[t] = "push",
         pc[t] = "push" => held[t] \in Callbacks
  PROVE  held'[t] \in Callbacks
<1> USE DEF TypeOK, Threads
<1>1. CASE UNCHANGED <<pc, held>>
  BY <1>1
<1>2. ASSUME NEW u \in Emitters, Emit(u) PROVE held'[t] \in Callbacks
  <2>1. CASE EmitTest(u)
    BY <2>1 DEF EmitTest, Goto
  <2>2. ASSUME NEW k \in Kinds, EmitLoad(u, k) PROVE held'[t] \in Callbacks
    BY <2>2 DEF EmitLoad, Goto, Slots
  <2>3. CASE EmitPush(u)
    BY <2>3 DEF EmitPush, Goto
  <2>4. CASE EmitNotify(u)
    BY <2>4 DEF EmitNotify, Goto
  <2> QED
    BY <1>2, <2>1, <2>2, <2>3, <2>4 DEF Emit
<1>3. ASSUME NEW o \in Owners, Own(o) PROVE held'[t] \in Callbacks
  BY <1>3 DEF Own, StartCall, StartSpawn, StopCall, StopDrop, StopNotify,
     StopJoin, Goto
<1>4. Register \/ EventLoop \/ UNCHANGED vars => UNCHANGED <<pc, held>>
  BY DEF vars, Register, SetCallback, ClearAllCall, ClearAllStep, EventLoop,
     LoopTest, LoopWait, LoopBlock, LoopSpurious, LoopReturn, LoopRelock
<1> QED
  BY <1>1, <1>2, <1>3, <1>4 DEF Next

LEMMA CallbackStep ==
  ASSUME TypeOK, CallbackInv, [Next]_vars
  PROVE  CallbackInv'
<1> USE DEF TypeOK, CallbackInv, RunsCallbacks
<1>1. CASE /\ UNCHANGED <<queue, task, nextId>>
           /\ loop' = "run" => loop = "run"
  BY <1>1, HeldStep
<1>2. ASSUME NEW t \in Emitters, pc[t] = "push",
             queue' = Append(queue, [id |-> nextId + 1, cb |-> held[t]]),
             task' = task, loop' = loop
      PROVE  CallbackInv'
  <2>1. held[t] \in Callbacks
    BY <1>2
  <2>2. \A i \in 1 .. Len(queue') : queue'[i].cb \in Callbacks
    BY <1>2, <2>1
  <2> QED
    BY <1>2, <2>2, HeldStep
<1>3. CASE queue' = <<>> /\ UNCHANGED <<loop, task>>
  BY <1>3, HeldStep
<1>4. CASE TakeFront
  <2>1. /\ Len(queue') = Len(queue) - 1 /\ Len(queue) \in Nat /\ Len(queue) >= 1
        /\ \A i \in 1 .. Len(queue') : queue'[i] = queue[i + 1]
        /\ task' = queue[1]
    BY <1>4 DEF TakeFront
  <2>2. \A i \in 1 .. Len(queue') : queue'[i].cb \in Callbacks
    BY <2>1
  <2>3. task'.cb \in Callbacks
    BY <2>1
  <2> QED
    BY <2>2, <2>3, HeldStep
<1> QED
  BY <1>1, <1>2, <1>3, <1>4, QueueStep

\* The event thread only ever invokes callbacks that were registered, although
\* the slots are cleared and replaced while events are being emitted.
THEOREM OnlyCallbacksRun == SafeSpec => []RunsCallbacks
<1>1. Init => CallbackInv
  BY DEF Init, CallbackInv, RunsCallbacks, Threads
<1>2. TypeOK /\ CallbackInv /\ [Next]_vars => CallbackInv'
  BY CallbackStep
<1>3. CallbackInv => RunsCallbacks
  BY DEF CallbackInv
<1> QED
  BY <1>1, <1>2, <1>3, TypeCorrect, PTL DEF SafeSpec

\* What is queued is in order, is run once, and has a callback to run.
THEOREM QueueIsSound == SafeSpec => []QueueSound
<1>1. InOrder /\ RunsCallbacks => QueueSound
  BY DEF QueueSound
<1> QED
  BY <1>1, TasksInOrder, OnlyCallbacksRun, PTL
-----------------------------------------------------------------------------
(* Wakeups.                                                                *)

\* The event thread decides to block only after it has found the queue empty,
\* and no task is added before it does: the mutex is held in between.
WakeupInv == NoLostWakeup /\ (loop = "arming" => queue = <<>>)

LEMMA WakeupStep ==
  ASSUME TypeOK, WakeupInv, [Next]_vars
  PROVE  WakeupInv'
<1> USE DEF TypeOK, WakeupInv, NoLostWakeup, Threads
<1>1. CASE UNCHANGED vars
  BY <1>1 DEF vars
<1>2. CASE Register
  BY <1>2 DEF Register, SetCallback, ClearAllCall, ClearAllStep
<1>3. ASSUME NEW t \in Emitters, Emit(t) PROVE WakeupInv'
  <2>1. CASE EmitTest(t) \/ \E k \in Kinds : EmitLoad(t, k)
    BY <2>1 DEF EmitTest, EmitLoad, Goto
  <2>2. CASE EmitPush(t)
    <3>1. loop # "arming" /\ loop' = loop /\ started' = started /\ pc[t] = "push"
          /\ pc' = [pc EXCEPT ![t] = "notify"]
      BY <2>2 DEF EmitPush, MutexFree, Goto
    <3>2. pc'[t] = "notify"
      BY <3>1
    <3>3. \A o \in Owners : pc[o] \in {"drop", "wake"} => pc'[o] = pc[o]
      BY <3>1
    <3> QED
      BY <3>1, <3>2, <3>3
  <2>3. CASE EmitNotify(t)
    BY <2>3 DEF EmitNotify, Notify, Goto
  <2> QED
    BY <1>3, <2>1, <2>2, <2>3 DEF Emit
<1>4. ASSUME NEW o \in Owners, Own(o) PROVE WakeupInv'
  <2>1. CASE StartCall(o)
    BY <2>1 DEF StartCall, Goto
  <2>2. CASE StartSpawn(o)
    BY <2>2 DEF StartSpawn, Goto
  <2>3. CASE StopCall(o)
    BY <2>3 DEF StopCall, Calls, Goto
  <2>4. CASE StopDrop(o)
    BY <2>4 DEF StopDrop, MutexFree, Goto
  <2>5. CASE StopNotify(o)
    BY <2>5 DEF StopNotify, Notify, Goto
  <2>6. CASE StopJoin(o)
    BY <2>6 DEF StopJoin, Goto
  <2> QED
    BY <1>4, <2>1, <2>2, <2>3, <2>4, <2>5, <2>6 DEF Own
<1>5. CASE EventLoop
  <2>1. CASE LoopTest \/ LoopBlock \/ LoopSpurious \/ LoopReturn
    BY <2>1 DEF LoopTest, LoopBlock, LoopSpurious, LoopReturn
  <2>2. CASE LoopWait \/ LoopRelock
    BY <2>2 DEF LoopWait, LoopRelock, TakeFront
  <2> QED
    BY <1>5, <2>1, <2>2 DEF EventLoop
<1> QED
  BY <1>1, <1>2, <1>3, <1>4, <1>5 DEF Next

\* The event thread never sleeps through a task or a stop(), whoever calls
\* start() and stop(), and in whatever order.
THEOREM WakeupsNotLost == SafeSpec => []NoLostWakeup
<1>1. Init => WakeupInv
  BY DEF Init, WakeupInv, NoLostWakeup
<1>2. TypeOK /\ WakeupInv /\ [Next]_vars => WakeupInv'
  BY WakeupStep
<1>3. WakeupInv => NoLostWakeup
  BY DEF WakeupInv
<1> QED
  BY <1>1, <1>2, <1>3, TypeCorrect, PTL DEF SafeSpec

-----------------------------------------------------------------------------
(* What stop() leaves behind.                                              *)

\* One thread calls start() and stop(), and not from within a callback.
SingleOwner ==
  /\ \A o1, o2 \in Owners : o1 = o2
  /\ Dispatcher \notin Owners

OwnerInv ==
  /\ SilentAfterStop
  /\ NoTerminate
  /\ \A o \in Owners : pc[o] = "spawn" => started /\ loop = "none"
  /\ \A o \in Owners : pc[o] \in {"drop", "wake", "join"} => ~started

LEMMA OwnerStep ==
  ASSUME SingleOwner, TypeOK, OwnerInv, [Next]_vars
  PROVE  OwnerInv'
<1> USE DEF SingleOwner, TypeOK, OwnerInv, SilentAfterStop, NoTerminate, Busy,
            Threads
<1>1. CASE UNCHANGED vars
  BY <1>1 DEF vars
<1>2. CASE Register
  BY <1>2 DEF Register, SetCallback, ClearAllCall, ClearAllStep
<1>3. ASSUME NEW t \in Emitters, Emit(t) PROVE OwnerInv'
  <2>1. /\ UNCHANGED <<started, terminated>>
        /\ loop = "none" <=> loop' = "none"
        /\ \A o \in Owners : Busy(o) \/ Busy(o)' => pc'[o] = pc[o]
    BY <1>3 DEF Emit, EmitTest, EmitLoad, EmitPush, EmitNotify, Notify, Goto,
       Calls
  <2> QED
    BY <2>1
<1>4. ASSUME NEW o \in Owners, Own(o) PROVE OwnerInv'
  <2>1. CASE StartCall(o)
    BY <2>1 DEF StartCall, Calls, Goto
  <2>2. CASE StartSpawn(o)
    BY <2>2 DEF StartSpawn, Goto
  <2>3. CASE StopCall(o)
    BY <2>3 DEF StopCall, Calls, Goto
  <2>4. CASE StopDrop(o)
    BY <2>4 DEF StopDrop, Goto
  <2>5. CASE StopNotify(o)
    BY <2>5 DEF StopNotify, Notify, Goto
  <2>6. CASE StopJoin(o)
    BY <2>6 DEF StopJoin, Goto
  <2> QED
    BY <1>4, <2>1, <2>2, <2>3, <2>4, <2>5, <2>6 DEF Own
<1>5. CASE EventLoop
  <2>1. /\ UNCHANGED <<started, pc, terminated>>
        /\ loop # "none" /\ loop' # "none"
    BY <1>5 DEF EventLoop, LoopTest, LoopWait, LoopBlock, LoopSpurious,
       LoopReturn, LoopRelock, TakeFront
  <2> QED
    BY <2>1
<1> QED
  BY <1>1, <1>2, <1>3, <1>4, <1>5 DEF Next

LEMMA OwnerCorrect == ASSUME SingleOwner PROVE SafeSpec => []OwnerInv
<1>1. Init => OwnerInv
  BY DEF Init, OwnerInv, SilentAfterStop, NoTerminate, Threads
<1>2. TypeOK /\ OwnerInv /\ [Next]_vars => OwnerInv'
  BY OwnerStep
<1> QED
  BY <1>1, <1>2, TypeCorrect, PTL DEF SafeSpec

\* When stop() has returned the event thread is gone.
THEOREM StopJoins == ASSUME SingleOwner PROVE SafeSpec => []SilentAfterStop
<1>1. OwnerInv => SilentAfterStop
  BY DEF OwnerInv
<1> QED
  BY <1>1, OwnerCorrect, PTL

\* A handler that is restarted never overwrites the handle of a live thread.
THEOREM RestartIsSafe == ASSUME SingleOwner PROVE SafeSpec => []NoTerminate
<1>1. OwnerInv => NoTerminate
  BY DEF OwnerInv
<1> QED
  BY <1>1, OwnerCorrect, PTL

\* The end of the event thread comes nearer.
LEMMA EndEmit ==
  ASSUME TypeOK, ~started, NEW t \in Emitters, Emit(t)
  PROVE  /\ \/ loop' = loop
            \/ loop = "blocked" /\ loop' = "wait" /\ queue' = queue
         /\ \A u \in Emitters : pc'[u] \in {"load", "push"} =>
                                pc[u] \in {"load", "push"}
<1> USE DEF TypeOK, Threads, Goto
<1>1. ~EmitTest(t)
  BY DEF EmitTest
<1>2. ASSUME NEW k \in Kinds, EmitLoad(t, k)
      PROVE  /\ loop' = loop
             /\ \A u \in Emitters : pc'[u] \in {"load", "push"} =>
                                    pc[u] \in {"load", "push"}
  BY <1>2 DEF EmitLoad
<1>3. CASE EmitPush(t)
  BY <1>3 DEF EmitPush
<1>4. CASE EmitNotify(t)
  BY <1>4 DEF EmitNotify, Notify
<1> QED
  BY <1>1, <1>2, <1>3, <1>4 DEF Emit

LEMMA EndOwn ==
  ASSUME TypeOK, OwnerInv, ~started, ~started', NEW o \in Owners, Own(o)
  PROVE  /\ \/ loop' = loop
            \/ /\ <<loop, loop'>> \in
                    {<<"blocked", "wait">>, <<"exited", "none">>, <<"run", "relock">>}
               /\ queue' = queue
         /\ \A u \in Emitters : pc'[u] \in {"load", "push"} =>
                                pc[u] \in {"load", "push"}
<1> USE DEF TypeOK, Threads, Goto
<1>1. ~StartCall(o) /\ ~StartSpawn(o) /\ ~StopCall(o)
  BY DEF StartCall, StartSpawn, StopCall, OwnerInv
<1>2. CASE StopDrop(o)
  BY <1>2 DEF StopDrop
<1>3. CASE StopNotify(o)
  BY <1>3 DEF StopNotify, Notify
<1>4. CASE StopJoin(o)
  BY <1>4 DEF StopJoin
<1> QED
  BY <1>1, <1>2, <1>3, <1>4 DEF Own

LEMMA EndLoop ==
  ASSUME TypeOK, ~started, EventLoop
  PROVE  Left' < Left /\ pc' = pc
<1>0. Len(queue) \in Nat
  BY DEF TypeOK
<1>1. CASE LoopTest \/ LoopBlock \/ LoopSpurious \/ LoopReturn
  BY <1>0, <1>1 DEF LoopTest, LoopBlock, LoopSpurious, LoopReturn, Left
<1>2. CASE LoopWait \/ LoopRelock
  <2>1. CASE TakeFront
    <3>1. Len(queue') = Len(queue) - 1
      BY <2>1 DEF TakeFront, TypeOK
    <3> QED
      BY <1>0, <1>2, <2>1, <3>1 DEF LoopWait, LoopRelock, TakeFront, Left
  <2>2. CASE ~TakeFront
    BY <1>0, <1>2, <2>2 DEF LoopWait, LoopRelock, Left
  <2> QED
    BY <2>1, <2>2
<1> QED
  BY <1>1, <1>2 DEF EventLoop

\* stop() is not kept waiting for ever by the event thread: with every step it
\* takes, whatever is queued behind the back of stop(), it is nearer to its end.
THEOREM EndComesNearer == ASSUME SingleOwner PROVE SafeSpec => EndApproaches
<1>1. ASSUME TypeOK, OwnerInv, [Next]_vars, ~started, ~started'
      PROVE  /\ loop' # loop => Left' < Left
             /\ \A t \in Emitters : pc'[t] \in {"load", "push"} =>
                                    pc[t] \in {"load", "push"}
  <2>0. Len(queue) \in Nat
    BY <1>1 DEF TypeOK
  <2>1. CASE UNCHANGED vars \/ Register
    BY <2>1 DEF vars, Register, SetCallback, ClearAllCall, ClearAllStep
  <2>2. ASSUME NEW t \in Emitters, Emit(t)
        PROVE  /\ loop' # loop => Left' < Left
               /\ \A u \in Emitters : pc'[u] \in {"load", "push"} =>
                                      pc[u] \in {"load", "push"}
    BY <1>1, <2>0, <2>2, EndEmit DEF Left
  <2>3. ASSUME NEW o \in Owners, Own(o)
        PROVE  /\ loop' # loop => Left' < Left
               /\ \A u \in Emitters : pc'[u] \in {"load", "push"} =>
                                      pc[u] \in {"load", "push"}
    BY <1>1, <2>0, <2>3, EndOwn DEF Left
  <2>4. CASE EventLoop
    BY <1>1, <2>4, EndLoop
  <2> QED
    BY <1>1, <2>1, <2>2, <2>3, <2>4 DEF Next
<1>2. TypeOK /\ OwnerInv /\ [Next]_vars
        => [~started /\ ~started' =>
              /\ loop' # loop => Left' < Left
              /\ \A t \in Emitters : pc'[t] \in {"load", "push"} =>
                                     pc[t] \in {"load", "push"}]_vars
  BY <1>1
<1> QED
  BY <1>2, TypeCorrect, OwnerCorrect, PTL DEF SafeSpec, EndApproaches

-----------------------------------------------------------------------------
(* The refinement.                                                         *)

LEMMA DispatchStep ==
  ASSUME TypeOK, CallbackInv, OwnerInv, SingleOwner, [Next]_vars
  PROVE  [Dispatch!Next]_(Dispatch!dispatchVars)
<1> DEFINE Same == UNCHANGED Dispatch!dispatchVars
<1> USE DEF Dispatch!dispatchVars
<1>1. CASE UNCHANGED vars
  BY <1>1 DEF vars
<1>2. CASE Register
  <2>1. Same
    BY <1>2 DEF Register, SetCallback, ClearAllCall, ClearAllStep
  <2> QED
    BY <2>1
<1>3. ASSUME NEW t \in Emitters, Emit(t)
      PROVE  Same \/ \E p \in Callbacks : Dispatch!Accept(p)
  <2>1. CASE EmitTest(t) \/ \E k \in Kinds : EmitLoad(t, k)
    BY <2>1 DEF EmitTest, EmitLoad
  <2>2. CASE EmitPush(t)
    <3>1. held[t] \in Callbacks
      BY <2>2 DEF EmitPush, Goto, CallbackInv
    <3> QED
      BY <2>2, <3>1 DEF EmitPush, Dispatch!Accept
  <2>3. CASE EmitNotify(t)
    BY <2>3 DEF EmitNotify, Notify
  <2> QED
    BY <1>3, <2>1, <2>2, <2>3 DEF Emit
<1>4. ASSUME NEW o \in Owners, Own(o)
      PROVE  \/ Same
             \/ Dispatch!Open
             \/ Dispatch!Launch
             \/ Dispatch!Close
             \/ Dispatch!Drop
             \/ Dispatch!Halt
  <2> USE DEF OwnerInv
  <2>1. CASE StartCall(o)
    BY <2>1 DEF StartCall, Dispatch!Open
  <2>2. CASE StartSpawn(o)
    BY <2>2 DEF StartSpawn, Goto, Dispatch!Launch
  <2>3. CASE StopCall(o)
    BY <2>3 DEF StopCall, Dispatch!Close
  <2>4. CASE StopDrop(o)
    BY <2>4 DEF StopDrop, Goto, Dispatch!Drop
  <2>5. CASE StopNotify(o)
    BY <2>5 DEF StopNotify, Notify
  <2>6. CASE StopJoin(o)
    BY <2>6 DEF StopJoin, Goto, SingleOwner, Dispatch!Halt
  <2> QED
    BY <1>4, <2>1, <2>2, <2>3, <2>4, <2>5, <2>6 DEF Own
<1>5. CASE EventLoop
  <2>1. LoopTest \/ LoopBlock \/ LoopSpurious => Same
    BY DEF LoopTest, LoopBlock, LoopSpurious
  <2>2. LoopReturn => Dispatch!Complete
    BY DEF LoopReturn, Dispatch!Complete
  <2>3. LoopWait \/ LoopRelock => Same \/ Dispatch!Deliver
    BY DEF LoopWait, LoopRelock, TakeFront, Dispatch!Deliver
  <2> QED
    BY <1>5, <2>1, <2>2, <2>3 DEF EventLoop, Dispatch!Next
<1> QED
  BY <1>1, <1>2, <1>3, <1>4, <1>5 DEF Next, Dispatch!Next

\* The handler keeps the safety promises of EventDispatch: a bounded mailbox
\* served in order, one callback at a time, only between start() and stop().
THEOREM ImplementsDispatch ==
  ASSUME SingleOwner PROVE SafeSpec => DispatchSafe
<1>1. Init => Dispatch!Init
  BY DEF Init, Dispatch!Init, NoTask
<1>2. /\ TypeOK /\ CallbackInv /\ OwnerInv /\ [Next]_vars
      => [Dispatch!Next]_(Dispatch!dispatchVars)
  BY DispatchStep
<1>3. Init => CallbackInv
  BY DEF Init, CallbackInv, RunsCallbacks, Threads
<1>4. TypeOK /\ CallbackInv /\ [Next]_vars => CallbackInv'
  BY CallbackStep
<1> QED
  BY <1>1, <1>2, <1>3, <1>4, TypeCorrect, OwnerCorrect, PTL
  DEF SafeSpec, DispatchSafe, Dispatch!SafeSpec
=============================================================================
