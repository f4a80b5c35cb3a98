-------------------------- MODULE UnleashClientProofs --------------------------
(***************************************************************************)
(* Theorems about UnleashClient, for any capacity of the event queue, any  *)
(* number of starts and events, and with or without cached toggles.        *)
(***************************************************************************)
EXTENDS UnleashClient, SequenceTheorems, TLAPS

USE UnleashClientAssumption

\* What Tail and Head do to what a thread still has to emit.
LEMMA TailFacts ==
  ASSUME NEW T, NEW s \in Seq(T), s # <<>>
  PROVE  /\ Head(s) \in T
         /\ Tail(s) \in Seq(T)
         /\ Len(s) = 1 <=> Tail(s) = <<>>
<1>1. /\ Head(s) \in T
      /\ Tail(s) \in Seq(T)
      /\ Len(Tail(s)) = Len(s) - 1
  BY HeadTailProperties
<1>2. Len(s) \in Nat
  BY LenProperties
<1>3. ASSUME Len(s) = 1 PROVE Tail(s) = <<>>
  <2>1. Len(Tail(s)) = 0
    BY <1>1, <1>3
  <2> QED
    BY <1>1, <2>1, EmptySeq
<1>4. ASSUME Tail(s) = <<>> PROVE Len(s) = 1
  <2>1. Len(s) - 1 = 0
    BY <1>1, <1>4, EmptySeq
  <2> QED
    BY <1>2, <2>1
<1> QED
  BY <1>1, <1>3, <1>4

LEMMA AppendType ==
  ASSUME NEW T, NEW s \in Seq(T), NEW x \in T
  PROVE  Append(s, x) \in Seq(T)
OBVIOUS

\* Where the steps of one thread leave the others.
LEMMA MoveFacts ==
  ASSUME TypeOK, NEW t \in Emitters, NEW from, NEW to \in ThreadStates,
         Move(t, from, to)
  PROVE  /\ at[t] = from /\ at'[t] = to
         /\ at' \in [Emitters -> ThreadStates]
         /\ \A u \in Emitters : u # t => at'[u] = at[u]
BY DEF Move, TypeOK

LEMMA NotifyFacts ==
  ASSUME TypeOK, NEW t \in Emitters, Notify(t)
  PROVE  /\ at' \in [Emitters -> ThreadStates]
         /\ \A u \in Emitters :
              at'[u] = at[u] \/ (at[u] = "blocked" /\ at'[u] = "test")
BY DEF Notify, TypeOK, ThreadStates

LEMMA Names ==
  /\ "metrics" \in Emitters /\ "polling" \in Emitters
  /\ "app" \in Emitters /\ "owner" \in Emitters
  /\ Workers = {"metrics", "polling"}
  /\ \A t \in Workers : t \in Emitters
BY DEF Emitters, Workers
-----------------------------------------------------------------------------
(* Types.                                                                  *)

\* The parts of TypeOK that the steps of each group keep.
OwnerType ==
  /\ running \in BOOLEAN
  /\ exit \in BOOLEAN
  /\ ready \in BOOLEAN
  /\ toggles \in BOOLEAN
  /\ call \in CallStates
  /\ starts \in Nat
  /\ enabled \subseteq Workers

ThreadType ==
  /\ at \in [Emitters -> ThreadStates]
  /\ pend \in [Emitters -> Seq(Events)]
  /\ \A t \in Emitters : at[t] \in {"emit", "push"} <=> pend[t] # <<>>

DispatchType ==
  /\ heard \subseteq Announcements
  /\ lost \subseteq Announcements
  /\ open \in BOOLEAN
  /\ alive \in BOOLEAN
  /\ mailbox \in Seq(Message)
  /\ active \in BOOLEAN
  /\ task \in Message \cup {NoTask}
  /\ accepted \in Nat

LEMMA TypeParts == TypeOK <=> OwnerType /\ ThreadType /\ DispatchType
BY DEF TypeOK, OwnerType, ThreadType, DispatchType

LEMMA TypeNext ==
  ASSUME OwnerType', ThreadType', DispatchType'
  PROVE  TypeOK'
BY DEF TypeOK, OwnerType, ThreadType, DispatchType

LEMMA TypeInit == Init => TypeOK
<1> SUFFICES ASSUME Init PROVE TypeOK
  OBVIOUS
<1>1. OwnerType
  BY DEF Init, OwnerType, CallStates
<1>2. ThreadType
  BY DEF Init, ThreadType, ThreadStates
<1>3. DispatchType
  <2>1. task \in Message \cup {NoTask}
    BY DEF Init, Handler!Init, NoTask
  <2>2. mailbox \in Seq(Message) /\ accepted \in Nat
    BY DEF Init, Handler!Init
  <2>4. heard \subseteq Announcements /\ lost \subseteq Announcements
    BY DEF Init
  <2>3. open \in BOOLEAN /\ alive \in BOOLEAN /\ active \in BOOLEAN
    BY DEF Init, Handler!Init
  <2> QED
    BY <2>1, <2>2, <2>3, <2>4 DEF DispatchType
<1> QED
  BY <1>1, <1>2, <1>3, TypeParts

\* The owner's steps keep to themselves, except for what they emit, the two
\* workers they start, notify and join, and the dispatcher.
LEMMA OwnerStepType ==
  ASSUME TypeOK, StartCall \/ StartStep \/ StopCall \/ StopStep
  PROVE  OwnerType'
<1> USE DEF OwnerType, CallStates, Goto
<1>0. OwnerType
  BY TypeParts
<1>1. CASE StartCall \/ StopCall
  <2>1. running' \in BOOLEAN
    BY <1>1 DEF StartCall, StopCall
  <2>2. call' \in CallStates
    BY <1>1 DEF StartCall, StopCall
  <2>3. exit' = exit /\ ready' = ready /\ toggles' = toggles /\ enabled' = enabled
    BY <1>1 DEF StartCall, StopCall
  <2>4. starts' = starts \/ starts' = starts + 1
    BY <1>1 DEF StartCall, StopCall
  <2>5. starts' \in Nat
    <3>1. starts \in Nat
      BY <1>0
    <3> QED
      BY <2>4, <3>1
  <2> QED
    BY <1>0, <2>1, <2>2, <2>3, <2>5
<1>2. CASE StartAnnounce \/ StartClear \/ StartReturn
  BY <1>0, <1>2 DEF StartAnnounce, StartClear, StartReturn
<1>3. CASE StartReady
  <2>1. ready' \in BOOLEAN
    BY <1>3 DEF StartReady
  <2> QED
    BY <1>0, <1>3, <2>1 DEF StartReady
<1>4. CASE StartHandler \/ StartWorkers
  BY <1>0, <1>4 DEF StartHandler, StartWorkers, Entry
<1>5. CASE StopSignal \/ StopReturn
  BY <1>0, <1>5 DEF StopSignal, StopReturn
<1>6. CASE StopNotify \/ StopJoin \/ StopHandler \/ StopDrop
  BY <1>0, <1>6 DEF StopNotify, StopJoin, StopHandler, StopDrop
<1> QED
  BY <1>1, <1>2, <1>3, <1>4, <1>5, <1>6 DEF StartStep, StopStep

LEMMA OwnerStepThreads ==
  ASSUME TypeOK, StartCall \/ StartStep \/ StopCall \/ StopStep
  PROVE  ThreadType'
<1>0. ThreadType
  BY TypeParts
<1>1. CASE UNCHANGED threads
  BY <1>0, <1>1 DEF ThreadType, threads
<1>2. CASE StartAnnounce
  <2>1. /\ at["owner"] = "test" /\ at'["owner"] = "emit"
        /\ at' \in [Emitters -> ThreadStates]
        /\ \A u \in Emitters : u # "owner" => at'[u] = at[u]
    BY <1>2, Names, MoveFacts DEF StartAnnounce, ThreadStates
  <2>2. PICK s \in {<<"init", "ready">>, <<"init">>} :
          pend' = [pend EXCEPT !["owner"] = s]
    BY <1>2 DEF StartAnnounce
  <2>3. s \in Seq(Events) /\ s # <<>>
    <3>1. "init" \in Events /\ "ready" \in Events
      BY DEF Events
    <3>2. CASE s = <<"init", "ready">>
      BY <3>1, <3>2
    <3>3. CASE s = <<"init">>
      BY <3>1, <3>3
    <3> QED
      BY <3>2, <3>3
  <2> QED
    BY <1>0, <2>1, <2>2, <2>3, Names DEF ThreadType
<1>3. CASE StartWorkers \/ StopJoin
  <2>1. PICK t \in Workers, from \in {"none", "exited"},
             to \in {"none", "test", "busy", "exited"} : Move(t, from, to)
    BY <1>3, Names DEF StartWorkers, Entry, StopJoin
  <2>2. /\ at[t] = from /\ at'[t] = to
        /\ at' \in [Emitters -> ThreadStates]
        /\ \A u \in Emitters : u # t => at'[u] = at[u]
    BY <2>1, Names, MoveFacts DEF ThreadStates
  <2>3. pend' = pend
    BY <1>3 DEF StartWorkers, Entry, StopJoin
  <2> QED
    BY <1>0, <2>2, <2>3 DEF ThreadType
<1>4. CASE StopNotify
  <2>1. PICK t \in Workers : Notify(t)
    BY <1>4, Names DEF StopNotify
  <2>2. /\ at' \in [Emitters -> ThreadStates]
        /\ \A u \in Emitters :
             at'[u] = at[u] \/ (at[u] = "blocked" /\ at'[u] = "test")
    BY <2>1, Names, NotifyFacts
  <2>3. pend' = pend
    BY <1>4 DEF StopNotify
  <2> QED
    BY <1>0, <2>2, <2>3 DEF ThreadType
<1>5. CASE StartCall \/ StopCall \/ StartReady \/ StartClear \/ StartReturn
  BY <1>1, <1>5 DEF StartCall, StopCall, StartReady, StartClear, StartReturn
<1>6. CASE StopSignal \/ StopReturn \/ StartHandler \/ StopHandler \/ StopDrop
  BY <1>1, <1>6 DEF StopSignal, StopReturn, StartHandler, StopHandler, StopDrop
<1> QED
  BY <1>2, <1>3, <1>4, <1>5, <1>6 DEF StartStep, StopStep

LEMMA HandlerType ==
  ASSUME DispatchType,
         \/ Handler!Open \/ Handler!Launch \/ Handler!Close
         \/ Handler!Drop \/ Handler!Halt \/ Handler!Complete
  PROVE  /\ open' \in BOOLEAN /\ alive' \in BOOLEAN /\ active' \in BOOLEAN
         /\ task' \in Message \cup {NoTask}
         /\ mailbox' \in Seq(Message) /\ accepted' \in Nat
<1>1. CASE Handler!Open \/ Handler!Launch \/ Handler!Close
  BY <1>1 DEF Handler!Open, Handler!Launch, Handler!Close, DispatchType
<1>2. CASE Handler!Drop \/ Handler!Halt \/ Handler!Complete
  <2>1. mailbox' = mailbox \/ mailbox' = <<>>
    BY <1>2 DEF Handler!Drop, Handler!Halt, Handler!Complete
  <2>2. mailbox' \in Seq(Message)
    <3>1. mailbox \in Seq(Message) /\ <<>> \in Seq(Message)
      BY DEF DispatchType
    <3> QED
      BY <2>1, <3>1
  <2>3. open' \in BOOLEAN /\ alive' \in BOOLEAN /\ active' \in BOOLEAN
    BY <1>2 DEF Handler!Drop, Handler!Halt, Handler!Complete, DispatchType
  <2>4. task' = task /\ accepted' = accepted
    BY <1>2 DEF Handler!Drop, Handler!Halt, Handler!Complete
  <2> QED
    BY <2>2, <2>3, <2>4 DEF DispatchType
<1> QED
  BY <1>1, <1>2

LEMMA OwnerStepDispatch ==
  ASSUME TypeOK, StartCall \/ StartStep \/ StopCall \/ StopStep
  PROVE  DispatchType'
<1>0. DispatchType
  BY TypeParts
<1>1. heard' \subseteq Announcements /\ lost' \subseteq Announcements
  <2>1. heard \subseteq Announcements /\ lost \subseteq Announcements
    BY <1>0 DEF DispatchType
  <2>2. CASE UNCHANGED fates
    BY <2>1, <2>2 DEF fates
  <2>3. CASE StopDrop
    BY <2>1, <2>3 DEF StopDrop
  <2> QED
    BY <2>2, <2>3
    DEF StartCall, StartStep, StopCall, StopStep, StartAnnounce, StartReady,
        StartClear, StartHandler, StartWorkers, StartReturn, StopSignal,
        StopNotify, StopJoin, StopHandler, StopReturn
<1>2. CASE UNCHANGED dispatch
  BY <1>0, <1>1, <1>2 DEF DispatchType, dispatch
<1>3. CASE StartHandler \/ StopHandler \/ StopDrop
  <2>1. \/ Handler!Open \/ Handler!Launch \/ Handler!Close
        \/ Handler!Drop \/ Handler!Halt
    BY <1>3 DEF StartHandler, StopHandler, StopDrop
  <2> QED
    BY <1>0, <1>1, <2>1, HandlerType DEF DispatchType
<1>4. CASE StartCall \/ StartAnnounce \/ StartReady \/ StartClear
           \/ StartWorkers \/ StartReturn
  BY <1>2, <1>4 DEF StartCall, StartAnnounce, StartReady, StartClear,
                    StartWorkers, Entry, StartReturn
<1>5. CASE StopCall \/ StopSignal \/ StopNotify \/ StopJoin \/ StopReturn
  BY <1>2, <1>5 DEF StopCall, StopSignal, StopNotify, StopJoin, StopReturn
<1> QED
  BY <1>3, <1>4, <1>5 DEF StartStep, StopStep

\* What a thread has to emit grows only when it had nothing to emit.
LEMMA BeginEmitting ==
  ASSUME TypeOK, NEW t \in Emitters, NEW from, Move(t, from, "emit"),
         NEW s \in Seq(Events), s # <<>>, pend' = [pend EXCEPT ![t] = s]
  PROVE  ThreadType'
<1>1. "emit" \in ThreadStates
  BY DEF ThreadStates
<1>2. /\ at'[t] = "emit"
      /\ at' \in [Emitters -> ThreadStates]
      /\ \A u \in Emitters : u # t => at'[u] = at[u]
  BY <1>1, MoveFacts
<1> QED
  BY <1>2, TypeParts DEF ThreadType

\* A step of a thread that emits nothing.
LEMMA KeepQuiet ==
  ASSUME TypeOK, NEW t \in Emitters, NEW from, NEW to \in ThreadStates,
         Move(t, from, to), pend' = pend,
         from \in {"emit", "push"} <=> to \in {"emit", "push"}
  PROVE  ThreadType'
<1>1. /\ at[t] = from /\ at'[t] = to
      /\ at' \in [Emitters -> ThreadStates]
      /\ \A u \in Emitters : u # t => at'[u] = at[u]
  BY MoveFacts
<1> QED
  BY <1>1, TypeParts DEF ThreadType

\* An event is emitted, or dropped, and the next one is due, if there is one.
LEMMA EmitNext ==
  ASSUME TypeOK, NEW t \in Emitters, NEW from \in {"emit", "push"},
         Move(t, from, IF Len(pend[t]) = 1 THEN "test" ELSE "emit"),
         pend' = [pend EXCEPT ![t] = Tail(@)]
  PROVE  ThreadType' /\ Head(pend[t]) \in Events
<1>1. PICK to \in {"test", "emit"} :
        Move(t, from, to) /\ (to = "test" <=> Len(pend[t]) = 1)
  BY DEF Move
<1>2. /\ at[t] = from /\ at'[t] = to
      /\ at' \in [Emitters -> ThreadStates]
      /\ \A u \in Emitters : u # t => at'[u] = at[u]
  BY <1>1, MoveFacts DEF ThreadStates
<1>3. pend[t] \in Seq(Events) /\ pend[t] # <<>>
  BY <1>2, TypeParts DEF ThreadType
<1>4. /\ Head(pend[t]) \in Events
      /\ Tail(pend[t]) \in Seq(Events)
      /\ Len(pend[t]) = 1 <=> Tail(pend[t]) = <<>>
  BY <1>3, TailFacts
<1>5. /\ pend'[t] = Tail(pend[t])
      /\ pend' \in [Emitters -> Seq(Events)]
      /\ \A u \in Emitters : u # t => pend'[u] = pend[u]
  BY <1>4, TypeParts DEF ThreadType
<1>6. at'[t] \in {"emit", "push"} <=> pend'[t] # <<>>
  BY <1>1, <1>2, <1>4, <1>5
<1> QED
  BY <1>2, <1>4, <1>5, <1>6, TypeParts DEF ThreadType

LEMMA OthersType ==
  ASSUME TypeOK,
         \/ \E t \in Workers : Worker(t) \/ WorkerTimeout(t) \/ WorkerSpurious(t)
         \/ Evaluate
         \/ \E t \in Emitters : Emit(t)
         \/ Deliver
         \/ Complete
  PROVE  TypeOK'
<1>0. OwnerType /\ ThreadType /\ DispatchType
  BY TypeParts
<1>1. UNCHANGED client => OwnerType'
  BY <1>0 DEF client, OwnerType
<1>2. UNCHANGED <<fates, dispatch>> => DispatchType'
  BY <1>0 DEF dispatch, fates, DispatchType
<1>3. ASSUME NEW t \in Workers,
             \/ WorkerTest(t) \/ WorkerBlock(t) \/ WorkQuietly(t)
             \/ WorkerTimeout(t) \/ WorkerSpurious(t)
      PROVE  TypeOK'
  <2>1. UNCHANGED <<client, fates, dispatch>> /\ pend' = pend
    BY <1>3 DEF WorkerTest, WorkerBlock, WorkQuietly, WorkerTimeout, WorkerSpurious
  <2>2. PICK from \in {"test", "arming", "blocked", "busy"},
             to \in {"exited", "arming", "busy", "blocked", "test"} :
          Move(t, from, to)
    BY <1>3 DEF WorkerTest, WorkerBlock, WorkQuietly, WorkerTimeout, WorkerSpurious
  <2>3. ThreadType'
    BY <2>1, <2>2, Names, KeepQuiet DEF ThreadStates
  <2> QED
    BY <1>1, <1>2, <2>1, <2>3, TypeNext
<1>4. ASSUME NEW t \in Workers, WorkFails(t)
      PROVE  TypeOK'
  <2>1. UNCHANGED <<client, fates, dispatch>>
    BY <1>4 DEF WorkFails
  <2>2. <<"error">> \in Seq(Events) /\ <<"error">> # <<>>
    BY DEF Events
  <2>3. ThreadType'
    BY <1>4, <2>2, Names, BeginEmitting DEF WorkFails
  <2> QED
    BY <1>1, <1>2, <2>1, <2>3, TypeNext
<1>5. CASE FetchToggles
  <2>1. PICK s \in {<<"update">>, <<"ready", "update">>} :
          pend' = [pend EXCEPT !["polling"] = s]
    BY <1>5 DEF FetchToggles
  <2>2. s \in Seq(Events) /\ s # <<>>
    <3>1. "update" \in Events /\ "ready" \in Events
      BY DEF Events
    <3>2. CASE s = <<"ready", "update">>
      BY <3>1, <3>2
    <3>3. CASE s = <<"update">>
      BY <3>1, <3>3
    <3> QED
      BY <3>2, <3>3
  <2>3. ThreadType'
    BY <1>5, <2>1, <2>2, Names, BeginEmitting DEF FetchToggles
  <2>4. UNCHANGED <<fates, dispatch>>
    BY <1>5 DEF FetchToggles
  <2>5. OwnerType'
    BY <1>0, <1>5 DEF FetchToggles, OwnerType
  <2> QED
    BY <1>2, <2>3, <2>4, <2>5, TypeNext
<1>6. CASE Evaluate
  <2>1. UNCHANGED <<client, fates, dispatch>>
    BY <1>6 DEF Evaluate
  <2>2. <<"impression">> \in Seq(Events) /\ <<"impression">> # <<>>
    BY DEF Events
  <2>3. ThreadType'
    BY <1>6, <2>2, Names, BeginEmitting DEF Evaluate
  <2> QED
    BY <1>1, <1>2, <2>1, <2>3, TypeNext
<1>7. ASSUME NEW t \in Emitters, EmitTest(t)
      PROVE  TypeOK'
  <2>1. UNCHANGED <<client, fates, dispatch>>
    BY <1>7 DEF EmitTest
  <2>2. CASE open
    <3>1. Move(t, "emit", "push") /\ pend' = pend
      BY <1>7, <2>2 DEF EmitTest
    <3>2. ThreadType'
      BY <3>1, KeepQuiet DEF ThreadStates
    <3> QED
      BY <1>1, <1>2, <2>1, <3>2, TypeNext
  <2>3. CASE ~open
    <3>1. ThreadType'
      BY <1>7, <2>3, EmitNext DEF EmitTest
    <3> QED
      BY <1>1, <1>2, <2>1, <3>1, TypeNext
  <2> QED
    BY <2>2, <2>3
<1>8. ASSUME NEW t \in Emitters, EmitPush(t)
      PROVE  TypeOK'
  <2>1. UNCHANGED <<client, heard>>
    BY <1>8 DEF EmitPush
  <2>2. ThreadType' /\ Head(pend[t]) \in Events
    BY <1>8, EmitNext DEF EmitPush
  <2>3. CASE UNCHANGED dispatch /\ lost' = lost \cup ({Head(pend[t])} \cap Announcements)
    <3>1. DispatchType'
      BY <1>0, <2>1, <2>3 DEF dispatch, DispatchType
    <3> QED
      BY <1>1, <2>1, <2>2, <3>1, TypeNext
  <2>4. CASE Handler!Accept(Head(pend[t])) /\ lost' = lost
    <3>1. [id |-> accepted + 1, cb |-> Head(pend[t])] \in Message
      BY <1>0, <2>2 DEF DispatchType, Message
    <3>2. mailbox' \in Seq(Message)
      <4>1. mailbox \in Seq(Message)
        BY <1>0 DEF DispatchType
      <4>2. mailbox' = Append(mailbox, [id |-> accepted + 1, cb |-> Head(pend[t])])
        BY <2>4 DEF Handler!Accept
      <4> QED
        BY <3>1, <4>1, <4>2, AppendType
    <3>3. accepted' \in Nat
      BY <1>0, <2>4 DEF Handler!Accept, DispatchType
    <3>4. UNCHANGED <<open, alive, active, task, heard, lost>>
      BY <2>1, <2>4 DEF Handler!Accept
    <3>5. DispatchType'
      BY <1>0, <3>2, <3>3, <3>4 DEF DispatchType
    <3> QED
      BY <1>1, <2>1, <2>2, <3>5, TypeNext
  <2> QED
    BY <1>8, <2>3, <2>4 DEF EmitPush
<1>9. CASE Deliver
  <2>1. UNCHANGED <<client, threads>>
    BY <1>9 DEF Deliver
  <2>2. ThreadType'
    BY <1>0, <2>1 DEF threads, ThreadType
  <2>3. mailbox \in Seq(Message) /\ mailbox # <<>>
    BY <1>0, <1>9 DEF Deliver, Handler!Deliver, DispatchType
  <2>4. Head(mailbox) \in Message /\ Tail(mailbox) \in Seq(Message)
    BY <2>3, TailFacts
  <2>5. mailbox' \in Seq(Message) /\ task' \in Message
    BY <1>9, <2>4 DEF Deliver, Handler!Deliver
  <2>6. heard' \subseteq Announcements /\ lost' \subseteq Announcements
    BY <1>0, <1>9 DEF Deliver, DispatchType
  <2>7. active' = TRUE /\ UNCHANGED <<open, alive, accepted>>
    BY <1>9 DEF Deliver, Handler!Deliver
  <2>8. DispatchType'
    BY <1>0, <2>5, <2>6, <2>7 DEF DispatchType
  <2> QED
    BY <1>1, <2>1, <2>2, <2>8, TypeNext
<1>10. CASE Complete
  <2>1. UNCHANGED <<client, threads, fates>> /\ Handler!Complete
    BY <1>10 DEF Complete
  <2>2. ThreadType'
    BY <1>0, <2>1 DEF threads, ThreadType
  <2>3. DispatchType'
    BY <1>0, <2>1, HandlerType DEF fates, DispatchType
  <2> QED
    BY <1>1, <2>1, <2>2, <2>3, TypeNext
<1> QED
  BY <1>3, <1>4, <1>5, <1>6, <1>7, <1>8, <1>9, <1>10, Names
  DEF Worker, Work, Emit

LEMMA TypeStep ==
  ASSUME TypeOK, [Next]_vars
  PROVE  TypeOK'
<1>1. CASE UNCHANGED vars
  <2>1. OwnerType /\ ThreadType /\ DispatchType
    BY TypeParts
  <2>2. UNCHANGED <<client, threads, fates, dispatch>>
    BY <1>1 DEF vars
  <2>3. OwnerType'
    BY <2>1, <2>2 DEF client, OwnerType
  <2>4. ThreadType'
    BY <2>1, <2>2 DEF threads, ThreadType
  <2>5. DispatchType'
    BY <2>1, <2>2 DEF dispatch, fates, DispatchType
  <2> QED
    BY <2>3, <2>4, <2>5, TypeNext
<1>2. CASE StartCall \/ StartStep \/ StopCall \/ StopStep
  BY <1>2, OwnerStepType, OwnerStepThreads, OwnerStepDispatch, TypeNext
<1> QED
  BY <1>1, <1>2, OthersType DEF Next

\* Every variable keeps its type; a thread that is emitting has something to
\* emit, and every queued event is of a kind there is.
THEOREM TypeCorrect == SafeSpec => []TypeOK
<1>1. TypeOK /\ [Next]_vars => TypeOK'
  BY TypeStep
<1> QED
  BY <1>1, TypeInit, PTL DEF SafeSpec
-----------------------------------------------------------------------------
(* The phases of start() and stop().                                       *)

\* Is the client started, and the owner in none of its calls?
Settled == call = "idle" /\ running

\* The phases in which the dispatcher is open, has its thread, in which each
\* worker has its thread, and in which nobody, or everybody, is told to exit.
OpenPhase  == {"launch", "spawn metrics", "spawn polling", "running", "signal",
               "notify metrics", "notify polling", "join metrics",
               "join polling", "close"}
AlivePhase == (OpenPhase \ {"launch"}) \cup {"drop", "halt"}
MetricsPhase == {"spawn polling", "running", "signal", "notify metrics",
                 "notify polling", "join metrics"}
PollingPhase == (MetricsPhase \ {"spawn polling"}) \cup {"join polling"}
ServePhase == {"open", "launch", "spawn metrics", "spawn polling", "running",
               "signal"}
TellPhase == {"notify metrics", "notify polling", "join metrics", "join polling"}

PhaseInv ==
  /\ open <=> Settled \/ call \in OpenPhase
  /\ alive <=> Settled \/ call \in AlivePhase
  /\ at["metrics"] # "none" <=> Settled \/ call \in MetricsPhase
  /\ at["polling"] # "none" <=> Settled \/ call \in PollingPhase
  /\ Settled \/ call \in ServePhase => ~exit
  /\ call \in TellPhase => exit

LEMMA PhaseInit == Init => PhaseInv
<1> SUFFICES ASSUME Init PROVE PhaseInv
  OBVIOUS
<1>1. ~Settled /\ call = "idle"
  BY DEF Init, Settled
<1>2. at["metrics"] = "none" /\ at["polling"] = "none"
  BY Names DEF Init
<1>4. ~open /\ ~alive
  BY DEF Init, Handler!Init
<1> QED
  BY <1>1, <1>2, <1>4
  DEF PhaseInv, OpenPhase, AlivePhase, MetricsPhase, PollingPhase, ServePhase,
      TellPhase

\* A step that only moves threads, and none of them to where it starts or ends,
\* is of no concern to the phases.
LEMMA PhaseThreads ==
  ASSUME TypeOK, PhaseInv,
         UNCHANGED <<running, call, exit, open, alive, enabled>>,
         NEW t \in Emitters, NEW from, NEW to \in ThreadStates,
         Move(t, from, to), from # "none", to # "none"
  PROVE  PhaseInv'
<1>1. /\ at[t] = from /\ at'[t] = to
      /\ \A u \in Emitters : u # t => at'[u] = at[u]
  BY MoveFacts
<1>2. \A u \in Emitters : at[u] = "none" <=> at'[u] = "none"
  BY <1>1
<1>4. Settled' <=> Settled
  BY DEF Settled
<1> QED
  BY <1>2, <1>4, Names DEF PhaseInv

LEMMA PhaseOthers ==
  ASSUME TypeOK, PhaseInv,
         \/ UNCHANGED vars
         \/ \E t \in Workers : Worker(t) \/ WorkerTimeout(t) \/ WorkerSpurious(t)
         \/ Evaluate
         \/ \E t \in Emitters : Emit(t)
         \/ Deliver
         \/ Complete
  PROVE  PhaseInv'
<1>1. CASE UNCHANGED vars \/ Deliver \/ Complete
  <2>1. UNCHANGED <<running, call, exit, open, alive, enabled, at>>
    BY <1>1 DEF vars, client, threads, dispatch, Deliver, Complete,
                Handler!Deliver, Handler!Complete
  <2>2. Settled' <=> Settled
    BY <2>1 DEF Settled
  <2> QED
    BY <2>1, <2>2 DEF PhaseInv
<1>2. ASSUME NEW t \in Workers,
             \/ WorkerTest(t) \/ WorkerBlock(t) \/ Work(t)
             \/ WorkerTimeout(t) \/ WorkerSpurious(t)
      PROVE  PhaseInv'
  <2>1. UNCHANGED <<running, call, exit, open, alive, enabled>>
    BY <1>2 DEF WorkerTest, WorkerBlock, Work, WorkQuietly, WorkFails, FetchToggles,
                WorkerTimeout, WorkerSpurious, client, dispatch
  <2>2. PICK u \in Emitters, from \in {"test", "arming", "blocked", "busy"},
             to \in {"exited", "arming", "busy", "blocked", "test", "emit"} :
          Move(u, from, to)
    BY <1>2, Names
    DEF WorkerTest, WorkerBlock, Work, WorkQuietly, WorkFails, FetchToggles,
        WorkerTimeout, WorkerSpurious
  <2> QED
    BY <2>1, <2>2, PhaseThreads DEF ThreadStates
<1>3. CASE Evaluate
  <2>1. /\ UNCHANGED <<running, call, exit, open, alive, enabled>>
        /\ Move("app", "test", "emit")
    BY <1>3 DEF Evaluate, client, dispatch
  <2> QED
    BY <2>1, Names, PhaseThreads DEF ThreadStates
<1>4. ASSUME NEW t \in Emitters, EmitTest(t) \/ EmitPush(t)
      PROVE  PhaseInv'
  <2>1. UNCHANGED <<running, call, exit, open, alive, enabled>>
    BY <1>4 DEF EmitTest, EmitPush, client, dispatch, Handler!Accept
  <2>2. PICK from \in {"emit", "push"}, to \in {"push", "emit", "test"} :
          Move(t, from, to)
    BY <1>4 DEF EmitTest, EmitPush
  <2> QED
    BY <2>1, <2>2, PhaseThreads DEF ThreadStates
<1> QED
  BY <1>1, <1>2, <1>3, <1>4 DEF Worker, Emit

LEMMA PhaseStart ==
  ASSUME TypeOK, PhaseInv, StartCall \/ StartStep
  PROVE  PhaseInv'
<1> USE DEF OpenPhase, AlivePhase, MetricsPhase, PollingPhase, ServePhase,
            TellPhase, Settled, Goto
<1>1. CASE StartCall
  BY <1>1 DEF StartCall, PhaseInv, threads, dispatch
<1>2. CASE StartAnnounce
  <2>1. /\ at'["metrics"] = at["metrics"] /\ at'["polling"] = at["polling"]
    BY <1>2, Names DEF StartAnnounce, Move
  <2> QED
    BY <1>2, <2>1 DEF StartAnnounce, PhaseInv, dispatch
<1>3. CASE StartReady
  BY <1>3 DEF StartReady, PhaseInv, threads, dispatch
<1>4. CASE StartClear
  BY <1>4 DEF StartClear, PhaseInv, threads, dispatch
<1>5. CASE StartHandler
  <2>1. CASE call = "open"
    <3>1. call' = "launch" /\ Handler!Open
      BY <1>5, <2>1 DEF StartHandler
    <3>2. open' = TRUE /\ alive' = alive
      BY <3>1 DEF Handler!Open
    <3>3. UNCHANGED <<running, exit, enabled, at>>
      BY <1>5 DEF StartHandler, threads
    <3> QED
      BY <2>1, <3>1, <3>2, <3>3 DEF PhaseInv
  <2>2. CASE call = "launch"
    <3>1. call' = "spawn metrics" /\ Handler!Launch
      BY <1>5, <2>2 DEF StartHandler
    <3>2. alive' = TRUE /\ open' = open
      BY <3>1 DEF Handler!Launch
    <3>3. UNCHANGED <<running, exit, enabled, at>>
      BY <1>5 DEF StartHandler, threads
    <3> QED
      BY <2>2, <3>1, <3>2, <3>3 DEF PhaseInv
  <2> QED
    BY <1>5, <2>1, <2>2 DEF StartHandler
<1>6. CASE StartWorkers
  <2>1. CASE call = "spawn metrics"
    <3>1. /\ at'["metrics"] # "none" /\ at'["polling"] = at["polling"]
      BY <1>6, <2>1, Names DEF StartWorkers, Entry, Move, TypeOK
    <3> QED
      BY <1>6, <2>1, <3>1 DEF StartWorkers, PhaseInv, dispatch
  <2>2. CASE call = "spawn polling"
    <3>1. /\ at'["polling"] # "none" /\ at'["metrics"] = at["metrics"]
      BY <1>6, <2>2, Names DEF StartWorkers, Entry, Move, TypeOK
    <3> QED
      BY <1>6, <2>2, <3>1 DEF StartWorkers, PhaseInv, dispatch
  <2> QED
    BY <1>6, <2>1, <2>2 DEF StartWorkers
<1>7. CASE StartReturn
  BY <1>7 DEF StartReturn, PhaseInv, threads, dispatch
<1> QED
  BY <1>1, <1>2, <1>3, <1>4, <1>5, <1>6, <1>7 DEF StartStep

LEMMA PhaseStop ==
  ASSUME TypeOK, PhaseInv, StopCall \/ StopStep
  PROVE  PhaseInv'
<1> USE DEF OpenPhase, AlivePhase, MetricsPhase, PollingPhase, ServePhase,
            TellPhase, Settled, Goto
<1>1. CASE StopCall
  BY <1>1 DEF StopCall, PhaseInv, threads, dispatch
<1>2. CASE StopSignal
  BY <1>2 DEF StopSignal, PhaseInv, threads, dispatch
<1>3. CASE StopNotify
  <2>1. PICK t \in Workers : Notify(t)
    BY <1>3, Names DEF StopNotify
  <2>2. \A u \in Emitters :
          at'[u] = at[u] \/ (at[u] = "blocked" /\ at'[u] = "test")
    BY <2>1, Names, NotifyFacts
  <2>3. /\ at'["metrics"] # "none" <=> at["metrics"] # "none"
        /\ at'["polling"] # "none" <=> at["polling"] # "none"
    BY <2>2, Names
  <2> QED
    BY <1>3, <2>3 DEF StopNotify, PhaseInv, dispatch
<1>4. CASE StopJoin
  <2>1. CASE call = "join metrics"
    <3>1. /\ at'["metrics"] = "none" /\ at'["polling"] = at["polling"]
      BY <1>4, <2>1, Names DEF StopJoin, Move, TypeOK
    <3> QED
      BY <1>4, <2>1, <3>1 DEF StopJoin, PhaseInv, dispatch
  <2>2. CASE call = "join polling"
    <3>1. /\ at'["polling"] = "none" /\ at'["metrics"] = at["metrics"]
      BY <1>4, <2>2, Names DEF StopJoin, Move, TypeOK
    <3> QED
      BY <1>4, <2>2, <3>1 DEF StopJoin, PhaseInv, dispatch
  <2> QED
    BY <1>4, <2>1, <2>2 DEF StopJoin
<1>5. CASE StopHandler
  <2>1. CASE call = "close"
    <3>1. call' = "drop" /\ Handler!Close
      BY <1>5, <2>1 DEF StopHandler
    <3>2. open' = FALSE /\ alive' = alive
      BY <3>1 DEF Handler!Close
    <3>3. UNCHANGED <<running, exit, enabled, at>>
      BY <1>5 DEF StopHandler, threads
    <3> QED
      BY <2>1, <3>1, <3>2, <3>3 DEF PhaseInv
  <2>2. CASE call = "halt"
    <3>1. call' = "stopped" /\ Handler!Halt
      BY <1>5, <2>2 DEF StopHandler
    <3>2. alive' = FALSE /\ open' = open
      BY <3>1 DEF Handler!Halt
    <3>3. UNCHANGED <<running, exit, enabled, at>>
      BY <1>5 DEF StopHandler, threads
    <3> QED
      BY <2>2, <3>1, <3>2, <3>3 DEF PhaseInv
  <2> QED
    BY <1>5, <2>1, <2>2 DEF StopHandler
<1>6. CASE StopReturn
  BY <1>6 DEF StopReturn, PhaseInv, threads, dispatch
<1>7. CASE StopDrop
  BY <1>7 DEF StopDrop, PhaseInv, threads, Handler!Drop
<1> QED
  BY <1>1, <1>2, <1>3, <1>4, <1>5, <1>6, <1>7 DEF StopStep

\* A worker that is not enabled does nothing; one that is exits when told.
WorkerInv ==
  /\ \A t \in Workers \ enabled : at[t] \in {"none", "exited"}
  /\ \A t \in enabled : at[t] = "exited" => exit

LEMMA WorkerMove ==
  ASSUME TypeOK, WorkerInv, UNCHANGED <<enabled, exit>>,
         NEW t \in Emitters, NEW from, NEW to \in ThreadStates, Move(t, from, to),
         t \in Workers \ enabled =>
           from \notin {"none", "exited"} \/ to \in {"none", "exited"},
         t \in enabled => (to = "exited" => exit)
  PROVE  WorkerInv'
<1>1. /\ at[t] = from /\ at'[t] = to
      /\ \A u \in Emitters : u # t => at'[u] = at[u]
  BY MoveFacts
<1>2. enabled \subseteq Workers
  BY DEF TypeOK
<1> QED
  BY <1>1, <1>2, Names DEF WorkerInv

LEMMA WorkerStart ==
  ASSUME TypeOK, PhaseInv, WorkerInv, StartCall \/ StartStep
  PROVE  WorkerInv'
<1>1. CASE UNCHANGED <<at, exit, enabled>>
  BY <1>1 DEF WorkerInv
<1>2. CASE StartAnnounce
  <2>1. Move("owner", "test", "emit") /\ UNCHANGED <<exit, enabled>>
    BY <1>2 DEF StartAnnounce
  <2>2. "owner" \notin Workers /\ "owner" \notin enabled
    BY DEF Workers, TypeOK
  <2> QED
    BY <2>1, <2>2, Names, WorkerMove DEF ThreadStates
<1>3. CASE StartClear
  <2>1. at["metrics"] = "none" /\ at["polling"] = "none"
    BY <1>3 DEF StartClear, Goto, PhaseInv, Settled, MetricsPhase, PollingPhase
  <2>2. \A t \in Workers : at[t] = "none"
    BY <2>1, Names
  <2>3. UNCHANGED <<at, enabled>> /\ enabled \subseteq Workers
    BY <1>3 DEF StartClear, threads, TypeOK
  <2> QED
    BY <2>2, <2>3 DEF WorkerInv
<1>4. CASE StartWorkers
  <2>1. UNCHANGED <<exit, enabled>>
    BY <1>4 DEF StartWorkers
  <2>2. PICK t \in Workers, to \in {"test", "busy", "exited"} :
          Move(t, "none", to) /\ (to = "exited" <=> t \notin enabled)
    BY <1>4, Names DEF StartWorkers, Entry
  <2> QED
    BY <2>1, <2>2, Names, WorkerMove DEF ThreadStates
<1> QED
  BY <1>1, <1>2, <1>3, <1>4
  DEF StartCall, StartStep, StartReady, StartHandler, StartReturn, threads

LEMMA WorkerStop ==
  ASSUME TypeOK, WorkerInv, StopCall \/ StopStep
  PROVE  WorkerInv'
<1>1. CASE UNCHANGED <<at, enabled, exit>>
  BY <1>1 DEF WorkerInv
<1>2. CASE StopNotify
  <2>1. UNCHANGED <<exit, enabled>> /\ enabled \subseteq Workers
    BY <1>2 DEF StopNotify, TypeOK
  <2>2. PICK t \in Workers : Notify(t)
    BY <1>2, Names DEF StopNotify
  <2>3. \A u \in Emitters :
          at'[u] = at[u] \/ (at[u] = "blocked" /\ at'[u] = "test")
    BY <2>2, Names, NotifyFacts
  <2> QED
    BY <2>1, <2>3, Names DEF WorkerInv
<1>3. CASE StopJoin
  <2>1. UNCHANGED <<exit, enabled>>
    BY <1>3 DEF StopJoin
  <2>2. PICK t \in Workers : Move(t, "exited", "none")
    BY <1>3, Names DEF StopJoin
  <2> QED
    BY <2>1, <2>2, Names, WorkerMove DEF ThreadStates
<1>4. CASE StopSignal
  <2>1. UNCHANGED <<at, enabled>> /\ exit' = TRUE
    BY <1>4 DEF StopSignal, threads
  <2> QED
    BY <2>1 DEF WorkerInv
<1> QED
  BY <1>1, <1>2, <1>3, <1>4
  DEF StopCall, StopStep, StopHandler, StopDrop, StopReturn, threads

LEMMA WorkerOthers ==
  ASSUME TypeOK, WorkerInv,
         \/ UNCHANGED vars
         \/ \E t \in Workers : Worker(t) \/ WorkerTimeout(t) \/ WorkerSpurious(t)
         \/ Evaluate
         \/ \E t \in Emitters : Emit(t)
         \/ Deliver
         \/ Complete
  PROVE  WorkerInv'
<1>1. CASE UNCHANGED vars \/ Deliver \/ Complete
  <2>1. UNCHANGED <<at, exit, enabled>>
    BY <1>1 DEF vars, client, threads, Deliver, Complete
  <2> QED
    BY <2>1 DEF WorkerInv
<1>2. ASSUME NEW t \in Workers,
             \/ WorkerTest(t) \/ WorkerBlock(t) \/ Work(t)
             \/ WorkerTimeout(t) \/ WorkerSpurious(t)
      PROVE  WorkerInv'
  <2>1. UNCHANGED <<exit, enabled>>
    BY <1>2 DEF WorkerTest, WorkerBlock, Work, WorkQuietly, WorkFails, FetchToggles,
                WorkerTimeout, WorkerSpurious, client
  <2>2. PICK u \in Emitters, from \in {"test", "arming", "blocked", "busy"},
             to \in {"exited", "arming", "busy", "blocked", "test", "emit"} :
          Move(u, from, to) /\ (to = "exited" => exit)
    BY <1>2, Names
    DEF WorkerTest, WorkerBlock, Work, WorkQuietly, WorkFails, FetchToggles,
        WorkerTimeout, WorkerSpurious
  <2> QED
    BY <2>1, <2>2, WorkerMove DEF ThreadStates
<1>3. CASE Evaluate
  <2>1. UNCHANGED <<exit, enabled>> /\ Move("app", "test", "emit")
    BY <1>3 DEF Evaluate, client
  <2> QED
    BY <2>1, Names, WorkerMove DEF ThreadStates
<1>4. ASSUME NEW t \in Emitters, EmitTest(t) \/ EmitPush(t)
      PROVE  WorkerInv'
  <2>1. UNCHANGED <<exit, enabled>>
    BY <1>4 DEF EmitTest, EmitPush, client
  <2>2. PICK from \in {"emit", "push"}, to \in {"push", "emit", "test"} :
          Move(t, from, to)
    BY <1>4 DEF EmitTest, EmitPush
  <2> QED
    BY <2>1, <2>2, WorkerMove DEF ThreadStates
<1> QED
  BY <1>1, <1>2, <1>3, <1>4 DEF Worker, Emit

LEMMA PhaseInductive == SafeSpec => [](TypeOK /\ PhaseInv /\ WorkerInv)
<1>1. TypeOK /\ PhaseInv /\ WorkerInv /\ [Next]_vars
        => (TypeOK /\ PhaseInv /\ WorkerInv)'
  BY TypeStep, PhaseOthers, PhaseStart, PhaseStop, WorkerOthers, WorkerStart,
     WorkerStop
  DEF Next
<1>2. Init => WorkerInv
  BY Names DEF Init, WorkerInv
<1> QED
  BY <1>1, <1>2, TypeInit, PhaseInit, PTL DEF SafeSpec

\* When stop() has returned, the workers are joined and the dispatcher is closed
\* and without its thread.
THEOREM StopIsComplete == SafeSpec => []StoppedIsQuiet
<1>1. PhaseInv => StoppedIsQuiet
  BY Names DEF PhaseInv, StoppedIsQuiet, Settled, OpenPhase, AlivePhase,
               MetricsPhase, PollingPhase
<1> QED
  BY <1>1, PhaseInductive, PTL

\* When start() has returned, be it after a stop(), everything serves.
THEOREM StartIsComplete == SafeSpec => []StartedIsServed
<1>1. TypeOK /\ PhaseInv /\ WorkerInv => StartedIsServed
  <2> SUFFICES ASSUME TypeOK, PhaseInv, WorkerInv, Settled
               PROVE  /\ open /\ alive /\ ~exit
                      /\ \A t \in Workers :
                           at[t] \notin {"none", "exited"} <=> t \in enabled
    BY DEF StartedIsServed, Settled
  <2>1. open /\ alive /\ ~exit
    BY DEF PhaseInv
  <2>2. \A t \in Workers : at[t] # "none"
    BY Names DEF PhaseInv
  <2> QED
    BY <2>1, <2>2 DEF WorkerInv
<1> QED
  BY <1>1, PhaseInductive, PTL

\* What the workers emit finds the dispatcher started.
THEOREM WorkersServed == SafeSpec => []WorkersFindHandler
<1>1. PhaseInv => WorkersFindHandler
  <2> SUFFICES ASSUME PhaseInv, NEW t \in Workers, at[t] \in {"emit", "push"}
               PROVE  open /\ alive
    BY DEF WorkersFindHandler
  <2>1. Settled \/ call \in MetricsPhase \/ call \in PollingPhase
    BY Names DEF PhaseInv
  <2> QED
    BY <2>1 DEF PhaseInv, OpenPhase, AlivePhase, MetricsPhase, PollingPhase
<1> QED
  BY <1>1, PhaseInductive, PTL

\* A client that was started has what it needs, for as long as it needs it.
THEOREM ServiceIsComplete == SafeSpec => []ServiceComplete
<1>1. StartedIsServed /\ WorkersFindHandler => ServiceComplete
  BY DEF ServiceComplete
<1> QED
  BY <1>1, StartIsComplete, WorkersServed, PTL
-----------------------------------------------------------------------------
(* The workers as their owner sees them.                                   *)

\* A worker that has a thread is told to leave when _exitThreads is set, and
\* no longer when it is joined.
LEMMA ToldIsExit ==
  ASSUME TypeOK, PhaseInv, NEW t \in enabled
  PROVE  Told(t) <=> exit /\ at[t] # "none"
<1>1. t \in Workers
  BY DEF TypeOK
<1> QED
  BY <1>1, Names
  DEF Told, PhaseInv, Settled, MetricsPhase, PollingPhase, ServePhase, TellPhase

\* A step of the client, as it looks to the owner of worker t.
Promised(t) ==
  \/ UNCHANGED <<Told(t), Shape(t)>>
  \/ /\ ~Told(t) /\ ~Told(t)'                                   \* Launch
     /\ Shape(t) = "gone" /\ Shape(t)' \in {"resting", "working"}
  \/ /\ ~Told(t) /\ Told(t)'                                    \* Tell
     /\ Shape(t) # "gone" /\ Shape(t)' = Shape(t)
  \/ /\ ~Told(t) /\ ~Told(t)'                                   \* Begin
     /\ Shape(t) = "resting" /\ Shape(t)' = "working"
  \/ /\ Told(t)' = Told(t)                                      \* Finish
     /\ Shape(t) = "working" /\ Shape(t)' = "resting"
  \/ /\ Told(t) /\ Told(t)'                                     \* Leave
     /\ Shape(t) = "resting" /\ Shape(t)' = "gone"
  \/ /\ Told(t) /\ ~Told(t)'                                    \* Join
     /\ Shape(t) = "gone" /\ Shape(t)' = "gone"

LEMMA PromiseIsWorker ==
  /\ Promised("metrics") => Metrics!Next \/ UNCHANGED Metrics!workerVars
  /\ Promised("polling") => Polling!Next \/ UNCHANGED Polling!workerVars
<1>1. \A t \in Workers : Told(t) \in BOOLEAN /\ Told(t)' \in BOOLEAN
  BY DEF Told
<1>2. Promised("metrics") => Metrics!Next \/ UNCHANGED Metrics!workerVars
  BY <1>1, Names
  DEF Promised, Metrics!Next, Metrics!workerVars, Metrics!Launch, Metrics!Tell,
      Metrics!Begin, Metrics!Finish, Metrics!Leave, Metrics!Join
<1>3. Promised("polling") => Polling!Next \/ UNCHANGED Polling!workerVars
  BY <1>1, Names
  DEF Promised, Polling!Next, Polling!workerVars, Polling!Launch, Polling!Tell,
      Polling!Begin, Polling!Finish, Polling!Leave, Polling!Join
<1> QED
  BY <1>2, <1>3

LEMMA PromiseOwner ==
  ASSUME TypeOK, PhaseInv, WorkerInv, NEW t \in enabled,
         StartCall \/ StartStep \/ StopCall \/ StopStep
  PROVE  Promised(t)
<1>0. t \in Workers /\ t \in Emitters
  BY Names DEF TypeOK
<1>1. ASSUME at'[t] = at[t], enabled' = enabled,
             call \notin TellPhase, call' \notin TellPhase
      PROVE  Promised(t)
  BY <1>1 DEF Promised, Told, Shape, TellPhase
<1>2. CASE StartCall \/ StopCall
  BY <1>1, <1>2 DEF StartCall, StopCall, Goto, threads, TellPhase
<1>3. CASE StartAnnounce
  <2>1. at'[t] = at[t]
    BY <1>0, <1>3, Names DEF StartAnnounce, Move, TypeOK
  <2> QED
    BY <1>1, <1>3, <2>1 DEF StartAnnounce, Goto, TellPhase
<1>4. CASE StartReady \/ StartClear \/ StartReturn \/ StopDrop \/ StopReturn
  BY <1>1, <1>4
  DEF StartReady, StartClear, StartReturn, StopDrop, StopReturn, Goto, threads,
      TellPhase
<1>5. CASE StartHandler \/ StopHandler
  BY <1>1, <1>5 DEF StartHandler, StopHandler, Goto, threads, TellPhase
<1>6. CASE StartWorkers
  <2>1. PICK u \in Workers, to \in {"test", "busy", "exited"} :
          Move(u, "none", to) /\ (u \in enabled => to # "exited")
    BY <1>6, Names DEF StartWorkers, Entry
  <2>2. at'[t] = at[t] \/ (at[t] = "none" /\ at'[t] \in {"test", "busy"})
    BY <1>0, <2>1, MoveFacts, Names DEF ThreadStates
  <2>3. call \notin TellPhase /\ call' \notin TellPhase /\ enabled' = enabled
    BY <1>6 DEF StartWorkers, Goto, TellPhase
  <2> QED
    BY <2>2, <2>3 DEF Promised, Told, Shape, TellPhase
<1>7. CASE StopSignal
  <2>1. at'[t] = at[t] /\ at[t] \notin {"none", "exited"}
    BY <1>0, <1>7, Names
    DEF StopSignal, Goto, threads, PhaseInv, WorkerInv, ServePhase, MetricsPhase,
        PollingPhase
  <2>2. ~Told(t) /\ Told(t)'
    BY <1>0, <1>7 DEF StopSignal, Goto, Told
  <2>3. at[t] \in ThreadStates
    BY <1>0 DEF TypeOK
  <2> QED
    BY <2>1, <2>2, <2>3 DEF Promised, Shape, ThreadStates
<1>8. CASE StopNotify
  <2>1. PICK u \in Workers : Notify(u)
    BY <1>8, Names DEF StopNotify
  <2>2. at'[t] = at[t] \/ (at[t] = "blocked" /\ at'[t] = "test")
    BY <1>0, <2>1, Names, NotifyFacts
  <2>3. Told(t) /\ Told(t)'
    BY <1>8 DEF StopNotify, Goto, Told
  <2> QED
    BY <2>2, <2>3 DEF Promised, Shape
<1>9. CASE StopJoin
  <2>1. CASE call = "join metrics"
    <3>1. call' = "join polling" /\ Move("metrics", "exited", "none")
      BY <1>9, <2>1 DEF StopJoin, Goto
    <3>2. enabled' = enabled
      BY <1>9 DEF StopJoin
    <3>3. CASE t = "metrics"
      <4>1. at[t] = "exited" /\ at'[t] = "none"
        BY <3>1, <3>3, MoveFacts, Names DEF ThreadStates
      <4> QED
        BY <2>1, <3>1, <3>2, <3>3, <4>1 DEF Promised, Told, Shape
    <3>4. CASE t = "polling"
      <4>1. at'[t] = at[t]
        BY <3>1, <3>4, MoveFacts, Names DEF ThreadStates
      <4> QED
        BY <2>1, <3>1, <3>2, <3>4, <4>1 DEF Promised, Told, Shape
    <3> QED
      BY <1>0, <3>3, <3>4, Names
  <2>2. CASE call = "join polling"
    <3>1. call' = "close" /\ Move("polling", "exited", "none")
      BY <1>9, <2>2 DEF StopJoin, Goto
    <3>2. enabled' = enabled
      BY <1>9 DEF StopJoin
    <3>3. CASE t = "polling"
      <4>1. at[t] = "exited" /\ at'[t] = "none"
        BY <3>1, <3>3, MoveFacts, Names DEF ThreadStates
      <4> QED
        BY <2>2, <3>1, <3>2, <3>3, <4>1 DEF Promised, Told, Shape
    <3>4. CASE t = "metrics"
      <4>1. at'[t] = at[t]
        BY <3>1, <3>4, MoveFacts, Names DEF ThreadStates
      <4> QED
        BY <2>2, <3>1, <3>2, <3>4, <4>1 DEF Promised, Told, Shape
    <3> QED
      BY <1>0, <3>3, <3>4, Names
  <2> QED
    BY <1>9, <2>1, <2>2 DEF StopJoin, Goto
<1> QED
  BY <1>2, <1>3, <1>4, <1>5, <1>6, <1>7, <1>8, <1>9 DEF StartStep, StopStep

\* The steps of the threads and of the application leave the owner alone.
LEMMA OthersAt ==
  ASSUME TypeOK,
         \/ \E t \in Workers : Worker(t) \/ WorkerTimeout(t) \/ WorkerSpurious(t)
         \/ Evaluate
         \/ \E t \in Emitters : Emit(t)
         \/ Deliver
         \/ Complete,
         NEW t \in Workers
  PROVE  /\ UNCHANGED <<call, exit, enabled>>
         /\ \/ at'[t] = at[t]
            \/ at[t] = "test" /\ at'[t] = "exited" /\ exit
            \/ at[t] = "test" /\ at'[t] \in {"arming", "busy"} /\ ~exit
            \/ at[t] = "arming" /\ at'[t] = "blocked"
            \/ at[t] = "blocked" /\ at'[t] = "exited" /\ exit
            \/ at[t] = "blocked" /\ at'[t] = "busy" /\ ~exit
            \/ at[t] = "blocked" /\ at'[t] = "test"
            \/ at[t] = "busy" /\ at'[t] \in {"test", "emit"}
            \/ at[t] = "emit" /\ at'[t] \in {"push", "emit", "test"}
            \/ at[t] = "push" /\ at'[t] \in {"emit", "test"}
<1>0. t \in Emitters
  BY Names
<1>1. CASE Deliver \/ Complete
  BY <1>1 DEF Deliver, Complete, client, threads
<1>2. CASE Evaluate
  <2>1. Move("app", "test", "emit") /\ UNCHANGED <<call, exit, enabled>>
    BY <1>2 DEF Evaluate, client
  <2> QED
    BY <1>0, <2>1, MoveFacts, Names DEF ThreadStates
<1>3. ASSUME NEW u \in Workers,
             \/ WorkerTest(u) \/ WorkerBlock(u) \/ Work(u)
             \/ WorkerTimeout(u) \/ WorkerSpurious(u)
      PROVE  /\ UNCHANGED <<call, exit, enabled>>
             /\ \E from \in {"test", "arming", "blocked", "busy"},
                   to \in {"exited", "arming", "busy", "blocked", "test", "emit"} :
                  /\ Move(u, from, to)
                  /\ from = "test" => to \in {"exited", "arming", "busy"}
                  /\ from = "arming" => to = "blocked"
                  /\ from = "blocked" => to \in {"exited", "busy", "test"}
                  /\ from = "busy" => to \in {"test", "emit"}
                  /\ to = "exited" => exit
                  /\ to \in {"arming", "busy"} => ~exit
  <2>1. UNCHANGED <<call, exit, enabled>>
    BY <1>3 DEF WorkerTest, WorkerBlock, Work, WorkQuietly, WorkFails, FetchToggles,
                WorkerTimeout, WorkerSpurious, client
  <2>2. CASE WorkerTest(u)
    BY <2>1, <2>2 DEF WorkerTest
  <2>3. CASE WorkerBlock(u)
    BY <2>1, <2>3 DEF WorkerBlock
  <2>4. CASE Work(u)
    BY <2>1, <2>4 DEF Work, WorkQuietly, WorkFails, FetchToggles
  <2>5. CASE WorkerTimeout(u)
    BY <2>1, <2>5 DEF WorkerTimeout
  <2>6. CASE WorkerSpurious(u)
    BY <2>1, <2>6 DEF WorkerSpurious
  <2> QED
    BY <1>3, <2>2, <2>3, <2>4, <2>5, <2>6
<1>4. ASSUME NEW u \in Workers, Worker(u) \/ WorkerTimeout(u) \/ WorkerSpurious(u)
      PROVE  at'[t] # at[t] => t = u
  <2>1. PICK from \in ThreadStates, to \in ThreadStates : Move(u, from, to)
    BY <1>3, <1>4 DEF Worker, ThreadStates
  <2> QED
    BY <1>0, <2>1, MoveFacts, Names
<1>5. CASE \E u \in Workers : Worker(u) \/ WorkerTimeout(u) \/ WorkerSpurious(u)
  <2>1. PICK u \in Workers : Worker(u) \/ WorkerTimeout(u) \/ WorkerSpurious(u)
    BY <1>5
  <2>2. UNCHANGED <<call, exit, enabled>>
    BY <1>3, <2>1 DEF Worker
  <2>3. CASE t = u
    <3>1. PICK from \in {"test", "arming", "blocked", "busy"},
               to \in {"exited", "arming", "busy", "blocked", "test", "emit"} :
            /\ Move(u, from, to)
            /\ from = "test" => to \in {"exited", "arming", "busy"}
            /\ from = "arming" => to = "blocked"
            /\ from = "blocked" => to \in {"exited", "busy", "test"}
            /\ from = "busy" => to \in {"test", "emit"}
            /\ to = "exited" => exit
            /\ to \in {"arming", "busy"} => ~exit
      BY <1>3, <2>1 DEF Worker
    <3>2. at[t] = from /\ at'[t] = to
      BY <1>0, <2>3, <3>1, MoveFacts DEF ThreadStates
    <3> QED
      BY <2>2, <3>1, <3>2
  <2>4. CASE t # u
    BY <1>4, <2>1, <2>2, <2>4
  <2> QED
    BY <2>3, <2>4
<1>6. CASE \E u \in Emitters : Emit(u)
  <2>1. PICK u \in Emitters : EmitTest(u) \/ EmitPush(u)
    BY <1>6 DEF Emit
  <2>2. UNCHANGED <<call, exit, enabled>>
    BY <2>1 DEF EmitTest, EmitPush, client
  <2>3. PICK from \in {"emit", "push"}, to \in {"push", "emit", "test"} :
          Move(u, from, to) /\ (from = "push" => to # "push")
    BY <2>1 DEF EmitTest, EmitPush
  <2> QED
    BY <1>0, <2>2, <2>3, MoveFacts DEF ThreadStates
<1> QED
  BY <1>1, <1>2, <1>5, <1>6

LEMMA PromiseOthers ==
  ASSUME TypeOK, PhaseInv, WorkerInv, NEW t \in enabled,
         \/ \E u \in Workers : Worker(u) \/ WorkerTimeout(u) \/ WorkerSpurious(u)
         \/ Evaluate
         \/ \E u \in Emitters : Emit(u)
         \/ Deliver
         \/ Complete
  PROVE  Promised(t)
<1>1. t \in Workers
  BY DEF TypeOK
<1>2. Told(t)' = Told(t)
  BY <1>1, OthersAt DEF Told
<1>3. Told(t) <=> exit /\ at[t] # "none"
  BY ToldIsExit
<1>4. CASE at'[t] = at[t]
  BY <1>2, <1>4 DEF Promised, Shape
<1>5. CASE at[t] \in {"test", "blocked"} /\ at'[t] = "exited" /\ exit
  BY <1>2, <1>3, <1>5 DEF Promised, Shape
<1>6. CASE at[t] \in {"test", "blocked"} /\ at'[t] = "busy" /\ ~exit
  BY <1>2, <1>3, <1>6 DEF Promised, Shape
<1>7. CASE /\ at[t] \in {"test", "blocked", "arming"}
           /\ at'[t] \in {"test", "blocked", "arming"}
  BY <1>2, <1>7 DEF Promised, Shape
<1>8. CASE at[t] \in {"busy", "emit", "push"} /\ at'[t] = "test"
  BY <1>2, <1>8 DEF Promised, Shape
<1>9. CASE at[t] \in {"busy", "emit", "push"} /\ at'[t] \in {"emit", "push"}
  BY <1>2, <1>9 DEF Promised, Shape
<1> QED
  BY <1>1, <1>4, <1>5, <1>6, <1>7, <1>8, <1>9, OthersAt

\* A worker that is not enabled is never seen.
LEMMA PromiseIdle ==
  ASSUME TypeOK, WorkerInv, WorkerInv', enabled' = enabled,
         NEW t \in Workers \ enabled
  PROVE  Promised(t)
<1>1. at[t] \in {"none", "exited"} /\ at'[t] \in {"none", "exited"}
  BY DEF WorkerInv
<1> QED
  BY <1>1 DEF Promised, Shape, Told

LEMMA PromiseStep ==
  ASSUME TypeOK, PhaseInv, WorkerInv, WorkerInv', [Next]_vars, NEW t \in Workers
  PROVE  Promised(t)
<1>1. CASE UNCHANGED vars
  BY <1>1 DEF vars, client, threads, Promised, Told, Shape
<1>2. CASE Next
  <2>1. CASE t \in enabled
    BY <1>2, <2>1, PromiseOwner, PromiseOthers DEF Next
  <2>2. CASE t \notin enabled
    <3>1. enabled' = enabled
      <4>1. CASE StartCall \/ StartStep \/ StopCall \/ StopStep
        BY <4>1
        DEF StartCall, StartStep, StartAnnounce, StartReady, StartClear,
            StartHandler, StartWorkers, StartReturn, StopCall, StopStep, StopSignal,
            StopNotify, StopJoin, StopHandler, StopDrop, StopReturn
      <4> QED
        BY <1>2, <4>1, OthersAt DEF Next
    <3> QED
      BY <2>2, <3>1, PromiseIdle
  <2> QED
    BY <2>1, <2>2
<1> QED
  BY <1>1, <1>2

\* Both workers of the client are the workers that FeaturePolling and
\* MetricSending implement in detail: none works on after it was told to leave,
\* and stop() joins each after it has left, and none twice.
THEOREM WorkersKeepPromise == SafeSpec => WorkersSafe
<1>1. Init => Metrics!Init /\ Polling!Init
  BY Names DEF Init, Metrics!Init, Polling!Init, Told, Shape
<1>2. /\ TypeOK /\ PhaseInv /\ WorkerInv /\ WorkerInv' /\ [Next]_vars
           => [Metrics!Next]_(Metrics!workerVars)
      /\ TypeOK /\ PhaseInv /\ WorkerInv /\ WorkerInv' /\ [Next]_vars
           => [Polling!Next]_(Polling!workerVars)
  BY PromiseStep, PromiseIsWorker, Names
<1> QED
  BY <1>1, <1>2, PhaseInductive, PTL
  DEF SafeSpec, WorkersSafe, Metrics!SafeSpec, Polling!SafeSpec

\* What is left to emit when a thread is done with one event.
LEMMA TailLength ==
  ASSUME NEW T, NEW s \in Seq(T), s # <<>>
  PROVE  /\ Len(s) \in Nat /\ Len(s) >= 1
         /\ Len(Tail(s)) = Len(s) - 1
<1>1. Len(Tail(s)) = Len(s) - 1 /\ Len(s) \in Nat
  BY HeadTailProperties, LenProperties
<1>2. Len(s) # 0
  BY EmptySeq
<1> QED
  BY <1>1, <1>2

LEMMA ApproachOwner ==
  ASSUME TypeOK, PhaseInv, exit, StartCall \/ StartStep \/ StopCall \/ StopStep,
         NEW t \in Workers
  PROVE  /\ pend'[t] = pend[t]
         /\ \/ at'[t] = at[t]
            \/ at[t] = "blocked" /\ at'[t] = "test"
            \/ at[t] = "exited" /\ at'[t] = "none"
<1>0. t \in Emitters /\ t # "owner"
  BY Names
<1>1. CASE UNCHANGED threads
  BY <1>1 DEF threads
<1>2. CASE StartAnnounce
  <2>1. Move("owner", "test", "emit")
    BY <1>2 DEF StartAnnounce
  <2>2. at'[t] = at[t]
    BY <1>0, <2>1, MoveFacts, Names DEF ThreadStates
  <2>3. pend'[t] = pend[t]
    BY <1>0, <1>2, Names DEF StartAnnounce, TypeOK
  <2> QED
    BY <2>2, <2>3
<1>3. CASE StartWorkers
  BY <1>3 DEF StartWorkers, Goto, PhaseInv, ServePhase
<1>4. CASE StopNotify
  <2>1. PICK u \in Workers : Notify(u)
    BY <1>4, Names DEF StopNotify
  <2> QED
    BY <1>0, <1>4, <2>1, Names, NotifyFacts DEF StopNotify
<1>5. CASE StopJoin
  <2>1. PICK u \in Workers : Move(u, "exited", "none")
    BY <1>5, Names DEF StopJoin
  <2>2. at'[t] = at[t] \/ (at[t] = "exited" /\ at'[t] = "none")
    BY <1>0, <2>1, MoveFacts, Names DEF ThreadStates
  <2> QED
    BY <1>5, <2>2 DEF StopJoin
<1> QED
  BY <1>1, <1>2, <1>3, <1>4, <1>5
  DEF StartCall, StartStep, StartReady, StartClear, StartHandler, StartReturn,
      StopCall, StopStep, StopSignal, StopHandler, StopDrop, StopReturn

\* stop() is not kept waiting for ever: with every step a worker is nearer to
\* its end.
THEOREM StopComesNearer == SafeSpec => StopApproaches
<1>1. ASSUME TypeOK, PhaseInv, exit, [Next]_vars, NEW t \in Workers,
             <<at'[t], pend'[t]>> # <<at[t], pend[t]>>
      PROVE  Distance(t)' < Distance(t)
  <2>0. t \in Emitters /\ pend[t] \in Seq(Events) /\ Len(pend[t]) \in Nat
    BY <1>1, Names DEF TypeOK
  <2>1. CASE UNCHANGED vars
    BY <1>1, <2>1 DEF vars, threads
  <2>2. CASE StartCall \/ StartStep \/ StopCall \/ StopStep
    BY <1>1, <2>2, ApproachOwner DEF Distance
  <2>3. CASE \/ Evaluate \/ Deliver \/ Complete
    <3>1. UNCHANGED threads \/ Evaluate
      BY <2>3 DEF Deliver, Complete, threads
    <3>2. Evaluate => at'[t] = at[t] /\ pend'[t] = pend[t]
      BY <1>1, <2>0, MoveFacts, Names DEF Evaluate, TypeOK, ThreadStates
    <3> QED
      BY <1>1, <3>1, <3>2 DEF threads
  <2>4. ASSUME NEW u \in Workers,
               Worker(u) \/ WorkerTimeout(u) \/ WorkerSpurious(u)
        PROVE  Distance(t)' < Distance(t)
    <3>1. u \in Emitters
      BY Names
    <3>2. CASE WorkerTest(u) \/ WorkerBlock(u) \/ WorkerTimeout(u)
               \/ WorkerSpurious(u) \/ WorkQuietly(u)
      <4>1. PICK from \in {"test", "arming", "blocked", "busy"},
                 to \in {"exited", "blocked", "test"} :
              /\ Move(u, from, to)
              /\ from = "test" => to = "exited"
              /\ from = "arming" => to = "blocked"
              /\ from = "blocked" => to # "blocked"
              /\ from = "busy" => to = "test"
        BY <1>1, <3>2 DEF WorkerTest, WorkerBlock, WorkerTimeout, WorkerSpurious,
                          WorkQuietly
      <4>2. pend' = pend
        BY <3>2 DEF WorkerTest, WorkerBlock, WorkerTimeout, WorkerSpurious,
                    WorkQuietly, threads
      <4>3. t = u
        BY <1>1, <2>0, <3>1, <4>1, <4>2, MoveFacts DEF ThreadStates
      <4>4. at[t] = from /\ at'[t] = to
        BY <1>1, <3>1, <4>1, <4>3, MoveFacts DEF ThreadStates
      <4> QED
        BY <4>1, <4>4 DEF Distance
    <3>3. CASE WorkFails(u) \/ (u = "polling" /\ FetchToggles)
      <4>1. PICK e \in {<<"error">>, <<"update">>, <<"ready", "update">>} :
              Move(u, "busy", "emit") /\ pend' = [pend EXCEPT ![u] = e]
        BY <3>3 DEF WorkFails, FetchToggles
      <4>2. t = u
        BY <1>1, <2>0, <3>1, <4>1, MoveFacts DEF ThreadStates, TypeOK
      <4>3. at[t] = "busy" /\ at'[t] = "emit"
        BY <1>1, <3>1, <4>1, <4>2, MoveFacts DEF ThreadStates
      <4>4. pend'[t] = e
        BY <1>1, <3>1, <4>1, <4>2 DEF TypeOK
      <4>5. Distance(t) = 9
        BY <4>3 DEF Distance
      <4>6. PICK n \in {1, 2} : Len(e) = n
        OBVIOUS
      <4>7. Distance(t)' = 4 + 2 * n
        BY <4>3, <4>4, <4>6 DEF Distance
      <4> QED
        BY <4>5, <4>7
    <3> QED
      BY <2>4, <3>2, <3>3 DEF Worker, Work
  <2>5. ASSUME NEW u \in Emitters, EmitTest(u) \/ EmitPush(u)
        PROVE  Distance(t)' < Distance(t)
    <3>1. PICK from \in {"emit", "push"}, to \in {"push", "emit", "test"} :
            /\ Move(u, from, to)
            /\ \/ from = "emit" /\ to = "push" /\ pend' = pend
               \/ /\ to \in {"emit", "test"}
                  /\ pend' = [pend EXCEPT ![u] = Tail(@)]
      BY <2>5 DEF EmitTest, EmitPush
    <3>2. t = u
      BY <1>1, <2>0, <3>1, MoveFacts DEF ThreadStates, TypeOK
    <3>3. at[t] = from /\ at'[t] = to
      BY <1>1, <3>1, <3>2, MoveFacts DEF ThreadStates
    <3>4. pend[t] # <<>>
      BY <1>1, <2>0, <3>1, <3>3 DEF TypeOK
    <3>5. Len(pend[t]) >= 1 /\ Len(Tail(pend[t])) = Len(pend[t]) - 1
      BY <1>1, <2>0, <3>4, TailLength
    <3>6. CASE from = "emit" /\ to = "push" /\ pend' = pend
      BY <2>0, <3>3, <3>6 DEF Distance
    <3>7. CASE to \in {"emit", "test"} /\ pend' = [pend EXCEPT ![u] = Tail(@)]
      <4>1. pend'[t] = Tail(pend[t])
        BY <1>1, <2>0, <3>2, <3>7 DEF TypeOK
      <4>2. Distance(t) \in {3 + 2 * Len(pend[t]), 4 + 2 * Len(pend[t])}
        BY <3>3 DEF Distance
      <4>3. Distance(t)' \in {2, 4 + 2 * Len(Tail(pend[t]))}
        BY <3>3, <3>7, <4>1 DEF Distance
      <4>4. Distance(t)' \in {2, 2 + 2 * Len(pend[t])}
        BY <2>0, <3>5, <4>3
      <4> QED
        BY <2>0, <3>5, <4>2, <4>4
    <3> QED
      BY <3>1, <3>6, <3>7
  <2> QED
    BY <1>1, <2>1, <2>2, <2>3, <2>4, <2>5 DEF Next, Emit
<1>2. TypeOK /\ PhaseInv /\ [Next]_vars
        => [exit => \A t \in Workers :
              <<at'[t], pend'[t]>> # <<at[t], pend[t]>>
                => Distance(t)' < Distance(t)]_vars
  BY <1>1
<1> QED
  BY <1>2, PhaseInductive, PTL DEF SafeSpec, StopApproaches
-----------------------------------------------------------------------------
(* What listeners hear.                                                     *)

\* The Ready event has been heard or lost; or it is at least in the queue.
Said == "ready" \in heard \cup lost
Queued == \E i \in 1..Len(mailbox) : mailbox[i].cb = "ready"

Fetched == {<<>>, <<"error">>, <<"update">>, <<"ready", "update">>}

\* What the polling thread still has to emit when the client is ready.
PendInv ==
  /\ toggles => ready
  /\ pend["polling"] \in Fetched
  /\ pend["polling"] \in {<<"update">>, <<"ready", "update">>} => ready
  /\ ready => Said \/ Queued \/ pend["polling"] = <<"ready", "update">>

\* Nobody else emits Update.
SoleInv ==
  \A t \in Emitters \ {"polling"} : \A i \in 1..Len(pend[t]) : pend[t][i] # "update"

\* An Update in the queue has the Ready before it there, or it is told already.
QueueInv ==
  \A i \in 1..Len(mailbox) :
    mailbox[i].cb = "update" =>
      Said \/ \E j \in 1..(i - 1) : mailbox[j].cb = "ready"

AnnounceInv == PendInv /\ SoleInv /\ QueueInv /\ ReadyHeardFirst

LEMMA AnnounceInit ==
  ASSUME Cached = FALSE, Init
  PROVE  AnnounceInv
<1>1. ready = FALSE /\ toggles = FALSE
  BY DEF Init
<1>2. \A t \in Emitters : pend[t] = <<>>
  BY DEF Init
<1>3. mailbox = <<>> /\ heard = {}
  BY DEF Init, Handler!Init
<1>4. PendInv
  BY <1>1, <1>2, Names DEF PendInv, Fetched
<1>5. SoleInv
  BY <1>2 DEF SoleInv
<1> QED
  BY <1>3, <1>4, <1>5 DEF AnnounceInv, QueueInv, ReadyHeardFirst

\* The steps that touch neither the readiness nor the events.
LEMMA AnnounceKeep ==
  ASSUME AnnounceInv, UNCHANGED <<ready, toggles, pend, mailbox, fates>>
  PROVE  AnnounceInv'
<1>1. UNCHANGED <<heard, lost>>
  BY DEF fates
<1>2. Said' <=> Said
  BY <1>1 DEF Said
<1>3. Queued' <=> Queued
  BY DEF Queued
<1>4. PendInv'
  BY <1>2, <1>3 DEF AnnounceInv, PendInv
<1>5. SoleInv'
  BY DEF AnnounceInv, SoleInv
<1>6. QueueInv'
  BY <1>2 DEF AnnounceInv, QueueInv
<1>7. ReadyHeardFirst'
  BY <1>1 DEF AnnounceInv, ReadyHeardFirst
<1> QED
  BY <1>4, <1>5, <1>6, <1>7 DEF AnnounceInv

LEMMA AnnounceOwner ==
  ASSUME TypeOK, AnnounceInv, StartCall \/ StartStep \/ StopCall \/ StopStep
  PROVE  AnnounceInv'
<1>1. CASE StartCall \/ StartClear \/ StartWorkers \/ StartReturn
  BY <1>1, AnnounceKeep
  DEF StartCall, StartClear, StartWorkers, StartReturn, threads, dispatch
<1>2. CASE StopCall \/ StopSignal \/ StopNotify \/ StopJoin \/ StopReturn
  BY <1>2, AnnounceKeep
  DEF StopCall, StopSignal, StopNotify, StopJoin, StopReturn, threads, dispatch
<1>3. CASE StartHandler \/ StopHandler
  <2>1. UNCHANGED mailbox
    BY <1>3 DEF StartHandler, StopHandler, Handler!Open, Handler!Launch,
                Handler!Close, Handler!Halt
  <2> QED
    BY <1>3, <2>1, AnnounceKeep DEF StartHandler, StopHandler, threads
<1>4. CASE StartReady
  <2>1. ready' = ready
    <3>1. ready \in BOOLEAN /\ toggles \in BOOLEAN /\ (toggles => ready)
      BY DEF TypeOK, AnnounceInv, PendInv
    <3>2. ready' = (ready \/ toggles)
      BY <1>4 DEF StartReady
    <3> QED
      BY <3>1, <3>2
  <2> QED
    BY <1>4, <2>1, AnnounceKeep DEF StartReady, threads, dispatch
<1>5. CASE StartAnnounce
  <2>1. UNCHANGED <<ready, toggles, mailbox, heard, lost>>
    BY <1>5 DEF StartAnnounce, dispatch, fates
  <2>2. PICK s \in {<<"init", "ready">>, <<"init">>} :
          pend' = [pend EXCEPT !["owner"] = s]
    BY <1>5 DEF StartAnnounce
  <2>3. \A i \in 1..Len(s) : s[i] # "update"
    BY <2>2
  <2>4. /\ pend'["polling"] = pend["polling"] /\ pend'["owner"] = s
        /\ \A t \in Emitters \ {"polling", "owner"} : pend'[t] = pend[t]
    BY <2>2, Names DEF TypeOK
  <2>5. PendInv' /\ QueueInv' /\ ReadyHeardFirst'
    BY <2>1, <2>4 DEF AnnounceInv, PendInv, QueueInv, ReadyHeardFirst, Said, Queued
  <2>6. SoleInv'
    BY <2>3, <2>4 DEF AnnounceInv, SoleInv
  <2> QED
    BY <2>5, <2>6 DEF AnnounceInv
<1>6. CASE StopDrop
  <2>1. UNCHANGED <<ready, toggles, pend, heard>> /\ mailbox' = <<>>
    BY <1>6 DEF StopDrop, threads, Handler!Drop
  <2>2. lost' = lost \cup ({mailbox[i].cb : i \in DOMAIN mailbox} \cap Announcements)
    BY <1>6 DEF StopDrop
  <2>3. Said \/ Queued => Said'
    <3>1. DOMAIN mailbox = 1..Len(mailbox)
      BY DEF TypeOK
    <3> QED
      BY <2>1, <2>2, <3>1 DEF Said, Queued, Announcements
  <2>4. PendInv' /\ SoleInv' /\ ReadyHeardFirst'
    BY <2>1, <2>2, <2>3 DEF AnnounceInv, PendInv, SoleInv, ReadyHeardFirst, Said
  <2>5. QueueInv'
    BY <2>1 DEF QueueInv
  <2> QED
    BY <2>4, <2>5 DEF AnnounceInv
<1> QED
  BY <1>1, <1>2, <1>3, <1>4, <1>5, <1>6 DEF StartStep, StopStep

\* A thread begins to emit.
LEMMA AnnounceBegin ==
  ASSUME TypeOK, AnnounceInv, UNCHANGED <<mailbox, fates>>,
         \/ \E t \in Workers : WorkFails(t)
         \/ FetchToggles
         \/ Evaluate
  PROVE  AnnounceInv'
<1>1. QueueInv' /\ ReadyHeardFirst' /\ (Said' <=> Said) /\ (Queued' <=> Queued)
  BY DEF AnnounceInv, QueueInv, ReadyHeardFirst, Said, Queued, fates
<1>2. CASE FetchToggles
  <2>1. pend["polling"] = <<>> /\ toggles' = TRUE /\ ready' = TRUE
    BY <1>2, Names DEF FetchToggles, Move, TypeOK
  <2>2. PICK s \in {<<"update">>, <<"ready", "update">>} :
          /\ pend' = [pend EXCEPT !["polling"] = s]
          /\ ~ready => s = <<"ready", "update">>
    BY <1>2 DEF FetchToggles
  <2>3. /\ pend'["polling"] = s
        /\ \A t \in Emitters \ {"polling"} : pend'[t] = pend[t]
    BY <2>2, Names DEF TypeOK
  <2>4. ready => Said \/ Queued
    <3>1. <<>> # <<"ready", "update">>
      OBVIOUS
    <3> QED
      BY <2>1, <3>1 DEF AnnounceInv, PendInv
  <2>5. PendInv'
    BY <1>1, <2>1, <2>2, <2>3, <2>4 DEF PendInv, Fetched
  <2>6. SoleInv'
    BY <2>3 DEF AnnounceInv, SoleInv
  <2> QED
    BY <1>1, <2>5, <2>6 DEF AnnounceInv
<1>3. ASSUME NEW t \in Emitters, NEW s \in {<<"error">>, <<"impression">>},
             UNCHANGED client, pend[t] = <<>>, pend' = [pend EXCEPT ![t] = s],
             t = "polling" => s = <<"error">>
      PROVE  AnnounceInv'
  <2>1. UNCHANGED <<ready, toggles>>
    BY <1>3 DEF client
  <2>2. pend'[t] = s /\ \A u \in Emitters \ {t} : pend'[u] = pend[u]
    BY <1>3 DEF TypeOK
  <2>3. \A i \in 1..Len(s) : s[i] # "update"
    BY <1>3
  <2>4. SoleInv'
    BY <2>2, <2>3 DEF AnnounceInv, SoleInv
  <2>5. CASE t = "polling"
    <3>1. ready => Said \/ Queued
      <4>1. <<>> # <<"ready", "update">>
        OBVIOUS
      <4> QED
        BY <1>3, <2>5, <4>1 DEF AnnounceInv, PendInv
    <3>2. pend'["polling"] = <<"error">> /\ <<"error">> # <<"update">>
          /\ <<"error">> # <<"ready", "update">>
      BY <1>3, <2>2, <2>5
    <3>3. PendInv'
      BY <1>1, <2>1, <3>1, <3>2 DEF AnnounceInv, PendInv, Fetched
    <3> QED
      BY <1>1, <2>4, <3>3 DEF AnnounceInv
  <2>6. CASE t # "polling"
    <3>1. pend'["polling"] = pend["polling"]
      BY <2>2, <2>6, Names
    <3>2. PendInv'
      BY <1>1, <2>1, <3>1 DEF AnnounceInv, PendInv
    <3> QED
      BY <1>1, <2>4, <3>2 DEF AnnounceInv
  <2> QED
    BY <2>5, <2>6
<1>4. ASSUME NEW t \in Workers, WorkFails(t)
      PROVE  AnnounceInv'
  <2>1. UNCHANGED client /\ pend' = [pend EXCEPT ![t] = <<"error">>] /\ t \in Emitters
    BY <1>4, Names DEF WorkFails
  <2>2. pend[t] = <<>>
    BY <1>4, <2>1 DEF WorkFails, Move, TypeOK
  <2> QED
    BY <1>3, <2>1, <2>2
<1>5. CASE Evaluate
  <2>1. UNCHANGED client /\ pend' = [pend EXCEPT !["app"] = <<"impression">>]
    BY <1>5 DEF Evaluate
  <2>2. pend["app"] = <<>>
    BY <1>5, Names DEF Evaluate, Move, TypeOK
  <2> QED
    BY <1>3, <2>1, <2>2, Names
<1> QED
  BY <1>2, <1>4, <1>5

\* What is left of what the polling thread emits.
LEMMA FetchedTail ==
  ASSUME NEW s \in Fetched, s # <<>>
  PROVE  /\ Tail(s) \in Fetched
         /\ Tail(s) # <<"ready", "update">>
         /\ Tail(s) = <<"update">> => s = <<"ready", "update">>
         /\ s = <<"ready", "update">> <=> Head(s) = "ready"
         /\ s = <<"update">> <=> Head(s) = "update"
<1> DEFINE Goal(q) == /\ Tail(q) \in Fetched
                      /\ Tail(q) # <<"ready", "update">>
                      /\ Tail(q) = <<"update">> => q = <<"ready", "update">>
                      /\ q = <<"ready", "update">> <=> Head(q) = "ready"
                      /\ q = <<"update">> <=> Head(q) = "update"
<1>1. /\ Tail(<<"error">>) = <<>> /\ Head(<<"error">>) = "error"
      /\ Tail(<<"update">>) = <<>> /\ Head(<<"update">>) = "update"
      /\ Tail(<<"ready", "update">>) = <<"update">>
      /\ Head(<<"ready", "update">>) = "ready"
  OBVIOUS
<1>2. /\ <<>> # <<"update">> /\ <<>> # <<"ready", "update">>
      /\ <<"error">> # <<"update">> /\ <<"error">> # <<"ready", "update">>
      /\ <<"update">> # <<"ready", "update">>
      /\ "error" # "update" /\ "error" # "ready" /\ "update" # "ready"
  OBVIOUS
<1>3. CASE s = <<"error">>
  BY <1>1, <1>2, <1>3 DEF Fetched
<1>4. CASE s = <<"update">>
  BY <1>1, <1>2, <1>4 DEF Fetched
<1>5. CASE s = <<"ready", "update">>
  BY <1>1, <1>2, <1>5 DEF Fetched
<1> QED
  BY <1>3, <1>4, <1>5 DEF Fetched

\* An event leaves its thread, to be queued or lost.  What the polling thread
\* emits is not dropped for finding the dispatcher closed.
LEMMA AnnounceLeave ==
  ASSUME TypeOK, AnnounceInv, NEW t \in Emitters, pend[t] # <<>>,
         pend' = [pend EXCEPT ![t] = Tail(@)],
         UNCHANGED <<ready, toggles, heard>>,
         Said => Said', Queued => Said' \/ Queued',
         t = "polling" /\ Head(pend[t]) = "ready" => Said' \/ Queued'
  PROVE  PendInv' /\ SoleInv' /\ ReadyHeardFirst'
<1>1. pend'[t] = Tail(pend[t]) /\ \A u \in Emitters \ {t} : pend'[u] = pend[u]
  BY DEF TypeOK
<1>2. PendInv'
  <2>1. CASE t # "polling"
    <3>1. pend'["polling"] = pend["polling"]
      BY <1>1, <2>1, Names
    <3> QED
      BY <3>1 DEF AnnounceInv, PendInv
  <2>2. CASE t = "polling"
    <3>1. pend["polling"] \in Fetched /\ pend'["polling"] = Tail(pend["polling"])
      BY <1>1, <2>2 DEF AnnounceInv, PendInv
    <3>2. /\ pend'["polling"] \in Fetched
          /\ pend'["polling"] # <<"ready", "update">>
          /\ pend'["polling"] = <<"update">> => pend["polling"] = <<"ready", "update">>
          /\ pend["polling"] = <<"ready", "update">> <=> Head(pend["polling"]) = "ready"
      BY <2>2, <3>1, FetchedTail
    <3>3. toggles' => ready'
      BY DEF AnnounceInv, PendInv
    <3>4. pend'["polling"] = <<"update">> => ready'
      BY <3>2 DEF AnnounceInv, PendInv
    <3>5. ready' => Said' \/ Queued'
      BY <2>2, <3>2 DEF AnnounceInv, PendInv
    <3> QED
      BY <3>2, <3>3, <3>4, <3>5 DEF PendInv
  <2> QED
    BY <2>1, <2>2
<1>3. SoleInv'
  <2>1. ASSUME t # "polling"
        PROVE  \A i \in 1..Len(Tail(pend[t])) : Tail(pend[t])[i] # "update"
    <3>1. pend[t] \in Seq(Events)
      BY DEF TypeOK
    <3>2. \A i \in 1..Len(pend[t]) : pend[t][i] # "update"
      BY <2>1 DEF AnnounceInv, SoleInv
    <3> QED
      BY <3>1, <3>2
  <2> QED
    BY <1>1, <2>1 DEF AnnounceInv, SoleInv
<1>4. ReadyHeardFirst'
  <2>1. "update" \in heard => Said
    BY DEF AnnounceInv, ReadyHeardFirst, Said
  <2> QED
    BY <2>1 DEF ReadyHeardFirst, Said
<1> QED
  BY <1>2, <1>3, <1>4

LEMMA AnnounceTest ==
  ASSUME TypeOK, PhaseInv, AnnounceInv, NEW t \in Emitters, EmitTest(t)
  PROVE  AnnounceInv'
<1>1. UNCHANGED <<ready, toggles, mailbox, heard, lost>>
  BY DEF EmitTest, client, dispatch, fates
<1>2. CASE open
  BY <1>2, AnnounceKeep DEF EmitTest, client, dispatch
<1>3. CASE ~open
  <2>1. at[t] = "emit" /\ pend' = [pend EXCEPT ![t] = Tail(@)]
    BY <1>3 DEF EmitTest, Move
  <2>2. pend[t] # <<>>
    BY <2>1 DEF TypeOK
  <2>3. t # "polling"
    BY <1>3, <2>1 DEF PhaseInv, OpenPhase, PollingPhase, MetricsPhase
  <2>4. (Said' <=> Said) /\ (Queued' <=> Queued)
    BY <1>1 DEF Said, Queued
  <2>5. PendInv' /\ SoleInv' /\ ReadyHeardFirst'
    BY <1>1, <2>1, <2>2, <2>3, <2>4, AnnounceLeave
  <2>6. QueueInv'
    BY <1>1, <2>4 DEF AnnounceInv, QueueInv
  <2> QED
    BY <2>5, <2>6 DEF AnnounceInv
<1> QED
  BY <1>2, <1>3

LEMMA AnnouncePush ==
  ASSUME TypeOK, AnnounceInv, NEW t \in Emitters, EmitPush(t)
  PROVE  AnnounceInv'
<1> DEFINE k == Head(pend[t])
           msg == [id |-> accepted + 1, cb |-> k]
<1>1. UNCHANGED <<ready, toggles, heard>>
  BY DEF EmitPush, client
<1>2. at[t] = "push" /\ pend' = [pend EXCEPT ![t] = Tail(@)]
  BY DEF EmitPush, Move
<1>3. pend[t] # <<>> /\ pend[t] \in Seq(Events)
  BY <1>2 DEF TypeOK
<1>4. ASSUME k = "update" PROVE Said \/ Queued
  <2>1. t = "polling"
    <3>1. k = pend[t][1] /\ 1 \in 1..Len(pend[t])
      BY <1>3
    <3> QED
      BY <1>4, <3>1 DEF AnnounceInv, SoleInv
  <2>2. pend["polling"] \in Fetched
    BY DEF AnnounceInv, PendInv
  <2>3. pend["polling"] = <<"update">> /\ pend["polling"] # <<"ready", "update">>
    BY <1>3, <1>4, <2>1, <2>2, FetchedTail
  <2> QED
    BY <2>3 DEF AnnounceInv, PendInv
<1>5. CASE mailbox' = Append(mailbox, msg) /\ lost' = lost
  <2>1. /\ Len(mailbox) \in Nat
        /\ Len(mailbox') = Len(mailbox) + 1
        /\ \A i \in 1..Len(mailbox) : mailbox'[i] = mailbox[i]
        /\ mailbox'[Len(mailbox) + 1].cb = k
    BY <1>5 DEF TypeOK
  <2>2. Said' <=> Said
    BY <1>1, <1>5 DEF Said
  <2>3. Queued => Queued'
    BY <2>1 DEF Queued
  <2>4. k = "ready" => Queued'
    BY <2>1 DEF Queued
  <2>5. PendInv' /\ SoleInv' /\ ReadyHeardFirst'
    BY <1>1, <1>2, <1>3, <2>2, <2>3, <2>4, AnnounceLeave
  <2>6. QueueInv'
    <3> SUFFICES ASSUME NEW i \in 1..Len(mailbox'), mailbox'[i].cb = "update", ~Said'
                 PROVE  \E j \in 1..(i - 1) : mailbox'[j].cb = "ready"
      BY DEF QueueInv
    <3>1. CASE i \in 1..Len(mailbox)
      <4>1. PICK j \in 1..(i - 1) : mailbox[j].cb = "ready"
        BY <2>1, <2>2, <3>1 DEF AnnounceInv, QueueInv
      <4>2. j \in 1..Len(mailbox)
        BY <2>1, <3>1
      <4> QED
        BY <2>1, <4>1, <4>2
    <3>2. CASE i = Len(mailbox) + 1
      <4>1. Queued
        BY <1>4, <2>1, <2>2, <3>2
      <4> QED
        BY <2>1, <3>2, <4>1 DEF Queued
    <3> QED
      BY <2>1, <3>1, <3>2
  <2> QED
    BY <2>5, <2>6 DEF AnnounceInv
<1>6. CASE mailbox' = mailbox /\ lost' = lost \cup ({k} \cap Announcements)
  <2>1. (Said => Said') /\ (Queued' <=> Queued) /\ (k = "ready" => Said')
    BY <1>1, <1>6 DEF Said, Queued, Announcements
  <2>2. PendInv' /\ SoleInv' /\ ReadyHeardFirst'
    BY <1>1, <1>2, <1>3, <2>1, AnnounceLeave
  <2>3. QueueInv'
    BY <1>6, <2>1 DEF AnnounceInv, QueueInv
  <2> QED
    BY <2>2, <2>3 DEF AnnounceInv
<1> QED
  BY <1>5, <1>6 DEF EmitPush, Handler!Accept, dispatch

LEMMA AnnounceDeliver ==
  ASSUME TypeOK, AnnounceInv, Deliver
  PROVE  AnnounceInv'
<1> DEFINE k == Head(mailbox).cb
<1>1. UNCHANGED <<ready, toggles, pend, lost>>
  BY DEF Deliver, client, threads
<1>2. mailbox # <<>> /\ mailbox' = Tail(mailbox) /\ mailbox \in Seq(Message)
  BY DEF Deliver, Handler!Deliver, TypeOK
<1>3. heard' = heard \cup ({k} \cap Announcements)
  BY DEF Deliver
<1>4. /\ Len(mailbox) \in Nat /\ Len(mailbox) > 0
      /\ Len(mailbox') = Len(mailbox) - 1
      /\ mailbox[1].cb = k
      /\ \A i \in 1..Len(mailbox') : mailbox'[i] = mailbox[i + 1]
  BY <1>2
<1>5. (Said => Said') /\ (k = "ready" => Said')
  BY <1>1, <1>3 DEF Said, Announcements
<1>6. Queued => Said' \/ Queued'
  <2> SUFFICES ASSUME Queued, ~Said' PROVE Queued'
    OBVIOUS
  <2>1. PICK i \in 1..Len(mailbox) : mailbox[i].cb = "ready"
    BY DEF Queued
  <2>2. i # 1
    BY <1>4, <1>5, <2>1
  <2>3. i - 1 \in 1..Len(mailbox') /\ mailbox'[i - 1] = mailbox[i]
    BY <1>4, <2>1, <2>2
  <2> QED
    BY <2>1, <2>3 DEF Queued
<1>7. PendInv' /\ SoleInv'
  BY <1>1, <1>5, <1>6 DEF AnnounceInv, PendInv, SoleInv
<1>8. QueueInv'
  <2> SUFFICES ASSUME NEW i \in 1..Len(mailbox'), mailbox'[i].cb = "update", ~Said'
               PROVE  \E j \in 1..(i - 1) : mailbox'[j].cb = "ready"
    BY DEF QueueInv
  <2>1. i + 1 \in 1..Len(mailbox) /\ mailbox[i + 1].cb = "update"
    BY <1>4
  <2>2. PICK j \in 1..i : mailbox[j].cb = "ready"
    BY <1>5, <2>1 DEF AnnounceInv, QueueInv
  <2>3. j # 1
    BY <1>4, <1>5, <2>2
  <2>4. j - 1 \in 1..(i - 1) /\ mailbox'[j - 1] = mailbox[j]
    BY <1>4, <2>2, <2>3
  <2> QED
    BY <2>2, <2>4
<1>9. ReadyHeardFirst'
  <2>1. CASE k = "update"
    <3>1. Said
      BY <1>4, <2>1 DEF AnnounceInv, QueueInv
    <3> QED
      BY <1>5, <3>1 DEF ReadyHeardFirst, Said
  <2>2. CASE k # "update"
    <3>1. "update" \in heard' => "update" \in heard
      BY <1>3, <2>2
    <3>2. "update" \in heard => Said
      BY DEF AnnounceInv, ReadyHeardFirst, Said
    <3> QED
      BY <1>5, <3>1, <3>2 DEF ReadyHeardFirst, Said
  <2> QED
    BY <2>1, <2>2
<1> QED
  BY <1>7, <1>8, <1>9 DEF AnnounceInv

LEMMA AnnounceOthers ==
  ASSUME TypeOK, PhaseInv, AnnounceInv,
         \/ UNCHANGED vars
         \/ \E t \in Workers : Worker(t) \/ WorkerTimeout(t) \/ WorkerSpurious(t)
         \/ Evaluate
         \/ \E t \in Emitters : Emit(t)
         \/ Deliver
         \/ Complete
  PROVE  AnnounceInv'
<1>1. CASE UNCHANGED vars \/ Complete
  <2>1. UNCHANGED mailbox
    BY <1>1 DEF vars, dispatch, Complete, Handler!Complete
  <2>2. UNCHANGED <<ready, toggles, pend, fates>>
    BY <1>1 DEF vars, client, threads, Complete
  <2> QED
    BY <2>1, <2>2, AnnounceKeep
<1>2. ASSUME NEW t \in Workers,
             \/ WorkerTest(t) \/ WorkerBlock(t) \/ WorkQuietly(t)
             \/ WorkerTimeout(t) \/ WorkerSpurious(t)
      PROVE  AnnounceInv'
  <2>1. UNCHANGED <<ready, toggles, pend, mailbox, fates>>
    BY <1>2 DEF WorkerTest, WorkerBlock, WorkQuietly, WorkerTimeout, WorkerSpurious,
                client, dispatch
  <2> QED
    BY <2>1, AnnounceKeep
<1>3. CASE FetchToggles \/ Evaluate \/ \E t \in Workers : WorkFails(t)
  <2>1. UNCHANGED <<mailbox, fates>>
    BY <1>3 DEF FetchToggles, Evaluate, WorkFails, dispatch
  <2> QED
    BY <1>3, <2>1, AnnounceBegin
<1> QED
  BY <1>1, <1>2, <1>3, AnnounceTest, AnnouncePush, AnnounceDeliver
  DEF Worker, Work, Emit

\* For a client that has no toggles before its first fetch, every Update that is
\* heard comes after a Ready, unless that Ready met a full queue or was still in
\* the queue that stop() empties: for any capacity of the queue, any number of
\* restarts, and whichever worker is enabled.
THEOREM ReadyComesFirst ==
  ASSUME Cached = FALSE
  PROVE  SafeSpec => []ReadyHeardFirst
<1>1. Init => AnnounceInv
  BY AnnounceInit
<1>2. TypeOK /\ PhaseInv /\ AnnounceInv /\ [Next]_vars => AnnounceInv'
  BY AnnounceOwner, AnnounceOthers DEF Next
<1>3. AnnounceInv => ReadyHeardFirst
  BY DEF AnnounceInv
<1> QED
  BY <1>1, <1>2, <1>3, PhaseInductive, PTL DEF SafeSpec
=============================================================================
