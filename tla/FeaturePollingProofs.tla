------------------------ MODULE FeaturePollingProofs ------------------------
(***************************************************************************)
(* Theorems about FeaturePolling, for any number of contexts, toggle sets  *)
(* and updating threads, and any number of changes, faults, crashes and    *)
(* starts.  Only the coherence of the ETag, and the effect of an answer,   *)
(* which depends on it, need assumptions: that the backend never serves    *)
(* the empty toggle set and tags all its answers (the runs that show what  *)
(* happens otherwise are FeaturePollingEmpty and FeaturePollingUntagged).  *)
(***************************************************************************)
EXTENDS FeaturePolling, TLAPS

USE FeaturePollingAssumption

\* What TLAPS cannot see through a record of bounds.
LEMMA SpendType ==
  ASSUME used \in [DOMAIN Bounds -> Nat], NEW b \in DOMAIN Bounds, Spend(b)
  PROVE  used' \in [DOMAIN Bounds -> Nat]
BY DEF Spend

LEMMA BoundNames ==
  DOMAIN Bounds = {"changes", "updates", "faults", "crashes", "starts"}
BY DEF Bounds

\* Each step of save() leaves what it touches well-typed.
LEMMA SaveType ==
  ASSUME TypeOK, NEW set \in Sets, Truncate \/ Write(set) \/ GiveUp
  PROVE  /\ disk' \in Sets
         /\ unsaved' \in BOOLEAN
         /\ used' \in [DOMAIN Bounds -> Nat]
<1>1. CASE Truncate \/ Write(set)
  BY <1>1 DEF Truncate, Write, TypeOK, Sets
<1>2. CASE GiveUp
  BY <1>2, SpendType, BoundNames DEF GiveUp, TypeOK
<1> QED
  BY <1>1, <1>2
-----------------------------------------------------------------------------
(* Types.                                                                  *)

\* A client that is not ready has not said so, and a response that is being
\* handled is one.
TypeInv ==
  /\ TypeOK
  /\ ~ready => readies = 0
  /\ poll = "response" => answer.kind # "none"

LEMMA TypeInit == Init => TypeInv
<1> SUFFICES ASSUME Init PROVE TypeInv
  OBVIOUS
<1>1. NoAnswer \in [kind : AnswerKinds, body : Sets, tag : Sets]
  BY DEF NoAnswer, AnswerKinds, Sets
<1>2. used \in [DOMAIN Bounds -> Nat]
  BY DEF Init
<1>3. upc \in [Updaters -> {"idle", "notify"}] /\ srv \in [Contexts -> Bodies]
  BY DEF Init
<1>4. answer \in [kind : AnswerKinds, body : Sets, tag : Sets] /\ readies \in 0 .. 1
  BY <1>1 DEF Init
<1>5. /\ life \in LifeStates
      /\ poll \in PollStates
      /\ etag \in Sets /\ store \in Sets /\ told \in Sets /\ given \in Sets
      /\ disk \in Sets
      /\ ctx \in Contexts /\ snap \in Contexts
  BY DEF Init, LifeStates, PollStates, Sets
<1> QED
  BY <1>2, <1>3, <1>4, <1>5 DEF Init, TypeInv, TypeOK

LEMMA TypeOwner ==
  ASSUME TypeInv, Owner
  PROVE  TypeInv'
<1> USE DEF TypeInv, TypeOK, owner, context, fetcher, flags, file
<1>1. CASE initializeToggleCache
  BY <1>1 DEF initializeToggleCache, Cached, LifeStates, Sets
<1>2. CASE SaveBootstrap
  <2>1. /\ Truncate \/ Write(store) \/ GiveUp
        /\ life' \in LifeStates
        /\ UNCHANGED <<exit, poll, context, fetcher, flags, srv, upc>>
    BY <1>2 DEF SaveBootstrap, LifeStates
  <2>2. /\ disk' \in Sets /\ unsaved' \in BOOLEAN
        /\ used' \in [DOMAIN Bounds -> Nat]
    BY <2>1, SaveType
  <2> QED
    BY <2>1, <2>2
<1>3. CASE Start
  <2>1. used' \in [DOMAIN Bounds -> Nat]
    BY <1>3, SpendType, BoundNames DEF Start
  <2>2. life' \in LifeStates /\ poll' = "first" /\ poll' \in PollStates
    BY <1>3 DEF Start, LifeStates, PollStates
  <2>3. ready' \in BOOLEAN /\ (ready => ready')
    BY <1>3 DEF Start
  <2> QED
    BY <1>3, <2>1, <2>2, <2>3 DEF Start
<1>4. CASE StopSignal
  BY <1>4 DEF StopSignal, LifeStates
<1>5. CASE StopNotify
  BY <1>5 DEF StopNotify, Notify, LifeStates, PollStates
<1>6. CASE StopJoin
  BY <1>6 DEF StopJoin, LifeStates
<1>7. CASE Crash
  <2>1. answer' \in [kind : AnswerKinds, body : Sets, tag : Sets]
    BY <1>7 DEF Crash, NoAnswer, AnswerKinds, Sets
  <2>2. used' \in [DOMAIN Bounds -> Nat]
    BY <1>7, SpendType, BoundNames DEF Crash
  <2>3. upc' \in [Updaters -> {"idle", "notify"}]
    BY <1>7 DEF Crash
  <2>4. life' \in LifeStates /\ poll' = "off" /\ poll' \in PollStates
    BY <1>7 DEF Crash, LifeStates, PollStates
  <2>5. etag' \in Sets /\ store' \in Sets /\ told' \in Sets /\ given' \in Sets
    BY <1>7 DEF Crash, Sets
  <2>6. ctx' \in Contexts /\ snap' \in Contexts /\ readies' \in 0 .. 1
    BY <1>7 DEF Crash
  <2> QED
    BY <1>7, <2>1, <2>2, <2>3, <2>4, <2>5, <2>6 DEF Crash
<1> QED
  BY <1>1, <1>2, <1>3, <1>4, <1>5, <1>6, <1>7 DEF Owner

LEMMA TypeUpdate ==
  ASSUME TypeInv, Update
  PROVE  TypeInv'
<1> USE DEF TypeInv, TypeOK, owner, context, fetcher, flags, file
<1>1. ASSUME NEW u \in Updaters, NEW c \in Contexts, UpdateAssign(u, c)
      PROVE  TypeInv'
  BY <1>1, SpendType, BoundNames DEF UpdateAssign
<1>2. ASSUME NEW u \in Updaters, UpdateNotify(u)
      PROVE  TypeInv'
  BY <1>2 DEF UpdateNotify, Notify, PollStates
<1> QED
  BY <1>1, <1>2 DEF Update

LEMMA TypeBackend ==
  ASSUME TypeInv, Backend
  PROVE  TypeInv'
<1> USE DEF TypeInv, TypeOK, owner, context, fetcher, flags, file
<1>1. ASSUME NEW c \in Contexts, NEW b \in Bodies, Change(c, b)
      PROVE  TypeInv'
  BY <1>1, SpendType, BoundNames DEF Change
<1>2. CASE Answer
  <2>1. PICK tag \in Tags(srv[snap]) : answer' = Evaluation(Request, tag)
    BY <1>2 DEF Answer
  <2>2. tag \in Sets /\ srv[snap] \in Sets
    BY DEF Tags, Sets
  <2>3. answer' \in [kind : AnswerKinds, body : Sets, tag : Sets]
    BY <2>1, <2>2 DEF Evaluation, Request, AnswerKinds
  <2>4. answer'.kind # "none"
    BY <2>1 DEF Evaluation, Request
  <2> QED
    BY <1>2, <2>3, <2>4 DEF Answer, PollStates
<1>3. ASSUME NEW kind \in {"failed", "bad"}, Fail(kind)
      PROVE  TypeInv'
  <2>1. answer' \in [kind : AnswerKinds, body : Sets, tag : Sets]
    BY <1>3 DEF Fail, AnswerKinds, Sets
  <2> QED
    BY <1>3, <2>1, SpendType, BoundNames DEF Fail, PollStates
<1> QED
  BY <1>1, <1>2, <1>3 DEF Backend

LEMMA TypePolling ==
  ASSUME TypeInv, PollingLoop \/ PollTimeout \/ PollSpurious
  PROVE  TypeInv'
<1> USE DEF TypeInv, TypeOK, owner, context, fetcher, flags, file
<1>1. CASE PollFirst
  BY <1>1 DEF PollFirst, PollStates
<1>2. CASE Receive
  <2>1. /\ answer.kind \in {"ok", "not modified", "failed", "bad"}
        /\ answer.body \in Sets /\ answer.tag \in Sets
    BY <1>2 DEF Receive, AnswerKinds
  <2>2. poll' \in {"error", "test", "cut"} /\ etag' \in Sets
    BY <1>2, <2>1 DEF Receive
  <2> QED
    BY <1>2, <2>2 DEF Receive, PollStates
<1>3. CASE EmitError
  BY <1>3 DEF EmitError, PollStates
<1>4. CASE persistToggles
  <2>1. /\ Truncate \/ Write(answer.body) \/ GiveUp
        /\ poll' \in PollStates /\ poll' # "response"
        /\ UNCHANGED <<owner, context, fetcher, flags, srv, upc>>
    BY <1>4 DEF persistToggles, PollStates
  <2>2. /\ disk' \in Sets /\ unsaved' \in BOOLEAN
        /\ used' \in [DOMAIN Bounds -> Nat]
    BY <2>1, SaveType
  <2> QED
    BY <2>1, <2>2
<1>5. CASE replace
  BY <1>5 DEF replace, PollStates
<1>6. CASE MarkReady
  BY <1>6 DEF MarkReady, PollStates
<1>7. CASE EmitUpdate
  BY <1>7 DEF EmitUpdate, PollStates
<1>8. CASE PollTest
  BY <1>8 DEF PollTest, PollStates
<1>9. CASE PollWait
  BY <1>9 DEF PollWait, TakeContext, PollStates
<1>10. CASE PollBlock
  BY <1>10 DEF PollBlock, PollStates
<1>11. CASE PollTaken
  BY <1>11 DEF PollTaken, PollStates
<1>12. CASE PollTimeout
  BY <1>12 DEF PollTimeout, TakeContext, PollStates
<1>13. CASE PollSpurious
  BY <1>13 DEF PollSpurious, PollStates
<1> QED
  BY <1>1, <1>2, <1>3, <1>4, <1>5, <1>6, <1>7, <1>8, <1>9, <1>10, <1>11,
     <1>12, <1>13 DEF PollingLoop, Handle

LEMMA TypeStep ==
  ASSUME TypeInv, [Next]_vars
  PROVE  TypeInv'
<1>1. CASE UNCHANGED vars
  BY <1>1 DEF vars, owner, context, fetcher, flags, file, TypeInv, TypeOK
<1> QED
  BY <1>1, TypeOwner, TypeUpdate, TypeBackend, TypePolling DEF Next

\* Every variable keeps its type, and a client emits one Ready event at most.
THEOREM TypeCorrect == SafeSpec => []TypeOK
<1>1. TypeInv /\ [Next]_vars => TypeInv'
  BY TypeStep
<1>2. TypeInv => TypeOK
  BY DEF TypeInv
<1> QED
  BY <1>1, <1>2, TypeInit, PTL DEF SafeSpec
-----------------------------------------------------------------------------
(* Lost wakeups and forgotten updates.                                     *)

WakeInv == TypeInv /\ NoLostWakeup /\ UpdateNotForgotten

LEMMA WakeInit == Init => WakeInv
BY TypeInit DEF Init, WakeInv, NoLostWakeup, UpdateNotForgotten

LEMMA WakeStep ==
  ASSUME WakeInv, [Next]_vars
  PROVE  NoLostWakeup' /\ UpdateNotForgotten'
<1> USE DEF WakeInv, NoLostWakeup, UpdateNotForgotten, owner, context, fetcher,
            flags, file
<1>1. CASE UNCHANGED vars
  BY <1>1 DEF vars
<1>2. CASE Owner
  BY <1>2 DEF Owner, initializeToggleCache, SaveBootstrap, Start, StopSignal,
              StopNotify, StopJoin, Crash, Notify
<1>3. ASSUME NEW u \in Updaters, NEW c \in Contexts, UpdateAssign(u, c)
      PROVE  NoLostWakeup' /\ UpdateNotForgotten'
  <2>1. upc'[u] = "notify"
    BY <1>3 DEF UpdateAssign, TypeInv, TypeOK
  <2> QED
    BY <1>3, <2>1 DEF UpdateAssign, MutexFree
<1>4. ASSUME NEW u \in Updaters, UpdateNotify(u)
      PROVE  NoLostWakeup' /\ UpdateNotForgotten'
  <2>1. poll' # "blocked" /\ (poll' = "arming" => poll = "arming")
    BY <1>4 DEF UpdateNotify, Notify
  <2>2. UNCHANGED <<ctx, ctxUpdated, snap>>
    BY <1>4 DEF UpdateNotify
  <2>3. poll = "arming" => ~ctxUpdated
    OBVIOUS
  <2>4. NoLostWakeup'
    BY <2>1, <2>2, <2>3
  <2>5. UpdateNotForgotten'
    BY <2>2
  <2> QED
    BY <2>4, <2>5
<1>5. CASE Backend
  <2>1. UNCHANGED <<ctx, ctxUpdated, snap, upc>>
    BY <1>5 DEF Backend, Change, Answer, Fail
  <2>2. poll' = poll \/ poll' = "response"
    BY <1>5 DEF Backend, Change, Answer, Fail
  <2> QED
    BY <2>1, <2>2
<1>6. CASE Handle
  <2>1. CASE Receive
    <3>1. poll' \in {"error", "test", "cut"}
      BY <2>1 DEF Receive, TypeInv, TypeOK, AnswerKinds
    <3> QED
      BY <2>1, <3>1 DEF Receive
  <2> QED
    BY <1>6, <2>1 DEF Handle, EmitError, persistToggles, replace, MarkReady,
                      EmitUpdate
<1>7. CASE PollFirst \/ PollTest \/ PollBlock \/ PollTaken \/ PollSpurious
  BY <1>7 DEF PollFirst, PollTest, PollBlock, PollTaken, PollSpurious
<1>8. CASE PollWait \/ PollTimeout
  BY <1>8 DEF PollWait, PollTimeout, TakeContext
<1> QED
  BY <1>1, <1>2, <1>3, <1>4, <1>5, <1>6, <1>7, <1>8
  DEF Next, Update, PollingLoop

LEMMA WakeInductive == SafeSpec => []WakeInv
<1>1. WakeInv /\ [Next]_vars => WakeInv'
  BY WakeStep, TypeStep DEF WakeInv
<1> QED
  BY <1>1, WakeInit, PTL DEF SafeSpec

\* The polling thread does not sleep through an update of the context, for any
\* number of updating threads.
THEOREM WakeupsNotLost == SafeSpec => []NoLostWakeup
<1>1. WakeInv => NoLostWakeup
  BY DEF WakeInv
<1> QED
  BY <1>1, WakeInductive, PTL

\* When nothing is left to pick up, the latest request is for the current
\* context.
THEOREM UpdatesKept == SafeSpec => []UpdateNotForgotten
<1>1. WakeInv => UpdateNotForgotten
  BY DEF WakeInv
<1> QED
  BY <1>1, WakeInductive, PTL
-----------------------------------------------------------------------------
(* The toggles, on disk, in the store, and as events tell of them.         *)

\* What the phases of the owner and of the polling thread say of the toggles.
PhaseInv ==
  /\ life \in {"down", "cut", "fill", "idle"} => poll = "off"
  /\ life \in {"down", "cut", "fill"} => etag = Nothing /\ ~ready
  /\ life = "down" => store = Nothing /\ given = Nothing /\ answer = NoAnswer
  /\ life = "down" => told = Nothing
  /\ life \in {"cut", "fill"} => store # Nothing
  /\ poll = "response" => answer.body \in Bodies
  /\ Saving => answer.body \in Bodies
  /\ poll = "replace" /\ ~unsaved => disk = answer.body
  /\ poll \in {"mark", "update"} => store # Nothing

\* _ready is set when, and only when, there are toggles: by start() for those of
\* the constructor, and else by the polling thread, which then emits Ready.
ReadyInv ==
  /\ ReadyMeansToggles
  /\ ready => readies = IF given = Nothing THEN 1 ELSE 0
  /\ poll = "update" => ready
  /\ given # Nothing => store # Nothing
  /\ given # Nothing /\ poll # "off" => ready
  /\ given = Nothing /\ store # Nothing /\ poll # "mark" => ready

\* Only between replace() and its Update event is the store ahead of the events.
ToldInv ==
  poll \notin {"mark", "update"} =>
    store = IF told = Nothing THEN given ELSE told

ToggleInv == TypeInv /\ PhaseInv /\ ReadyInv /\ ToldInv /\ DurableBeforeVisible

LEMMA ToggleInit == Init => ToggleInv
<1> SUFFICES ASSUME Init PROVE ToggleInv
  OBVIOUS
<1>1. PhaseInv
  BY DEF Init, PhaseInv, Saving
<1>2. ReadyInv /\ ToldInv /\ DurableBeforeVisible
  BY DEF Init, ReadyInv, ReadyMeansToggles, ToldInv, DurableBeforeVisible
<1> QED
  BY <1>1, <1>2, TypeInit DEF ToggleInv

LEMMA ToggleOwner ==
  ASSUME ToggleInv, Owner
  PROVE  PhaseInv' /\ ReadyInv' /\ ToldInv' /\ DurableBeforeVisible'
<1> USE DEF PhaseInv, ReadyInv, ReadyMeansToggles, ToldInv,
            DurableBeforeVisible, Saving, owner, context, fetcher, flags, file
<1>0. /\ TypeInv /\ TypeOK /\ PhaseInv /\ ReadyInv /\ ToldInv
      /\ DurableBeforeVisible
  BY DEF ToggleInv, TypeInv
<1>1. CASE initializeToggleCache
  BY <1>0, <1>1 DEF initializeToggleCache, Cached
<1>2. CASE SaveBootstrap
  BY <1>0, <1>2 DEF SaveBootstrap, Truncate, Write, GiveUp
<1>3. CASE Start
  BY <1>0, <1>3 DEF Start, TypeInv
<1>4. CASE StopSignal
  BY <1>0, <1>4 DEF StopSignal
<1>5. CASE StopNotify
  BY <1>0, <1>5 DEF StopNotify, Notify
<1>6. CASE StopJoin
  BY <1>0, <1>6 DEF StopJoin
<1>7. CASE Crash
  BY <1>0, <1>7 DEF Crash
<1> QED
  BY <1>1, <1>2, <1>3, <1>4, <1>5, <1>6, <1>7 DEF Owner

LEMMA ToggleOthers ==
  ASSUME ToggleInv,
         \/ UNCHANGED vars
         \/ Update
         \/ Backend
         \/ PollTimeout
         \/ PollSpurious
         \/ PollFirst
         \/ PollTest
         \/ PollWait
         \/ PollBlock
         \/ PollTaken
  PROVE  PhaseInv' /\ ReadyInv' /\ ToldInv' /\ DurableBeforeVisible'
<1> USE DEF PhaseInv, ReadyInv, ReadyMeansToggles, ToldInv,
            DurableBeforeVisible, Saving, owner, context, fetcher, flags, file
<1>0. /\ TypeInv /\ TypeOK /\ PhaseInv /\ ReadyInv /\ ToldInv
      /\ DurableBeforeVisible
  BY DEF ToggleInv, TypeInv
<1>1. CASE UNCHANGED vars
  BY <1>0, <1>1 DEF vars
<1>2. CASE Update
  BY <1>0, <1>2 DEF Update, UpdateAssign, UpdateNotify, Notify
<1>3. CASE Backend
  <2>1. ASSUME NEW c \in Contexts, NEW b \in Bodies, Change(c, b)
        PROVE  PhaseInv' /\ ReadyInv' /\ ToldInv' /\ DurableBeforeVisible'
    BY <1>0, <2>1 DEF Change
  <2>2. srv[snap] \in Bodies
    BY <1>0 DEF TypeOK
  <2>3. CASE Answer
    <3>1. answer'.body \in Bodies
      <4>1. PICK tag \in Tags(srv[snap]) : answer' = Evaluation(Request, tag)
        BY <2>3 DEF Answer
      <4>2. answer'.body = srv[snap]
        BY <4>1 DEF Evaluation, Request
      <4> QED
        BY <2>2, <4>2
    <3>2. /\ poll = "request" /\ poll' = "response"
          /\ UNCHANGED <<life, etag, flags, file>>
      BY <2>3 DEF Answer
    <3>3. PhaseInv'
      BY <1>0, <3>1, <3>2
    <3>4. ReadyInv' /\ ToldInv' /\ DurableBeforeVisible'
      BY <1>0, <3>2
    <3> QED
      BY <3>3, <3>4
  <2>4. ASSUME NEW kind \in {"failed", "bad"}, Fail(kind)
        PROVE  PhaseInv' /\ ReadyInv' /\ ToldInv' /\ DurableBeforeVisible'
    BY <1>0, <2>2, <2>4 DEF Fail
  <2> QED
    BY <1>3, <2>1, <2>3, <2>4 DEF Backend
<1>4. CASE PollTimeout \/ PollWait
  <2>1. poll \in {"blocked", "wait"} /\ poll' \in {"taken", "arming"}
    BY <1>4 DEF PollTimeout, PollWait, TakeContext
  <2>2. UNCHANGED <<life, etag, answer, flags, file>>
    BY <1>4 DEF PollTimeout, PollWait
  <2>3. ReadyInv' /\ ToldInv'
    BY <1>0, <2>1, <2>2
  <2>4. PhaseInv' /\ DurableBeforeVisible'
    BY <1>0, <2>1, <2>2
  <2> QED
    BY <2>3, <2>4
<1>5. CASE PollSpurious \/ PollFirst \/ PollTest \/ PollBlock \/ PollTaken
  BY <1>0, <1>5 DEF PollSpurious, PollFirst, PollTest, PollBlock, PollTaken
<1> QED
  BY <1>1, <1>2, <1>3, <1>4, <1>5

LEMMA ToggleHandle ==
  ASSUME ToggleInv, Handle
  PROVE  PhaseInv' /\ ReadyInv' /\ ToldInv' /\ DurableBeforeVisible'
<1> USE DEF PhaseInv, ReadyInv, ReadyMeansToggles, ToldInv,
            DurableBeforeVisible, Saving, owner, context, fetcher, flags, file
<1>0. /\ TypeInv /\ TypeOK /\ PhaseInv /\ ReadyInv /\ ToldInv
      /\ DurableBeforeVisible
  BY DEF ToggleInv, TypeInv
<1>1. CASE Receive
  <2>1. /\ poll' \in {"error", "test", "cut"}
        /\ poll' = "cut" => answer.kind = "ok"
    BY <1>0, <1>1 DEF Receive, TypeInv, TypeOK, AnswerKinds
  <2>2. life \notin {"down", "cut", "fill", "idle"}
    BY <1>0, <1>1 DEF Receive
  <2>3. UNCHANGED <<life, answer, flags, file>>
    BY <1>1 DEF Receive
  <2> QED
    <3>1. poll = "response"
      BY <1>1 DEF Receive
    <3>2. ReadyInv' /\ ToldInv'
      BY <1>0, <2>1, <2>3, <3>1
    <3>3. PhaseInv' /\ DurableBeforeVisible'
      BY <1>0, <2>1, <2>2, <2>3, <3>1
    <3> QED
      BY <3>2, <3>3
<1>2. CASE EmitError
  BY <1>0, <1>2 DEF EmitError
<1>3. CASE persistToggles
  BY <1>0, <1>3 DEF persistToggles, Truncate, Write, GiveUp
<1>4. CASE replace
  BY <1>0, <1>4 DEF replace
<1>5. CASE MarkReady
  BY <1>0, <1>5 DEF MarkReady, TypeInv
<1>6. CASE EmitUpdate
  BY <1>0, <1>6 DEF EmitUpdate
<1> QED
  BY <1>1, <1>2, <1>3, <1>4, <1>5, <1>6 DEF Handle

LEMMA ToggleInductive == SafeSpec => []ToggleInv
<1>1. ToggleInv /\ [Next]_vars => ToggleInv'
  <2> SUFFICES ASSUME ToggleInv, [Next]_vars PROVE ToggleInv'
    OBVIOUS
  <2>1. TypeInv'
    BY TypeStep DEF ToggleInv
  <2>2. PhaseInv' /\ ReadyInv' /\ ToldInv' /\ DurableBeforeVisible'
    BY ToggleOwner, ToggleOthers, ToggleHandle DEF Next, PollingLoop
  <2> QED
    BY <2>1, <2>2 DEF ToggleInv
<1> QED
  BY <1>1, ToggleInit, PTL DEF SafeSpec

\* What the application may see is on disk, whatever crashes and when, unless the
\* latest save() has failed.
THEOREM Durable == SafeSpec => []DurableBeforeVisible
<1>1. ToggleInv => DurableBeforeVisible
  BY DEF ToggleInv
<1> QED
  BY <1>1, ToggleInductive, PTL

\* isReady() is true exactly when the started client has toggles.
THEOREM ReadinessHonest == SafeSpec => []ReadyMeansToggles
<1>1. ToggleInv => ReadyMeansToggles
  BY DEF ToggleInv, ReadyInv
<1> QED
  BY <1>1, ToggleInductive, PTL

\* Ready, once per client, precedes every Update event, unless the constructor had
\* toggles: then the polling thread never emits it.
THEOREM ReadyFirst == SafeSpec => []ReadyBeforeUpdate
<1>1. ToggleInv => ReadyBeforeUpdate
  BY DEF ToggleInv, ReadyInv, ReadyBeforeUpdate
<1> QED
  BY <1>1, ToggleInductive, PTL

\* The toggles in the store when the polling thread rests are those of its latest
\* Update event or, before the first, of the constructor.
THEOREM Announced == SafeSpec => []ChangesEmitted
<1>1. ToggleInv => ChangesEmitted
  BY DEF ToggleInv, ToldInv, ChangesEmitted
<1> QED
  BY <1>1, ToggleInductive, PTL

\* The polling thread emits every change of the store, Ready first.
THEOREM EventsAreEmitted == SafeSpec => []EventsEmitted
<1>1. ReadyBeforeUpdate /\ ChangesEmitted => EventsEmitted
  BY DEF EventsEmitted
<1> QED
  BY <1>1, ReadyFirst, Announced, PTL
-----------------------------------------------------------------------------
(* The ETag.                                                               *)

\* The backend never serves the empty toggle set.
NeverEmpty == Empty \notin Bodies

\* An answer that has toggles has their tag.
TagInv == poll = "response" /\ answer.kind = "ok" => answer.tag = answer.body

LEMMA TagStep ==
  ASSUME ~Untagged, TypeInv, TagInv, [Next]_vars
  PROVE  TagInv'
<1>1. CASE Answer
  <2>1. answer' = Evaluation(Request, srv[snap])
    BY <1>1 DEF Answer, Tags
  <2> QED
    BY <2>1 DEF TagInv, Evaluation, Request
<1>2. ASSUME NEW kind \in {"failed", "bad"}, Fail(kind) PROVE TagInv'
  BY <1>2 DEF TagInv, Fail
<1>3. CASE UNCHANGED vars
  BY <1>3 DEF vars, fetcher, TagInv
<1>4. ASSUME NEW c \in Contexts, NEW b \in Bodies, Change(c, b) PROVE TagInv'
  BY <1>4 DEF Change, fetcher, TagInv
<1>5. CASE Owner \/ Update
  BY <1>5 DEF Owner, initializeToggleCache, SaveBootstrap, Start, StopSignal,
              StopNotify, StopJoin, Crash, Notify, Update, UpdateAssign,
              UpdateNotify, fetcher, TagInv
<1>6. CASE PollingLoop \/ PollTimeout \/ PollSpurious
  <2>1. CASE Receive
    <3>1. poll' \in {"error", "test", "cut"}
      BY <2>1 DEF Receive, TypeInv, TypeOK, AnswerKinds
    <3> QED
      BY <3>1 DEF TagInv
  <2>2. CASE Handle /\ ~Receive
    BY <2>2 DEF Handle, EmitError, persistToggles, replace, MarkReady, EmitUpdate,
                TagInv
  <2>3. CASE PollFirst \/ PollTest \/ PollBlock \/ PollTaken \/ PollSpurious
    BY <2>3 DEF PollFirst, PollTest, PollBlock, PollTaken, PollSpurious, TagInv
  <2>4. CASE PollWait \/ PollTimeout
    BY <2>4 DEF PollWait, PollTimeout, TakeContext, TagInv
  <2> QED
    BY <1>6, <2>1, <2>2, <2>3, <2>4 DEF PollingLoop
<1> QED
  BY <1>1, <1>2, <1>3, <1>4, <1>5, <1>6 DEF Next, Backend

\* As long as the backend serves some toggles and tags them, the ETag that the
\* fetcher presents is that of the toggles in the store.
THEOREM TagsCoherent ==
  ASSUME NeverEmpty, ~Untagged
  PROVE  SafeSpec => []CacheCoherent
<1>1. Init => CacheCoherent /\ TagInv
  BY DEF Init, CacheCoherent, TagInv
<1>2. ToggleInv /\ TagInv /\ CacheCoherent /\ [Next]_vars => CacheCoherent'
  <2> SUFFICES ASSUME ToggleInv, TagInv, CacheCoherent, [Next]_vars
               PROVE  CacheCoherent'
    OBVIOUS
  <2> USE DEF CacheCoherent, Saving, owner, context, fetcher, flags, file
  <2>0. TypeInv /\ TypeOK /\ PhaseInv
    BY DEF ToggleInv, TypeInv
  <2>1. CASE UNCHANGED vars
    BY <2>1 DEF vars
  <2>2. CASE Owner
    BY <2>0, <2>2 DEF Owner, initializeToggleCache, SaveBootstrap, Start,
                      StopSignal, StopNotify, StopJoin, Crash, Notify, PhaseInv
  <2>3. CASE Update
    BY <2>3 DEF Update, UpdateAssign, UpdateNotify, Notify
  <2>4. CASE Backend
    BY <2>4 DEF Backend, Change, Answer, Fail
  <2>5. CASE Receive
    <3>1. CASE answer.kind = "ok"
      <4>1. answer.body # Empty /\ answer.body # Nothing /\ answer.tag = answer.body
        BY <2>0, <2>5, <3>1, NeverEmpty DEF Receive, PhaseInv, NeverEmpty, TagInv
      <4> QED
        BY <2>5, <3>1, <4>1 DEF Receive
    <3>2. CASE answer.kind \in {"not modified", "failed", "bad"}
      <4>1. poll' \in {"error", "test"} /\ UNCHANGED <<etag, store, answer>>
        BY <2>5, <3>2 DEF Receive
      <4> QED
        BY <2>5, <4>1 DEF Receive
    <3> QED
      BY <2>0, <2>5, <3>1, <3>2 DEF Receive, TypeInv, TypeOK, AnswerKinds
  <2>6. CASE EmitError \/ persistToggles \/ replace \/ MarkReady \/ EmitUpdate
    BY <2>6 DEF EmitError, persistToggles, replace, MarkReady, EmitUpdate
  <2>7. CASE PollFirst \/ PollTest \/ PollBlock \/ PollTaken \/ PollSpurious
    BY <2>7 DEF PollFirst, PollTest, PollBlock, PollTaken, PollSpurious
  <2>8. CASE PollWait \/ PollTimeout
    BY <2>8 DEF PollWait, PollTimeout, TakeContext
  <2> QED
    BY <2>1, <2>2, <2>3, <2>4, <2>5, <2>6, <2>7, <2>8
    DEF Next, PollingLoop, Handle
<1>3. ToggleInv /\ TagInv /\ [Next]_vars => TagInv'
  BY TagStep DEF ToggleInv
<1> QED
  BY <1>1, <1>2, <1>3, ToggleInductive, PTL DEF SafeSpec

\* A request that was answered with "not modified" was made for what is in the
\* store, before and after the answer is handled.
TakesInv ==
  /\ AnswerTakesEffect
  /\ poll = "response" /\ answer.kind = "not modified" => store = answer.body

LEMMA TakesStep ==
  ASSUME NeverEmpty, ToggleInv, CacheCoherent, TakesInv, [Next]_vars
  PROVE  TakesInv'
<1> USE DEF TakesInv, AnswerTakesEffect, Saving, owner, context, fetcher, flags, file
<1>0. TypeOK /\ PhaseInv
  BY DEF ToggleInv, TypeInv
<1>1. CASE UNCHANGED vars
  BY <1>1 DEF vars
<1>2. CASE Owner
  <2>1. CASE initializeToggleCache
    <3>1. life = "down"
      BY <2>1 DEF initializeToggleCache
    <3>2. answer = NoAnswer
      BY <1>0, <3>1 DEF PhaseInv
    <3> QED
      BY <2>1, <3>2 DEF initializeToggleCache, NoAnswer
  <2>2. CASE SaveBootstrap \/ StopSignal \/ StopNotify \/ StopJoin
    BY <2>2 DEF SaveBootstrap, StopSignal, StopNotify, StopJoin, Notify
  <2>3. CASE Start
    BY <1>0, <2>3 DEF Start, PhaseInv
  <2>4. CASE Crash
    BY <2>4 DEF Crash, NoAnswer
  <2> QED
    BY <1>2, <2>1, <2>2, <2>3, <2>4 DEF Owner
<1>3. CASE Update
  BY <1>3 DEF Update, UpdateAssign, UpdateNotify, Notify
<1>4. ASSUME NEW c \in Contexts, NEW b \in Bodies, Change(c, b)
      PROVE  TakesInv'
  BY <1>4 DEF Change
<1>5. CASE Answer
  <2>1. PICK tag : answer' = Evaluation(Request, tag)
    BY <1>5 DEF Answer
  <2>2. /\ answer'.body = srv[snap]
        /\ answer'.kind = "not modified" => etag = srv[snap]
    BY <2>1 DEF Evaluation, Request
  <2>3. srv[snap] # Nothing
    <3>1. srv[snap] \in Bodies
      BY <1>0 DEF TypeOK
    <3> QED
      BY <3>1
  <2>4. poll = "request" /\ poll' = "response" /\ store' = store
    BY <1>5 DEF Answer
  <2>5. etag # Nothing => store = etag
    BY <2>4 DEF CacheCoherent
  <2> QED
    BY <2>2, <2>3, <2>4, <2>5
<1>6. ASSUME NEW kind \in {"failed", "bad"}, Fail(kind)
      PROVE  TakesInv'
  BY <1>6 DEF Fail
<1>7. CASE Receive
  <2>1. /\ answer.kind = "ok" => answer.body # Empty
        /\ poll = "response" /\ UNCHANGED <<answer, store>>
    BY <1>0, <1>7 DEF Receive, PhaseInv, NeverEmpty
  <2>2. answer.kind = "ok" => poll' = "cut"
    BY <1>7, <2>1 DEF Receive
  <2> QED
    BY <1>7, <2>1, <2>2 DEF Receive
<1>8. CASE EmitError \/ persistToggles \/ replace \/ MarkReady \/ EmitUpdate
  BY <1>8 DEF EmitError, persistToggles, replace, MarkReady, EmitUpdate
<1>9. CASE PollFirst \/ PollTest \/ PollBlock \/ PollTaken \/ PollSpurious
  BY <1>9 DEF PollFirst, PollTest, PollBlock, PollTaken, PollSpurious
<1>10. CASE PollWait \/ PollTimeout
  BY <1>10 DEF PollWait, PollTimeout, TakeContext
<1> QED
  BY <1>1, <1>2, <1>3, <1>4, <1>5, <1>6, <1>7, <1>8, <1>9, <1>10
  DEF Next, Backend, PollingLoop, Handle

\* As long as the backend serves some toggles and tags them, what it answered to
\* the latest request is what the application evaluates, until the next answer.
THEOREM AnswersTakeEffect ==
  ASSUME NeverEmpty, ~Untagged
  PROVE  SafeSpec => []AnswerTakesEffect
<1>1. Init => TakesInv
  BY DEF Init, TakesInv, AnswerTakesEffect, NoAnswer
<1>2. NeverEmpty /\ ToggleInv /\ CacheCoherent /\ TakesInv /\ [Next]_vars => TakesInv'
  BY TakesStep
<1>3. TakesInv => AnswerTakesEffect
  BY DEF TakesInv
<1> QED
  BY <1>1, <1>2, <1>3, TagsCoherent, ToggleInductive, PTL DEF SafeSpec
-----------------------------------------------------------------------------
(* The polling thread as its owner sees it.                                *)

\* The thread runs between start() and the join, and is told to exit by stop().
StopInv ==
  /\ poll # "off" => life \in {"running", "signalled", "joining"}
  /\ life = "running" => ~exit /\ poll # "off"
  /\ life \in {"signalled", "joining"} => exit

LEMMA StopStep ==
  ASSUME TypeInv, StopInv, [Next]_vars
  PROVE  StopInv'
<1>1. CASE UNCHANGED vars
  BY <1>1 DEF vars, owner, StopInv
<1>2. CASE initializeToggleCache \/ SaveBootstrap
  BY <1>2 DEF initializeToggleCache, SaveBootstrap, StopInv
<1>3. CASE Start \/ StopSignal \/ StopNotify \/ StopJoin \/ Crash
  BY <1>3 DEF Start, StopSignal, StopNotify, StopJoin, Crash, Notify, StopInv
<1>4. CASE Update
  <2>1. UNCHANGED <<life, exit>> /\ (poll' # "off" <=> poll # "off")
    BY <1>4 DEF Update, UpdateAssign, UpdateNotify, Notify, owner
  <2> QED
    BY <2>1 DEF StopInv
<1>5. CASE Backend
  <2>1. UNCHANGED <<life, exit>> /\ (poll' # "off" <=> poll # "off")
    BY <1>5 DEF Backend, Change, Answer, Fail, owner
  <2> QED
    BY <2>1 DEF StopInv
<1>6. CASE PollTest \/ PollTaken
  BY <1>6 DEF PollTest, PollTaken, owner, StopInv
<1>7. CASE \/ PollFirst \/ PollBlock \/ PollWait \/ PollTimeout \/ PollSpurious
           \/ Handle
  <2>1. UNCHANGED <<life, exit>> /\ poll # "off" /\ poll' # "off"
    <3>1. CASE Receive
      <4>1. poll = "response" /\ UNCHANGED owner
        BY <3>1 DEF Receive
      <4>2. answer.kind \in AnswerKinds /\ answer.kind # "none"
        BY <4>1 DEF TypeInv, TypeOK
      <4>3. poll' \in {"error", "test", "cut"}
        BY <3>1, <4>2 DEF Receive, AnswerKinds
      <4> QED
        BY <4>1, <4>3 DEF owner
    <3>2. CASE EmitError \/ persistToggles \/ replace \/ MarkReady \/ EmitUpdate
      BY <3>2 DEF EmitError, persistToggles, replace, MarkReady, EmitUpdate, owner
    <3>3. CASE PollFirst \/ PollBlock \/ PollSpurious
      BY <3>3 DEF PollFirst, PollBlock, PollSpurious, owner
    <3>4. CASE PollWait \/ PollTimeout
      BY <3>4 DEF PollWait, PollTimeout, TakeContext, owner
    <3> QED
      BY <1>7, <3>1, <3>2, <3>3, <3>4 DEF Handle
  <2> QED
    BY <2>1 DEF StopInv
<1> QED
  BY <1>1, <1>2, <1>3, <1>4, <1>5, <1>6, <1>7 DEF Next, Owner, PollingLoop

LEMMA StopInit == Init => StopInv
BY DEF Init, StopInv

LEMMA StopInductive == SafeSpec => [](TypeInv /\ StopInv)
<1>1. Init => TypeInv /\ StopInv
  BY TypeInit, StopInit
<1>2. TypeInv /\ StopInv /\ [Next]_vars => (TypeInv /\ StopInv)'
  BY TypeStep, StopStep
<1> QED
  BY <1>1, <1>2, PTL DEF SafeSpec

LEMMA ThreadOwner ==
  ASSUME StopInv, Owner
  PROVE  Thread!Next \/ UNCHANGED Thread!workerVars
<1> USE DEF StopInv, Thread!Next, Thread!workerVars, Shape, Resting
<1>1. CASE initializeToggleCache
  <2>1. /\ life = "down" /\ life' # "down" /\ UNCHANGED poll
        /\ life' \notin {"signalled", "joining"}
    BY <1>1 DEF initializeToggleCache
  <2> QED
    BY <2>1 DEF Thread!Boot
<1>2. CASE SaveBootstrap \/ StopNotify
  <2>1. Shape(poll') = Shape(poll)
    BY <1>2 DEF SaveBootstrap, StopNotify, Notify
  <2>2. /\ life # "down" /\ life' # "down"
        /\ life' \in {"signalled", "joining"} <=> life \in {"signalled", "joining"}
    BY <1>2 DEF SaveBootstrap, StopNotify
  <2> QED
    BY <2>1, <2>2
<1>3. CASE Start
  BY <1>3 DEF Start, Thread!Launch
<1>4. CASE StopSignal
  BY <1>4 DEF StopSignal, Thread!Tell
<1>5. CASE StopJoin
  BY <1>5 DEF StopJoin, Thread!Join
<1>6. CASE Crash
  BY <1>6 DEF Crash, Thread!Die
<1> QED
  BY <1>1, <1>2, <1>3, <1>4, <1>5, <1>6 DEF Owner

LEMMA ThreadLoop ==
  ASSUME TypeInv, StopInv,
         PollingLoop \/ PollTimeout \/ PollSpurious
  PROVE  Thread!Next \/ UNCHANGED Thread!workerVars
<1>1. life # "down" /\ UNCHANGED <<life, exit>>
  <2>1. poll # "off" /\ UNCHANGED owner
    BY DEF PollingLoop, Handle, Receive, EmitError, persistToggles, replace,
           MarkReady, EmitUpdate, PollFirst, PollTest, PollWait, PollBlock,
           PollTaken, PollTimeout, PollSpurious
  <2> QED
    BY <2>1 DEF StopInv, owner
<1>2. CASE PollTest \/ PollTaken
  BY <1>1, <1>2 DEF PollTest, PollTaken, StopInv, Shape, Resting, Thread!Next,
                    Thread!Leave, Thread!Begin, Thread!workerVars
<1>3. CASE PollWait \/ PollTimeout \/ PollBlock \/ PollSpurious
  <2>1. poll \in Resting /\ poll' \in Resting
    BY <1>3 DEF PollWait, PollTimeout, PollBlock, PollSpurious, TakeContext, Resting
  <2> QED
    BY <1>1, <2>1 DEF Shape, Resting, Thread!workerVars
<1>4. CASE Handle \/ PollFirst
  <2>1. poll \notin Resting \cup {"off"}
    BY <1>4 DEF Handle, Receive, EmitError, persistToggles, replace, MarkReady,
                EmitUpdate, PollFirst, Resting
  <2>2. poll' = "test" \/ poll' \notin Resting \cup {"off"}
    <3>1. CASE Receive
      <4>1. answer.kind \in AnswerKinds /\ answer.kind # "none"
        BY <3>1 DEF Receive, TypeInv, TypeOK
      <4> QED
        BY <3>1, <4>1 DEF Receive, AnswerKinds, Resting
    <3>2. CASE EmitError \/ persistToggles \/ replace \/ MarkReady \/ EmitUpdate
      BY <3>2 DEF EmitError, persistToggles, replace, MarkReady, EmitUpdate, Resting
    <3>3. CASE PollFirst
      BY <3>3 DEF PollFirst, Resting
    <3> QED
      BY <1>4, <3>1, <3>2, <3>3 DEF Handle
  <2> QED
    BY <1>1, <2>1, <2>2
    DEF Shape, Resting, Thread!Next, Thread!Finish, Thread!workerVars
<1> QED
  BY <1>2, <1>3, <1>4 DEF PollingLoop

LEMMA ThreadOthers ==
  ASSUME UNCHANGED vars \/ Update \/ Backend
  PROVE  UNCHANGED Thread!workerVars
<1>1. UNCHANGED life
  BY DEF vars, owner, Update, UpdateAssign, UpdateNotify, Backend, Change,
         Answer, Fail
<1>2. CASE UNCHANGED vars \/ Update
  <2>1. poll' = poll \/ (poll = "blocked" /\ poll' = "wait")
    BY <1>2 DEF vars, Update, UpdateAssign, UpdateNotify, Notify
  <2> QED
    BY <1>1, <2>1 DEF Shape, Resting, Thread!workerVars
<1>3. CASE Backend
  <2>1. poll' = poll \/ (poll = "request" /\ poll' = "response")
    BY <1>3 DEF Backend, Change, Answer, Fail
  <2> QED
    BY <1>1, <2>1 DEF Shape, Resting, Thread!workerVars
<1> QED
  BY <1>2, <1>3

\* The polling thread is a worker: told to leave it begins no further request,
\* and it is gone when, and only when, stop() joins it.
THEOREM ImplementsWorker == SafeSpec => Thread!SafeSpec
<1>1. Init => Thread!Init
  BY DEF Init, Thread!Init, Shape
<1>2. TypeInv /\ StopInv /\ [Next]_vars => [Thread!Next]_(Thread!workerVars)
  BY ThreadOwner, ThreadLoop, ThreadOthers DEF Next
<1> QED
  BY <1>1, <1>2, StopInductive, PTL DEF SafeSpec, Thread!SafeSpec
=============================================================================
