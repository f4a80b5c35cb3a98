--------------------------- MODULE FeaturePolling ---------------------------
(***************************************************************************)
(* How the client gets and keeps its feature toggles: the construction of  *)
(* the flag store from the backup file or the bootstrap, the polling       *)
(* thread, the fetch with its ETag, the backup file, and updateContext(),  *)
(* which wakes the polling thread.  The process may crash at any step and  *)
(* be started again; only the file survives.  Saving it may fail, and the  *)
(* client is not told.                                                     *)
(*                                                                         *)
(* The backend is external: it evaluates every context to a toggle set,    *)
(* changes its mind now and then, tags its answers with an ETag that       *)
(* stands for their toggle set, and answers 304 to the tag of the set it   *)
(* would have sent.  A request may also fail or be answered by garbage,    *)
(* and an answer may lack its tag, if Untagged says so.                    *)
(***************************************************************************)
EXTENDS Naturals

CONSTANTS
  Contexts,      \* what _context may be
  InitialContext,
  Bodies,        \* the toggle sets the backend may serve
  Empty,         \* the toggle set with no toggles
  Nothing,       \* no toggle set: store not ready, no ETag, no usable file
  Bootstraps,    \* the overriding bootstraps a process may be given, or Nothing
  Updaters,      \* threads that call updateContext()
  Untagged,      \* may an answer come without its ETag?
  MaxChanges,    \* bound: how often the backend changes its mind
  MaxUpdates,    \* bound: calls of updateContext()
  MaxFaults,     \* bound: requests and saves that fail
  MaxCrashes,    \* bound: crashes of the process
  MaxStarts      \* bound: calls of start()

ASSUME FeaturePollingAssumption ==
  /\ InitialContext \in Contexts
  /\ Nothing \notin Bodies
  /\ Untagged \in BOOLEAN
  /\ Bootstraps \subseteq (Bodies \ {Empty}) \cup {Nothing}
  /\ MaxChanges \in Nat
  /\ MaxUpdates \in Nat
  /\ MaxFaults \in Nat
  /\ MaxCrashes \in Nat
  /\ MaxStarts \in Nat

VARIABLES
  life,        \* where the thread that owns the client is
  exit,        \* _exitThreads
  poll,        \* where the polling thread is
  ctx,         \* _context
  ctxUpdated,  \* _contextUpdated
  snap,        \* the context of the current or latest request
  etag,        \* the ETag the fetcher presents
  answer,      \* the response being handled, or handled last
  store,       \* the toggle set in _flagStore; Nothing: not ready
  ready,       \* _ready
  readies,     \* history: Ready events emitted while the dispatcher runs
  told,        \* history: the toggle set of the latest Update event emitted
  given,       \* history: the toggle set that the constructor stored
  disk,        \* the toggle set in the backup file
  unsaved,     \* history: the latest save() of this process has failed
  srv,         \* the toggle set the backend evaluates for each context
  upc,         \* where each updating thread is
  used         \* how much of each bound is used up

owner   == <<life, exit>>
context == <<ctx, ctxUpdated, snap>>
fetcher == <<etag, answer>>
flags   == <<store, ready, readies, told, given>>
file    == <<disk, unsaved>>

vars == <<owner, poll, context, fetcher, flags, file, srv, upc, used>>

Sets   == Bodies \cup {Nothing}
Bounds == [changes |-> MaxChanges, updates |-> MaxUpdates,
           faults |-> MaxFaults, crashes |-> MaxCrashes, starts |-> MaxStarts]

\* The client object exists: its constructor has returned.
Built == life \notin {"down", "cut", "fill"}

NoAnswer == [kind |-> "none", body |-> Nothing, tag |-> Nothing]

Init ==
  /\ life = "down"
  /\ exit = FALSE
  /\ poll = "off"
  /\ ctx = InitialContext
  /\ ctxUpdated = FALSE
  /\ snap = InitialContext
  /\ etag = Nothing
  /\ answer = NoAnswer
  /\ store = Nothing
  /\ ready = FALSE
  /\ readies = 0
  /\ told = Nothing
  /\ given = Nothing
  /\ disk = Nothing
  /\ unsaved = FALSE
  /\ srv \in [Contexts -> Bodies]
  /\ upc = [u \in Updaters |-> "idle"]
  /\ used = [b \in DOMAIN Bounds |-> 0]

Spend(b) ==
  /\ used[b] < Bounds[b]
  /\ used' = [used EXCEPT ![b] = @ + 1]

\* _mutexPolling is held between steps only by the polling thread about to
\* block.
MutexFree == poll # "arming"

\* notify_one() and notify_all(): the polling thread is the only waiter.
Notify == poll' = IF poll = "blocked" THEN "wait" ELSE poll
-----------------------------------------------------------------------------
(* FileStorageProvider::save(), which returns nothing.  It creates the     *)
(* directory, opens and truncates the file, writes it, and gives up where  *)
(* one of these fails: the file is then as it was, or has no toggle set.   *)

Truncate == disk' = Nothing /\ UNCHANGED <<unsaved, used>>

Write(set) == disk' = set /\ unsaved' = FALSE /\ UNCHANGED used

GiveUp == Spend("faults") /\ unsaved' = TRUE /\ UNCHANGED disk
-----------------------------------------------------------------------------
(* The owner: constructor, start(), stop(), crash.                         *)

\* FileStorageProvider::get() has toggles: the file is there, and decodes.
Cached == disk \notin {Nothing, Empty}

\* A usable file wins over the bootstrap; the bootstrap is used, and saved,
\* when there is none.
initializeToggleCache ==
  /\ life = "down"
  /\ IF Cached
       THEN store' = disk /\ life' = "idle"
       ELSE \E bootstrap \in Bootstraps :
              /\ store' = bootstrap
              /\ life' = IF bootstrap # Nothing THEN "cut" ELSE "idle"
  /\ given' = store'
  /\ UNCHANGED <<exit, poll, context, fetcher, ready, readies, told, file>>
  /\ UNCHANGED <<srv, upc, used>>

\* persistToggles(bootstrap).
SaveBootstrap ==
  /\ \/ life = "cut" /\ life' = "fill" /\ Truncate
     \/ life = "fill" /\ life' = "idle" /\ Write(store)
     \/ life \in {"cut", "fill"} /\ life' = "idle" /\ GiveUp
  /\ UNCHANGED <<exit, poll, context, fetcher, flags, srv, upc>>

\* Wrong variant: start() makes every client ready.
StartAlwaysReady ==
  /\ life = "idle"
  /\ Spend("starts")
  /\ life' = "running"
  /\ ready' = TRUE
  /\ exit' = FALSE
  /\ poll' = "first"
  /\ UNCHANGED <<context, fetcher, store, readies, told, given, file, srv, upc>>

\* The Ready event of a client that has toggles comes to nothing: emitReady()
\* returns at once, for the dispatcher is started after it.
Start ==
  /\ life = "idle"
  /\ Spend("starts")
  /\ life' = "running"
  /\ ready' = (ready \/ store # Nothing)
  /\ exit' = FALSE
  /\ poll' = "first"
  /\ UNCHANGED <<context, fetcher, store, readies, told, given, file, srv, upc>>

StopSignal ==
  /\ life = "running"
  /\ life' = "signalled"
  /\ exit' = TRUE
  /\ UNCHANGED <<poll, context, fetcher, flags, file, srv, upc, used>>

StopNotify ==
  /\ life = "signalled"
  /\ life' = "joining"
  /\ Notify
  /\ UNCHANGED <<exit, context, fetcher, flags, file, srv, upc, used>>

StopJoin ==
  /\ life = "joining"
  /\ poll = "off"
  /\ life' = "idle"
  /\ UNCHANGED <<exit, poll, context, fetcher, flags, file, srv, upc, used>>

\* Everything but the file and the backend is gone; a new process starts with
\* the context it is configured with.
Crash ==
  /\ life # "down"
  /\ Spend("crashes")
  /\ life' = "down"
  /\ exit' = FALSE
  /\ poll' = "off"
  /\ ctx' = InitialContext
  /\ ctxUpdated' = FALSE
  /\ snap' = InitialContext
  /\ etag' = Nothing
  /\ answer' = NoAnswer
  /\ store' = Nothing
  /\ ready' = FALSE
  /\ readies' = 0
  /\ told' = Nothing
  /\ given' = Nothing
  /\ unsaved' = FALSE
  /\ upc' = [u \in Updaters |-> "idle"]
  /\ UNCHANGED <<disk, srv>>
-----------------------------------------------------------------------------
(* updateContext(): assign under the mutex, notify after releasing it.     *)

\* Wrong variant: the context is assigned without the mutex.
UpdateUnlocked(u, c) ==
  /\ Built
  /\ upc[u] = "idle"
  /\ Spend("updates")
  /\ ctx' = c
  /\ ctxUpdated' = TRUE
  /\ upc' = [upc EXCEPT ![u] = "notify"]
  /\ UNCHANGED <<owner, poll, snap, fetcher, flags, file, srv>>

UpdateAssign(u, c) ==
  /\ Built
  /\ upc[u] = "idle"
  /\ Spend("updates")
  /\ MutexFree
  /\ ctx' = c
  /\ ctxUpdated' = TRUE
  /\ upc' = [upc EXCEPT ![u] = "notify"]
  /\ UNCHANGED <<owner, poll, snap, fetcher, flags, file, srv>>

UpdateNotify(u) ==
  /\ upc[u] = "notify"
  /\ upc' = [upc EXCEPT ![u] = "idle"]
  /\ Notify
  /\ UNCHANGED <<owner, context, fetcher, flags, file, srv, used>>
-----------------------------------------------------------------------------
(* The backend.                                                            *)

Change(c, b) ==
  /\ b # srv[c]
  /\ Spend("changes")
  /\ srv' = [srv EXCEPT ![c] = b]
  /\ UNCHANGED <<owner, poll, context, fetcher, flags, file, upc>>

\* What the fetcher asks: the toggles of a context, in the query or in the body,
\* unless they are those of the tag, in the headers it keeps.
Request == [context |-> snap, tag |-> etag]

\* The tag that an answer with these toggles carries, or lacks.
Tags(body) == {body} \cup (IF Untagged THEN {Nothing} ELSE {})

Evaluation(request, tag) ==
  LET body == srv[request.context]
  IN  [kind |-> IF request.tag = body THEN "not modified" ELSE "ok",
       body |-> body,
       tag  |-> tag]

Answer ==
  /\ poll = "request"
  /\ poll' = "response"
  /\ \E tag \in Tags(srv[snap]) : answer' = Evaluation(Request, tag)
  /\ UNCHANGED <<owner, context, etag, flags, file, srv, upc, used>>

\* No response, an error status, or a 2xx whose body is not a toggle set
\* although its headers carry the tag of one.
Fail(kind) ==
  /\ poll = "request"
  /\ Spend("faults")
  /\ poll' = "response"
  /\ answer' = [kind |-> kind, body |-> srv[snap], tag |-> srv[snap]]
  /\ UNCHANGED <<owner, context, etag, flags, file, srv, upc>>
-----------------------------------------------------------------------------
(* featurePollingLoop() and singleFetchToggles().                          *)

PollFirst ==
  /\ poll = "first"
  /\ snap' = ctx
  /\ poll' = "request"
  /\ UNCHANGED <<owner, ctx, ctxUpdated, fetcher, flags, file, srv, upc, used>>

\* Wrong variant: the tag of a response is kept before its body is decoded.
ReceiveTagFirst ==
  /\ poll = "response"
  /\ etag' = IF answer.kind \in {"ok", "bad"} THEN answer.tag ELSE etag
  /\ poll' = CASE answer.kind \in {"failed", "bad"} -> "error"
               [] answer.kind = "not modified"      -> "test"
               [] answer.kind = "ok"                ->
                    IF answer.body = Empty THEN "test" ELSE "cut"
  /\ UNCHANGED <<owner, context, answer, flags, file, srv, upc, used>>

\* The rest of fetch(), and the branch of singleFetchToggles() it leads to: an
\* empty toggle set leaves FetchResult.toggles unset, and its tag is kept; with
\* an answer that has no tag the old one is kept.
Receive ==
  /\ poll = "response"
  /\ etag' = IF answer.kind = "ok" /\ answer.tag # Nothing
               THEN answer.tag
               ELSE etag
  /\ poll' = CASE answer.kind \in {"failed", "bad"} -> "error"
               [] answer.kind = "not modified"      -> "test"
               [] answer.kind = "ok"                ->
                    IF answer.body = Empty THEN "test" ELSE "cut"
  /\ UNCHANGED <<owner, context, answer, flags, file, srv, upc, used>>

EmitError ==
  /\ poll = "error"
  /\ poll' = "test"
  /\ UNCHANGED <<owner, context, fetcher, flags, file, srv, upc, used>>

\* Wrong variant: the toggles that are saved are those in the store.
persistTogglesStored ==
  /\ \/ poll = "cut" /\ poll' = "fill" /\ Truncate
     \/ poll = "fill" /\ poll' = "replace" /\ Write(store)
     \/ poll \in {"cut", "fill"} /\ poll' = "replace" /\ GiveUp
  /\ UNCHANGED <<owner, context, fetcher, flags, srv, upc>>

\* The store is replaced whether the toggles were saved or not.
persistToggles ==
  /\ \/ poll = "cut" /\ poll' = "fill" /\ Truncate
     \/ poll = "fill" /\ poll' = "replace" /\ Write(answer.body)
     \/ poll \in {"cut", "fill"} /\ poll' = "replace" /\ GiveUp
  /\ UNCHANGED <<owner, context, fetcher, flags, srv, upc>>

replace ==
  /\ poll = "replace"
  /\ store' = answer.body
  /\ poll' = "mark"
  /\ UNCHANGED <<owner, context, fetcher, ready, readies, told, given, file>>
  /\ UNCHANGED <<srv, upc, used>>

\* Wrong variant: emitReady() whatever _ready was before.
MarkReadyAgain ==
  /\ poll = "mark"
  /\ ready' = TRUE
  /\ readies' = readies + 1
  /\ poll' = "update"
  /\ UNCHANGED <<owner, context, fetcher, store, told, given, file>>
  /\ UNCHANGED <<srv, upc, used>>

\* _ready.exchange(true), and emitReady() for the first.
MarkReady ==
  /\ poll = "mark"
  /\ ready' = TRUE
  /\ readies' = IF ready THEN readies ELSE readies + 1
  /\ poll' = "update"
  /\ UNCHANGED <<owner, context, fetcher, store, told, given, file>>
  /\ UNCHANGED <<srv, upc, used>>

\* Wrong variant: no Update event.
EmitNoUpdate ==
  /\ poll = "update"
  /\ poll' = "test"
  /\ UNCHANGED <<owner, context, fetcher, flags, file, srv, upc, used>>

EmitUpdate ==
  /\ poll = "update"
  /\ told' = store
  /\ poll' = "test"
  /\ UNCHANGED <<owner, context, fetcher, store, ready, readies, given, file>>
  /\ UNCHANGED <<srv, upc, used>>

PollTest ==
  /\ poll = "test"
  /\ poll' = IF exit THEN "off" ELSE "wait"
  /\ UNCHANGED <<owner, context, fetcher, flags, file, srv, upc, used>>

\* Wrong variant: the request is made for the context of the one before.
TakeFlagOnly ==
  /\ ctxUpdated' = IF exit THEN ctxUpdated ELSE FALSE
  /\ snap' = snap
  /\ poll' = "taken"

\* The rest of the critical section when wait_for() has returned.
TakeContext ==
  /\ ctxUpdated' = IF exit THEN ctxUpdated ELSE FALSE
  /\ snap' = ctx
  /\ poll' = "taken"

\* wait_for() with the mutex held: read the predicate, then block.
PollWait ==
  /\ poll = "wait"
  /\ IF exit \/ ctxUpdated
       THEN TakeContext
       ELSE poll' = "arming" /\ UNCHANGED <<ctxUpdated, snap>>
  /\ UNCHANGED <<owner, ctx, fetcher, flags, file, srv, upc, used>>

PollBlock ==
  /\ poll = "arming"
  /\ poll' = "blocked"
  /\ UNCHANGED <<owner, context, fetcher, flags, file, srv, upc, used>>

\* The interval has elapsed.
PollTimeout ==
  /\ poll = "blocked"
  /\ TakeContext
  /\ UNCHANGED <<owner, ctx, fetcher, flags, file, srv, upc, used>>

PollSpurious ==
  /\ poll = "blocked"
  /\ poll' = "wait"
  /\ UNCHANGED <<owner, context, fetcher, flags, file, srv, upc, used>>

\* Wrong variant: a thread that was woken to exit makes another request.
PollTakenAnyway ==
  /\ poll = "taken"
  /\ poll' = "request"
  /\ UNCHANGED <<owner, context, fetcher, flags, file, srv, upc, used>>

PollTaken ==
  /\ poll = "taken"
  /\ poll' = IF exit THEN "off" ELSE "request"
  /\ UNCHANGED <<owner, context, fetcher, flags, file, srv, upc, used>>
-----------------------------------------------------------------------------
Owner ==
  \/ initializeToggleCache
  \/ SaveBootstrap
  \/ Start
  \/ StopSignal
  \/ StopNotify
  \/ StopJoin
  \/ Crash

Update ==
  \E u \in Updaters :
    \/ \E c \in Contexts : UpdateAssign(u, c)
    \/ UpdateNotify(u)

Backend ==
  \/ \E c \in Contexts, b \in Bodies : Change(c, b)
  \/ Answer
  \/ \E kind \in {"failed", "bad"} : Fail(kind)

Handle ==
  \/ Receive
  \/ EmitError
  \/ persistToggles
  \/ replace
  \/ MarkReady
  \/ EmitUpdate

PollingLoop ==
  \/ PollFirst
  \/ Handle
  \/ PollTest
  \/ PollWait
  \/ PollBlock
  \/ PollTaken

Next ==
  \/ Owner
  \/ Update
  \/ Backend
  \/ PollingLoop
  \/ PollTimeout
  \/ PollSpurious

SafeSpec == Init /\ [][Next]_vars

\* The constructor and the threads that are in a call keep running, a request
\* is answered or fails, and the interval elapses: wait_for() computes its
\* deadline once, however often the thread is woken before.  Nobody has to
\* start, stop or update anything.
Fairness ==
  /\ WF_vars(initializeToggleCache \/ SaveBootstrap \/ StopNotify \/ StopJoin)
  /\ \A u \in Updaters : WF_vars(UpdateNotify(u))
  /\ WF_vars(Answer)
  /\ WF_vars(PollingLoop)
  /\ SF_vars(PollTimeout)

Spec == SafeSpec /\ Fairness
-----------------------------------------------------------------------------
(* Properties.                                                             *)

LifeStates == {"down", "cut", "fill", "idle", "running", "signalled",
               "joining"}
PollStates == {"off", "first", "request", "response", "error", "cut", "fill",
               "replace", "mark", "update", "test", "wait", "arming",
               "blocked", "taken"}
AnswerKinds == {"none", "ok", "not modified", "failed", "bad"}

\* Every variable has its type; a client emits at most one Ready event.
TypeOK ==
  /\ life \in LifeStates
  /\ exit \in BOOLEAN
  /\ poll \in PollStates
  /\ ctx \in Contexts
  /\ ctxUpdated \in BOOLEAN
  /\ snap \in Contexts
  /\ etag \in Sets
  /\ answer \in [kind : AnswerKinds, body : Sets, tag : Sets]
  /\ store \in Sets
  /\ ready \in BOOLEAN
  /\ readies \in 0 .. 1
  /\ told \in Sets
  /\ given \in Sets
  /\ disk \in Sets
  /\ unsaved \in BOOLEAN
  /\ srv \in [Contexts -> Bodies]
  /\ upc \in [Updaters -> {"idle", "notify"}]
  /\ used \in [DOMAIN Bounds -> Nat]

Saving == poll \in {"cut", "fill", "replace"}

\* The fetcher presents the ETag of the toggles that are in the store, so that
\* "not modified" really means that the store is up to date; while a new set
\* is being saved and stored, the tag is already the new one.
CacheCoherent ==
  etag # Nothing => IF Saving THEN etag = answer.body ELSE etag = store

\* No updateContext() is forgotten: if the polling thread has nothing left to
\* pick up, its latest request was made for the current context.
UpdateNotForgotten == ~ctxUpdated => snap = ctx

\* The polling thread does not sleep through updateContext(): while there is
\* something to pick up it is not about to block, and if it is blocked the
\* updating thread is on its way to notify it.
NoLostWakeup ==
  /\ poll = "arming" => ~ctxUpdated
  /\ poll = "blocked" /\ ctxUpdated => \E u \in Updaters : upc[u] = "notify"

\* The toggles that the application sees are on disk before it sees them, unless
\* the latest save() has failed: then, until one succeeds, they may be visible
\* only.  Otherwise a crash brings back no older set, and it loses the set only
\* between the truncation of the file and its rewriting.
DurableBeforeVisible ==
  store # Nothing /\ ~unsaved =>
    \/ disk = store
    \/ poll = "replace" /\ disk = answer.body
    \/ "fill" \in {poll, life} /\ disk = Nothing
    \/ life = "cut"

\* isReady() says what it promises: once started, the client is ready exactly
\* when there are toggles in the store.
ReadyMeansToggles ==
  /\ ready => store # Nothing
  /\ life = "running" /\ store # Nothing /\ poll # "mark" => ready

\* Before its first Update event a client emits Ready, once for all its runs; if
\* its constructor gave it toggles it never does while the dispatcher runs.
ReadyBeforeUpdate ==
  poll = "update" => ready /\ readies = IF given = Nothing THEN 1 ELSE 0

\* When the polling thread comes to rest, an Update event has been emitted for
\* the toggles in the store, if they are not still those of the constructor.
ChangesEmitted ==
  poll \in {"wait", "arming", "blocked", "taken"} =>
    store = IF told = Nothing THEN given ELSE told

\* The polling thread emits what happens to the toggles, whatever fails and however
\* often it is stopped and started.  Whether the dispatcher has room for it, and
\* who hears it, is the subject of UnleashClient.
EventsEmitted == ReadyBeforeUpdate /\ ChangesEmitted

\* A request that the backend has answered, be it with toggles or with "not
\* modified", leaves in the store what the backend evaluated for it, for good:
\* stop(), start() and requests that fail in between change nothing of it.
AnswerTakesEffect ==
  answer.kind \in {"ok", "not modified"} /\ poll # "response" /\ ~Saving =>
    store = answer.body

\* While the client runs, the store ends up with what the backend evaluates
\* for the current context.
Converges == <>[](life = "running") => <>[](store = srv[ctx])

\* "SDK updates local flag snapshot": the application does not go on evaluating
\* toggles that the backend no longer serves for the current context.
StaleTogglesVanish ==
  <>[](life = "running") => <>[](store \in {srv[ctx], Nothing})

Resting == {"test", "wait", "arming", "blocked", "taken"}

\* The polling thread as its owner sees it.
Shape(p) == IF p = "off" THEN "gone"
            ELSE IF p \in Resting THEN "resting" ELSE "working"

Thread == INSTANCE Worker WITH
  up    <- life # "down",
  told  <- life \in {"signalled", "joining"},
  state <- Shape(poll)

\* Once stop() has told it to exit the polling thread makes no request but the
\* one it is at, and stop() returns, if the process does not crash first; until
\* then the thread fetches again and again.
WorkerSpec == Thread!Spec
=============================================================================
