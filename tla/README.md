# A formal model of the Unleash C++ SDK

TLA+ modules for the client in `src/` (`UnleashClient` and the classes it is
made of), TLC configurations that check them on small instances, and theorems
that TLAPS proves for every value of the constants. `PROJECT.json` relates every
definition to the lines it models, every property to the run that checks it and
to a wrong variant of the code that it catches, and every hazard to properties.

## 1. The system

The SDK is a library. An application builds one `UnleashClient`, starts it, asks
it whether flags are enabled, and listens to its events. Up to four groups of
threads run in it: the *owner* that calls `start()` and `stop()`, the
*application* threads that evaluate flags and update the context, the *polling*
and the *metrics* thread, and the *event* thread of `EventHandler`.

| component | state | operations | what is hard |
|---|---|---|---|
| `UnleashClient` lifecycle | `_running`, `_exitThreads`, `_ready`, two `std::thread`s, two condition variables | constructor, `start`, `stop` | order of start and stop steps, `stop` against a worker about to wait, restart, events emitted before the dispatcher runs |
| `EventHandler` | `_started`, queue of at most `utils::maxEventQueueSize` (30) callbacks, `_queueMutex`, `_queueCV`, `_eventThread`, five atomic callback slots | `onX`, `clearAll`, `emitX`, `start`, `stop`, `eventLoop` | `_started` is written without the mutex; emission races `stop` and restart; calls from within callbacks |
| Polling: `featurePollingLoop`, `ToggleFetcher`, `FlagStore`, `FileStorageProvider` | `_context`, `_contextUpdated`, `_etag`, `_snapshot`, `FlagStore::_ready`, the backup file | construct from file or bootstrap, fetch, 304, save, replace, announce, `updateContext` | ETag and store are two places; context changes during a fetch; requests that fail, saves that fail in silence; crash during the save |
| Metrics: `MetricsStore`, `MetricSender`, `metricSendingLoop` | `_list`, `_startMs` under `_mtx` | `addEnableMetric`, `addVariantMetric`, `empty`, `toJsonMetricsPayload`, `reset`, POST | several critical sections per report; evaluations go on meanwhile; lost answers |
| Evaluation: `isEnabled`, `getVariant`, `impressionData`, `ToggleSet`, `MetricToggle` | none of its own | read `_ready`, one snapshot, count, copy the context, emit | the toggles are replaced in between |
| Context: `Context`, `MutableContext` | fields of `_context` under `_mutexPolling` | `updateMutableContext`, copies, `context()` | field-wise copies, one of them unlocked |
| `JsonCodec` | none | `decodeClientFeaturesResponse`, `encodeClientFeaturesResponse`, request bodies | documents with missing fields, of wrong types, with two toggles of one name; what is written must be read back |
| `HttpClient`, `ClientConfig`, `Utils` | none, or immutable | request, setters and getters, formatting | see section 7 |

The threads share `_exitThreads` and `_ready` (atomics), the store (an atomic
`shared_ptr`), the context (a mutex), the metrics (a mutex) and the event queue
(a mutex and a condition variable). The owner talks to the workers through
`_exitThreads` and `notify_all`, everybody to the dispatcher through `emitX`.

What makes each component correct:

* *EventHandler*: tasks run in order, once, within the bound, and only if a
  callback was registered; the event thread does not sleep through a task or a
  `stop()`; `stop()` returns and leaves no thread behind; `start()` never
  overwrites a live thread.
* *Lifecycle*: after `stop()` nothing runs, after `start()` everything does, also
  the second time; workers find the dispatcher started; listeners hear Init and
  Ready, and Ready before Update.
* *Polling*: the ETag presented is that of the stored toggles; no update of the
  context is forgotten or slept through; toggles are on disk before they are
  visible, unless saving them failed; readiness and events match the store; the
  store converges to what the backend serves for the current context.
* *Metrics*: no evaluation is reported twice, none is lost, each in a window that
  contains it, windows in order; the payload that is opened unchecked exists.
* *Evaluation*: an answer is that of one instant; counters and impressions tell
  what the application was answered; a disabled flag has no variant.
* *JsonCodec*: the backup file gives back the toggles that were written to it.
* *Context*: nobody gets a mixture of two contexts.

## 2. Modules

```
EventDispatch    <--implemented by-- EventHandler       MCEventHandler, EventHandlerProofs
      ^
      | instance
UnleashClient                                           UnleashClientProofs
      | implements, for each of its two workers
      v
Worker           <--implemented by-- FeaturePolling     MCFeaturePolling, FeaturePollingProofs
      ^------------implemented by--- MetricSending      MetricSendingProofs

AtomicEvaluation <--implemented by-- FlagEvaluation     MCFlagEvaluation, FlagEvaluationProofs
                                           | extends            | extends
                                     JsonCodec          JsonCodecProofs

ContextAccess                                           MCContextAccess, ContextAccessProofs
```

The modules on the right extend the one on their left: `MC...` gives constants
their values, `...Proofs` has the theorems. `MetricSending` and `UnleashClient`
have numbers and truth values as their only constants and are checked as they
are.

Definitions keep the names of the code where TLA+ allows it. Every definition
whose comment begins with *Wrong variant* is not part of a specification: it is
a plausible bug, substituted for the definition that follows it, which the
property listed in `PROJECT.json` must notice.

**EventHandler** models `eventHandler.cpp` at the grain of one atomic access or
one critical section. A task is a number and the callback it was queued with; the
arguments bound into it are left out. The five `emitX` functions differ only in
the slot they read, so `Emit` has them all. `loop` is the program counter of the
event thread: `test` (the `while`), `wait` (mutex not yet taken), `arming` (mutex
held, predicate read as false), `blocked`, `run`, `relock`. The wait is cut in
two because `stop()` writes `_started` without the mutex. The event thread may
itself emit, and (in one run) start and stop, from within a callback:
`Dispatcher` names it as a caller. A self-join is the `std::system_error` it is in
the code, caught by the loop's `catch (...)`; assigning to a joinable
`std::thread` is `std::terminate`.

**EventDispatch** is what the handler promises, without threads, mutex and
condition variable: a mailbox with `Open`, `Launch`, `Accept`, `Deliver`,
`Complete`, `Close`, `Drop`, `Halt`. A message may still be accepted after `Close`,
even after `Halt`, and is then delivered after a restart: in the code, the test of
`_started` in `emitX` and the push are two steps. `EventHandler` implements it (`Dispatch`), and
`UnleashClient` is composed with it instead of the handler.

**UnleashClient** has `start()` and `stop()` step by step, the two worker threads
without their data, an application thread that emits impressions, and the owner.
`at` says where each emitting thread is, `pend` what it still has to emit. One
worker iteration is `WorkQuietly`, `WorkFails` (emits Error) or `FetchToggles`
(stores toggles, sets `_ready`, emits Ready if it was not set, and Update).
`enabled` is what `isRefreshEnabled()` and `isMetricsEnabled()` say: a worker that
is not enabled is launched, returns at once, and is joined all the same. `heard`
and `lost` record what becomes of the events that announce something: delivered,
or met by a full queue or by the `stop()` that empties it.

**Worker** is what the polling and the metrics thread promise to the thread that
starts and joins them, without flag, condition variable and interval: they work
and rest in turn; told to leave they finish what they are at, begin nothing new,
and leave. The process may die under them. `FeaturePolling` and `MetricSending`
implement it (`Thread`), fairness included. `UnleashClient` implements its safety
part twice, for the metrics thread (`Metrics`) and the polling thread (`Polling`): what
it has of each of them, without their data, promises no more than the two modules
that have the data. It is there too that a worker which is not enabled is joined,
and that `stop()` tells both workers before it joins the first.

**FeaturePolling** has the data of the polling thread: contexts, toggle sets,
ETag, file, backend. A toggle set is a model value; an ETag is the toggle set it
stands for; `Nothing` is no set. `poll` is the program counter of the thread, from
the request to the Update event. `save()` is two steps (`Truncate`, `Write`), and
`Crash` may come between any two. It returns nothing, and gives up where the
directory or the file cannot be made, or does not notice that the write failed
(`GiveUp`): the file is then as it was, or unusable, and the caller goes on and
replaces the store. `unsaved` is a history variable that records such a failure
until a later save succeeds. `given`, `told` and `readies` are history variables too:
the toggles that the constructor stored, those of the latest Update event that
the polling thread emitted, and how often it emitted Ready. The Ready of `start()`
is not counted: the dispatcher is started after it and discards it (finding 1).
Whether an event that is emitted meets a full queue, and is heard, is the matter of
`UnleashClient`. The backend is external; it may change its mind
and fail, and, where `Untagged` says so, it (or a proxy before it) may leave out
the ETag of an answer. With `LocalStorageProvider`, the default, the file is never there; the
model is of `FileStorageProvider`. Each new process may be given one of the
`Bootstraps`, or none; they stand for bootstraps with `bootstrapOverride` set,
without which the code ignores the bootstrap.

**MetricSending** has the metrics thread, the store and the reports. Evaluations
are numbered, the counters are the set of the numbers they count, `clock` is
`nowMs()`, and a report carries its window. A report may be lost, or its answer.
`evals`, `received` and `seen` are history variables: when each evaluation was
recorded, what the backend took, and how many evaluations there were when
`sendMetrics()` last looked at the counters.
The system clock never goes backwards in it.

**JsonCodec** has the decoder of responses, which is also that of the backup file,
and the encoder of that file, as operators on documents: sequences of entries
whose fields may be missing or of a type that is not expected. Strings are model
values; the text of the JSON, and the error messages, are left out. A toggle set is
a function from names to toggles. `Orders` are the orders in which the
`unordered_map` may be written.

**FlagEvaluation** has `isEnabled()`, `getVariant()` and `impressionData()` in several
threads, against `replace()` and the readiness of the client, with the yes, no and
variant counters of `MetricToggle`. The toggle sets are those that `JsonCodec`
makes of `Documents`. It implements **AtomicEvaluation**: every call answers from
the readiness and the toggles of one instant between its call and its return. The
context in an impression is left to `ContextAccess`.

**ContextAccess** has the fields of `_context`, the mutex, and the copies made with
and without it.

## 3. Runs

| run | instance | what it shows |
|---|---|---|
| `event_handler` | an application thread and the event thread emit, one owner, 2 kinds of events, queue of 2, 3 events, 2 starts | order, bound, callbacks, wakeups, what `stop()` leaves behind, that each step of the event thread brings its return nearer, and that it returns; `EventDispatch` with its liveness |
| `event_handler_self_stop` (violation) | the event thread is an owner too | `stop()` from a callback leaves a running, joinable thread |
| `unleash_client` | no cached toggles, workers enabled or not, queue of 1, 2 queued events, 2 starts | stopped is quiet, started is served, workers find the dispatcher, Ready is heard, and before Update, unless the queue lost it; each step of a worker brings the return of `stop()` nearer, and it returns; `Worker` (safety), twice |
| `unleash_client_start` (violation) | cached toggles, queue of 4, 1 start | neither Init nor Ready is ever heard |
| `feature_polling` | 2 contexts, 2 toggle sets, with and without a bootstrap, one updating thread with 2 updates, 1 backend change, 1 fault (a request or a save), 1 crash, 2 starts | ETag coherence, no lost update or wakeup, durability unless a save failed, readiness, what is emitted, the answer received last is in effect, convergence; `Worker` with its liveness |
| `feature_polling_empty` (violation) | 1 context; the backend may serve no toggles | the old toggles stay for ever |
| `feature_polling_untagged` (violation) | 1 context, 2 toggle sets, 2 backend changes; answers may lack their ETag | the wrong toggles stay for ever |
| `metric_sending` | initial delay, 3 evaluations, clock to 2, 2 faults, 2 starts | no double report, windows, payload, what is erased is accounted for, counters are emptied; `Worker` with its liveness |
| `metric_sending_lost` (violation) | 2 evaluations, no faults | evaluations recorded during a report are erased |
| `flag_evaluation` | 2 threads (interchangeable), 2 flags, 7 documents, 3 calls, 2 replacements | atomic answers, counters, impressions, variants of enabled flags only, the backup file is read back |
| `context_access` | 2 fields, 2 writers, a locked and an unlocked reader, 4 updates | locked copies are whole and the newest |
| `context_access_copy` (violation) | the same | `context()` may return a mixture |

A run called *violation* checks one sentence of the documentation that the code
does not keep (section 6); TLC prints the behaviour.

The bounds. Every constant called `Max...` bounds how often something happens
and guards the actions that do it. The races are between a few steps of two or
three threads, and one repetition of each is enough to bring them about: two
starts (a restart), one more event than the queue of `EventHandler` holds, two
updates of the context (one during the fetch for the other), one backend change,
one fault and one crash. The fault may be a save that fails after another has
succeeded, and the crash may follow it: the next process then reads the older set,
or finds a file that the failure has left unusable. Two toggle sets suffice to tell old
from new, `Nothing` stands for none. The queue of `unleash_client` holds one task,
so that impressions and errors can make it drop Ready or Update, and `stop()` can
empty it; what is then still promised is stated with `lost`. The documents of
`flag_evaluation` have variants and payloads that are there, missing, unusable or of
a wrong type, a disabled toggle with a variant, a name that occurs twice, and an
empty list; three of them do not decode. What other documents do is covered by the
theorems, which hold for all of them. Its threads do the same things, so that
exchanging them changes nothing (symmetry), and no temporal property with fairness
is checked there. The threads are few but each of them may take its
steps at any time. The theorems of section 5 hold without the bounds.

`CHECK_DEADLOCK FALSE` is in every configuration but those of `EventHandler` and
`ContextAccess`, in which callbacks can always be registered and the context
always copied: elsewhere a client that is stopped, and whose bounds are used up,
rests. That nothing gets stuck before is what the liveness properties say.

## 4. Fairness

* A thread inside a call or a loop keeps running: weak fairness of its next step.
  Nobody is obliged to call `start()`, `stop()`, `emitX`, `updateContext()` or an
  evaluation, and the backend is not obliged to change.
* Strong fairness of `EmitPush` and `StopDrop` in `EventHandler`: they lock a mutex
  that others take and release, and a thread that keeps trying gets it.
* Strong fairness of the timeouts: `wait_for` computes its deadline once, so that
  wakeups in between, spurious or not, do not postpone it. The action is only
  enabled while the thread is blocked, and a thread that is woken re-reads its
  predicate and blocks again.
* Weak fairness of `Answer` and `Post`: curl has a timeout (`timeOutQueryMS`, 5000
  by default), so a request ends, in success or failure. The number of failures
  is bounded, which stands for a backend that is reachable in the end.
* A callback returns (`LoopReturn`, `Complete`).

## 5. What is proved

`EventHandlerProofs`, for every number of emitting threads, kinds of events,
queue size and number of events and starts:

Where a property that a run checks is the conjunction of two, the tables give the
parts, which are theorems of their own, in parentheses.

| theorem | property | argument |
|---|---|---|
| `TypeCorrect` | `TypeOK` | inductive as it stands; the queue bound from `EmitPush` |
| `TasksInOrder` | `InOrder` | `OrderInv`: `TypeOK` and `InOrder`; four kinds of steps on the queue (`QueueStep`) |
| `OnlyCallbacksRun` | `RunsCallbacks` | `CallbackInv` adds: a thread about to push holds a callback; needed because the test and the push are two steps |
| `QueueIsSound` | `QueueSound` | `TasksInOrder` and `OnlyCallbacksRun` |
| `WakeupsNotLost` | `NoLostWakeup` | `WakeupInv`: inductive with the types; the case that needs care is `stop()` between the predicate and the block |
| `StopJoins`, `RestartIsSafe` | `SilentAfterStop`, `NoTerminate` | `OwnerInv`: what the owner's program counter says about `_started` and the thread; assumes `SingleOwner` |
| `ImplementsDispatch` | | `DispatchSafe`, the safety part of `DispatchSpec`: each step maps to a step of `EventDispatch` or a stutter; assumes `SingleOwner` |
| `EndComesNearer` | `EndApproaches` | the measure `Left` (three for each queued task, and the rest of the round) falls with each step of the event thread while `_started` is false; `OwnerInv` excludes that the thread is launched meanwhile; assumes `SingleOwner` |

`SingleOwner` says that one thread calls `start()` and `stop()` and that it is not
the event thread. It is necessary: `event_handler_self_stop` shows what happens
otherwise. It is an assumption of these four theorems only.

`UnleashClientProofs`, for every queue size and number of events and starts:

| theorem | property | argument |
|---|---|---|
| `TypeCorrect` | `TypeOK` | in three parts (owner, threads, dispatcher), each by the kind of step |
| `StopIsComplete`, `ServiceIsComplete` (`StartIsComplete`, `WorkersServed`) | `StoppedIsQuiet`, `ServiceComplete` (`StartedIsServed`, `WorkersFindHandler`) | `PhaseInv`: for each position of the owner in `start()` and `stop()`, whether the dispatcher is open and has its thread, which workers exist, and whether they have been told to exit (`call \in TellPhase => exit`). The properties speak of the ends of the two calls only and are not inductive |
| `ReadyComesFirst` | `ReadyHeardFirst` | `AnnounceInv`: once the client is ready, Ready is told, queued, or still to be emitted by the polling thread before its Update (`PendInv`), nobody else emits Update (`SoleInv`), and an Update in the queue has a Ready before it unless that is told (`QueueInv`); assumes that the client begins without toggles, as `unleash_client_start` shows it must |
| `WorkersKeepPromise` | `WorkersSafe` | `PhaseInv`: between `notify` and the join of a worker `_exitThreads` is set (`ToldIsExit`). Each step of the client is for each worker a step of `Worker` or a stutter (`Promised`), shown for the owner, the worker itself, and everybody else |
| `StopComesNearer` | `StopApproaches` | the measure `Distance` (what a worker still emits, and the rest of its round) falls with each step that the worker takes or is made to take while `_exitThreads` is set; `PhaseInv` excludes that it is launched meanwhile |

`FeaturePollingProofs`, for any contexts, toggle sets, bootstraps and updating
threads and any number of changes, updates, faults, crashes and starts
(`WakeupsNotLost` is about `updateContext()` only: the notification of `stop()` may be
missed, and the interval then ends the wait):

| theorem | property | argument |
|---|---|---|
| `TypeCorrect` | `TypeOK` | `TypeInv` adds that a response being handled is one |
| `WakeupsNotLost`, `UpdatesKept` | `NoLostWakeup`, `UpdateNotForgotten` | `WakeInv`: inductive with the types; `_contextUpdated` is cleared where the context is copied, under one lock |
| `Durable` | `DurableBeforeVisible` | `ToggleInv`: `PhaseInv` (what the positions of owner and polling thread say of store, file, ETag and answer; the file has the answer that is about to be stored, unless `unsaved`), `ReadyInv` and `ToldInv` |
| `ReadinessHonest`, `EventsAreEmitted` (`ReadyFirst`, `Announced`) | `ReadyMeansToggles`, `EventsEmitted` (`ReadyBeforeUpdate`, `ChangesEmitted`) | the same invariant; `ReadyInv` tells a client that `start()` made ready, for the toggles its constructor stored (`given`), from one that the polling thread made ready, which then emitted Ready |
| `TagsCoherent` | `CacheCoherent` | `TagInv` (an answer with toggles has their tag), inductive with `ToggleInv`; assumes `NeverEmpty` and `~Untagged` |
| `AnswersTakeEffect` | `AnswerTakesEffect` | `TakesInv` adds: a "not modified" that is being handled is about the toggles in the store. This is what `CacheCoherent` says of the ETag when the request is answered, and nobody replaces the toggles before the answer is handled; assumes `NeverEmpty` and `~Untagged` |
| `ImplementsWorker` | (safety part of `WorkerSpec`) | `StopInv`: the thread runs between `start()` and the join, and `_exitThreads` says whether it was told; each step maps to a step of `Worker` or a stutter |

`NeverEmpty` says that the backend never serves a set without toggles, `~Untagged`
that every answer carries its ETag. They are needed, as `feature_polling_empty` and
`feature_polling_untagged` show: the fetcher keeps the ETag of an empty set, or of
the set before, while the store has other toggles. Only these two theorems assume them;
the run `feature_polling` has two sets that are not empty, and tags. `Durable` does not
hold without its condition: after a save that failed the application evaluates
toggles that a crash takes back, and no answer 304 saves them later.

`MetricSendingProofs`, for any number of evaluations, faults and starts, and any
time:

| theorem | property | argument |
|---|---|---|
| `TypeCorrect` | `TypeOK` | inductive as it stands |
| `PayloadThere`, `ReportedOnce`, `WindowsAreSound` (`WindowsOrdered`, `EvalsTimely`) | `PayloadPresent`, `NoDoubleReport`, `WindowsSound` (`WindowsInOrder`, `EvalsInWindow`) | `WindowInv`: `StoreInv` (what is counted was recorded in the current window; the payload is of that window) and `ReportInv` (a report contains what was recorded in its window, and is over: apart from the steps between the request and `reset()`, what is counted was not in it and is of a later window) |
| `LossesExplained` | `LossesKnown` | `LossInv`, inductive with the types: at each step of `sendMetrics()` after its look at the counters, what is counted was looked at (and is then in the payload, or in what the backend took) or is younger than `seen` |
| `ImplementsWorker` | (safety part of `WorkerSpec`) | `StopInv`, as for the polling thread |

`JsonCodecProofs`, for any strings, documents and toggle sets:

| theorem | property | argument |
|---|---|---|
| `DecodedSound` | | what `decodeToggle` makes is `Canonical` (a variant of its own only if toggle and variant are enabled and it has a name), and `ToggleSet` keeps the first of each name under that name |
| `RoundTrip` | | a canonical toggle is decoded from what it is encoded to (`ToggleRoundTrip`), and an order of the names lists each once |
| `DocumentsSurvive` | | both, together: a document that the decoder accepts is written to a file, in whatever order, that it accepts again and decodes to the same toggles; and there is such an order (`OrdersExist`, by the finiteness of `Sound`), so that this is not said of nothing |

`FlagEvaluationProofs`, for any finite set of threads, and any flags, documents and
numbers of calls and replacements:

| theorem | property | argument |
|---|---|---|
| `TypeCorrect`, `DisabledHasNoVariant` | `TypeOK`, `VariantsOnlyOfEnabled` | `TypeInv` adds `LabelInv`: what the label of a thread says of its call (a snapshot that counts was taken by a ready client, what is recorded is known); every store is `Sound` by `DecodedSound` |
| `BackupKeepsToggles` | `BackupFaithful` | the store is sound, and `RoundTrip` |
| `RecordsHonest` (`CountersHonest`, `ImpressionsHonest`) | `RecordsMatchAnswers` (`CountersMatchAnswers`, `ImpressionsMatchAnswers`) | `CountInv`: inductive with the types, the second for all events; one thread at a time enters or leaves what is counted (`BusyMoves`), and a call that returns moves from the threads to the answers (`ReturnCounts`) |
| `AnswersAtomic` | `AtomicSpec` | `TestReady` of a client that is not ready, or `Snapshot`, is the instant of the answer (`Decide`); `LabelInv` says that the client is still ready at the second |

`ContextAccessProofs`, for any fields, writers, readers and callers:

| theorem | property | argument |
|---|---|---|
| `TypeCorrect`, `LockedCopiesWhole` | `TypeOK`, `SnapshotsWhole` | `LockInv`: a writer with the mutex has written all fields that it need not write any more, a reader with the mutex has copied the newest values, and without a writer all fields are of one version |

Only model-checked: what needs fairness (`StopReturns`, `Converges`,
`CountersEmptied`, `ReadyHeard`, and the liveness in `DispatchSpec` and `WorkerSpec`),
because the prover does not handle liveness and `ENABLED`. Four action properties
and invariants state what these rest on and a step can break, and are proved:

| liveness, checked | what it rests on, proved | what is left to fairness |
|---|---|---|
| `StopReturns` of `EventHandler` | `EndApproaches`, `NoLostWakeup` | the event thread takes its next step; emissions that had begun before `stop()` come to an end |
| `StopReturns` of `UnleashClient` | `StopApproaches`, `WorkersServed` | the workers take their next steps, a blocked one is notified or times out |
| `Converges` | `AnswerTakesEffect`, `UpdateNotForgotten`, `NoLostWakeup` | a request is answered in the end, and repeated after a failure |
| `CountersEmptied` | `LossesKnown`, `NoDoubleReport` | the interval ends, and the answer comes |

`ReadyHeard` has no such part: it depends on the delivery of what is queued, which
is the liveness of `DispatchSpec`.

## 6. Findings

Six runs show a disagreement between the code and what its documentation,
comments or examples say (the quotations are in `PROJECT.json`):

1. `start()` emits Init, and Ready for a client that has toggles, before the
   dispatcher is started: both are discarded, and Ready is not emitted again.
2. `stop()` from within a callback leaves the event thread running and joinable.
3. An empty toggle set is not stored but its ETag is kept, so the toggles that
   the backend has deleted stay enabled.
4. An answer without an ETag is stored under the ETag of the one before: when the
   backend returns to that one, 304 keeps the wrong toggles.
5. Evaluations recorded while a report is in flight are erased by `reset()`.
6. `context()` copies the context without the mutex.

Seen while modelling, and not the subject of a run: `README.md:115` and `:116` call 0
the default of the two intervals, which are 15 and 60 seconds in `clientConfig.hpp`;
and the name of the header in `toggleFetcher.cpp:22` has quotation marks in it, which
that in `metricSender.cpp:61` has not.

## 7. What is not modelled

* Concurrent callers of `start()` and `stop()`: `std::thread` members would be
  assigned and joined at the same time, and nothing promises that it works.
* The building of requests: how a context becomes a query or a body, the headers
  other than If-None-Match, the text of the metrics payload. They are formatting
  of values that the modules have. `SdkState`, which is written and never read.
* A bootstrap whose keys are not the names of its toggles, or whose toggles are not
  such as the decoder makes; two clients that share a backup file; a provider that
  the application writes. Nothing says what they should do.
* `HttpClient`: libcurl, without state between requests; its outcomes are `Answer`,
  `Fail` and `SendPost`. Its cancel token is not used by the SDK.
* `ClientConfig` but for the two predicates in `Entry`, the setters of the contexts,
  `Utils`, examples: values and formatting.
* The weakness of the memory order: the atomics are written with release and read
  with acquire, and what is passed through each of them is ordered by it; the
  modules interleave atomic steps.

## 8. Plan

Done, in this order: `EventHandler` and `EventDispatch`, `UnleashClient`,
`FeaturePolling`, `MetricSending`, `ContextAccess`, `FlagEvaluation` and
`AtomicEvaluation`; then `Worker` and its two refinements, `JsonCodec` under
`FlagEvaluation`, the events that a full queue or a `stop()` loses, workers that are
disabled, answers without an ETag, and the theorems about all of them; then the
workers of `UnleashClient` as `Worker`s, the measures that bound `stop()`
(`EndApproaches`, `StopApproaches`), the effect of an answer (`AnswerTakesEffect`), the
account of lost evaluations (`LossesKnown`), and their theorems; then the saves that
fail in silence.

What could follow: two processes that share one backup file, once it is said what
they may expect; the values of a bootstrap through file and store; the round trip
of a context through query and body, which treat an empty property differently.
