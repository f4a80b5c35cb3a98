--------------------------- MODULE FlagEvaluation ---------------------------
(***************************************************************************)
(* isEnabled() and getVariant(), called by several threads while the       *)
(* polling thread replaces the toggles and start() makes the client ready. *)
(* A call reads _ready, takes one snapshot of the store, adds to the usage *)
(* counters and may emit an impression; other threads run between these    *)
(* steps.                                                                  *)
(*                                                                         *)
(* The toggles come from the documents that JsonCodec decodes.  impression- *)
(* Data(), which neither looks at _ready nor counts, is one of the calls.  *)
(* The counters here are those of one metrics window (MetricSending has    *)
(* the windows), an impression is what emitImpression() is called with     *)
(* (EventHandler has what becomes of it), and its copy of the context is   *)
(* left to ContextAccess.                                                  *)
(***************************************************************************)
EXTENDS JsonCodec

CONSTANTS
  Threads,           \* threads of the application
  Flags,             \* the names it asks about
  Documents,         \* what the backend, or the backup file, may hold
  impressionDataAll, \* ClientConfig::impressionDataAll()
  MaxCalls,          \* bound: evaluations
  MaxReplaces        \* bound: replacements of the toggles

ASSUME FlagEvaluationAssumption ==
  /\ IsFiniteSet(Threads)
  /\ Flags # {}
  /\ Documents \subseteq AllDocuments
  /\ impressionDataAll \in BOOLEAN
  /\ MaxCalls \in Nat /\ MaxReplaces \in Nat

\* What the store holds before its first replace().
NoToggles == [f \in {} |-> disabledFactory]

\* What the client may store: an empty set is never stored.
ToggleSets ==
  {decodeClientFeaturesResponse(d) : d \in {d \in Documents : Accepts(d)}}
    \ {NoToggles}

VARIABLES
  ready,        \* UnleashClient::_ready
  store,        \* FlagStore::_snapshot
  served,       \* FlagStore::_ready: the store has been replaced
  pc,           \* where each thread of the application is
  call,         \* the operation and the flag of its call
  eval,         \* what the call read off its snapshot
  metrics,      \* MetricsStore::_list
  impressions,  \* what emitImpression() was called with
  answers,      \* the calls that have returned, with what they read
  used          \* how much of each bound is used up

client == <<ready, store, served>>
caller == <<pc, call, eval>>
vars   == <<client, caller, metrics, impressions, answers, used>>

Ops     == {"isEnabled", "getVariant", "impressionData"}
Calls   == [op : Ops, flag : Flags]
Bounds  == [calls |-> MaxCalls, replaces |-> MaxReplaces]
Stores  == ToggleSets \cup {NoToggles}

Spend(b) ==
  /\ used[b] < Bounds[b]
  /\ used' = [used EXCEPT ![b] = @ + 1]
-----------------------------------------------------------------------------
(* ToggleSet: the values for a flag that is not there are the defaults.    *)

contains(s, f)       == f \in DOMAIN s
isEnabled(s, f)      == contains(s, f) /\ s[f].enabled
getVariant(s, f)     == IF contains(s, f) THEN s[f].variant ELSE disabledFactory
impressionData(s, f) == contains(s, f) /\ s[f].impressionData

\* Everything a call reads off a toggle set.
Read(s, f) == [known |-> contains(s, f), enabled |-> isEnabled(s, f),
               variant |-> getVariant(s, f), impression |-> impressionData(s, f)]

NotReady == [known |-> FALSE, enabled |-> FALSE, variant |-> disabledFactory,
             impression |-> FALSE]

\* What a call returns of it.
Result(c, e) ==
  CASE c.op = "isEnabled"      -> e.enabled
    [] c.op = "getVariant"     -> e.variant
    [] c.op = "impressionData" -> e.impression
-----------------------------------------------------------------------------
(* MetricToggle: yes and no evaluations, and evaluations by variant.       *)

NoMetric == [yes |-> 0, no |-> 0, variants |-> [n \in Strings |-> 0]]

updateEnableMetric(m, isYes) ==
  IF isYes THEN [m EXCEPT !.yes = @ + 1] ELSE [m EXCEPT !.no = @ + 1]

\* Wrong variant: the evaluation by variant counts as an enabled one.
updateVariantMetricYes(m, isYes, n) ==
  [updateEnableMetric(m, TRUE) EXCEPT !.variants[n] = @ + 1]

updateVariantMetric(m, isYes, n) ==
  LET counted == updateEnableMetric(m, isYes)
  IN  IF n = Blank THEN counted ELSE [counted EXCEPT !.variants[n] = @ + 1]

Init ==
  /\ ready = FALSE
  /\ store \in Stores
  /\ served = (store # NoToggles)
  /\ pc = [t \in Threads |-> "idle"]
  /\ call \in [Threads -> {CHOOSE c \in Calls : TRUE}]
  /\ eval = [t \in Threads |-> NotReady]
  /\ metrics = [f \in Flags |-> NoMetric]
  /\ impressions = <<>>
  /\ answers = <<>>
  /\ used = [b \in DOMAIN Bounds |-> 0]
-----------------------------------------------------------------------------
(* The other threads of the client.                                        *)

\* Wrong variant: start() makes every client ready.
StartAlwaysReady ==
  /\ ~ready
  /\ ready' = TRUE
  /\ UNCHANGED <<store, served, caller, metrics, impressions, answers, used>>

\* start() of a client that has toggles.
StartReady ==
  /\ served
  /\ ~ready
  /\ ready' = TRUE
  /\ UNCHANGED <<store, served, caller, metrics, impressions, answers, used>>

replace(s) ==
  /\ Spend("replaces")
  /\ store' = s
  /\ served' = TRUE
  /\ UNCHANGED <<ready, caller, metrics, impressions, answers>>

\* The polling thread, after its replace().
MarkReady ==
  /\ used["replaces"] > 0
  /\ ~ready
  /\ ready' = TRUE
  /\ UNCHANGED <<store, served, caller, metrics, impressions, answers, used>>
-----------------------------------------------------------------------------
(* isEnabled(), getVariant() and impressionData() of a flag.               *)

Goto(t, l) == pc' = [pc EXCEPT ![t] = l]

Call(t, c) ==
  /\ pc[t] = "idle"
  /\ Spend("calls")
  /\ call' = [call EXCEPT ![t] = c]
  /\ Goto(t, "called")
  /\ UNCHANGED <<client, eval, metrics, impressions, answers>>

Counts(c) == c.op # "impressionData"

TestReady(t) ==
  /\ pc[t] = "called"
  /\ eval' = [eval EXCEPT ![t] = NotReady]
  /\ Goto(t, IF Counts(call[t]) => ready THEN "snapshot" ELSE "return")
  /\ UNCHANGED <<client, call, metrics, impressions, answers, used>>

Snapshot(t) ==
  /\ pc[t] = "snapshot"
  /\ eval' = [eval EXCEPT ![t] = Read(store, call[t].flag)]
  /\ Goto(t, IF Counts(call[t]) /\ contains(store, call[t].flag)
               THEN "record" ELSE "return")
  /\ UNCHANGED <<client, call, metrics, impressions, answers, used>>

\* addEnableMetric() and addVariantMetric(), under the mutex of the metrics.
AddMetric(t, m) ==
  IF call[t].op = "isEnabled"
    THEN updateEnableMetric(m, eval[t].enabled)
    ELSE updateVariantMetric(m, eval[t].enabled, eval[t].variant.name)

\* Wrong variant: the variant is looked up in a second snapshot.
RecordRereads(t) ==
  /\ pc[t] = "record"
  /\ metrics' = [metrics EXCEPT ![call[t].flag] = AddMetric(t, @)]
  /\ eval' = [eval EXCEPT ![t].variant = getVariant(store, call[t].flag)]
  /\ Goto(t, IF impressionDataAll \/ eval[t].impression THEN "emit" ELSE "return")
  /\ UNCHANGED <<client, call, impressions, answers, used>>

Record(t) ==
  /\ pc[t] = "record"
  /\ metrics' = [metrics EXCEPT ![call[t].flag] = AddMetric(t, @)]
  /\ Goto(t, IF impressionDataAll \/ eval[t].impression THEN "emit" ELSE "return")
  /\ UNCHANGED <<client, call, eval, impressions, answers, used>>

\* The event of isEnabled() carries no variant.
Impression(c, e) ==
  [call |-> c, enabled |-> e.enabled, impressionData |-> e.impression,
   variant |-> IF c.op = "getVariant" THEN e.variant.name ELSE Blank]

\* Wrong variant: the event carries the state of the flag in the store.
EmitCurrent(t) ==
  /\ pc[t] = "emit"
  /\ impressions' = Append(impressions,
       [Impression(call[t], eval[t]) EXCEPT !.enabled = isEnabled(store, call[t].flag)])
  /\ Goto(t, "return")
  /\ UNCHANGED <<client, call, eval, metrics, answers, used>>

EmitImpression(t) ==
  /\ pc[t] = "emit"
  /\ impressions' = Append(impressions, Impression(call[t], eval[t]))
  /\ Goto(t, "return")
  /\ UNCHANGED <<client, call, eval, metrics, answers, used>>

Return(t) ==
  /\ pc[t] = "return"
  /\ answers' = Append(answers, <<call[t], eval[t]>>)
  /\ Goto(t, "idle")
  /\ UNCHANGED <<client, call, eval, metrics, impressions, used>>

Evaluate(t) ==
  \/ \E c \in Calls : Call(t, c)
  \/ TestReady(t)
  \/ Snapshot(t)
  \/ Record(t)
  \/ EmitImpression(t)
  \/ Return(t)

Next ==
  \/ StartReady
  \/ \E s \in ToggleSets : replace(s)
  \/ MarkReady
  \/ \E t \in Threads : Evaluate(t)

Spec == Init /\ [][Next]_vars
-----------------------------------------------------------------------------
(* Properties.                                                             *)

Labels == {"idle", "called", "snapshot", "record", "emit", "return"}
Evals  == [known : BOOLEAN, enabled : BOOLEAN, variant : Variants,
           impression : BOOLEAN]
Made   == Calls \X Evals   \* a call, and what it read
Events == [call : Calls, enabled : BOOLEAN, impressionData : BOOLEAN,
           variant : Strings]
Metric == [yes : Nat, no : Nat, variants : [Strings -> Nat]]

\* Every variable has its type, and the client is ready only with toggles.
TypeOK ==
  /\ ready \in BOOLEAN
  /\ served \in BOOLEAN
  /\ ready => served
  /\ store \in Stores
  /\ pc \in [Threads -> Labels]
  /\ call \in [Threads -> Calls]
  /\ eval \in [Threads -> Evals]
  /\ metrics \in [Flags -> Metric]
  /\ impressions \in Seq(Events)
  /\ answers \in Seq(Made)
  /\ used \in [DOMAIN Bounds -> Nat]

\* How many evaluations are in K: those that have returned, and those of the
\* threads that are at one of the labels.
Count(K, labels) ==
  Cardinality({i \in DOMAIN answers : answers[i] \in K})
    + Cardinality({t \in Threads : pc[t] \in labels /\ <<call[t], eval[t]>> \in K})

\* The evaluations of a flag that are counted, and how.
Counted(f)    == {k \in Made : k[1].flag = f /\ Counts(k[1]) /\ k[2].known}
Yes(f)        == {k \in Counted(f) : k[2].enabled}
No(f)         == {k \in Counted(f) : ~k[2].enabled}
ByName(f, n)  == {k \in Counted(f) : k[1].op = "getVariant" /\ k[2].variant.name = n}

Recorded == {"emit", "return"}

\* The counters agree with what the application was answered: a flag has as
\* many yes (no) evaluations as calls that found it enabled (disabled), and
\* each variant as many as getVariant() calls that returned it; a call that
\* was answered by a default counts nothing.
CountersMatchAnswers ==
  \A f \in Flags :
    /\ metrics[f].yes = Count(Yes(f), Recorded)
    /\ metrics[f].no = Count(No(f), Recorded)
    /\ \A n \in Strings \ {Blank} :
         metrics[f].variants[n] = Count(ByName(f, n), Recorded)

\* The evaluations that an event is about.
About(event) ==
  {k \in Made : /\ Counts(k[1]) /\ k[2].known
                /\ impressionDataAll \/ k[2].impression
                /\ Impression(k[1], k[2]) = event}

\* The events that were emitted, or are due; of all others there are none.
Concerned ==
  {impressions[i] : i \in DOMAIN impressions}
    \cup {Impression(answers[i][1], answers[i][2]) : i \in DOMAIN answers}
    \cup {Impression(call[t], eval[t]) : t \in Threads}

\* One impression for each evaluation that calls for one, and it tells what
\* the application was answered.
ImpressionsMatchAnswers ==
  \A event \in Concerned :
    Cardinality({i \in DOMAIN impressions : impressions[i] = event})
      = Count(About(event), {"return"})

\* What the client records of the evaluations, in its counters and in impression
\* events, tells the answers it gave, each of them once.
RecordsMatchAnswers == CountersMatchAnswers /\ ImpressionsMatchAnswers

\* getVariant() answers with a variant of its own only for an enabled flag,
\* whatever the document said of the variant of a disabled one.
VariantsOnlyOfEnabled ==
  \A t \in Threads : eval[t].variant # disabledFactory =>
                       eval[t].enabled /\ eval[t].variant.enabled

\* What persistToggles() writes of the toggles in the store, in whatever order,
\* gives the same toggles back to the next process.
BackupFaithful ==
  \A order \in Orders(DOMAIN store) :
    LET file == encodeClientFeaturesResponse(store, order)
    IN  Accepts(file) /\ decodeClientFeaturesResponse(file) = store

\* The answer to a call from a readiness and a store.
AtomicAnswer(c, r, s) ==
  Result(c, IF Counts(c) => r THEN Read(s, c.flag) ELSE NotReady)

\* The answers are atomic: each is the answer of one instant of its call.
Atomic == INSTANCE AtomicEvaluation WITH
  Answer <- AtomicAnswer,
  call   <- [t \in Threads |-> IF pc[t] = "idle" THEN <<>> ELSE <<call[t]>>],
  reply  <- [t \in Threads |-> IF pc[t] \in {"idle", "called", "snapshot"}
                                 THEN <<>> ELSE <<Result(call[t], eval[t])>>]

AtomicSpec == Atomic!Spec
=============================================================================
