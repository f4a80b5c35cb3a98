------------------------ MODULE FlagEvaluationProofs ------------------------
(***************************************************************************)
(* Theorems about FlagEvaluation, for any finite set of threads, and any   *)
(* flags, documents and number of calls and replacements: what the         *)
(* counters and the impressions say of the answers, what the backup file   *)
(* gives back, and that every answer is that of one instant.               *)
(***************************************************************************)
EXTENDS FlagEvaluation, JsonCodecProofs

USE FlagEvaluationAssumption

LEMMA SpendType ==
  ASSUME used \in [DOMAIN Bounds -> Nat], NEW b \in DOMAIN Bounds, Spend(b)
  PROVE  used' \in [DOMAIN Bounds -> Nat]
BY DEF Spend

LEMMA BoundNames == DOMAIN Bounds = {"calls", "replaces"}
BY DEF Bounds

LEMMA AppendType ==
  ASSUME NEW T, NEW s \in Seq(T), NEW x \in T
  PROVE  /\ Append(s, x) \in Seq(T)
         /\ Len(s) \in Nat
         /\ DOMAIN s = 1 .. Len(s)
         /\ DOMAIN Append(s, x) = 1 .. (Len(s) + 1)
         /\ \A i \in 1 .. Len(s) : Append(s, x)[i] = s[i]
         /\ Append(s, x)[Len(s) + 1] = x
OBVIOUS
-----------------------------------------------------------------------------
(* Types.                                                                  *)

\* What the label of a thread says of its call, and that the client is ready
\* only with toggles.
LabelInv ==
  /\ used["replaces"] > 0 => served
  /\ \A t \in Threads :
       /\ pc[t] = "snapshot" /\ Counts(call[t]) => ready
       /\ pc[t] \in {"record", "emit"} => Counts(call[t]) /\ eval[t].known
       /\ pc[t] = "emit" => impressionDataAll \/ eval[t].impression
       /\ eval[t].variant # disabledFactory => eval[t].enabled /\ eval[t].variant.enabled

TypeInv == TypeOK /\ LabelInv

\* Every set that the client may store is the result of decoding a document.
LEMMA StoresSound ==
  ASSUME NEW s \in Stores
  PROVE  Sound(s)
<1>1. CASE s = NoToggles
  <2>1. DOMAIN s = {}
    BY <1>1 DEF NoToggles
  <2>2. s \in [{} -> Toggles]
    BY <1>1 DEF NoToggles
  <2> QED
    BY <2>1, <2>2, FS_EmptySet DEF Sound
<1>2. CASE s \in ToggleSets
  <2>1. PICK d \in Documents : Accepts(d) /\ s = decodeClientFeaturesResponse(d)
    BY <1>2 DEF ToggleSets
  <2> QED
    BY <2>1, DecodedSound
<1> QED
  BY <1>1, <1>2 DEF Stores

\* Everything that is read off a toggle set of the client.
LEMMA ReadType ==
  ASSUME NEW s \in Stores, NEW f \in Flags
  PROVE  /\ Read(s, f) \in Evals
         /\ Read(s, f).known = contains(s, f)
         /\ Read(s, f).variant # disabledFactory =>
              Read(s, f).enabled /\ Read(s, f).variant.enabled
<1>1. /\ contains(s, f) \in BOOLEAN /\ isEnabled(s, f) \in BOOLEAN
      /\ impressionData(s, f) \in BOOLEAN /\ getVariant(s, f) \in Variants
      /\ getVariant(s, f) # disabledFactory =>
           isEnabled(s, f) /\ getVariant(s, f).enabled
  <2>1. CASE contains(s, f)
    <3>1. s[f] \in Toggles /\ Canonical(s[f])
      BY <2>1, StoresSound DEF Sound, contains
    <3>2. s[f].enabled \in BOOLEAN /\ s[f].impressionData \in BOOLEAN
          /\ s[f].variant \in Variants
      BY <3>1 DEF Toggles
    <3>3. s[f].variant # disabledFactory => s[f].enabled /\ s[f].variant.enabled
      BY <3>1 DEF Canonical
    <3> QED
      BY <2>1, <3>2, <3>3 DEF isEnabled, impressionData, getVariant, contains
  <2>2. CASE ~contains(s, f)
    BY <2>2, DefaultVariant DEF isEnabled, impressionData, getVariant, contains
  <2> QED
    BY <2>1, <2>2
<1>2. /\ Read(s, f).known = contains(s, f)
      /\ Read(s, f).enabled = isEnabled(s, f)
      /\ Read(s, f).variant = getVariant(s, f)
  BY DEF Read
<1>3. Read(s, f) \in Evals
  BY <1>1 DEF Read, Evals
<1> QED
  BY <1>1, <1>2, <1>3

LEMMA NotReadyType ==
  /\ NotReady \in Evals
  /\ NotReady.known = FALSE
  /\ NotReady.variant = disabledFactory
BY DefaultVariant DEF NotReady, Evals

\* A metric stays one when an evaluation is added to it.
LEMMA MetricType ==
  ASSUME NEW m \in Metric, NEW isYes \in BOOLEAN, NEW n \in Strings
  PROVE  /\ updateEnableMetric(m, isYes) \in Metric
         /\ updateEnableMetric(m, isYes).yes = IF isYes THEN m.yes + 1 ELSE m.yes
         /\ updateEnableMetric(m, isYes).no = IF isYes THEN m.no ELSE m.no + 1
         /\ updateEnableMetric(m, isYes).variants = m.variants
         /\ updateVariantMetric(m, isYes, n) \in Metric
         /\ updateVariantMetric(m, isYes, n).yes = IF isYes THEN m.yes + 1 ELSE m.yes
         /\ updateVariantMetric(m, isYes, n).no = IF isYes THEN m.no ELSE m.no + 1
         /\ \A k \in Strings \ {Blank} :
              updateVariantMetric(m, isYes, n).variants[k] =
                IF k = n THEN m.variants[k] + 1 ELSE m.variants[k]
<1> DEFINE e == updateEnableMetric(m, isYes)
           w == updateVariantMetric(m, isYes, n)
<1>1. m.yes \in Nat /\ m.no \in Nat /\ m.variants \in [Strings -> Nat]
  BY DEF Metric
<1>2. /\ e \in Metric
      /\ e.yes = IF isYes THEN m.yes + 1 ELSE m.yes
      /\ e.no = IF isYes THEN m.no ELSE m.no + 1
      /\ e.variants = m.variants
  <2>1. CASE isYes
    BY <1>1, <2>1 DEF updateEnableMetric, Metric
  <2>2. CASE ~isYes
    BY <1>1, <2>2 DEF updateEnableMetric, Metric
  <2> QED
    BY <2>1, <2>2
<1>3. CASE n = Blank
  <2>1. w = e
    BY <1>3 DEF updateVariantMetric
  <2> HIDE DEF e, w
  <2>2. \A k \in Strings \ {Blank} : k # n
    BY <1>3
  <2> QED
    BY <1>2, <2>1, <2>2 DEF e, w
<1>4. CASE n # Blank
  <2>1. w = [e EXCEPT !.variants[n] = @ + 1]
    BY <1>4 DEF updateVariantMetric
  <2> HIDE DEF e, w
  <2>2. /\ w.yes = e.yes /\ w.no = e.no
        /\ w.variants = [e.variants EXCEPT ![n] = @ + 1]
        /\ w = [yes |-> w.yes, no |-> w.no, variants |-> w.variants]
    BY <1>2, <2>1 DEF Metric
  <2>3. w.variants \in [Strings -> Nat]
    BY <1>1, <1>2, <2>2
  <2>4. w \in Metric
    BY <1>2, <2>2, <2>3 DEF Metric
  <2>5. \A k \in Strings : w.variants[k] = IF k = n THEN m.variants[k] + 1
                                                    ELSE m.variants[k]
    BY <1>1, <1>2, <2>2
  <2> QED
    BY <1>2, <2>2, <2>4, <2>5 DEF e, w
<1> QED
  BY <1>3, <1>4

LEMMA TypeInit == Init => TypeInv
<1> SUFFICES ASSUME Init PROVE TypeInv
  OBVIOUS
<1>1. store \in Stores /\ served \in BOOLEAN /\ ready = FALSE
  BY DEF Init
<1>2. pc \in [Threads -> Labels] /\ \A t \in Threads : pc[t] = "idle"
  BY DEF Init, Labels
<1>3. call \in [Threads -> Calls]
  <2>1. (CHOOSE c \in Calls : TRUE) \in Calls
    <3>1. PICK f \in Flags : TRUE
      OBVIOUS
    <3>2. [op |-> "isEnabled", flag |-> f] \in Calls
      BY DEF Calls, Ops
    <3> QED
      BY <3>2
  <2> QED
    BY <2>1 DEF Init
<1>4. eval \in [Threads -> Evals] /\ \A t \in Threads : eval[t] = NotReady
  BY NotReadyType DEF Init
<1>5. metrics \in [Flags -> Metric]
  <2>1. NoMetric \in Metric
    BY DEF NoMetric, Metric
  <2> QED
    BY <2>1 DEF Init
<1>6. impressions \in Seq(Events) /\ answers \in Seq(Made)
  BY DEF Init
<1>7. used \in [DOMAIN Bounds -> Nat] /\ used["replaces"] = 0
  BY BoundNames DEF Init
<1>8. TypeOK
  BY <1>1, <1>2, <1>3, <1>4, <1>5, <1>6, <1>7 DEF TypeOK
<1>9. LabelInv
  BY <1>1, <1>2, <1>4, <1>7, NotReadyType DEF LabelInv
<1> QED
  BY <1>8, <1>9 DEF TypeInv

\* What LabelInv says of one thread.
Thread(r, p, c, e) ==
  /\ p = "snapshot" /\ Counts(c) => r
  /\ p \in {"record", "emit"} => Counts(c) /\ e.known
  /\ p = "emit" => impressionDataAll \/ e.impression
  /\ e.variant # disabledFactory => e.enabled /\ e.variant.enabled

LEMMA ThreadsLabelled ==
  LabelInv <=> /\ used["replaces"] > 0 => served
               /\ \A t \in Threads : Thread(ready, pc[t], call[t], eval[t])
BY DEF LabelInv, Thread

\* The steps of the other threads of the client.
LEMMA TypeClient ==
  ASSUME TypeInv, StartReady \/ MarkReady \/ \E s \in ToggleSets : replace(s)
  PROVE  TypeInv'
<1>1. UNCHANGED <<pc, call, eval, metrics, impressions, answers>>
  BY DEF StartReady, MarkReady, replace, caller
<1>2. used' \in [DOMAIN Bounds -> Nat]
  BY SpendType, BoundNames DEF StartReady, MarkReady, replace, TypeInv, TypeOK
<1>3. store' \in Stores
  BY DEF StartReady, MarkReady, replace, TypeInv, TypeOK, Stores
<1>4. /\ ready' \in BOOLEAN /\ served' \in BOOLEAN
      /\ ready => ready'
      /\ ready' => served'
      /\ used'["replaces"] > 0 => served'
  <2>1. CASE StartReady
    BY <2>1 DEF StartReady, TypeInv, TypeOK, LabelInv
  <2>2. CASE MarkReady
    BY <2>2 DEF MarkReady, TypeInv, TypeOK, LabelInv
  <2>3. CASE \E s \in ToggleSets : replace(s)
    BY <2>3 DEF replace, TypeInv, TypeOK
  <2> QED
    BY <2>1, <2>2, <2>3
<1>5. TypeOK'
  BY <1>1, <1>2, <1>3, <1>4 DEF TypeInv, TypeOK
<1>6. LabelInv'
  <2>1. \A t \in Threads : Thread(ready, pc[t], call[t], eval[t])
    BY ThreadsLabelled DEF TypeInv
  <2>2. \A t \in Threads : Thread(ready', pc'[t], call'[t], eval'[t])
    BY <1>1, <1>4, <2>1 DEF Thread
  <2> QED
    BY <1>4, <2>2 DEF LabelInv, Thread
<1> QED
  BY <1>5, <1>6 DEF TypeInv

\* A step of an evaluating thread keeps the types if what it changes of its own
\* state does.
LEMMA TypeEvaluate ==
  ASSUME TypeInv, NEW t \in Threads,
         UNCHANGED client,
         pc' = [pc EXCEPT ![t] = pc'[t]], pc'[t] \in Labels,
         call' = [call EXCEPT ![t] = call'[t]], call'[t] \in Calls,
         eval' = [eval EXCEPT ![t] = eval'[t]], eval'[t] \in Evals,
         Thread(ready, pc'[t], call'[t], eval'[t]),
         metrics' \in [Flags -> Metric],
         impressions' \in Seq(Events),
         answers' \in Seq(Made),
         used' \in [DOMAIN Bounds -> Nat],
         used'["replaces"] = used["replaces"]
  PROVE  TypeInv'
<1>1. TypeOK'
  BY DEF TypeInv, TypeOK, client
<1>2. LabelInv'
  <2>1. \A u \in Threads : Thread(ready, pc[u], call[u], eval[u])
    BY ThreadsLabelled DEF TypeInv
  <2>2. \A u \in Threads : Thread(ready', pc'[u], call'[u], eval'[u])
    BY <2>1 DEF TypeInv, TypeOK, client
  <2>3. used'["replaces"] > 0 => served'
    BY DEF TypeInv, LabelInv, client
  <2> QED
    BY <2>2, <2>3 DEF LabelInv, Thread
<1> QED
  BY <1>1, <1>2 DEF TypeInv

\* Only one thread moves, and leaves the client alone.
Moves(t) ==
  /\ UNCHANGED client
  /\ pc' = [pc EXCEPT ![t] = pc'[t]] /\ pc'[t] \in Labels
  /\ call' = [call EXCEPT ![t] = call'[t]] /\ call'[t] \in Calls
  /\ eval' = [eval EXCEPT ![t] = eval'[t]] /\ eval'[t] \in Evals
  /\ Thread(ready, pc'[t], call'[t], eval'[t])
  /\ used' \in [DOMAIN Bounds -> Nat] /\ used'["replaces"] = used["replaces"]

\* Steps that neither count, nor emit, nor answer.
Silent(t) ==
  /\ UNCHANGED <<metrics, impressions, answers>>
  /\ pc[t] \in {"idle", "called", "snapshot"} /\ pc'[t] # "emit"
  /\ pc'[t] = "return" => ~(Counts(call'[t]) /\ eval'[t].known)

LEMMA CallMoves ==
  ASSUME TypeInv, NEW t \in Threads, NEW c \in Calls, Call(t, c)
  PROVE  Moves(t) /\ Silent(t)
<1>1. pc[t] = "idle" /\ pc' = [pc EXCEPT ![t] = "called"] /\ pc \in [Threads -> Labels]
  BY DEF Call, Goto, TypeInv, TypeOK
<1>2. call' = [call EXCEPT ![t] = c] /\ call \in [Threads -> Calls]
  BY DEF Call, TypeInv, TypeOK
<1>3. eval' = eval /\ eval \in [Threads -> Evals]
  BY DEF Call, TypeInv, TypeOK
<1>4. used' \in [DOMAIN Bounds -> Nat] /\ used'["replaces"] = used["replaces"]
  BY SpendType, BoundNames DEF Call, Spend, TypeInv, TypeOK
<1>5. Thread(ready, "called", c, eval[t])
  BY DEF TypeInv, LabelInv, Thread
<1>6. pc'[t] = "called" /\ call'[t] = c /\ eval'[t] = eval[t]
  BY <1>1, <1>2, <1>3
<1>7. UNCHANGED <<client, metrics, impressions, answers>>
  BY DEF Call
<1> QED
  BY <1>1, <1>2, <1>3, <1>4, <1>5, <1>6, <1>7 DEF Moves, Silent, Labels

LEMMA TestReadyMoves ==
  ASSUME TypeInv, NEW t \in Threads, TestReady(t)
  PROVE  Moves(t) /\ Silent(t)
<1> DEFINE l == IF Counts(call[t]) => ready THEN "snapshot" ELSE "return"
<1>1. pc[t] = "called" /\ pc' = [pc EXCEPT ![t] = l] /\ pc \in [Threads -> Labels]
  BY DEF TestReady, Goto, TypeInv, TypeOK
<1>2. call' = call /\ call \in [Threads -> Calls]
  BY DEF TestReady, TypeInv, TypeOK
<1>3. eval' = [eval EXCEPT ![t] = NotReady] /\ eval \in [Threads -> Evals]
  BY DEF TestReady, TypeInv, TypeOK
<1>4. used' = used /\ used \in [DOMAIN Bounds -> Nat]
  BY DEF TestReady, TypeInv, TypeOK
<1>5. Thread(ready, l, call[t], NotReady)
  BY NotReadyType DEF Thread
<1>6. pc'[t] = l /\ call'[t] = call[t] /\ eval'[t] = NotReady
  BY <1>1, <1>2, <1>3
<1>7. l \in {"snapshot", "return"}
  OBVIOUS
<1>8. UNCHANGED <<client, metrics, impressions, answers>>
  BY DEF TestReady
<1> HIDE DEF l
<1> QED
  BY <1>1, <1>2, <1>3, <1>4, <1>5, <1>6, <1>7, <1>8, NotReadyType
  DEF Moves, Silent, Labels

LEMMA SnapshotMoves ==
  ASSUME TypeInv, NEW t \in Threads, Snapshot(t)
  PROVE  Moves(t) /\ Silent(t)
<1> DEFINE f == call[t].flag
           l == IF Counts(call[t]) /\ contains(store, f) THEN "record" ELSE "return"
           e == Read(store, f)
<1>1. pc[t] = "snapshot" /\ pc' = [pc EXCEPT ![t] = l] /\ pc \in [Threads -> Labels]
  BY DEF Snapshot, Goto, TypeInv, TypeOK
<1>2. call' = call /\ call \in [Threads -> Calls] /\ f \in Flags
  BY DEF Snapshot, TypeInv, TypeOK, Calls
<1>3. eval' = [eval EXCEPT ![t] = e] /\ eval \in [Threads -> Evals]
  BY DEF Snapshot, TypeInv, TypeOK
<1>4. used' = used /\ used \in [DOMAIN Bounds -> Nat]
  BY DEF Snapshot, TypeInv, TypeOK
<1>5. store \in Stores
  BY DEF TypeInv, TypeOK
<1>6. /\ e \in Evals /\ e.known = contains(store, f)
      /\ e.variant # disabledFactory => e.enabled /\ e.variant.enabled
  <2> HIDE DEF f, e
  <2> QED
    BY <1>2, <1>5, ReadType DEF e
<1>7. /\ l \in {"record", "return"}
      /\ l = "record" => Counts(call[t]) /\ contains(store, f)
      /\ l = "return" => ~(Counts(call[t]) /\ contains(store, f))
  OBVIOUS
<1>8. UNCHANGED <<client, metrics, impressions, answers>>
  BY DEF Snapshot
<1> HIDE DEF l, f, e
<1>9. pc'[t] = l /\ call'[t] = call[t] /\ eval'[t] = e
  BY <1>1, <1>2, <1>3
<1>10. Thread(ready, l, call[t], e)
  BY <1>6, <1>7 DEF Thread
<1>11. Moves(t)
  BY <1>1, <1>2, <1>3, <1>4, <1>6, <1>7, <1>8, <1>9, <1>10 DEF Moves, Labels
<1>12. Silent(t)
  BY <1>1, <1>6, <1>7, <1>8, <1>9 DEF Silent
<1> QED
  BY <1>11, <1>12

\* What the call being recorded adds to the metric of its flag.
Adds(t) ==
  LET m == metrics[call[t].flag]
      n == metrics'[call[t].flag]
  IN  /\ n.yes = IF eval[t].enabled THEN m.yes + 1 ELSE m.yes
      /\ n.no = IF eval[t].enabled THEN m.no ELSE m.no + 1
      /\ \A k \in Strings \ {Blank} :
           n.variants[k] =
             IF call[t].op = "getVariant" /\ k = eval[t].variant.name
               THEN m.variants[k] + 1 ELSE m.variants[k]

LEMMA RecordMoves ==
  ASSUME TypeInv, NEW t \in Threads, Record(t)
  PROVE  /\ Moves(t)
         /\ UNCHANGED <<call, eval, impressions, answers>>
         /\ metrics' \in [Flags -> Metric]
         /\ \A f \in Flags : f # call[t].flag => metrics'[f] = metrics[f]
         /\ Adds(t)
         /\ pc[t] = "record" /\ Counts(call[t]) /\ eval[t].known
         /\ \/ pc'[t] = "emit" /\ (impressionDataAll \/ eval[t].impression)
            \/ pc'[t] = "return" /\ ~(impressionDataAll \/ eval[t].impression)
<1> DEFINE f == call[t].flag
           l == IF impressionDataAll \/ eval[t].impression THEN "emit" ELSE "return"
           m == metrics[f]
<1>1. pc[t] = "record" /\ pc' = [pc EXCEPT ![t] = l] /\ pc \in [Threads -> Labels]
  BY DEF Record, Goto, TypeInv, TypeOK
<1>2. call' = call /\ call \in [Threads -> Calls] /\ f \in Flags
      /\ call[t].op \in {"isEnabled", "getVariant", "impressionData"}
  BY DEF Record, TypeInv, TypeOK, Calls, Ops
<1>3. eval' = eval /\ eval \in [Threads -> Evals]
      /\ eval[t].enabled \in BOOLEAN /\ eval[t].variant.name \in Strings
  BY DEF Record, TypeInv, TypeOK, Evals, Variants
<1>4. used' = used /\ used \in [DOMAIN Bounds -> Nat]
  BY DEF Record, TypeInv, TypeOK
<1>5. Counts(call[t]) /\ eval[t].known
      /\ (eval[t].variant # disabledFactory => eval[t].enabled /\ eval[t].variant.enabled)
  BY <1>1 DEF TypeInv, LabelInv
<1>6. l \in {"emit", "return"} /\ (l = "emit" <=> impressionDataAll \/ eval[t].impression)
  OBVIOUS
<1>7. UNCHANGED <<client, impressions, answers>>
  BY DEF Record
<1>8. metrics \in [Flags -> Metric] /\ m \in Metric
  BY <1>2 DEF TypeInv, TypeOK
<1>9. metrics' = [metrics EXCEPT ![f] = AddMetric(t, m)]
  BY DEF Record
<1>10. /\ AddMetric(t, m) \in Metric
       /\ AddMetric(t, m).yes = IF eval[t].enabled THEN m.yes + 1 ELSE m.yes
       /\ AddMetric(t, m).no = IF eval[t].enabled THEN m.no ELSE m.no + 1
       /\ \A k \in Strings \ {Blank} :
            AddMetric(t, m).variants[k] =
              IF call[t].op = "getVariant" /\ k = eval[t].variant.name
                THEN m.variants[k] + 1 ELSE m.variants[k]
  <2> HIDE DEF m
  <2>1. CASE call[t].op = "isEnabled"
    <3>1. AddMetric(t, m) = updateEnableMetric(m, eval[t].enabled)
      BY <2>1 DEF AddMetric
    <3>2. m \in Metric /\ eval[t].enabled \in BOOLEAN /\ eval[t].variant.name \in Strings
      BY <1>3, <1>8
    <3> HIDE DEF f
    <3>3. /\ AddMetric(t, m) \in Metric
          /\ AddMetric(t, m).yes = IF eval[t].enabled THEN m.yes + 1 ELSE m.yes
          /\ AddMetric(t, m).no = IF eval[t].enabled THEN m.no ELSE m.no + 1
          /\ AddMetric(t, m).variants = m.variants
      BY <3>1, <3>2, MetricType
    <3> QED
      BY <2>1, <3>3
  <2>2. CASE call[t].op = "getVariant"
    <3>1. AddMetric(t, m) =
            updateVariantMetric(m, eval[t].enabled, eval[t].variant.name)
      BY <2>2 DEF AddMetric
    <3>2. m \in Metric /\ eval[t].enabled \in BOOLEAN /\ eval[t].variant.name \in Strings
      BY <1>3, <1>8
    <3> HIDE DEF f
    <3>3. /\ AddMetric(t, m) \in Metric
          /\ AddMetric(t, m).yes = IF eval[t].enabled THEN m.yes + 1 ELSE m.yes
          /\ AddMetric(t, m).no = IF eval[t].enabled THEN m.no ELSE m.no + 1
          /\ \A k \in Strings \ {Blank} :
               AddMetric(t, m).variants[k] =
                 IF k = eval[t].variant.name THEN m.variants[k] + 1 ELSE m.variants[k]
      <4> DEFINE n == eval[t].variant.name
                 b == eval[t].enabled
      <4>1. m \in Metric /\ b \in BOOLEAN /\ n \in Strings
        BY <3>2
      <4> HIDE DEF n, b
      <4>2. /\ updateVariantMetric(m, b, n) \in Metric
            /\ updateVariantMetric(m, b, n).yes = IF b THEN m.yes + 1 ELSE m.yes
            /\ updateVariantMetric(m, b, n).no = IF b THEN m.no ELSE m.no + 1
            /\ \A k \in Strings \ {Blank} :
                 updateVariantMetric(m, b, n).variants[k] =
                   IF k = n THEN m.variants[k] + 1 ELSE m.variants[k]
        BY <4>1, MetricType
      <4>3. AddMetric(t, m) = updateVariantMetric(m, b, n)
        BY <3>1 DEF b, n
      <4> QED
        BY <4>2, <4>3 DEF b, n
    <3> QED
      BY <2>2, <3>3
  <2> QED
    BY <1>2, <1>5, <2>1, <2>2 DEF Counts
<1> HIDE DEF l, f, m
<1>11. pc'[t] = l /\ call'[t] = call[t] /\ eval'[t] = eval[t]
  BY <1>1, <1>2, <1>3
<1>12. Thread(ready, l, call[t], eval[t])
  BY <1>5, <1>6 DEF Thread
<1>13. Moves(t)
  BY <1>1, <1>2, <1>3, <1>4, <1>6, <1>7, <1>11, <1>12 DEF Moves, Labels
<1>14. metrics' \in [Flags -> Metric] /\ metrics'[f] = AddMetric(t, m)
       /\ \A g \in Flags : g # f => metrics'[g] = metrics[g]
  BY <1>2, <1>8, <1>9, <1>10
<1>15. Adds(t)
  BY <1>10, <1>14 DEF Adds, f, m
<1> QED
  BY <1>1, <1>2, <1>3, <1>5, <1>6, <1>7, <1>11, <1>13, <1>14, <1>15 DEF f

LEMMA EventType ==
  ASSUME NEW c \in Calls, NEW e \in Evals
  PROVE  Impression(c, e) \in Events
<1>1. e.enabled \in BOOLEAN /\ e.impression \in BOOLEAN /\ e.variant.name \in Strings
  BY DEF Evals, Variants
<1>2. Blank \in Strings
  BY JsonCodecAssumption
<1> DEFINE n == IF c.op = "getVariant" THEN e.variant.name ELSE Blank
<1>3. Impression(c, e) = [call |-> c, enabled |-> e.enabled,
                          impressionData |-> e.impression, variant |-> n]
  BY DEF Impression
<1>4. n \in Strings
  BY <1>1, <1>2
<1> HIDE DEF n
<1> QED
  BY <1>1, <1>3, <1>4 DEF Events

LEMMA EmitMoves ==
  ASSUME TypeInv, NEW t \in Threads, EmitImpression(t)
  PROVE  /\ Moves(t)
         /\ UNCHANGED <<call, eval, metrics, answers>>
         /\ impressions' = Append(impressions, Impression(call[t], eval[t]))
         /\ impressions' \in Seq(Events)
         /\ pc[t] = "emit" /\ pc'[t] = "return"
         /\ Counts(call[t]) /\ eval[t].known
         /\ impressionDataAll \/ eval[t].impression
<1>1. pc[t] = "emit" /\ pc' = [pc EXCEPT ![t] = "return"] /\ pc \in [Threads -> Labels]
  BY DEF EmitImpression, Goto, TypeInv, TypeOK
<1>2. call' = call /\ call \in [Threads -> Calls]
  BY DEF EmitImpression, TypeInv, TypeOK
<1>3. eval' = eval /\ eval \in [Threads -> Evals]
  BY DEF EmitImpression, TypeInv, TypeOK
<1>4. used' = used /\ used \in [DOMAIN Bounds -> Nat]
  BY DEF EmitImpression, TypeInv, TypeOK
<1>5. /\ Counts(call[t]) /\ eval[t].known
      /\ impressionDataAll \/ eval[t].impression
      /\ eval[t].variant # disabledFactory => eval[t].enabled /\ eval[t].variant.enabled
  BY <1>1 DEF TypeInv, LabelInv
<1>6. UNCHANGED <<client, metrics, answers>>
      /\ impressions' = Append(impressions, Impression(call[t], eval[t]))
  BY DEF EmitImpression
<1>7. impressions' \in Seq(Events)
  <2>1. impressions \in Seq(Events)
    BY DEF TypeInv, TypeOK
  <2>2. Impression(call[t], eval[t]) \in Events
    BY <1>2, <1>3, EventType
  <2> QED
    BY <1>6, <2>1, <2>2, AppendType
<1>8. pc'[t] = "return" /\ call'[t] = call[t] /\ eval'[t] = eval[t]
  BY <1>1, <1>2, <1>3
<1>9. Thread(ready, "return", call[t], eval[t])
  BY <1>5 DEF Thread
<1>10. Moves(t)
  BY <1>1, <1>2, <1>3, <1>4, <1>6, <1>8, <1>9 DEF Moves, Labels
<1> QED
  BY <1>1, <1>2, <1>3, <1>5, <1>6, <1>7, <1>8, <1>10

LEMMA ReturnMoves ==
  ASSUME TypeInv, NEW t \in Threads, Return(t)
  PROVE  /\ Moves(t)
         /\ UNCHANGED <<call, eval, metrics, impressions>>
         /\ answers' = Append(answers, <<call[t], eval[t]>>)
         /\ <<call[t], eval[t]>> \in Made
         /\ answers' \in Seq(Made)
         /\ pc[t] = "return" /\ pc'[t] = "idle"
<1>1. pc[t] = "return" /\ pc' = [pc EXCEPT ![t] = "idle"] /\ pc \in [Threads -> Labels]
  BY DEF Return, Goto, TypeInv, TypeOK
<1>2. call' = call /\ call \in [Threads -> Calls]
  BY DEF Return, TypeInv, TypeOK
<1>3. eval' = eval /\ eval \in [Threads -> Evals]
  BY DEF Return, TypeInv, TypeOK
<1>4. used' = used /\ used \in [DOMAIN Bounds -> Nat]
  BY DEF Return, TypeInv, TypeOK
<1>5. UNCHANGED <<client, metrics, impressions>>
      /\ answers' = Append(answers, <<call[t], eval[t]>>)
  BY DEF Return
<1>6. <<call[t], eval[t]>> \in Made
  BY <1>2, <1>3 DEF Made
<1>7. answers' \in Seq(Made)
  <2>1. answers \in Seq(Made)
    BY DEF TypeInv, TypeOK
  <2> QED
    BY <1>5, <1>6, <2>1, AppendType
<1>8. pc'[t] = "idle" /\ call'[t] = call[t] /\ eval'[t] = eval[t]
  BY <1>1, <1>2, <1>3
<1>9. Thread(ready, "idle", call[t], eval[t])
  BY DEF TypeInv, LabelInv, Thread
<1>10. Moves(t)
  BY <1>1, <1>2, <1>3, <1>4, <1>5, <1>8, <1>9 DEF Moves, Labels
<1> QED
  BY <1>1, <1>2, <1>3, <1>5, <1>6, <1>7, <1>8, <1>10

\* The steps of an evaluating thread that call, test and look.
LEMMA SilentMoves ==
  ASSUME TypeInv, NEW t \in Threads, Evaluate(t),
         ~Record(t), ~EmitImpression(t), ~Return(t)
  PROVE  Moves(t) /\ Silent(t)
BY CallMoves, TestReadyMoves, SnapshotMoves DEF Evaluate

LEMMA TypeStep ==
  ASSUME TypeInv, [Next]_vars
  PROVE  TypeInv'
<1>1. CASE UNCHANGED vars
  BY <1>1 DEF vars, client, caller, TypeInv, TypeOK, LabelInv
<1>2. CASE StartReady \/ MarkReady \/ \E s \in ToggleSets : replace(s)
  BY <1>2, TypeClient
<1>3. ASSUME NEW t \in Threads, Evaluate(t)
      PROVE  TypeInv'
  <2>0. /\ metrics \in [Flags -> Metric] /\ impressions \in Seq(Events)
        /\ answers \in Seq(Made)
    BY DEF TypeInv, TypeOK
  <2>1. /\ Moves(t) /\ metrics' \in [Flags -> Metric]
        /\ impressions' \in Seq(Events) /\ answers' \in Seq(Made)
    <3>1. CASE Record(t)
      BY <2>0, <3>1, RecordMoves
    <3>2. CASE EmitImpression(t)
      BY <2>0, <3>2, EmitMoves
    <3>3. CASE Return(t)
      BY <2>0, <3>3, ReturnMoves
    <3>4. CASE ~Record(t) /\ ~EmitImpression(t) /\ ~Return(t)
      BY <1>3, <2>0, <3>4, SilentMoves DEF Silent
    <3> QED
      BY <3>1, <3>2, <3>3, <3>4
  <2> QED
    BY <2>1, TypeEvaluate DEF Moves
<1> QED
  BY <1>1, <1>2, <1>3 DEF Next

LEMMA TypeInductive == Spec => []TypeInv
<1>1. TypeInv /\ [Next]_vars => TypeInv'
  BY TypeStep
<1> QED
  BY <1>1, TypeInit, PTL DEF Spec

\* Store, labels, counters, impressions and answers keep their types, and the
\* client is ready only with toggles.
THEOREM TypeCorrect == Spec => []TypeOK
<1>1. TypeInv => TypeOK
  BY DEF TypeInv
<1> QED
  BY <1>1, TypeInductive, PTL

\* A disabled flag has no variant, whatever the documents say.
THEOREM DisabledHasNoVariant == Spec => []VariantsOnlyOfEnabled
<1>1. TypeInv => VariantsOnlyOfEnabled
  BY DEF TypeInv, LabelInv, VariantsOnlyOfEnabled
<1> QED
  BY <1>1, TypeInductive, PTL

\* The backup file gives back the toggles in the store, for every document they
\* may come from and every order in which they may be written.
THEOREM BackupKeepsToggles == Spec => []BackupFaithful
<1>1. TypeInv => BackupFaithful
  <2> SUFFICES ASSUME TypeInv PROVE BackupFaithful
    OBVIOUS
  <2>1. Sound(store)
    BY StoresSound DEF TypeInv, TypeOK
  <2> QED
    BY <2>1, RoundTrip DEF BackupFaithful
<1> QED
  BY <1>1, TypeInductive, PTL
-----------------------------------------------------------------------------
(* Counting.                                                               *)

\* The two summands of Count, with their variables as arguments.
Done(a, K) == {i \in DOMAIN a : a[i] \in K}
Busy(p, c, e, K, labels) ==
  {t \in Threads : p[t] \in labels /\ <<c[t], e[t]>> \in K}

LEMMA CountIs ==
  ASSUME NEW K, NEW labels
  PROVE  Count(K, labels) = Cardinality(Done(answers, K))
                              + Cardinality(Busy(pc, call, eval, K, labels))
BY DEF Count, Done, Busy

LEMMA DoneFinite ==
  ASSUME NEW T, NEW a \in Seq(T), NEW K
  PROVE  IsFiniteSet(Done(a, K)) /\ Cardinality(Done(a, K)) \in Nat
<1>1. DOMAIN a = 1 .. Len(a) /\ Len(a) \in Nat
  OBVIOUS
<1>2. IsFiniteSet(DOMAIN a)
  BY <1>1, FS_Interval
<1>3. Done(a, K) \in SUBSET DOMAIN a
  BY DEF Done
<1>4. IsFiniteSet(Done(a, K))
  BY <1>2, <1>3, FS_Subset
<1> QED
  BY <1>4, FS_CardinalityType

LEMMA DoneAppend ==
  ASSUME NEW T, NEW a \in Seq(T), NEW x \in T, NEW K
  PROVE  Cardinality(Done(Append(a, x), K)) =
           IF x \in K THEN Cardinality(Done(a, K)) + 1 ELSE Cardinality(Done(a, K))
<1> DEFINE b == Append(a, x)
           n == Len(a) + 1
<1>1. /\ n \in Nat \ {0}
      /\ \A i : i \in DOMAIN a <=> i \in 1 .. n - 1
      /\ \A i : i \in DOMAIN b <=> i \in 1 .. n - 1 \/ i = n
      /\ \A i \in 1 .. n - 1 : b[i] = a[i]
      /\ b[n] = x
  BY AppendType
<1>2. IsFiniteSet(Done(a, K)) /\ n \notin 1 .. n - 1
  BY <1>1, DoneFinite
<1> DEFINE D == 1 .. n - 1
<1> HIDE DEF b, n, D
<1>3. /\ \A i : i \in DOMAIN a <=> i \in D
      /\ \A i : i \in DOMAIN b <=> i \in D \/ i = n
      /\ \A i \in D : b[i] = a[i]
      /\ b[n] = x
      /\ n \notin D
  BY <1>1, <1>2 DEF D
<1>4. CASE x \in K
  <2>1. \A i : i \in Done(b, K) <=> i \in Done(a, K) \cup {n}
    BY <1>3, <1>4 DEF Done
  <2>2. Done(b, K) = Done(a, K) \cup {n}
    BY <2>1
  <2>3. n \notin Done(a, K)
    BY <1>3 DEF Done
  <2>4. Cardinality(Done(b, K)) = Cardinality(Done(a, K)) + 1
    BY <1>2, <2>2, <2>3, FS_AddElement
  <2> QED
    BY <1>4, <2>4 DEF b
<1>5. CASE x \notin K
  <2>1. \A i : i \in Done(b, K) <=> i \in Done(a, K)
    BY <1>3, <1>5 DEF Done
  <2>2. Done(b, K) = Done(a, K)
    BY <2>1
  <2> QED
    BY <1>5, <2>2 DEF b
<1> QED
  BY <1>4, <1>5

LEMMA BusyFinite ==
  ASSUME NEW p, NEW c, NEW e, NEW K, NEW labels
  PROVE  /\ IsFiniteSet(Busy(p, c, e, K, labels))
         /\ Cardinality(Busy(p, c, e, K, labels)) \in Nat
<1>1. Busy(p, c, e, K, labels) \in SUBSET Threads
  BY DEF Busy
<1>2. IsFiniteSet(Busy(p, c, e, K, labels))
  BY <1>1, FS_Subset
<1> QED
  BY <1>2, FS_CardinalityType

\* One thread moves: into the set, out of it, or neither.
LEMMA BusyMoves ==
  ASSUME NEW t \in Threads, NEW K, NEW labels,
         NEW p, NEW c, NEW e, NEW p1, NEW c1, NEW e1,
         \A u \in Threads \ {t} : p1[u] = p[u] /\ c1[u] = c[u] /\ e1[u] = e[u]
  PROVE  LET S  == Busy(p, c, e, K, labels)
             S1 == Busy(p1, c1, e1, K, labels)
         IN  /\ t \in S /\ t \in S1 => Cardinality(S1) = Cardinality(S)
             /\ t \in S /\ t \notin S1 => Cardinality(S1) = Cardinality(S) - 1
             /\ t \notin S /\ t \in S1 => Cardinality(S1) = Cardinality(S) + 1
             /\ t \notin S /\ t \notin S1 => Cardinality(S1) = Cardinality(S)
<1> DEFINE S  == Busy(p, c, e, K, labels)
           S1 == Busy(p1, c1, e1, K, labels)
<1>1. \A u \in Threads \ {t} : u \in S <=> u \in S1
  BY DEF Busy
<1>2. S \subseteq Threads /\ S1 \subseteq Threads
  BY DEF Busy
<1>3. IsFiniteSet(S) /\ IsFiniteSet(S1)
      /\ Cardinality(S) \in Nat /\ Cardinality(S1) \in Nat
  BY BusyFinite
<1> HIDE DEF S, S1
<1>4. S \ {t} = S1 \ {t}
  BY <1>1, <1>2
<1>5. Cardinality(S \ {t}) = IF t \in S THEN Cardinality(S) - 1 ELSE Cardinality(S)
  BY <1>3, FS_RemoveElement
<1>6. Cardinality(S1 \ {t}) = IF t \in S1 THEN Cardinality(S1) - 1 ELSE Cardinality(S1)
  BY <1>3, FS_RemoveElement
<1>7. /\ t \in S /\ t \in S1 => Cardinality(S1) = Cardinality(S)
      /\ t \in S /\ t \notin S1 => Cardinality(S1) = Cardinality(S) - 1
      /\ t \notin S /\ t \in S1 => Cardinality(S1) = Cardinality(S) + 1
      /\ t \notin S /\ t \notin S1 => Cardinality(S1) = Cardinality(S)
  <2> DEFINE r == Cardinality(S \ {t})
             n == Cardinality(S)
             n1 == Cardinality(S1)
  <2>1. /\ n \in Nat /\ n1 \in Nat
        /\ r = IF t \in S THEN n - 1 ELSE n
        /\ r = IF t \in S1 THEN n1 - 1 ELSE n1
    BY <1>3, <1>4, <1>5, <1>6
  <2> HIDE DEF r, n, n1
  <2>2. /\ t \in S /\ t \in S1 => n1 = n
        /\ t \in S /\ t \notin S1 => n1 = n - 1
        /\ t \notin S /\ t \in S1 => n1 = n + 1
        /\ t \notin S /\ t \notin S1 => n1 = n
    BY <2>1
  <2> QED
    BY <2>2 DEF n, n1
<1> QED
  BY <1>7 DEF S, S1

\* What LabelInv and Moves do not say: how many evaluations are in a set K.
LEMMA CountType ==
  ASSUME TypeInv, NEW K, NEW labels
  PROVE  Count(K, labels) \in Nat
<1>1. Cardinality(Done(answers, K)) \in Nat
  BY DoneFinite DEF TypeInv, TypeOK
<1>2. Cardinality(Busy(pc, call, eval, K, labels)) \in Nat
  BY BusyFinite
<1> QED
  BY <1>1, <1>2, CountIs

\* A thread moves, and no call returns.
LEMMA MoveCounts ==
  ASSUME TypeInv, NEW t \in Threads, Moves(t), answers' = answers, NEW K, NEW labels
  PROVE  LET was == pc[t] \in labels /\ <<call[t], eval[t]>> \in K
             is  == pc'[t] \in labels /\ <<call'[t], eval'[t]>> \in K
         IN  /\ (was <=> is) => Count(K, labels)' = Count(K, labels)
             /\ ~was /\ is => Count(K, labels)' = Count(K, labels) + 1
<1> DEFINE S  == Busy(pc, call, eval, K, labels)
           S1 == Busy(pc', call', eval', K, labels)
           d  == Cardinality(Done(answers, K))
<1>1. \A u \in Threads \ {t} : pc'[u] = pc[u] /\ call'[u] = call[u] /\ eval'[u] = eval[u]
  BY DEF Moves, TypeInv, TypeOK
<1>2. /\ t \in S <=> pc[t] \in labels /\ <<call[t], eval[t]>> \in K
      /\ t \in S1 <=> pc'[t] \in labels /\ <<call'[t], eval'[t]>> \in K
  BY DEF Busy
<1>3. Count(K, labels) = d + Cardinality(S) /\ Count(K, labels)' = d + Cardinality(S1)
  BY DEF Count, Done, Busy
<1>4. d \in Nat /\ Cardinality(S) \in Nat /\ Cardinality(S1) \in Nat
  BY DoneFinite, BusyFinite DEF TypeInv, TypeOK
<1>5. /\ t \in S /\ t \in S1 => Cardinality(S1) = Cardinality(S)
      /\ t \notin S /\ t \in S1 => Cardinality(S1) = Cardinality(S) + 1
      /\ t \notin S /\ t \notin S1 => Cardinality(S1) = Cardinality(S)
  BY <1>1, BusyMoves
<1> DEFINE n == Cardinality(S)
           n1 == Cardinality(S1)
<1> HIDE DEF S, S1, d
<1>6. /\ (t \in S <=> t \in S1) => Count(K, labels)' = Count(K, labels)
      /\ t \notin S /\ t \in S1 => Count(K, labels)' = Count(K, labels) + 1
  BY <1>3, <1>4, <1>5
<1> QED
  BY <1>2, <1>6

\* A call that returns goes from the threads to the answers.
LEMMA ReturnCounts ==
  ASSUME TypeInv, NEW t \in Threads, Return(t), NEW K, NEW labels, "return" \in labels,
         "idle" \notin labels
  PROVE  Count(K, labels)' = Count(K, labels)
<1> DEFINE S  == Busy(pc, call, eval, K, labels)
           S1 == Busy(pc', call', eval', K, labels)
           x  == <<call[t], eval[t]>>
           d  == Cardinality(Done(answers, K))
           d1 == Cardinality(Done(answers', K))
<1>0. /\ Moves(t) /\ answers' = Append(answers, x) /\ x \in Made
      /\ pc[t] = "return" /\ pc'[t] = "idle"
  BY ReturnMoves
<1>1. \A u \in Threads \ {t} : pc'[u] = pc[u] /\ call'[u] = call[u] /\ eval'[u] = eval[u]
  BY <1>0 DEF Moves, TypeInv, TypeOK
<1>2. (t \in S <=> x \in K) /\ t \notin S1
  BY <1>0 DEF Busy
<1>3. Count(K, labels) = d + Cardinality(S) /\ Count(K, labels)' = d1 + Cardinality(S1)
  BY DEF Count, Done, Busy
<1>4. d \in Nat /\ Cardinality(S) \in Nat /\ Cardinality(S1) \in Nat
  BY DoneFinite, BusyFinite DEF TypeInv, TypeOK
<1>5. /\ t \in S /\ t \notin S1 => Cardinality(S1) = Cardinality(S) - 1
      /\ t \notin S /\ t \notin S1 => Cardinality(S1) = Cardinality(S)
  BY <1>1, BusyMoves
<1>6. d1 = IF x \in K THEN d + 1 ELSE d
  <2>1. answers \in Seq(Made)
    BY DEF TypeInv, TypeOK
  <2> HIDE DEF x
  <2> QED
    BY <1>0, <2>1, DoneAppend
<1> HIDE DEF S, S1, d, d1, x
<1>7. CASE x \in K
  BY <1>2, <1>3, <1>4, <1>5, <1>6, <1>7
<1>8. CASE x \notin K
  BY <1>2, <1>3, <1>4, <1>5, <1>6, <1>8
<1> QED
  BY <1>7, <1>8

\* A thread that calls, tests or looks does not change what is counted.
LEMMA SilentCounts ==
  ASSUME TypeInv, NEW t \in Threads, Moves(t), Silent(t), NEW K,
         \A c, e : <<c, e>> \in K => Counts(c) /\ e.known
  PROVE  /\ Count(K, Recorded)' = Count(K, Recorded)
         /\ Count(K, {"return"})' = Count(K, {"return"})
<1>1. answers' = answers
  BY DEF Silent
<1>2. /\ pc[t] \notin Recorded /\ pc[t] \notin {"return"}
      /\ pc'[t] \in Recorded => pc'[t] = "return"
  BY DEF Silent, Recorded
<1>3. pc'[t] = "return" => <<call'[t], eval'[t]>> \notin K
  BY DEF Silent
<1>4. Count(K, Recorded)' = Count(K, Recorded)
  BY <1>1, <1>2, <1>3, MoveCounts
<1>5. Count(K, {"return"})' = Count(K, {"return"})
  BY <1>1, <1>2, <1>3, MoveCounts
<1> QED
  BY <1>4, <1>5

\* What is counted, of a call c that read e.
LEMMA KeysIn ==
  ASSUME NEW c \in Calls, NEW e \in Evals
  PROVE  /\ \A f \in Flags :
              /\ <<c, e>> \in Yes(f) <=>
                   c.flag = f /\ Counts(c) /\ e.known /\ e.enabled
              /\ <<c, e>> \in No(f) <=>
                   c.flag = f /\ Counts(c) /\ e.known /\ ~e.enabled
              /\ \A n \in Strings :
                   <<c, e>> \in ByName(f, n) <=>
                     /\ c.flag = f /\ Counts(c) /\ e.known
                     /\ c.op = "getVariant" /\ e.variant.name = n
         /\ \A event \in Events :
              <<c, e>> \in About(event) <=>
                /\ Counts(c) /\ e.known /\ (impressionDataAll \/ e.impression)
                /\ Impression(c, e) = event
<1>1. <<c, e>> \in Made /\ <<c, e>>[1] = c /\ <<c, e>>[2] = e
  BY DEF Made
<1>2. \A f \in Flags :
        <<c, e>> \in Counted(f) <=> c.flag = f /\ Counts(c) /\ e.known
  BY <1>1 DEF Counted
<1>3. \A f \in Flags : /\ <<c, e>> \in Yes(f) <=> <<c, e>> \in Counted(f) /\ e.enabled
                       /\ <<c, e>> \in No(f) <=> <<c, e>> \in Counted(f) /\ ~e.enabled
  BY <1>1 DEF Yes, No
<1>4. \A f \in Flags : \A n \in Strings :
        <<c, e>> \in ByName(f, n) <=>
          <<c, e>> \in Counted(f) /\ c.op = "getVariant" /\ e.variant.name = n
  BY <1>1 DEF ByName
<1>5. \A event \in Events :
        <<c, e>> \in About(event) <=>
          /\ Counts(c) /\ e.known /\ (impressionDataAll \/ e.impression)
          /\ Impression(c, e) = event
  BY <1>1 DEF About
<1> QED
  BY <1>2, <1>3, <1>4, <1>5

\* Only evaluations that count, of a flag that is known, are counted.
LEMMA KeysKnown ==
  ASSUME NEW c, NEW e
  PROVE  /\ \A f \in Flags :
              /\ <<c, e>> \in Yes(f) => Counts(c) /\ e.known
              /\ <<c, e>> \in No(f) => Counts(c) /\ e.known
              /\ \A n \in Strings : <<c, e>> \in ByName(f, n) => Counts(c) /\ e.known
         /\ \A event \in Events : <<c, e>> \in About(event) => Counts(c) /\ e.known
<1>1. <<c, e>>[1] = c /\ <<c, e>>[2] = e
  OBVIOUS
<1>2. \A f \in Flags : <<c, e>> \in Counted(f) => Counts(c) /\ e.known
  BY <1>1 DEF Counted
<1>3. \A f \in Flags : /\ <<c, e>> \in Yes(f) => <<c, e>> \in Counted(f)
                       /\ <<c, e>> \in No(f) => <<c, e>> \in Counted(f)
  BY DEF Yes, No
<1>4. \A f \in Flags : \A n \in Strings :
        <<c, e>> \in ByName(f, n) => <<c, e>> \in Counted(f)
  BY DEF ByName
<1>5. \A event \in Events : <<c, e>> \in About(event) => Counts(c) /\ e.known
  BY <1>1 DEF About
<1> QED
  BY <1>2, <1>3, <1>4, <1>5

\* ImpressionsMatchAnswers, over all events.
EveryImpression ==
  \A event \in Events :
    Cardinality(Done(impressions, {event})) = Count(About(event), {"return"})

CountInv == TypeInv /\ CountersMatchAnswers /\ EveryImpression

LEMMA CountInit ==
  ASSUME Init
  PROVE  CountInv
<1>1. TypeInv
  BY TypeInit
<1>2. ASSUME NEW K, NEW labels, "idle" \notin labels
      PROVE  Count(K, labels) = 0
  <2>1. Done(answers, K) = {}
    BY DEF Init, Done
  <2>2. Busy(pc, call, eval, K, labels) = {}
    BY <1>2 DEF Init, Busy
  <2> QED
    BY <2>1, <2>2, CountIs, FS_EmptySet
<1>3. \A f \in Flags : /\ metrics[f].yes = 0 /\ metrics[f].no = 0
                       /\ \A n \in Strings : metrics[f].variants[n] = 0
  BY DEF Init, NoMetric
<1>4. CountersMatchAnswers
  BY <1>2, <1>3 DEF CountersMatchAnswers, Recorded
<1>5. \A event \in Events : Done(impressions, {event}) = {}
  BY DEF Init, Done
<1>6. EveryImpression
  BY <1>2, <1>5, FS_EmptySet DEF EveryImpression
<1> QED
  BY <1>1, <1>4, <1>6 DEF CountInv

\* Nothing that is counted changes.
LEMMA SameCounts ==
  ASSUME CountInv, TypeInv', UNCHANGED <<metrics, impressions>>,
         \A f \in Flags :
           /\ Count(Yes(f), Recorded)' = Count(Yes(f), Recorded)
           /\ Count(No(f), Recorded)' = Count(No(f), Recorded)
           /\ \A n \in Strings :
                Count(ByName(f, n), Recorded)' = Count(ByName(f, n), Recorded),
         \A event \in Events :
           Count(About(event), {"return"})' = Count(About(event), {"return"})
  PROVE  CountInv'
<1>1. CountersMatchAnswers'
  BY DEF CountInv, CountersMatchAnswers
<1>2. EveryImpression'
  BY DEF CountInv, EveryImpression
<1> QED
  BY <1>1, <1>2 DEF CountInv

LEMMA CountRecord ==
  ASSUME CountInv, TypeInv', NEW t \in Threads, Record(t)
  PROVE  CountInv'
<1> DEFINE c == call[t]
           e == eval[t]
<1>1. /\ Moves(t) /\ answers' = answers /\ impressions' = impressions
      /\ call'[t] = c /\ eval'[t] = e
      /\ \A f \in Flags : f # c.flag => metrics'[f] = metrics[f]
      /\ Adds(t)
      /\ pc[t] = "record" /\ Counts(c) /\ e.known
      /\ pc'[t] \in {"emit", "return"}
      /\ pc'[t] = "return" => ~(impressionDataAll \/ e.impression)
  BY RecordMoves DEF CountInv
<1>2. c \in Calls /\ e \in Evals /\ c.flag \in Flags
  BY DEF CountInv, TypeInv, TypeOK, Calls
<1>3. ASSUME NEW K
      PROVE  Count(K, Recorded)' = IF <<c, e>> \in K THEN Count(K, Recorded) + 1
                                                     ELSE Count(K, Recorded)
  BY <1>1, MoveCounts DEF Recorded, CountInv
<1>4. \A f \in Flags :
        /\ metrics'[f].yes = IF <<c, e>> \in Yes(f) THEN metrics[f].yes + 1
                                                    ELSE metrics[f].yes
        /\ metrics'[f].no = IF <<c, e>> \in No(f) THEN metrics[f].no + 1
                                                  ELSE metrics[f].no
        /\ \A n \in Strings \ {Blank} :
             metrics'[f].variants[n] =
               IF <<c, e>> \in ByName(f, n) THEN metrics[f].variants[n] + 1
                                            ELSE metrics[f].variants[n]
  <2> SUFFICES ASSUME NEW f \in Flags
               PROVE  /\ metrics'[f].yes = IF <<c, e>> \in Yes(f) THEN metrics[f].yes + 1
                                                    ELSE metrics[f].yes
                      /\ metrics'[f].no = IF <<c, e>> \in No(f) THEN metrics[f].no + 1
                                                  ELSE metrics[f].no
                      /\ \A n \in Strings \ {Blank} :
                           metrics'[f].variants[n] =
                             IF <<c, e>> \in ByName(f, n)
                               THEN metrics[f].variants[n] + 1
                               ELSE metrics[f].variants[n]
    OBVIOUS
  <2>0. /\ <<c, e>> \in Yes(f) <=> c.flag = f /\ e.enabled
        /\ <<c, e>> \in No(f) <=> c.flag = f /\ ~e.enabled
        /\ \A n \in Strings :
             <<c, e>> \in ByName(f, n) <=>
               c.flag = f /\ c.op = "getVariant" /\ e.variant.name = n
    BY <1>1, <1>2, KeysIn
  <2>1. CASE f = c.flag
    BY <1>1, <2>0, <2>1 DEF Adds
  <2>2. CASE f # c.flag
    BY <1>1, <2>0, <2>2
  <2> QED
    BY <2>1, <2>2
<1>5. CountersMatchAnswers'
  BY <1>3, <1>4 DEF CountInv, CountersMatchAnswers
<1>6. \A event \in Events :
        Count(About(event), {"return"})' = Count(About(event), {"return"})
  <2> TAKE event \in Events
  <2>1. pc[t] \notin {"return"}
        /\ (pc'[t] \in {"return"} => <<call'[t], eval'[t]>> \notin About(event))
    BY <1>1, <1>2, KeysIn
  <2> QED
    BY <1>1, <2>1, MoveCounts DEF CountInv
<1>7. EveryImpression'
  BY <1>1, <1>6 DEF CountInv, EveryImpression
<1> QED
  BY <1>5, <1>7 DEF CountInv

LEMMA CountEmit ==
  ASSUME CountInv, TypeInv', NEW t \in Threads, EmitImpression(t)
  PROVE  CountInv'
<1> DEFINE c == call[t]
           e == eval[t]
           x == Impression(c, e)
<1>1. /\ Moves(t) /\ answers' = answers /\ metrics' = metrics
      /\ impressions' = Append(impressions, x)
      /\ call'[t] = c /\ eval'[t] = e
      /\ pc[t] = "emit" /\ pc'[t] = "return"
      /\ Counts(c) /\ e.known /\ (impressionDataAll \/ e.impression)
  BY EmitMoves DEF CountInv
<1>2. c \in Calls /\ e \in Evals /\ x \in Events
  BY EventType DEF CountInv, TypeInv, TypeOK
<1>3. ASSUME NEW K
      PROVE  Count(K, Recorded)' = Count(K, Recorded)
  BY <1>1, MoveCounts DEF Recorded, CountInv
<1>4. CountersMatchAnswers'
  BY <1>1, <1>3 DEF CountInv, CountersMatchAnswers
<1>5. ASSUME NEW K
      PROVE  Count(K, {"return"})' = IF <<c, e>> \in K THEN Count(K, {"return"}) + 1
                                                       ELSE Count(K, {"return"})
  BY <1>1, MoveCounts DEF CountInv
<1>6. EveryImpression'
  <2> SUFFICES ASSUME NEW event \in Events
               PROVE  Cardinality(Done(impressions', {event}))
                        = Count(About(event), {"return"})'
    BY DEF EveryImpression
  <2>1. <<c, e>> \in About(event) <=> x = event
    BY <1>1, <1>2, KeysIn
  <2>2. impressions \in Seq(Events)
    BY DEF CountInv, TypeInv, TypeOK
  <2> HIDE DEF c, e, x
  <2>3. Cardinality(Done(Append(impressions, x), {event})) =
          IF x \in {event} THEN Cardinality(Done(impressions, {event})) + 1
                           ELSE Cardinality(Done(impressions, {event}))
    BY <1>2, <2>2, DoneAppend
  <2>4. Cardinality(Done(impressions, {event})) = Count(About(event), {"return"})
    BY DEF CountInv, EveryImpression
  <2>5. Count(About(event), {"return"})' =
          IF <<c, e>> \in About(event) THEN Count(About(event), {"return"}) + 1
                                       ELSE Count(About(event), {"return"})
    BY <1>5
  <2>6. impressions' = Append(impressions, x)
    BY <1>1
  <2> QED
    BY <2>1, <2>3, <2>4, <2>5, <2>6
<1> QED
  BY <1>4, <1>6 DEF CountInv

LEMMA CountStep ==
  ASSUME CountInv, [Next]_vars
  PROVE  CountInv'
<1>0. TypeInv /\ TypeInv'
  BY TypeStep DEF CountInv
<1>1. CASE UNCHANGED <<caller, metrics, impressions, answers>>
  <2>1. \A K, labels : Count(K, labels)' = Count(K, labels)
    BY <1>1 DEF Count, caller
  <2> QED
    BY <1>0, <1>1, <2>1, SameCounts
<1>2. CASE \E t \in Threads : Evaluate(t)
  <2> PICK t \in Threads : Evaluate(t)
    BY <1>2
  <2>1. CASE Record(t)
    BY <1>0, <2>1, CountRecord
  <2>2. CASE EmitImpression(t)
    BY <1>0, <2>2, CountEmit
  <2>3. CASE Return(t)
    <3>1. UNCHANGED <<metrics, impressions>>
      BY <1>0, <2>3, ReturnMoves
    <3>2. ASSUME NEW K
          PROVE  /\ Count(K, Recorded)' = Count(K, Recorded)
                 /\ Count(K, {"return"})' = Count(K, {"return"})
      <4>1. "return" \in Recorded /\ "idle" \notin Recorded
            /\ "return" \in {"return"} /\ "idle" \notin {"return"}
        BY DEF Recorded
      <4> QED
        BY <1>0, <2>3, <4>1, ReturnCounts
    <3> QED
      BY <1>0, <3>1, <3>2, SameCounts
  <2>4. CASE ~Record(t) /\ ~EmitImpression(t) /\ ~Return(t)
    <3>1. Moves(t) /\ Silent(t)
      BY <1>0, <2>4, SilentMoves
    <3>2. ASSUME NEW K, \A c, e : <<c, e>> \in K => Counts(c) /\ e.known
          PROVE  /\ Count(K, Recorded)' = Count(K, Recorded)
                 /\ Count(K, {"return"})' = Count(K, {"return"})
      BY <1>0, <3>1, <3>2, SilentCounts
    <3>3. \A f \in Flags :
            /\ Count(Yes(f), Recorded)' = Count(Yes(f), Recorded)
            /\ Count(No(f), Recorded)' = Count(No(f), Recorded)
            /\ \A n \in Strings :
                 Count(ByName(f, n), Recorded)' = Count(ByName(f, n), Recorded)
      BY <3>2, KeysKnown
    <3>4. \A event \in Events :
            Count(About(event), {"return"})' = Count(About(event), {"return"})
      BY <3>2, KeysKnown
    <3>5. UNCHANGED <<metrics, impressions>>
      BY <3>1 DEF Silent
    <3> QED
      BY <1>0, <3>3, <3>4, <3>5, SameCounts
  <2> QED
    BY <2>1, <2>2, <2>3, <2>4
<1>3. CASE StartReady \/ MarkReady \/ \E s \in ToggleSets : replace(s)
  BY <1>1, <1>3 DEF StartReady, MarkReady, replace
<1>4. CASE UNCHANGED vars
  BY <1>1, <1>4 DEF vars
<1> QED
  BY <1>2, <1>3, <1>4 DEF Next

LEMMA CountInductive == Spec => []CountInv
<1>1. CountInv /\ [Next]_vars => CountInv'
  BY CountStep
<1> QED
  BY <1>1, CountInit, PTL DEF Spec

\* The usage counters of a flag are those of the answers the application got,
\* with any number of threads between whose steps the toggles are replaced.
THEOREM CountersHonest == Spec => []CountersMatchAnswers
<1>1. CountInv => CountersMatchAnswers
  BY DEF CountInv
<1> QED
  BY <1>1, CountInductive, PTL

\* Every evaluation that calls for an impression has exactly one, with the
\* answer that the application got; there are no other impressions.
THEOREM ImpressionsHonest == Spec => []ImpressionsMatchAnswers
<1>1. CountInv => ImpressionsMatchAnswers
  <2> SUFFICES ASSUME CountInv PROVE ImpressionsMatchAnswers
    OBVIOUS
  <2>1. TypeOK
    BY DEF CountInv, TypeInv
  <2>2. \A i \in DOMAIN impressions : impressions[i] \in Events
    BY <2>1 DEF TypeOK
  <2>3. \A i \in DOMAIN answers : Impression(answers[i][1], answers[i][2]) \in Events
    <3> TAKE i \in DOMAIN answers
    <3>1. answers[i] \in Made
      BY <2>1 DEF TypeOK
    <3>2. answers[i][1] \in Calls /\ answers[i][2] \in Evals
      BY <3>1 DEF Made
    <3> QED
      BY <3>2, EventType
  <2>4. \A t \in Threads : Impression(call[t], eval[t]) \in Events
    <3> TAKE t \in Threads
    <3>1. call[t] \in Calls /\ eval[t] \in Evals
      BY <2>1 DEF TypeOK
    <3> QED
      BY <3>1, EventType
  <2>5. Concerned \subseteq Events
    BY <2>2, <2>3, <2>4 DEF Concerned
  <2>6. \A event \in Events :
          Done(impressions, {event}) = {i \in DOMAIN impressions : impressions[i] = event}
    BY DEF Done
  <2> QED
    BY <2>5, <2>6 DEF CountInv, EveryImpression, ImpressionsMatchAnswers
<1> QED
  BY <1>1, CountInductive, PTL

\* Counters and impressions tell the answers that the application got.
THEOREM RecordsHonest == Spec => []RecordsMatchAnswers
<1>1. CountersMatchAnswers /\ ImpressionsMatchAnswers => RecordsMatchAnswers
  BY DEF RecordsMatchAnswers
<1> QED
  BY <1>1, CountersHonest, ImpressionsHonest, PTL
-----------------------------------------------------------------------------
(* The answers are atomic.                                                 *)

\* The call and the reply that AtomicEvaluation sees of a thread at label p.
SeenCall(p, c)     == IF p = "idle" THEN <<>> ELSE <<c>>
SeenReply(p, c, e) ==
  IF p \in {"idle", "called", "snapshot"} THEN <<>> ELSE <<Result(c, e)>>

Asked   == [t \in Threads |-> SeenCall(pc[t], call[t])]
Replied == [t \in Threads |-> SeenReply(pc[t], call[t], eval[t])]

\* A step of a thread changes what is seen of this thread only.
LEMMA SeenMoves ==
  ASSUME TypeInv, NEW t \in Threads, Moves(t)
  PROVE  /\ Asked' = [Asked EXCEPT ![t] = SeenCall(pc'[t], call'[t])]
         /\ Replied' = [Replied EXCEPT ![t] = SeenReply(pc'[t], call'[t], eval'[t])]
         /\ Asked[t] = SeenCall(pc[t], call[t])
         /\ Replied[t] = SeenReply(pc[t], call[t], eval[t])
         /\ UNCHANGED <<ready, store>>
<1>1. \A u \in Threads \ {t} : pc'[u] = pc[u] /\ call'[u] = call[u] /\ eval'[u] = eval[u]
  BY DEF Moves, TypeInv, TypeOK
<1>2. Asked' = [Asked EXCEPT ![t] = SeenCall(pc'[t], call'[t])]
  BY <1>1 DEF Asked
<1>3. Replied' = [Replied EXCEPT ![t] = SeenReply(pc'[t], call'[t], eval'[t])]
  BY <1>1 DEF Replied
<1> QED
  BY <1>2, <1>3 DEF Asked, Replied, Moves, client

LEMMA SeenSame ==
  ASSUME UNCHANGED caller
  PROVE  Asked' = Asked /\ Replied' = Replied
BY DEF caller, Asked, Replied

\* Nothing is seen of a thread that moves.
LEMMA SeenStutter ==
  ASSUME TypeInv, NEW t \in Threads, Moves(t),
         SeenCall(pc'[t], call'[t]) = SeenCall(pc[t], call[t]),
         SeenReply(pc'[t], call'[t], eval'[t]) = SeenReply(pc[t], call[t], eval[t])
  PROVE  UNCHANGED <<ready, store, Asked, Replied>>
<1>1. Asked' = [Asked EXCEPT ![t] = Asked[t]] /\ Replied' = [Replied EXCEPT ![t] = Replied[t]]
      /\ UNCHANGED <<ready, store>>
  BY SeenMoves
<1>2. Asked' = Asked /\ Replied' = Replied
  BY <1>1 DEF Asked, Replied
<1> QED
  BY <1>1, <1>2

LEMMA AtomicInit == Init => Atomic!Init
<1> SUFFICES ASSUME Init PROVE Atomic!Init
  OBVIOUS
<1>1. \A t \in Threads : pc[t] = "idle"
  BY DEF Init
<1> QED
  BY <1>1 DEF Init, Atomic!Init, Atomic!None

LEMMA AtomicStep ==
  ASSUME TypeInv, TypeInv', Next
  PROVE  Atomic!Next \/ UNCHANGED <<ready, store, Asked, Replied>>
<1>1. CASE StartReady \/ MarkReady \/ \E s \in ToggleSets : replace(s)
  <2>1. UNCHANGED caller /\ (ready => ready')
    BY <1>1 DEF StartReady, MarkReady, replace
  <2>2. store' \in Stores /\ ready' \in BOOLEAN
    BY DEF TypeInv, TypeOK
  <2>3. Atomic!Provide
    BY <2>1, <2>2, SeenSame DEF Atomic!Provide, Asked, Replied, SeenCall, SeenReply
  <2> QED
    BY <2>3 DEF Atomic!Next
<1>2. ASSUME NEW t \in Threads, NEW c \in Calls, Call(t, c)
      PROVE  Atomic!Next
  <2>1. Moves(t)
    BY <1>2, CallMoves
  <2>2. pc[t] = "idle" /\ pc'[t] = "called" /\ call'[t] = c
    BY <1>2 DEF Call, Goto, TypeInv, TypeOK
  <2>3. /\ Asked[t] = <<>>
        /\ Asked' = [Asked EXCEPT ![t] = <<c>>]
        /\ Replied' = [Replied EXCEPT ![t] = <<>>]
        /\ UNCHANGED <<ready, store>>
    BY <2>1, <2>2, SeenMoves DEF SeenCall, SeenReply
  <2>4. Atomic!Ask(t, c)
    BY <2>3 DEF Atomic!Ask, Atomic!None, Asked, Replied, SeenCall, SeenReply
  <2> QED
    BY <2>4 DEF Atomic!Next
<1>3. ASSUME NEW t \in Threads, Moves(t), NEW c, NEW v,
             SeenCall(pc[t], call[t]) = <<c>>, SeenCall(pc'[t], call'[t]) = <<c>>,
             SeenReply(pc[t], call[t], eval[t]) = <<>>,
             SeenReply(pc'[t], call'[t], eval'[t]) = <<v>>,
             v = AtomicAnswer(c, ready, store)
      PROVE  Atomic!Next
  <2>1. /\ Asked[t] = <<c>> /\ Replied[t] = <<>>
        /\ Asked' = [Asked EXCEPT ![t] = <<c>>]
        /\ Replied' = [Replied EXCEPT ![t] = <<AtomicAnswer(c, ready, store)>>]
        /\ UNCHANGED <<ready, store>>
    BY <1>3, SeenMoves
  <2>2. Asked' = Asked
    BY <2>1 DEF Asked
  <2>3. Asked[t] # <<>> /\ Asked[t][1] = c
    BY <2>1
  <2>4. Atomic!Decide(t)
    BY <2>1, <2>2, <2>3 DEF Atomic!Decide, Atomic!None, Asked, Replied, SeenCall, SeenReply
  <2> QED
    BY <2>4 DEF Atomic!Next
<1>4. ASSUME NEW t \in Threads, TestReady(t)
      PROVE  Atomic!Next \/ UNCHANGED <<ready, store, Asked, Replied>>
  <2>1. Moves(t)
    BY <1>4, TestReadyMoves
  <2>2. /\ pc[t] = "called" /\ call'[t] = call[t] /\ eval'[t] = NotReady
        /\ pc'[t] = IF Counts(call[t]) => ready THEN "snapshot" ELSE "return"
    BY <1>4 DEF TestReady, Goto, TypeInv, TypeOK
  <2>3. CASE Counts(call[t]) => ready
    <3>1. pc'[t] = "snapshot"
      BY <2>2, <2>3
    <3> QED
      BY <2>1, <2>2, <3>1, SeenStutter DEF SeenCall, SeenReply
  <2>4. CASE ~(Counts(call[t]) => ready)
    <3>1. pc'[t] = "return"
      BY <2>2, <2>4
    <3>2. AtomicAnswer(call[t], ready, store) = Result(call[t], NotReady)
      BY <2>4 DEF AtomicAnswer
    <3>3. /\ SeenCall(pc[t], call[t]) = <<call[t]>>
          /\ SeenCall(pc'[t], call'[t]) = <<call[t]>>
          /\ SeenReply(pc[t], call[t], eval[t]) = <<>>
          /\ SeenReply(pc'[t], call'[t], eval'[t]) = <<Result(call[t], NotReady)>>
      BY <2>2, <3>1 DEF SeenCall, SeenReply
    <3> QED
      BY <1>3, <2>1, <3>2, <3>3
  <2> QED
    BY <2>3, <2>4
<1>5. ASSUME NEW t \in Threads, Snapshot(t)
      PROVE  Atomic!Next
  <2>1. Moves(t)
    BY <1>5, SnapshotMoves
  <2>2. /\ pc[t] = "snapshot" /\ call'[t] = call[t]
        /\ eval'[t] = Read(store, call[t].flag)
        /\ pc'[t] \in {"record", "return"}
    BY <1>5 DEF Snapshot, Goto, TypeInv, TypeOK
  <2>3. Counts(call[t]) => ready
    BY <2>2 DEF TypeInv, LabelInv
  <2>4. AtomicAnswer(call[t], ready, store) = Result(call[t], Read(store, call[t].flag))
    BY <2>3 DEF AtomicAnswer
  <2>5. /\ SeenCall(pc[t], call[t]) = <<call[t]>>
        /\ SeenCall(pc'[t], call'[t]) = <<call[t]>>
        /\ SeenReply(pc[t], call[t], eval[t]) = <<>>
        /\ SeenReply(pc'[t], call'[t], eval'[t])
             = <<Result(call[t], Read(store, call[t].flag))>>
    BY <2>2 DEF SeenCall, SeenReply
  <2> QED
    BY <1>3, <2>1, <2>4, <2>5
<1>6. ASSUME NEW t \in Threads, Record(t) \/ EmitImpression(t)
      PROVE  UNCHANGED <<ready, store, Asked, Replied>>
  <2>1. /\ Moves(t) /\ UNCHANGED <<call, eval>>
        /\ pc[t] \in {"record", "emit"} /\ pc'[t] \in {"emit", "return"}
    BY <1>6, RecordMoves, EmitMoves
  <2> QED
    BY <2>1, SeenStutter DEF SeenCall, SeenReply
<1>7. ASSUME NEW t \in Threads, Return(t)
      PROVE  Atomic!Next
  <2>1. Moves(t) /\ pc[t] = "return" /\ pc'[t] = "idle"
    BY <1>7, ReturnMoves
  <2>2. /\ Asked[t] = <<call[t]>> /\ Replied[t] = <<Result(call[t], eval[t])>>
        /\ Asked' = [Asked EXCEPT ![t] = <<>>]
        /\ Replied' = [Replied EXCEPT ![t] = <<>>]
        /\ UNCHANGED <<ready, store>>
    BY <2>1, SeenMoves DEF SeenCall, SeenReply
  <2>3. Asked[t] # <<>> /\ Replied[t] # <<>>
    BY <2>2
  <2>4. Atomic!Return(t)
    BY <2>2, <2>3 DEF Atomic!Return, Atomic!None, Asked, Replied, SeenCall, SeenReply
  <2> QED
    BY <2>4 DEF Atomic!Next
<1> QED
  BY <1>1, <1>2, <1>4, <1>5, <1>6, <1>7 DEF Next, Evaluate

\* Every answer of isEnabled(), getVariant() and impressionData() is that of the
\* toggles and the readiness of one instant of the call, whatever the polling
\* thread does during it.
THEOREM AnswersAtomic == Spec => AtomicSpec
<1>1. Init => Atomic!Init
  BY AtomicInit
<1>2. TypeInv /\ TypeInv' /\ [Next]_vars =>
        Atomic!Next \/ UNCHANGED <<ready, store, Asked, Replied>>
  <2>1. UNCHANGED vars => UNCHANGED <<ready, store, Asked, Replied>>
    BY SeenSame DEF vars, client, caller
  <2> QED
    BY <2>1, AtomicStep
<1>3. TypeInv /\ TypeInv' /\ [Next]_vars =>
        [Atomic!Next]_<<ready, store, Asked, Replied>>
  BY <1>2
<1> QED
  BY <1>1, <1>3, TypeInductive, PTL
  DEF Spec, AtomicSpec, Atomic!Spec, Asked, Replied, SeenCall, SeenReply
=============================================================================
