-------------------------- MODULE MetricSendingProofs --------------------------
(***************************************************************************)
(* Theorems about MetricSending, for any number of evaluations, faults and *)
(* starts and any course of the clock.                                     *)
(***************************************************************************)
EXTENDS MetricSending, TLAPS

USE MetricSendingAssumption

\* What Append does to a sequence, element by element.
LEMMA AppendType ==
  ASSUME NEW T, NEW s \in Seq(T), NEW x \in T
  PROVE  Append(s, x) \in Seq(T)
OBVIOUS

LEMMA AppendElements ==
  ASSUME NEW T, NEW s \in Seq(T), NEW x \in T
  PROVE  /\ Len(Append(s, x)) = Len(s) + 1
         /\ \A i \in 1 .. Len(s) : Append(s, x)[i] = s[i]
         /\ Append(s, x)[Len(s) + 1] = x
OBVIOUS

LEMMA OneMore ==
  ASSUME NEW n \in Nat, NEW S \in SUBSET (1 .. n)
  PROVE  S \cup {n + 1} \subseteq 1 .. (n + 1)
OBVIOUS

LEMMA Lengths ==
  ASSUME TypeOK
  PROVE  /\ Len(evals) \in Nat
         /\ Len(received) \in Nat
         /\ \A e \in 1 .. Len(evals) : evals[e] \in Nat
         /\ \A i \in 1 .. Len(received) : received[i] \in Report
BY DEF TypeOK
-----------------------------------------------------------------------------
(* Types.                                                                  *)

LEMMA TypeInit == Init => TypeOK
<1> SUFFICES ASSUME Init PROVE TypeOK
  OBVIOUS
<1>1. payload \in Report
  BY DEF Init, NoReport, Report
<1>2. evals \in Seq(Nat) /\ received \in Seq(Report)
  BY DEF Init
<1>3. /\ life \in LifeStates /\ send \in SendStates
      /\ exit \in BOOLEAN /\ ok \in BOOLEAN
      /\ clock \in Nat /\ startMs \in Nat /\ faults \in Nat /\ starts \in Nat
      /\ list = {} /\ seen \in Nat
  BY DEF Init, LifeStates, SendStates
<1> QED
  BY <1>1, <1>2, <1>3 DEF TypeOK

LEMMA TypeOwner ==
  ASSUME TypeOK, Owner
  PROVE  TypeOK'
<1>1. UNCHANGED <<clock, list, startMs, payload, ok, evals, received, faults, seen>>
  BY DEF Owner, Start, StopSignal, StopNotify, StopJoin, wire, store
<1>2. life' \in LifeStates /\ starts' \in Nat
  BY DEF Owner, Start, StopSignal, StopNotify, StopJoin, LifeStates, TypeOK
<1>3. exit' = exit \/ exit' = TRUE \/ exit' = FALSE
  BY DEF Owner, Start, StopSignal, StopNotify, StopJoin
<1>4. exit' \in BOOLEAN
  BY <1>3 DEF TypeOK
<1>5. send' \in SendStates
  BY DEF Owner, Start, StopSignal, StopNotify, StopJoin, SendStates, TypeOK
<1> QED
  BY <1>1, <1>2, <1>4, <1>5 DEF TypeOK

LEMMA TypeLoop ==
  ASSUME TypeOK, SendingLoop \/ SendTimeout \/ SendSpurious
  PROVE  TypeOK'
<1> USE DEF TypeOK, owner, wire, store
<1>0. Len(evals) \in Nat
  BY Lengths
<1>1. CASE SendTest \/ SendWait \/ SendBlock \/ SendTaken \/ SendEmpty \/ EmitError
  BY <1>0, <1>1 DEF SendTest, SendWait, SendBlock, SendTaken, SendEmpty, EmitError,
              SendStates
<1>2. CASE SendTimeout \/ SendSpurious
  BY <1>2 DEF SendTimeout, SendSpurious, SendStates
<1>3. CASE SendPayload
  <2>1. list \in SUBSET Nat
    BY Lengths
  <2>2. payload' \in Report
    BY <1>3, <2>1 DEF SendPayload, Report
  <2> QED
    BY <1>0, <1>3, <2>2 DEF SendPayload, SendStates
<1>4. CASE reset
  <2>1. send' \in SendStates /\ list' = {} /\ startMs' \in Nat
    BY <1>4 DEF reset, SendStates
  <2> QED
    BY <1>4, <2>1 DEF reset
<1> QED
  BY <1>1, <1>2, <1>3, <1>4 DEF SendingLoop

LEMMA TypeOthers ==
  ASSUME TypeOK, Tick \/ Record \/ Post
  PROVE  TypeOK'
<1> USE DEF owner, wire, store
<1>1. CASE Tick
  BY <1>1 DEF TypeOK, Tick
<1>2. CASE Record
  <2>1. evals' \in Seq(Nat) /\ Len(evals') = Len(evals) + 1
    BY <1>2, AppendType, AppendElements DEF Record, TypeOK
  <2>2. list' \subseteq 1 .. Len(evals')
    <3>1. list' = list \cup {Len(evals) + 1} /\ list \in SUBSET (1 .. Len(evals))
      BY <1>2 DEF Record, TypeOK
    <3> QED
      BY <2>1, <3>1, Lengths, OneMore
  <2> QED
    BY <1>2, <2>1, <2>2 DEF Record, TypeOK
<1>3. ASSUME NEW taken \in BOOLEAN, NEW answered \in BOOLEAN,
             SendPost(taken, answered)
      PROVE  TypeOK'
  <2>1. received' \in Seq(Report)
    BY <1>3, AppendType DEF SendPost, TypeOK
  <2>2. faults' \in Nat /\ send' \in SendStates /\ ok' \in BOOLEAN
    BY <1>3 DEF SendPost, TypeOK, SendStates
  <2> QED
    BY <1>3, <2>1, <2>2 DEF SendPost, TypeOK
<1> QED
  BY <1>1, <1>2, <1>3 DEF Post

LEMMA TypeStep ==
  ASSUME TypeOK, [Next]_vars
  PROVE  TypeOK'
<1>1. CASE UNCHANGED vars
  BY <1>1 DEF vars, TypeOK
<1> QED
  BY <1>1, TypeOwner, TypeLoop, TypeOthers DEF Next

\* Every variable keeps its type, and only recorded evaluations are counted.
THEOREM TypeCorrect == SafeSpec => []TypeOK
<1>1. TypeOK /\ [Next]_vars => TypeOK'
  BY TypeStep
<1> QED
  BY <1>1, TypeInit, PTL DEF SafeSpec
-----------------------------------------------------------------------------
(* Windows and reports.                                                    *)

\* At the time now, with these evaluations: a report is about evaluations that
\* were recorded, each within the window of the report.
Sound(r, times, now) ==
  /\ r.list \subseteq 1 .. Len(times)
  /\ r.to <= now
  /\ \A e \in r.list : r.from <= times[e] /\ times[e] <= r.to

\* A report is over: what is counted was not in it, and is of a later window.
Over(r, counted, start) == r.list \cap counted = {} /\ r.to <= start

\* reset() begins a window; until then the store has what the payload has.
StoreInv ==
  /\ life = "idle" => send = "off"
  /\ startMs <= clock
  /\ \A e \in list : startMs <= evals[e] /\ evals[e] <= clock
  /\ PayloadPresent
  /\ send = "post" => /\ Sound(payload, evals, clock)
                      /\ payload.list \subseteq list
                      /\ payload.from = startMs

\* Between the request and reset() the store counts what has just been
\* reported; at all other times every report is over.
ReportInv ==
  \A i \in 1 .. Len(received) :
    /\ Sound(received[i], evals, clock)
    /\ send # "reset" => Over(received[i], list, startMs)

WindowInv == TypeOK /\ StoreInv /\ ReportInv /\ NoDoubleReport /\ WindowsInOrder

LEMMA WindowInit == Init => WindowInv
<1> SUFFICES ASSUME Init PROVE WindowInv
  OBVIOUS
<1>1. list = {} /\ received = <<>> /\ Len(received) = 0
  BY DEF Init
<1>2. StoreInv
  BY <1>1 DEF Init, StoreInv, PayloadPresent
<1>3. ReportInv /\ NoDoubleReport /\ WindowsInOrder
  BY <1>1 DEF ReportInv, NoDoubleReport, WindowsInOrder
<1> QED
  BY <1>2, <1>3, TypeInit DEF WindowInv

\* A step that leaves the data alone keeps the invariant, unless it moves the
\* metrics thread to where more is asked of the data.
LEMMA WindowQuiet ==
  ASSUME WindowInv,
         UNCHANGED <<clock, list, startMs, payload, evals, received>>,
         life' = "idle" => send' = "off",
         \/ send' = send
         \/ /\ send # "reset"
            /\ send' # "post"
            /\ send' = "payload" => list # {}
  PROVE  StoreInv' /\ ReportInv' /\ NoDoubleReport' /\ WindowsInOrder'
<1> USE DEF WindowInv
<1>1. NoDoubleReport' /\ WindowsInOrder'
  BY DEF NoDoubleReport, WindowsInOrder
<1>2. ReportInv'
  BY DEF ReportInv
<1>3. StoreInv'
  <2>1. (startMs <= clock /\ \A e \in list : startMs <= evals[e] /\ evals[e] <= clock)'
    BY DEF StoreInv
  <2>2. PayloadPresent'
    BY DEF StoreInv, PayloadPresent
  <2>3. send' = "post" => send = "post"
    OBVIOUS
  <2>4. (send = "post" => /\ Sound(payload, evals, clock)
                          /\ payload.list \subseteq list
                          /\ payload.from = startMs)'
    BY <2>3 DEF StoreInv
  <2> QED
    BY <2>1, <2>2, <2>4 DEF StoreInv
<1> QED
  BY <1>1, <1>2, <1>3

LEMMA WindowOwner ==
  ASSUME WindowInv, Owner
  PROVE  StoreInv' /\ ReportInv' /\ NoDoubleReport' /\ WindowsInOrder'
<1>1. UNCHANGED <<clock, list, startMs, payload, evals, received>>
  BY DEF Owner, Start, StopSignal, StopNotify, StopJoin, wire, store
<1>2. life = "idle" => send = "off"
  BY DEF WindowInv, StoreInv
<1>3. life' = "idle" => send' = "off"
  <2>1. StopJoin => send' = "off"
    BY DEF StopJoin
  <2>2. Start \/ StopSignal \/ StopNotify => life' # "idle"
    BY DEF Start, StopSignal, StopNotify
  <2> QED
    BY <2>1, <2>2 DEF Owner
<1>4. \/ send' = send
      \/ send' \in {"wait", "test"} /\ send \in {"off", "blocked"}
  <2>1. Start => send' \in {"wait", "test"} /\ send = "off"
    BY <1>2 DEF Start
  <2>2. StopNotify => send' = send \/ (send' = "wait" /\ send = "blocked")
    BY DEF StopNotify
  <2>3. StopSignal \/ StopJoin => send' = send
    BY DEF StopSignal, StopJoin
  <2> QED
    BY <2>1, <2>2, <2>3 DEF Owner
<1> QED
  BY <1>1, <1>3, <1>4, WindowQuiet

LEMMA WindowWaits ==
  ASSUME WindowInv,
         \/ UNCHANGED vars
         \/ SendTest
         \/ SendWait
         \/ SendBlock
         \/ SendTaken
         \/ SendEmpty
         \/ EmitError
         \/ SendTimeout
         \/ SendSpurious
  PROVE  StoreInv' /\ ReportInv' /\ NoDoubleReport' /\ WindowsInOrder'
<1> USE DEF SendTest, SendWait, SendBlock, SendTaken, SendEmpty, EmitError,
            SendTimeout, SendSpurious
<1>1. UNCHANGED <<clock, list, startMs, payload, evals, received, life>>
  BY DEF vars, owner, wire, store
<1>2. life = "idle" => send = "off"
  BY DEF WindowInv, StoreInv
<1>3. \/ send' = send
      \/ /\ send \notin {"off", "reset"}
         /\ send' # "post"
         /\ send' = "payload" => list # {}
  BY DEF vars
<1> QED
  BY <1>1, <1>2, <1>3, WindowQuiet

LEMMA WindowTick ==
  ASSUME WindowInv, Tick
  PROVE  StoreInv' /\ ReportInv' /\ NoDoubleReport' /\ WindowsInOrder'
<1> USE DEF WindowInv, owner, wire, store
<1>1. /\ UNCHANGED <<list, startMs, payload, evals, received, life, send>>
      /\ clock' = clock + 1
      /\ clock \in Nat
  BY DEF Tick, TypeOK
<1>2. \A e \in list : e \in 1 .. Len(evals) /\ evals[e] \in Nat
  BY Lengths DEF TypeOK
<1>3. \A r \in Report : Sound(r, evals, clock) => Sound(r, evals, clock')
  BY <1>1 DEF Sound, Report
<1>4. \A i \in 1 .. Len(received) : received[i] \in Report
  BY Lengths
<1>5. ReportInv'
  BY <1>1, <1>3, <1>4 DEF ReportInv
<1>6. StoreInv'
  <2>1. startMs <= clock' /\ \A e \in list : startMs <= evals[e] /\ evals[e] <= clock'
    BY <1>1, <1>2 DEF StoreInv, TypeOK
  <2>2. send = "post" => Sound(payload, evals, clock')
    BY <1>3 DEF StoreInv, TypeOK
  <2> QED
    BY <1>1, <2>1, <2>2 DEF StoreInv, PayloadPresent
<1> QED
  BY <1>1, <1>5, <1>6 DEF NoDoubleReport, WindowsInOrder

LEMMA WindowRecord ==
  ASSUME WindowInv, Record
  PROVE  StoreInv' /\ ReportInv' /\ NoDoubleReport' /\ WindowsInOrder'
<1> USE DEF WindowInv, owner, wire, store
<1>1. /\ UNCHANGED <<clock, startMs, payload, received, life, send>>
      /\ list' = list \cup {Len(evals) + 1}
      /\ clock \in Nat /\ Len(evals) \in Nat
      /\ list \subseteq 1 .. Len(evals)
  BY Lengths DEF Record, TypeOK
<1>2. /\ Len(evals') = Len(evals) + 1
      /\ \A e \in 1 .. Len(evals) : evals'[e] = evals[e]
      /\ evals'[Len(evals) + 1] = clock
  BY AppendElements DEF Record, TypeOK
<1>3. \A r : Sound(r, evals, clock) => Sound(r, evals', clock)
  BY <1>1, <1>2 DEF Sound
<1>4. \A r : /\ Sound(r, evals, clock)
            /\ Over(r, list, startMs)
            => Over(r, list', startMs)
  BY <1>1 DEF Sound, Over
<1>5. ReportInv'
  BY <1>1, <1>3, <1>4 DEF ReportInv
<1>6. StoreInv'
  <2>1. startMs <= clock /\ \A e \in list : startMs <= evals[e] /\ evals[e] <= clock
    BY DEF StoreInv
  <2>2. \A e \in list' : startMs <= evals'[e] /\ evals'[e] <= clock
    BY <1>1, <1>2, <2>1
  <2>3. PayloadPresent'
    BY <1>1 DEF StoreInv, PayloadPresent
  <2>4. send = "post" => /\ Sound(payload, evals', clock)
                         /\ payload.list \subseteq list'
                         /\ payload.from = startMs
    BY <1>1, <1>3 DEF StoreInv
  <2>5. life = "idle" => send = "off"
    BY DEF StoreInv
  <2> QED
    BY <1>1, <2>1, <2>2, <2>3, <2>4, <2>5 DEF StoreInv
<1> QED
  BY <1>1, <1>5, <1>6 DEF NoDoubleReport, WindowsInOrder

LEMMA WindowPayload ==
  ASSUME WindowInv, SendPayload
  PROVE  StoreInv' /\ ReportInv' /\ NoDoubleReport' /\ WindowsInOrder'
<1> USE DEF WindowInv, owner, wire, store
<1>1. /\ UNCHANGED <<clock, list, startMs, evals, received, life>>
      /\ send = "payload" /\ send' = "post"
      /\ payload' = [from |-> startMs, to |-> clock, list |-> list]
      /\ list \subseteq 1 .. Len(evals)
      /\ clock \in Nat
  BY DEF SendPayload, TypeOK
<1>2. ReportInv'
  BY <1>1 DEF ReportInv
<1>3. StoreInv'
  <2>1. startMs <= clock /\ \A e \in list : startMs <= evals[e] /\ evals[e] <= clock
    BY DEF StoreInv
  <2>2. Sound(payload', evals, clock)
    BY <1>1, <2>1 DEF Sound
  <2>3. life' # "idle" \/ send' = "off"
    BY <1>1 DEF StoreInv
  <2> QED
    BY <1>1, <2>1, <2>2, <2>3 DEF StoreInv, PayloadPresent
<1> QED
  BY <1>1, <1>2, <1>3 DEF NoDoubleReport, WindowsInOrder

\* The report that the backend takes shares nothing with those before it, which
\* are over, and begins where the store does.
LEMMA WindowPost ==
  ASSUME WindowInv, Post
  PROVE  StoreInv' /\ ReportInv' /\ NoDoubleReport' /\ WindowsInOrder'
<1> USE DEF WindowInv, owner, wire, store
<1>0. PICK taken \in BOOLEAN, answered \in BOOLEAN : SendPost(taken, answered)
  BY DEF Post
<1>1. /\ UNCHANGED <<clock, list, startMs, evals, payload, life>>
      /\ send = "post" /\ send' = "reset"
      /\ received' = IF taken THEN Append(received, payload) ELSE received
  BY <1>0 DEF SendPost
<1>2. StoreInv'
  BY <1>1 DEF StoreInv, PayloadPresent
<1>3. /\ Sound(payload, evals, clock)
      /\ payload.list \subseteq list
      /\ payload.from = startMs
  BY <1>1 DEF StoreInv
<1>4. \A i \in 1 .. Len(received) :
        /\ Sound(received[i], evals, clock)
        /\ received[i].list \cap payload.list = {}
        /\ received[i].to <= payload.from
  BY <1>1, <1>3 DEF ReportInv, Over
<1>5. CASE ~taken
  BY <1>1, <1>2, <1>4, <1>5 DEF ReportInv, NoDoubleReport, WindowsInOrder
<1>6. CASE taken
  <2>1. /\ Len(received) \in Nat
        /\ Len(received') = Len(received) + 1
        /\ \A i \in 1 .. Len(received) : received'[i] = received[i]
        /\ received'[Len(received) + 1] = payload
    BY <1>1, <1>6, Lengths, AppendElements DEF TypeOK
  <2>2. \A i \in 1 .. Len(received') :
          i \in 1 .. Len(received) \/ i = Len(received) + 1
    BY <2>1
  <2>3. \A i \in 1 .. Len(received') : Sound(received'[i], evals, clock)
    BY <1>3, <1>4, <2>1, <2>2
  <2>4. ReportInv'
    BY <1>1, <2>3 DEF ReportInv
  <2>5. NoDoubleReport'
    <3> SUFFICES ASSUME NEW i \in 1 .. Len(received'),
                        NEW j \in 1 .. Len(received'), i # j
                 PROVE  received'[i].list \cap received'[j].list = {}
      BY DEF NoDoubleReport
    <3>1. CASE i \in 1 .. Len(received) /\ j \in 1 .. Len(received)
      BY <2>1, <3>1 DEF NoDoubleReport
    <3>2. CASE i \in 1 .. Len(received) /\ j = Len(received) + 1
      BY <1>4, <2>1, <3>2
    <3>3. CASE i = Len(received) + 1 /\ j \in 1 .. Len(received)
      BY <1>4, <2>1, <3>3
    <3> QED
      BY <2>2, <3>1, <3>2, <3>3
  <2>6. WindowsInOrder'
    <3> SUFFICES ASSUME NEW i \in 1 .. Len(received'),
                        NEW j \in 1 .. Len(received'), i < j
                 PROVE  received'[i].to <= received'[j].from
      BY DEF WindowsInOrder
    <3>1. CASE j \in 1 .. Len(received)
      BY <2>1, <3>1 DEF WindowsInOrder
    <3>2. CASE j = Len(received) + 1
      <4>1. i \in 1 .. Len(received)
        BY <2>1, <3>2
      <4> QED
        BY <1>4, <2>1, <3>2, <4>1
    <3> QED
      BY <2>2, <3>1, <3>2
  <2> QED
    BY <1>2, <2>4, <2>5, <2>6
<1> QED
  BY <1>5, <1>6

LEMMA WindowReset ==
  ASSUME WindowInv, reset
  PROVE  StoreInv' /\ ReportInv' /\ NoDoubleReport' /\ WindowsInOrder'
<1> USE DEF WindowInv, owner, wire, store
<1>1. /\ UNCHANGED <<clock, evals, payload, received, life>>
      /\ send \in {"reset", "clear"} /\ send' \in {"test", "error"}
      /\ list' = {} /\ startMs' = clock
      /\ clock \in Nat
  BY DEF reset, TypeOK
<1>2. StoreInv'
  BY <1>1 DEF StoreInv, PayloadPresent
<1>3. \A r : Sound(r, evals, clock) => Over(r, list', startMs')
  BY <1>1 DEF Sound, Over
<1>4. ReportInv'
  BY <1>1, <1>3 DEF ReportInv
<1> QED
  BY <1>1, <1>2, <1>4 DEF NoDoubleReport, WindowsInOrder

LEMMA WindowInductive == SafeSpec => []WindowInv
<1>1. WindowInv /\ [Next]_vars => WindowInv'
  <2> SUFFICES ASSUME WindowInv, [Next]_vars PROVE WindowInv'
    OBVIOUS
  <2>1. TypeOK'
    BY TypeStep DEF WindowInv
  <2>2. StoreInv' /\ ReportInv' /\ NoDoubleReport' /\ WindowsInOrder'
    BY WindowOwner, WindowWaits, WindowTick, WindowRecord, WindowPayload,
       WindowPost, WindowReset
    DEF Next, SendingLoop
  <2> QED
    BY <2>1, <2>2 DEF WindowInv
<1> QED
  BY <1>1, WindowInit, PTL DEF SafeSpec

\* The payload that sendMetrics() opens without a test is there.
THEOREM PayloadThere == SafeSpec => []PayloadPresent
<1>1. WindowInv => PayloadPresent
  BY DEF WindowInv, StoreInv
<1> QED
  BY <1>1, WindowInductive, PTL

\* However often answers are lost, the backend takes no evaluation twice.
THEOREM ReportedOnce == SafeSpec => []NoDoubleReport
<1>1. WindowInv => NoDoubleReport
  BY DEF WindowInv
<1> QED
  BY <1>1, WindowInductive, PTL

\* The windows of the reports that the backend takes follow one another.
THEOREM WindowsOrdered == SafeSpec => []WindowsInOrder
<1>1. WindowInv => WindowsInOrder
  BY DEF WindowInv
<1> QED
  BY <1>1, WindowInductive, PTL

\* Every evaluation is reported in a window that contains it.
THEOREM EvalsTimely == SafeSpec => []EvalsInWindow
<1>1. WindowInv => EvalsInWindow
  BY DEF WindowInv, ReportInv, Sound, EvalsInWindow
<1> QED
  BY <1>1, WindowInductive, PTL

\* A window contains what is reported in it, and shares no time with another.
THEOREM WindowsAreSound == SafeSpec => []WindowsSound
<1>1. WindowsInOrder /\ EvalsInWindow => WindowsSound
  BY DEF WindowsSound
<1> QED
  BY <1>1, WindowsOrdered, EvalsTimely, PTL
-----------------------------------------------------------------------------
(* What becomes of the evaluations that reset() erases.                    *)

\* The backend has the evaluation in one of its reports.
Taken(e) == \E i \in 1 .. Len(received) : e \in received[i].list

\* From the last look at the counters to reset(), what is counted was there at
\* that look, and is in the report, or it came later.
LossInv ==
  /\ seen <= Len(evals)
  /\ send = "clear" => \A e \in list : e > seen
  /\ send = "post"  => \A e \in list : e \in payload.list \/ e > seen
  /\ send = "reset" => \A e \in list : \/ Taken(e)
                                       \/ ~ok /\ e \in payload.list
                                       \/ e > seen

LEMMA LossRecord ==
  ASSUME TypeOK, LossInv, Record
  PROVE  LossInv'
<1>1. /\ UNCHANGED <<send, payload, ok, received, seen>>
      /\ list' = list \cup {Len(evals) + 1}
  BY DEF Record, owner, wire
<1>2. Len(evals') = Len(evals) + 1 /\ Len(evals) \in Nat /\ seen \in Nat
  BY Lengths, AppendElements DEF Record, TypeOK
<1>3. Len(evals) + 1 > seen
  BY <1>2 DEF LossInv
<1>4. \A e \in list' : e \in list \/ e > seen
  BY <1>1, <1>3
<1>5. \A e : Taken(e) => Taken(e)'
  BY <1>1 DEF Taken
<1> QED
  BY <1>1, <1>2, <1>4, <1>5 DEF LossInv

\* A report that went well is one that the backend took.
LEMMA LossPost ==
  ASSUME TypeOK, LossInv, Post
  PROVE  LossInv'
<1>0. PICK taken \in BOOLEAN, answered \in BOOLEAN : SendPost(taken, answered)
  BY DEF Post
<1>1. /\ UNCHANGED <<list, evals, payload, seen>>
      /\ send = "post" /\ send' = "reset"
      /\ received' = IF taken THEN Append(received, payload) ELSE received
      /\ ok' = (taken /\ answered)
  BY <1>0 DEF SendPost, store
<1>2. \A e \in list : e \in payload.list \/ e > seen
  BY <1>1 DEF LossInv
<1>3. CASE ~taken
  BY <1>1, <1>2, <1>3 DEF LossInv
<1>4. CASE taken
  <2>1. /\ Len(received) \in Nat
        /\ Len(received') = Len(received) + 1
        /\ received'[Len(received) + 1] = payload
    BY <1>1, <1>4, Lengths, AppendElements DEF TypeOK
  <2>2. Len(received) + 1 \in 1 .. Len(received')
    BY <2>1
  <2>3. \A e \in payload.list : Taken(e)'
    BY <2>1, <2>2 DEF Taken
  <2> QED
    BY <1>1, <1>2, <2>3 DEF LossInv
<1> QED
  BY <1>3, <1>4

LEMMA LossStep ==
  ASSUME TypeOK, LossInv, [Next]_vars
  PROVE  LossInv'
<1>0. Len(evals) \in Nat
  BY Lengths
<1>1. CASE UNCHANGED vars \/ Tick
  BY <1>1 DEF vars, Tick, owner, store, wire, LossInv, Taken
<1>2. CASE Owner
  <2>1. /\ UNCHANGED <<list, evals, payload, ok, received, seen>>
        /\ send' = send \/ send' \in {"wait", "test"}
    BY <1>2 DEF Owner, Start, StopSignal, StopNotify, StopJoin, store, wire
  <2> QED
    BY <2>1 DEF LossInv, Taken
<1>3. CASE SendTest \/ SendWait \/ SendBlock \/ SendTaken \/ EmitError
           \/ SendTimeout \/ SendSpurious
  <2>1. /\ UNCHANGED <<list, evals, seen>>
        /\ send' \notin {"clear", "post", "reset"}
    BY <1>3 DEF SendTest, SendWait, SendBlock, SendTaken, EmitError, SendTimeout,
                SendSpurious, store, wire
  <2> QED
    BY <2>1 DEF LossInv
<1>4. CASE SendEmpty
  BY <1>0, <1>4 DEF SendEmpty, store, LossInv
<1>5. CASE SendPayload
  BY <1>0, <1>5 DEF SendPayload, store, LossInv
<1>6. CASE reset
  BY <1>6 DEF reset, wire, LossInv
<1> QED
  BY <1>1, <1>2, <1>3, <1>4, <1>5, <1>6, LossRecord, LossPost
  DEF Next, SendingLoop

\* What is erased without having been reported was in a report of whose failure
\* the application hears, or came after the last look at the counters.
THEOREM LossesExplained == SafeSpec => LossesKnown
<1>1. Init => LossInv
  BY DEF Init, LossInv
<1>2. TypeOK /\ LossInv /\ [Next]_vars => LossInv'
  BY LossStep
<1>3. LossInv /\ [Next]_vars =>
        [\A e \in list \ list' :
           \/ \E i \in 1 .. Len(received) : e \in received[i].list
           \/ send = "reset" /\ ~ok /\ e \in payload.list
           \/ e > seen]_vars
  <2> SUFFICES ASSUME LossInv, Next, NEW e \in list \ list'
               PROVE  \/ \E i \in 1 .. Len(received) : e \in received[i].list
                      \/ send = "reset" /\ ~ok /\ e \in payload.list
                      \/ e > seen
    OBVIOUS
  <2>1. CASE reset
    <3>1. send \in {"reset", "clear"}
      BY <2>1 DEF reset
    <3> QED
      BY <3>1 DEF LossInv, Taken
  <2>2. CASE ~reset
    <3>1. list \subseteq list'
      BY <2>2 DEF Next, Tick, Record, Owner, Start, StopSignal, StopNotify, StopJoin,
         SendingLoop, SendTest, SendWait, SendBlock, SendTaken, SendEmpty,
         SendPayload, EmitError, Post, SendPost, SendTimeout, SendSpurious, store
    <3> QED
      BY <3>1
  <2> QED
    BY <2>1, <2>2
<1> QED
  BY <1>1, <1>2, <1>3, TypeCorrect, PTL DEF SafeSpec, LossesKnown
-----------------------------------------------------------------------------
(* The metrics thread as its owner sees it.                                *)

\* The thread runs between start() and the join, and is told to exit by stop().
StopInv ==
  /\ send # "off" => life \in {"running", "signalled", "joining"}
  /\ life = "running" => ~exit /\ send # "off"
  /\ life \in {"signalled", "joining"} => exit

\* What the thread does on its own: it rests, leaves if it is told to, begins,
\* works, or goes to rest.
LEMMA LoopShape ==
  ASSUME SendingLoop \/ Post \/ SendTimeout \/ SendSpurious
  PROVE  /\ send # "off" /\ UNCHANGED <<life, exit>>
         /\ \/ send \in Resting /\ send' \in Resting
            \/ send \in Resting /\ exit /\ send' = "off"
            \/ send = "taken" /\ ~exit /\ send' = "empty"
            \/ send \notin Resting /\ send' \notin Resting \cup {"off"}
            \/ send \notin Resting /\ send' = "test"
<1> USE DEF owner, Resting
<1>1. CASE SendTest \/ SendWait \/ SendBlock \/ SendTaken
  BY <1>1 DEF SendTest, SendWait, SendBlock, SendTaken
<1>2. CASE SendTimeout \/ SendSpurious
  BY <1>2 DEF SendTimeout, SendSpurious
<1>3. CASE SendEmpty \/ SendPayload \/ reset \/ EmitError
  BY <1>3 DEF SendEmpty, SendPayload, reset, EmitError
<1>4. CASE Post
  BY <1>4 DEF Post, SendPost
<1> QED
  BY <1>1, <1>2, <1>3, <1>4 DEF SendingLoop

LEMMA StopStep ==
  ASSUME StopInv, [Next]_vars
  PROVE  StopInv'
<1>1. CASE UNCHANGED vars \/ Tick \/ Record
  BY <1>1 DEF vars, Tick, Record, owner, StopInv
<1>2. CASE Owner
  BY <1>2 DEF Owner, Start, StopSignal, StopNotify, StopJoin, StopInv
<1>3. CASE SendingLoop \/ Post \/ SendTimeout \/ SendSpurious
  BY <1>3, LoopShape DEF StopInv, Resting
<1> QED
  BY <1>1, <1>2, <1>3 DEF Next

LEMMA ThreadStep ==
  ASSUME StopInv, [Next]_vars
  PROVE  Thread!Next \/ UNCHANGED Thread!workerVars
<1>1. CASE UNCHANGED vars \/ Tick \/ Record
  BY <1>1 DEF vars, Tick, Record, owner, Thread!workerVars
<1>2. CASE Start
  BY <1>2 DEF Start, StopInv, Shape, Resting, Thread!Next, Thread!Launch
<1>3. CASE StopSignal
  BY <1>3 DEF StopSignal, StopInv, Shape, Thread!Next, Thread!Tell
<1>4. CASE StopNotify
  BY <1>4 DEF StopNotify, Shape, Resting, Thread!workerVars
<1>5. CASE StopJoin
  BY <1>5 DEF StopJoin, Shape, Thread!Next, Thread!Join
<1>6. CASE SendingLoop \/ Post \/ SendTimeout \/ SendSpurious
  <2>1. send # "off" /\ UNCHANGED <<life, exit>>
    BY <1>6, LoopShape
  <2>2. CASE send \in Resting /\ send' \in Resting
    BY <2>1, <2>2 DEF Shape, Resting, Thread!workerVars
  <2>3. CASE send \in Resting /\ exit /\ send' = "off"
    BY <2>1, <2>3 DEF StopInv, Shape, Resting, Thread!Next, Thread!Leave
  <2>4. CASE send = "taken" /\ ~exit /\ send' = "empty"
    BY <2>1, <2>4 DEF StopInv, Shape, Resting, Thread!Next, Thread!Begin
  <2>5. CASE send \notin Resting /\ send' \notin Resting \cup {"off"}
    BY <2>1, <2>5 DEF Shape, Resting, Thread!workerVars
  <2>6. CASE send \notin Resting /\ send' = "test"
    BY <2>1, <2>6 DEF Shape, Resting, Thread!Next, Thread!Finish
  <2> QED
    BY <1>6, LoopShape, <2>2, <2>3, <2>4, <2>5, <2>6
<1> QED
  BY <1>1, <1>2, <1>3, <1>4, <1>5, <1>6 DEF Next, Owner

\* The metrics thread is a worker: told to leave it begins no further report,
\* and it is gone when, and only when, stop() joins it.
THEOREM ImplementsWorker == SafeSpec => Thread!SafeSpec
<1>1. Init => StopInv /\ Thread!Init
  BY DEF Init, StopInv, Thread!Init, Shape
<1>2. StopInv /\ [Next]_vars => StopInv' /\ [Thread!Next]_(Thread!workerVars)
  BY StopStep, ThreadStep
<1> QED
  BY <1>1, <1>2, PTL DEF SafeSpec, Thread!SafeSpec
=============================================================================
