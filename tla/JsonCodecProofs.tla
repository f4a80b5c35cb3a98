--------------------------- MODULE JsonCodecProofs ---------------------------
(***************************************************************************)
(* What JsonCodec's operators return, for every set of strings and every   *)
(* document: a toggle set whose toggles are of the kind decodeToggle()     *)
(* makes, and which the backup file gives back unchanged.                  *)
(***************************************************************************)
EXTENDS JsonCodec, TLAPS, WellFoundedInduction, FiniteSetTheorems

USE JsonCodecAssumption

\* A toggle as decodeToggle() makes it: only an enabled toggle has a variant of
\* its own, which is enabled and has a name.
Canonical(t) ==
  /\ t \in Toggles
  /\ t.variant # disabledFactory =>
       t.enabled /\ t.variant.enabled /\ t.variant.name # Blank

\* A toggle set as the client stores it.
Sound(set) ==
  /\ DOMAIN set \subseteq Strings /\ IsFiniteSet(DOMAIN set)
  /\ set \in [DOMAIN set -> Toggles]
  /\ \A n \in DOMAIN set : Canonical(set[n]) /\ set[n].name = n
-----------------------------------------------------------------------------
(* Toggle sets.                                                            *)

LEMMA Least ==
  ASSUME NEW S \in SUBSET Nat, S # {}
  PROVE  \E i \in S : \A j \in S : ~(j < i)
<1> DEFINE R == {p \in Nat \X Nat : p[1] < p[2]}
<1>1. IsWellFoundedOn(R, Nat)
  BY NatLessThanWellFounded DEF OpToRel
<1>2. PICK i \in S : \A j \in S : <<j, i>> \notin R
  <2> HIDE DEF R
  <2> QED
    BY <1>1, WFMin
<1>3. \A j \in S : ~(j < i)
  BY <1>2
<1> QED
  BY <1>3

LEMMA FirstIs ==
  ASSUME NEW toggles, NEW m \in Nat, DOMAIN toggles = 1 .. m, NEW n,
         n \in {toggles[i].name : i \in DOMAIN toggles}
  PROVE  /\ First(toggles, n) \in DOMAIN toggles
         /\ toggles[First(toggles, n)].name = n
<1> DEFINE Named == {i \in 1 .. m : toggles[i].name = n}
<1>1. Named \in SUBSET Nat /\ Named # {}
  OBVIOUS
<1>2. PICK i \in Named : \A j \in Named : ~(j < i)
  BY <1>1, Least
<1>3. \A j \in DOMAIN toggles : j < i => toggles[j].name # n
  BY <1>2
<1>4. i \in DOMAIN toggles /\ toggles[i].name = n
  BY <1>2
<1> HIDE DEF Named
<1> QED
  BY <1>3, <1>4 DEF First

LEMMA ToggleSetSound ==
  ASSUME NEW toggles, NEW m \in Nat, DOMAIN toggles = 1 .. m,
         \A i \in DOMAIN toggles : Canonical(toggles[i])
  PROVE  Sound(ToggleSet(toggles))
<1> DEFINE names == {toggles[i].name : i \in DOMAIN toggles}
<1>1. \A n \in names : /\ First(toggles, n) \in DOMAIN toggles
                       /\ toggles[First(toggles, n)].name = n
  BY FirstIs
<1>2. names \subseteq Strings
  BY DEF Canonical, Toggles
<1>3. DOMAIN ToggleSet(toggles) = names
  BY DEF ToggleSet
<1>4. \A n \in names : ToggleSet(toggles)[n] = toggles[First(toggles, n)]
  BY DEF ToggleSet
<1>5. \A n \in names : Canonical(toggles[First(toggles, n)])
  BY <1>1
<1>6. \A n \in names : toggles[First(toggles, n)] \in Toggles
  BY <1>5 DEF Canonical
<1>7. ToggleSet(toggles) \in [names -> Toggles]
  BY <1>6 DEF ToggleSet
<1>8. IsFiniteSet(names)
  <2> DEFINE name == [i \in 1 .. m |-> toggles[i].name]
  <2>1. name \in Surjection(1 .. m, names)
    BY DEF Surjection
  <2>2. IsFiniteSet(1 .. m)
    BY FS_Interval
  <2> HIDE DEF name, names
  <2> QED
    BY <2>1, <2>2, FS_Surjection
<1> HIDE DEF names
<1> QED
  BY <1>1, <1>2, <1>3, <1>4, <1>5, <1>7, <1>8 DEF Sound
-----------------------------------------------------------------------------
(* Decoding.                                                               *)

LEMMA DefaultVariant ==
  /\ disabledFactory \in Variants
  /\ disabledFactory.name = disabled
  /\ disabledFactory.enabled = FALSE
  /\ disabledFactory.payload = Missing
BY DEF disabledFactory, Variants

LEMMA PayloadType ==
  ASSUME NEW p
  PROVE  decodePayload(p) \in Payloads \cup {Missing}
<1>1. CASE p \in PayloadObjects /\ p.type \in Strings \ {Blank} /\ p.value \in Strings
  <2>1. p = [type |-> p.type, value |-> p.value]
    BY <1>1 DEF PayloadObjects
  <2> QED
    BY <1>1, <2>1 DEF decodePayload, Payloads
<1>2. CASE ~(p \in PayloadObjects /\ p.type \in Strings \ {Blank} /\ p.value \in Strings)
  BY <1>2 DEF decodePayload
<1> QED
  BY <1>1, <1>2

LEMMA VariantType ==
  ASSUME NEW v
  PROVE  /\ decodeVariant(v) \in Variants
         /\ decodeVariant(v) # disabledFactory =>
              decodeVariant(v).enabled /\ decodeVariant(v).name # Blank
<1>1. CASE v \in VariantObjects /\ Usable(v)
  <2>1. decodePayload(v.payload) \in Payloads \cup {Missing}
    BY PayloadType
  <2>2. decodeVariant(v) = [name |-> v.name, enabled |-> TRUE,
                            payload |-> decodePayload(v.payload)]
    BY <1>1 DEF decodeVariant
  <2>3. v.name \in Strings \ {Blank}
    BY <1>1 DEF Usable
  <2> QED
    BY <2>1, <2>2, <2>3 DEF Variants
<1>2. CASE ~(v \in VariantObjects /\ Usable(v))
  BY <1>2, DefaultVariant DEF decodeVariant
<1> QED
  BY <1>1, <1>2

LEMMA ToggleCanonical ==
  ASSUME NEW e \in Entries, Decodes(e)
  PROVE  Canonical(decodeToggle(e))
<1> DEFINE t == decodeToggle(e)
<1>1. t.name \in Strings /\ t.enabled \in BOOLEAN /\ t.impressionData \in BOOLEAN
  BY DEF decodeToggle, Decodes
<1>2. /\ t.enabled = e.enabled
      /\ t.variant = IF e.enabled THEN decodeVariant(e.variant) ELSE disabledFactory
  BY DEF decodeToggle
<1>3. e.enabled \in BOOLEAN
  BY DEF Decodes
<1>4. t.variant \in Variants
  BY <1>2, <1>3, VariantType, DefaultVariant
<1>5. t = [name |-> t.name, enabled |-> t.enabled,
           impressionData |-> t.impressionData, variant |-> t.variant]
  BY DEF decodeToggle
<1>6. t \in Toggles
  BY <1>1, <1>4, <1>5 DEF Toggles
<1>7. t.variant # disabledFactory =>
        t.enabled /\ t.variant.enabled /\ t.variant.name # Blank
  BY <1>2, <1>3, VariantType
<1> QED
  BY <1>6, <1>7 DEF Canonical

THEOREM DecodedSound ==
  ASSUME NEW document \in AllDocuments, Accepts(document)
  PROVE  Sound(decodeClientFeaturesResponse(document))
<1> DEFINE toggles == [i \in DOMAIN document |-> decodeToggle(document[i])]
<1>1. document \in Seq(Entries \cup {Other})
  BY DEF AllDocuments, Accepts
<1>2. Len(document) \in Nat /\ DOMAIN toggles = 1 .. Len(document)
  BY <1>1
<1>3. \A i \in DOMAIN toggles : document[i] \in Entries /\ Decodes(document[i])
  BY <1>1 DEF Accepts, Decodes
<1>4. \A i \in DOMAIN toggles : Canonical(toggles[i])
  BY <1>3, ToggleCanonical
<1> HIDE DEF toggles
<1>5. Sound(ToggleSet(toggles))
  BY <1>2, <1>4, ToggleSetSound
<1> QED
  BY <1>5 DEF decodeClientFeaturesResponse, toggles
-----------------------------------------------------------------------------
(* The backup file.                                                        *)

LEMMA VariantObject ==
  ASSUME NEW v \in Variants
  PROVE  v \in VariantObjects
<1>1. v.payload \in Payloads \cup {Missing}
  BY DEF Variants
<1>2. Payloads \subseteq PayloadObjects
  BY DEF Payloads, PayloadObjects, Field
<1>3. v.payload \in Field(PayloadObjects)
  BY <1>1, <1>2 DEF Field
<1>4. v = [name |-> v.name, enabled |-> v.enabled, payload |-> v.payload]
      /\ v.name \in Field(Strings) /\ v.enabled \in Field(BOOLEAN)
  BY DEF Variants, Field
<1> QED
  BY <1>3, <1>4 DEF VariantObjects

LEMMA EncodedVariant ==
  ASSUME NEW v \in Variants
  PROVE  [name |-> v.name, enabled |-> v.enabled, payload |-> encodePayload(v)] = v
<1>1. v.payload \in Payloads \cup {Missing}
  BY DEF Variants
<1>2. encodePayload(v) = v.payload
  BY <1>1 DEF encodePayload, Payloads
<1> QED
  BY <1>2 DEF Variants

\* A toggle of the client survives the file.
LEMMA ToggleRoundTrip ==
  ASSUME NEW t, Canonical(t)
  PROVE  /\ encodeToggle(t) \in Entries
         /\ Decodes(encodeToggle(t))
         /\ decodeToggle(encodeToggle(t)) = t
<1>1. t \in Toggles /\ t.variant \in Variants
  BY DEF Canonical, Toggles
<1>2. encodeToggle(t) = t
  BY <1>1, EncodedVariant DEF encodeToggle, Toggles
<1>3. t.variant \in VariantObjects
  BY <1>1, VariantObject
<1>4. t \in Entries
  <2>1. t = [name |-> t.name, enabled |-> t.enabled,
             impressionData |-> t.impressionData, variant |-> t.variant]
        /\ t.name \in Field(Strings) /\ t.enabled \in Field(BOOLEAN)
        /\ t.impressionData \in Field(BOOLEAN)
    BY <1>1 DEF Toggles, Field
  <2>2. t.variant \in Field(VariantObjects)
    BY <1>3 DEF Field
  <2> QED
    BY <2>1, <2>2 DEF Entries
<1>5. t.variant.payload \in Payloads \cup {Missing}
  BY <1>1 DEF Variants
<1>6. Payloads \subseteq PayloadObjects
  BY DEF Payloads, PayloadObjects, Field
<1>7. Decodes(t)
  <2>1. t # Other
    BY <1>4
  <2>2. t.name \in Strings /\ t.enabled \in BOOLEAN /\ t.impressionData # Other
    BY <1>1 DEF Toggles
  <2>3. t.variant # Other
    BY <1>3
  <2>4. t.variant.payload # Other
    BY <1>5, <1>6
  <2> QED
    BY <2>1, <2>2, <2>3, <2>4 DEF Decodes
<1>8. decodePayload(t.variant.payload) = t.variant.payload
  BY <1>5, <1>6 DEF decodePayload, Payloads, PayloadObjects
<1>9. t.variant = IF t.enabled THEN decodeVariant(t.variant) ELSE disabledFactory
  <2>1. CASE t.variant = disabledFactory
    BY <2>1, DefaultVariant DEF decodeVariant, Usable
  <2>2. CASE t.variant # disabledFactory
    <3>1. /\ t.enabled = TRUE /\ t.variant.enabled = TRUE
          /\ t.variant.name \in Strings \ {Blank}
      BY <1>1, <2>2 DEF Canonical, Toggles, Variants
    <3>2. decodeVariant(t.variant) = [name |-> t.variant.name, enabled |-> TRUE,
                                      payload |-> t.variant.payload]
      BY <1>3, <1>8, <3>1 DEF decodeVariant, Usable
    <3> QED
      BY <1>1, <3>1, <3>2 DEF Variants
  <2> QED
    BY <2>1, <2>2
<1>10. (t.impressionData = TRUE) = t.impressionData
  BY <1>1 DEF Toggles
<1>11. decodeToggle(t) = t
  BY <1>1, <1>9, <1>10 DEF decodeToggle, Toggles
<1> QED
  BY <1>2, <1>4, <1>7, <1>11

\* The file gives back the toggles that were written to it, in whatever order.
THEOREM RoundTrip ==
  ASSUME NEW set, Sound(set),
         NEW order \in Orders(DOMAIN set)
  PROVE  LET file == encodeClientFeaturesResponse(set, order)
         IN  Accepts(file) /\ decodeClientFeaturesResponse(file) = set
<1> DEFINE file == encodeClientFeaturesResponse(set, order)
           toggles == [i \in DOMAIN file |-> decodeToggle(file[i])]
           m == Cardinality(DOMAIN set)
<1>1. /\ order \in [1 .. m -> DOMAIN set]
      /\ \A n \in DOMAIN set : \E i \in 1 .. m : order[i] = n
  BY DEF Orders
<1>2. DOMAIN file = 1 .. m /\ DOMAIN toggles = 1 .. m
  BY <1>1 DEF encodeClientFeaturesResponse
<1>3. \A i \in 1 .. m : file[i] = encodeToggle(set[order[i]])
  BY <1>1 DEF encodeClientFeaturesResponse
<1>4. \A i \in 1 .. m : Canonical(set[order[i]]) /\ set[order[i]].name = order[i]
  BY <1>1 DEF Sound
<1>5. \A i \in 1 .. m : Decodes(file[i]) /\ toggles[i] = set[order[i]]
  BY <1>2, <1>3, <1>4, ToggleRoundTrip
<1>6. file # Other
  <2>1. \A i \in 1 .. m : file[i] \in Entries
    BY <1>3, <1>4, ToggleRoundTrip
  <2>2. m \in Nat
    BY FS_CardinalityType DEF Sound
  <2>3. file = [i \in 1 .. m |-> file[i]]
    BY <1>1 DEF encodeClientFeaturesResponse
  <2> HIDE DEF file, m
  <2>4. file \in Seq(Entries)
    BY <2>1, <2>2, <2>3
  <2> QED
    BY <2>4
<1>7. \A n \in DOMAIN set : n \in {toggles[i].name : i \in DOMAIN toggles}
  BY <1>1, <1>2, <1>4, <1>5
<1>8. {toggles[i].name : i \in DOMAIN toggles} = DOMAIN set
  <2>1. \A i \in DOMAIN toggles : toggles[i].name \in DOMAIN set
    BY <1>1, <1>2, <1>4, <1>5
  <2> HIDE DEF toggles
  <2> QED
    BY <1>7, <2>1
<1>9. \A n \in DOMAIN set : toggles[First(toggles, n)] = set[n]
  <2> SUFFICES ASSUME NEW n \in DOMAIN set
               PROVE  toggles[First(toggles, n)] = set[n]
    OBVIOUS
  <2> DEFINE i == First(toggles, n)
  <2>1. i \in 1 .. m /\ toggles[i].name = n
    <3>1. m \in Nat
      BY FS_CardinalityType DEF Sound
    <3> HIDE DEF toggles, m
    <3> QED
      BY <1>2, <1>7, <3>1, FirstIs
  <2>2. toggles[i] = set[order[i]] /\ order[i] = n
    BY <1>4, <1>5, <2>1
  <2> QED
    BY <2>2
<1>10. ToggleSet(toggles) = set
  <2>1. set = [n \in DOMAIN set |-> set[n]]
    BY DEF Sound
  <2> HIDE DEF toggles
  <2> QED
    BY <1>8, <1>9, <2>1 DEF ToggleSet
<1>11. Accepts(file)
  BY <1>2, <1>5, <1>6 DEF Accepts
<1>12. decodeClientFeaturesResponse(file) = ToggleSet(toggles)
  BY DEF decodeClientFeaturesResponse
<1> QED
  <2> HIDE DEF file, toggles
  <2> QED
    BY <1>10, <1>11, <1>12 DEF file
\* A finite set can be walked.
LEMMA OrdersExist ==
  ASSUME NEW S, IsFiniteSet(S)
  PROVE  Orders(S) # {}
<1>1. ExistsBijection(1 .. Cardinality(S), S)
  BY FS_CardinalityType
<1>2. PICK o \in Bijection(1 .. Cardinality(S), S) : TRUE
  BY <1>1 DEF ExistsBijection
<1>3. /\ o \in [1 .. Cardinality(S) -> S]
      /\ \A x \in S : \E i \in 1 .. Cardinality(S) : o[i] = x
  BY <1>2 DEF Bijection, Surjection
<1>4. o \in Orders(S)
  BY <1>3 DEF Orders
<1> QED
  BY <1>4

\* Whatever the backend has sent and the client has accepted, a restarted client
\* reads from its backup file, in whatever order the toggles were written there.
THEOREM DocumentsSurvive ==
  ASSUME NEW document \in AllDocuments, Accepts(document)
  PROVE  LET set == decodeClientFeaturesResponse(document)
         IN  /\ Orders(DOMAIN set) # {}
             /\ \A order \in Orders(DOMAIN set) :
                  LET file == encodeClientFeaturesResponse(set, order)
                  IN  Accepts(file) /\ decodeClientFeaturesResponse(file) = set
<1> DEFINE set == decodeClientFeaturesResponse(document)
<1>1. Sound(set)
  BY DecodedSound
<1>2. Orders(DOMAIN set) # {}
  BY <1>1, OrdersExist DEF Sound
<1> HIDE DEF set
<1>3. \A order \in Orders(DOMAIN set) :
        LET file == encodeClientFeaturesResponse(set, order)
        IN  Accepts(file) /\ decodeClientFeaturesResponse(file) = set
  BY <1>1, RoundTrip
<1> QED
  BY <1>2, <1>3 DEF set
=============================================================================
