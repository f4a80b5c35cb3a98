------------------------------ MODULE JsonCodec ------------------------------
(***************************************************************************)
(* What JsonCodec makes of a response of the backend, or of the backup     *)
(* file, and what it writes to that file.                                  *)
(*                                                                         *)
(* A document is the JSON value of the field "toggles": a sequence of      *)
(* entries.  Every field of an entry may be missing, or be a value of a    *)
(* type that the decoder does not expect there.  A toggle set is a         *)
(* function from the names of its toggles.                                 *)
(***************************************************************************)
EXTENDS Naturals, Sequences, FiniteSets

CONSTANTS
  Strings,      \* the strings that occur in documents
  Blank,        \* the empty string
  disabled,     \* the name of disabledFactory()
  Missing,      \* no such field; of a variant: no payload
  Other         \* a value of an unexpected type

Field(S) == S \cup {Missing, Other}

PayloadObjects == [type : Field(Strings), value : Field(Strings)]
VariantObjects == [name : Field(Strings), enabled : Field(BOOLEAN),
                   payload : Field(PayloadObjects)]
Entries        == [name : Field(Strings), enabled : Field(BOOLEAN),
                   impressionData : Field(BOOLEAN), variant : Field(VariantObjects)]

\* Text that is no JSON, has no field "toggles" or has no array there is Other.
AllDocuments == Seq(Entries \cup {Other}) \cup {Other}

ASSUME JsonCodecAssumption ==
  /\ Blank \in Strings
  /\ disabled \in Strings \ {Blank}
  /\ Missing # Other
  /\ {Missing, Other} \cap Strings = {}
  /\ {Missing, Other} \cap BOOLEAN = {}
  /\ {Missing, Other} \cap PayloadObjects = {}
  /\ {Missing, Other} \cap VariantObjects = {}
  /\ {Missing, Other} \cap Entries = {}
  /\ Other \notin Seq(Entries)

Payloads == [type : Strings \ {Blank}, value : Strings]
Variants == [name : Strings, enabled : BOOLEAN, payload : Payloads \cup {Missing}]
Toggles  == [name : Strings, enabled : BOOLEAN, impressionData : BOOLEAN,
             variant : Variants]

disabledFactory == [name |-> disabled, enabled |-> FALSE, payload |-> Missing]
-----------------------------------------------------------------------------
(* decodeClientFeaturesResponse().                                         *)

\* A variant that has no name, or is not enabled, counts as none.
Usable(v) == v.name \in Strings \ {Blank} /\ v.enabled = TRUE

\* decodeToggle() returns a toggle.  Of a disabled one it looks no further than
\* impressionData, of an unusable variant no further than its name.
Decodes(e) ==
  /\ e # Other
  /\ e.name \in Strings
  /\ e.enabled \in BOOLEAN
  /\ e.impressionData # Other
  /\ e.enabled /\ e.variant # Missing =>
       /\ e.variant # Other
       /\ Usable(e.variant) => e.variant.payload # Other

\* A payload without a type or a value counts as none.
decodePayload(p) ==
  IF p \in PayloadObjects /\ p.type \in Strings \ {Blank} /\ p.value \in Strings
    THEN p ELSE Missing

decodeVariant(v) ==
  IF v \in VariantObjects /\ Usable(v)
    THEN [name |-> v.name, enabled |-> TRUE, payload |-> decodePayload(v.payload)]
    ELSE disabledFactory

\* Wrong variant: the variant of a disabled toggle is decoded, too.
decodeToggleAlways(e) ==
  [name           |-> e.name,
   enabled        |-> e.enabled,
   impressionData |-> e.impressionData = TRUE,
   variant        |-> decodeVariant(e.variant)]

decodeToggle(e) ==
  [name           |-> e.name,
   enabled        |-> e.enabled,
   impressionData |-> e.impressionData = TRUE,
   variant        |-> IF e.enabled THEN decodeVariant(e.variant)
                                   ELSE disabledFactory]

\* insert() keeps the first of the toggles that have the same name.
First(toggles, n) ==
  CHOOSE i \in DOMAIN toggles :
    /\ toggles[i].name = n
    /\ \A j \in DOMAIN toggles : j < i => toggles[j].name # n

ToggleSet(toggles) ==
  [n \in {toggles[i].name : i \in DOMAIN toggles} |-> toggles[First(toggles, n)]]

\* One entry that does not decode spoils the document.
Accepts(document) ==
  document # Other /\ \A i \in DOMAIN document : Decodes(document[i])

\* Only of documents that are accepted.
decodeClientFeaturesResponse(document) ==
  ToggleSet([i \in DOMAIN document |-> decodeToggle(document[i])])
-----------------------------------------------------------------------------
(* encodeClientFeaturesResponse().                                         *)

\* Wrong variant: the payload is not written.
encodePayloadNever(v) == Missing

encodePayload(v) ==
  IF v.payload # Missing /\ v.payload.type # Blank THEN v.payload ELSE Missing

encodeToggle(t) ==
  [name           |-> t.name,
   enabled        |-> t.enabled,
   impressionData |-> t.impressionData,
   variant        |-> [name    |-> t.variant.name,
                       enabled |-> t.variant.enabled,
                       payload |-> encodePayload(t.variant)]]

\* The orders in which an unordered_map may be walked.
Orders(S) ==
  {o \in [1 .. Cardinality(S) -> S] : \A x \in S : \E i \in DOMAIN o : o[i] = x}

encodeClientFeaturesResponse(set, order) ==
  [i \in DOMAIN order |-> encodeToggle(set[order[i]])]
=============================================================================
