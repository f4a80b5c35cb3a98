-------------------------- MODULE MCFlagEvaluation --------------------------
(***************************************************************************)
(* Two threads, two flags, and documents that disagree about both: a flag  *)
(* is enabled with one variant or another, with or without a payload,      *)
(* disabled, disabled with a variant of its own, listed twice, or missing, *)
(* and asks for impressions or not.  One document has no toggles, and      *)
(* three do not decode.                                                    *)
(***************************************************************************)
EXTENDS FlagEvaluation, TLC

CONSTANTS t1, t2, f, g, v, w, blank, off, missing, other

MCThreads == {t1, t2}
MCFlags   == {f, g}
MCStrings == {f, g, v, w, blank, off}
Symmetry  == Permutations(MCThreads)

Payload(type, value) == [type |-> type, value |-> value]

Variant(name, on, payload) == [name |-> name, enabled |-> on, payload |-> payload]

Entry(name, on, impressed, variant) ==
  [name |-> name, enabled |-> on, impressionData |-> impressed, variant |-> variant]

MCDocuments == {
  <<Entry(f, TRUE, TRUE, Variant(v, TRUE, Payload(w, blank))),
    Entry(f, FALSE, missing, missing)>>,
  <<Entry(f, TRUE, TRUE, Variant(w, TRUE, Payload(blank, v))),
    Entry(g, TRUE, missing, Variant(blank, TRUE, missing))>>,
  <<Entry(g, FALSE, TRUE, Variant(v, TRUE, other)),
    Entry(f, FALSE, FALSE, Variant(v, TRUE, missing))>>,
  <<>>,
  <<Entry(g, TRUE, TRUE, missing), other>>,
  <<Entry(f, TRUE, FALSE, Variant(v, TRUE, other))>>,
  other}
=============================================================================
