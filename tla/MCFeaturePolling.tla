-------------------------- MODULE MCFeaturePolling --------------------------
(***************************************************************************)
(* Small instances of FeaturePolling: one or two contexts, two toggle      *)
(* sets, one of which may be the empty one, processes with and without a   *)
(* bootstrap, and one thread that updates the context.                     *)
(***************************************************************************)
EXTENDS FeaturePolling

CONSTANTS c1, c2, a, b, none, empty, u1

MCContexts     == {c1, c2}
MCOneContext   == {c1}
MCInitial      == c1
MCBodies       == {a, b}
MCWithEmpty    == {a, empty}
MCEmpty        == empty
MCNothing      == none
MCBootstraps   == {b, none}
MCNoBootstrap  == {none}
MCUpdaters     == {u1}
=============================================================================
