-------------------------- MODULE MCContextAccess ---------------------------
(***************************************************************************)
(* A small instance of ContextAccess: two fields, one thread in each role, *)
(* and two that update the context.                                        *)
(***************************************************************************)
EXTENDS ContextAccess

CONSTANTS userId, properties, w1, w2, poller, caller

MCFields    == {userId, properties}
MCWriters   == {w1, w2}
MCReaders   == {poller}
MCCallers   == {caller}
=============================================================================
