--------------------------- MODULE MCEventHandler ---------------------------
(***************************************************************************)
(* Small instances of EventHandler: one application thread, a dispatcher   *)
(* that emits from within its callbacks, one thread that owns the handler  *)
(* (and, in one run, the dispatcher too), two kinds of events.             *)
(***************************************************************************)
EXTENDS EventHandler

CONSTANTS app, dispatcher, owner, f, none

MCEmitters         == {app, dispatcher}
MCAppOnly          == {app}
MCDispatcher       == dispatcher
MCOwners           == {owner}
MCReentrantOwners  == {owner, dispatcher}
MCCallbacks        == {f}
MCNoCallback       == none
=============================================================================
