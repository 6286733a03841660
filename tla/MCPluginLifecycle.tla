-------------------------- MODULE MCPluginLifecycle --------------------------
(***************************************************************************)
(* Two listeners, so that one can be closed while the other is open, and   *)
(* two requests.                                                           *)
(***************************************************************************)
EXTENDS PluginLifecycle
=============================================================================
