-------------------------- MODULE MCNetworkListeners --------------------------
(***************************************************************************)
(* Two addresses and two interfaces: an address can move from one          *)
(* interface to the other, and one can be excluded while the other is not. *)
(***************************************************************************)
EXTENDS NetworkListeners
=============================================================================
