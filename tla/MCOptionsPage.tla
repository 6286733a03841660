---------------------------- MODULE MCOptionsPage ----------------------------
(***************************************************************************)
(* One client of the app; two users and the empty name, so that a save can *)
(* change the name, and a nonce lifetime of 0 on a clock of two values, so *)
(* that a nonce is fresh, too old or from the future.  Two saves and one   *)
(* restart: the second save, or the restart, finds what the first has left.*)
(***************************************************************************)
EXTENDS OptionsPage
=============================================================================
