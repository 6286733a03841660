--------------------------- MODULE MCPlayerControl ---------------------------
(***************************************************************************)
(* A playlist may have no track, one or three, so that next and previous  *)
(* differ, and one playlist is played while another is active.  One        *)
(* property of each range, with every percentage; reverb, echo, chorus and *)
(* flanger have the range of the volume.  Two bands, one of them moved.    *)
(***************************************************************************)
EXTENDS PlayerControl
=============================================================================
