---------------------------- MODULE MCLongPolling ----------------------------
(***************************************************************************)
(* One poll for the control panel, whose changes reach it through the      *)
(* hooks or are announced later by hand, one for the playlists, and one    *)
(* command.                                                                *)
(***************************************************************************)
EXTENDS LongPolling

CONSTANTS p1, p2, c1

MCKindOf == [w \in Waiters |-> IF w = p1 THEN "ControlPanel" ELSE "Playlists"]
=============================================================================
