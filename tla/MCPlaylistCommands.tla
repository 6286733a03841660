-------------------------- MODULE MCPlaylistCommands --------------------------
(***************************************************************************)
(* A playlist of two tracks, one of the same client's making, and a track  *)
(* to add; two clients, one of which edits what the other has listed.      *)
(***************************************************************************)
EXTENDS PlaylistCommands

CONSTANTS p1, p2, t1, t2, t3

Symmetry == Permutations(Clients)

MCInitial == [p \in Playlists |-> IF p = p1 THEN <<t1, t2>> ELSE <<>>]
=============================================================================
