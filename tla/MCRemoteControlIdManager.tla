----------------------- MODULE MCRemoteControlIdManager -----------------------
(***************************************************************************)
(* Three-bit ids.  Every assignment of the hashes to the keys is an        *)
(* initial state, so that all collisions occur, with 0 and with the wrap   *)
(* from the largest id to the smallest.  Playlists and callers are         *)
(* interchangeable.                                                        *)
(***************************************************************************)
EXTENDS RemoteControlIdManager, TLC

Symmetry == Permutations(Playlists) \cup Permutations(Callers)
=============================================================================
