---------------------------- MODULE MCUploadTrack ----------------------------
(***************************************************************************)
(* Three uploads: two may overlap after the third has ended.  One file,    *)
(* two files of the same name, or one whose name is restored from its      *)
(* tags; the folder has a file of the common name already.                 *)
(***************************************************************************)
EXTENDS UploadTrack, TLC

Named(b) == [base |-> b, question |-> FALSE]
Unreadable(b) == [base |-> b, question |-> TRUE]

MCRequests ==
    {<<Named("song")>>, <<Named("song"), Named("song")>>, <<Unreadable("????")>>}

MCBefore == {<<"song", 1>>}

Symmetry == Permutations(Uploads)
=============================================================================
