------------------------ MODULE MCStateUpdateEvents ------------------------
(***************************************************************************)
(* Two pool threads, two kinds of events and two notifiers: the main       *)
(* thread, which also stops the object, and one other.                     *)
(***************************************************************************)
EXTENDS StateUpdateEvents
=============================================================================
