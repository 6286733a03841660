---------------------------- MODULE MCSleepTimer ----------------------------
(***************************************************************************)
(* Two callers, so that one replaces or cancels what the other has set     *)
(* while Run is on its way; a delay of 0 is due at once.                   *)
(***************************************************************************)
EXTENDS SleepTimer
=============================================================================
