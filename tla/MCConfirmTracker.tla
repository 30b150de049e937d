-------------------------- MODULE MCConfirmTracker ---------------------------
(* Instances of ConfirmTracker for TLC.                                     *)
EXTENDS ConfirmTracker, TLC
=============================================================================
