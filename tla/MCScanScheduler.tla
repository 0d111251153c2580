-------------------------- MODULE MCScanScheduler --------------------------
(***************************************************************************)
(* Instances of ScanScheduler for TLC.  The cfg files give the constants.  *)
(***************************************************************************)
EXTENDS ScanScheduler
=============================================================================
