------------------------------- MODULE MCWatch -------------------------------
(* Instances of Watch for TLC.  The cfg files give the constants.            *)
EXTENDS Watch
=============================================================================
