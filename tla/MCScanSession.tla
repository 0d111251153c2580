--------------------------- MODULE MCScanSession ---------------------------
(* ScanSession on the instances of Session.cfg and SessionLive.cfg, whose   *)
(* addresses are model values.                                              *)
EXTENDS ScanSession
=============================================================================
