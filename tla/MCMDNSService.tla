--------------------------- MODULE MCMDNSService ----------------------------
(* Instance of MDNSService for TLC.                                         *)
EXTENDS MDNSService
=============================================================================
