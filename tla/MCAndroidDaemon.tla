-------------------------- MODULE MCAndroidDaemon ---------------------------
(* Instance of AndroidDaemon for TLC.                                       *)
EXTENDS AndroidDaemon
=============================================================================
