-------------------------- MODULE MCDesktopSession --------------------------
(* Instance of DesktopSession for TLC.                                      *)
EXTENDS DesktopSession
=============================================================================
