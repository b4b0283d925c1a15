----------------------------- MODULE MCProgram ------------------------------
(* main(), the server thread, the service thread and the log, for TLC.      *)
EXTENDS Program
=============================================================================
