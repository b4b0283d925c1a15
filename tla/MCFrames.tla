------------------------------ MODULE MCFrames ------------------------------
(* Instance of Frames for TLC.                                              *)
EXTENDS Frames
=============================================================================
