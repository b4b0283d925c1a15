---------------------------- MODULE LatestFrame ----------------------------
(***************************************************************************)
(* What a video view promises: pictures may be skipped, never repeated,     *)
(* never shown out of order, never shown half written; only the newest one  *)
(* published is ever shown.                                                 *)
(***************************************************************************)
EXTENDS Integers

CONSTANT MaxPictures  \* bound: pictures published

VARIABLES
  latest,  \* number of the newest picture published, 0 for none
  fresh,   \* it has not been shown yet
  shown    \* number of the picture on the screen, 0 for none

vars == <<latest, fresh, shown>>

Init == latest = 0 /\ fresh = FALSE /\ shown = 0

Publish ==
  /\ \E n \in 1 .. MaxPictures : n > latest /\ latest' = n
  /\ fresh' = TRUE
  /\ UNCHANGED shown

Show ==
  /\ fresh
  /\ shown' = latest
  /\ fresh' = FALSE
  /\ UNCHANGED latest

Next == Publish \/ Show

Spec == Init /\ [][Next]_vars
=============================================================================
