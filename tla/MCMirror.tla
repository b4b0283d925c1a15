------------------------------ MODULE MCMirror ------------------------------
(* Instance of Mirror for TLC, and small widgets, frames and screens.       *)
EXTENDS Mirror, KeepRatio

Frames == [width : 1 .. 6, height : 1 .. 6]

\* Every resize has a result, and the video fits it.
ASSUME VideoIsPlaced ==
  \A curSize \in [width : 0 .. 7, height : 0 .. 7], f \in Frames :
    /\ adjustSubWidget(curSize, f) # {}
    /\ \A g \in adjustSubWidget(curSize, f) : Fits(g, curSize) /\ KeepsRatio(g, f)

\* So has every new frame size, and the window's longer side the screen's limit.
ASSUME WindowIsSized ==
  \A f \in Frames, screen \in [width : 0 .. 14, height : 200 .. 207] :
    /\ showSize(f, screen) # {}
    /\ \A s \in showSize(f, screen) : Shows(s, f, screen)
=============================================================================
