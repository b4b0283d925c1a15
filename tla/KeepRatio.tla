----------------------------- MODULE KeepRatio ------------------------------
(***************************************************************************)
(* The geometry of the mirror window: where KeepRatioWidget puts the video  *)
(* in the space it has (KeepRatioWidget.cpp), and how large MirrorWidget    *)
(* makes the window for a frame (updateFrameSize, MirrorWidget.cpp).        *)
(*                                                                         *)
(* m_widthHeightRatio is the ratio of a frame's width and height, rounded   *)
(* to a float.  Rounding decides which of two almost equal ratios is the    *)
(* larger, and to which side of an integer a product falls; here either may *)
(* happen to what is within a tenth of a pixel, far more than a float is    *)
(* off by for the sizes of screens.  A widget of height 0 has an infinite   *)
(* ratio in the code, and in the comparison of the products.                *)
(***************************************************************************)
EXTENDS Integers

Space == [width : Nat, height : Nat]
Frame == [width : Nat \ {0}, height : Nat \ {0}]

\* What num / den, rounded, may be as an int.
Truncated(num, den) ==
  {n \in (num \div den) - 1 .. (num \div den) + 1 :
     n >= 0 /\ 10 * (den * n) <= 10 * num + den /\ 10 * (den * n) >= 10 * num - 11 * den}

\* num / den, rounded, may be at most side.
AtMost(num, side, den) == 10 * num <= 10 * (side * den) + den

\* The geometries adjustSubWidget may set: based on the height, the width, or
\* the whole.
adjustSubWidget(curSize, frame) ==
  LET byHeight == AtMost(curSize.height * frame.width, curSize.width, frame.height)
      byWidth == AtMost(curSize.width * frame.height, curSize.height, frame.width)
  IN  {[x |-> (curSize.width - w) \div 2, y |-> 0, width |-> w, height |-> curSize.height] :
         w \in IF byHeight THEN Truncated(curSize.height * frame.width, frame.height) ELSE {}}
      \cup
      {[x |-> 0, y |-> (curSize.height - h) \div 2, width |-> curSize.width, height |-> h] :
         h \in IF byWidth THEN Truncated(curSize.width * frame.height, frame.width) ELSE {}}
      \cup
      IF byHeight /\ byWidth
        THEN {[x |-> 0, y |-> 0, width |-> curSize.width, height |-> curSize.height]} ELSE {}

Smaller(a, b) == IF a < b THEN a ELSE b

\* The sizes updateFrameSize may give the window: at most the frame's, and
\* what the screen leaves of its height or half of its width.
showSize(frame, screen) ==
  IF frame.width < frame.height
    THEN LET h == Smaller(frame.height, screen.height - 200)
         IN  {[width |-> w, height |-> h] : w \in Truncated(h * frame.width, frame.height)}
    ELSE LET w == Smaller(frame.width, screen.width \div 2)
         IN  {[width |-> w, height |-> h] : h \in Truncated(w * frame.height, frame.width)}

-----------------------------------------------------------------------------
\* The video lies within the widget, touches two of its sides and has equal
\* margins, up to a pixel, on the others.
Fits(g, curSize) ==
  /\ g.width \in 0 .. curSize.width /\ g.height \in 0 .. curSize.height
  /\ g.width = curSize.width \/ g.height = curSize.height
  /\ (curSize.width - g.width) - 2 * g.x \in {0, 1}
  /\ (curSize.height - g.height) - 2 * g.y \in {0, 1}

\* Its ratio is that of the frame, up to about a pixel.
KeepsRatio(g, frame) ==
  LET across == g.width * frame.height
      down == g.height * frame.width
      pixel == frame.width + frame.height
  IN  10 * across <= 10 * down + 11 * pixel /\ 10 * down <= 10 * across + 11 * pixel

\* A window of the frame's ratio, as large as the frame or smaller where the
\* screen leaves less for its height or, if it is not an upright one, its width.
\* The other side follows from the ratio; the screen does not limit it.
Shows(s, frame, screen) ==
  /\ s.width \in 0 .. frame.width /\ s.height \in 0 .. frame.height
  /\ IF frame.width < frame.height THEN s.height <= screen.height - 200
     ELSE s.width <= screen.width \div 2
  /\ KeepsRatio(s, frame)

=============================================================================
