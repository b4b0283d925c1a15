----------------------------- MODULE MCFraming -----------------------------
(* Instances of Framing for TLC: both kinds of socket, with the empty and   *)
(* the largest message whose size fits in one byte and with a block whose   *)
(* size wraps; and control messages one byte larger.                        *)
EXTENDS Framing

ShortMessages == [control |-> {0, 1, 2, 127}, data |-> {0, 1, 4, 6}]

ShortMax == [control |-> 2, data |-> 3]

LongMessages == [control |-> {1, 128}]

LongMax == [control |-> 2]
=============================================================================
