------------------------------ MODULE BytePipe ------------------------------
(***************************************************************************)
(* What a reader of a stream may rely on, whatever threads it takes to      *)
(* provide it: bytes come out in chunks, each exactly once; they are lost   *)
(* only after the stream has been shut; the end is reported only after the  *)
(* stream has been shut, and nothing comes out after it.                    *)
(***************************************************************************)
EXTENDS Integers

CONSTANTS
  Sockets,   \* one pipe for each
  MaxBytes   \* bound: most bytes put in at a time

VARIABLES
  pending,   \* bytes put in and not yet taken out
  returned,  \* bytes taken out
  open,      \* the writer may still put bytes in
  eof        \* the reader has been told that the stream is over

vars == <<pending, returned, open, eof>>

Init ==
  /\ pending = [s \in Sockets |-> 0]
  /\ returned = [s \in Sockets |-> 0]
  /\ open = [s \in Sockets |-> TRUE]
  /\ eof = [s \in Sockets |-> FALSE]

Put(s) ==
  /\ open[s]
  /\ \E n \in 1 .. MaxBytes : pending' = [pending EXCEPT ![s] = @ + n]
  /\ UNCHANGED <<returned, open, eof>>

Take(s) ==
  /\ ~eof[s]
  /\ \E n \in 1 .. pending[s] :
       /\ pending' = [pending EXCEPT ![s] = @ - n]
       /\ returned' = [returned EXCEPT ![s] = @ + n]
  /\ UNCHANGED <<open, eof>>

Shut(s) ==
  /\ open' = [open EXCEPT ![s] = FALSE]
  /\ UNCHANGED <<pending, returned, eof>>

Drop(s) ==
  /\ ~open[s]
  /\ \E n \in 0 .. pending[s] : pending' = [pending EXCEPT ![s] = n]
  /\ UNCHANGED <<returned, open, eof>>

End(s) ==
  /\ ~open[s] /\ ~eof[s]
  /\ eof' = [eof EXCEPT ![s] = TRUE]
  /\ UNCHANGED <<pending, returned, open>>

Next == \E s \in Sockets : Put(s) \/ Take(s) \/ Shut(s) \/ Drop(s) \/ End(s)

Spec == Init /\ [][Next]_vars
=============================================================================
