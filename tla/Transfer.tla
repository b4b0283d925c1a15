------------------------------ MODULE Transfer ------------------------------
(***************************************************************************)
(* What the desktop promises the sender of one file: it takes the file on   *)
(* once, takes it block by block, and tells the sender that it is complete  *)
(* only when it was given all of it.  It may stop at any point, and whether *)
(* what it takes reaches the disk is no part of the promise.  No            *)
(* connections, messages or acknowledgements here; FileTransfer implements  *)
(* this.                                                                    *)
(***************************************************************************)
EXTENDS Naturals

CONSTANTS Size, Block

VARIABLES
  state,  \* "none", "open", "complete", and "known" to be so
  held    \* the bytes taken

vars == <<state, held>>

Init == state = "none" /\ held = 0

Open ==
  /\ state = "none"
  /\ state' = "open"
  /\ held' = 0

\* The last block may be short, the block of an empty file is empty.
Take ==
  /\ state = "open"
  /\ held' = IF held + Block < Size THEN held + Block ELSE Size
  /\ state' = IF held' = Size THEN "complete" ELSE "open"

Acknowledge ==
  /\ state = "complete"
  /\ state' = "known"
  /\ UNCHANGED held

Next == Open \/ Take \/ Acknowledge

Spec == Init /\ [][Next]_vars

=============================================================================
