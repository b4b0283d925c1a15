--------------------------- MODULE MCFileTransfer ---------------------------
(* Instance of FileTransfer for TLC: an upload and a download of one full   *)
(* block and a bit, and an upload of exactly one block.  Both uploads have   *)
(* the same name.  One byte of the longer one may fail to be written.       *)
EXTENDS FileTransfer

CONSTANTS u1, u2, f1, name

Sizes == [f \in Uploads \cup Downloads |-> IF f = u2 THEN 2 ELSE 3]

Lost1 == [u \in Uploads |-> IF u = u1 THEN 1 ELSE 0]

OneName == [u \in Uploads |-> name]
=============================================================================
