---------------------------- MODULE FileTransfer ----------------------------
(***************************************************************************)
(* Files between phone and desktop: the handlers of DesktopServer for the   *)
(* messages of the control connections and the blocks of the data           *)
(* connections (Network/DesktopServer.cpp), on top of the session of        *)
(* module DesktopSession, which says which connections there are.           *)
(*                                                                         *)
(* An upload goes from the phone to the desktop, a download from the        *)
(* desktop to the phone.  Both are stop-and-wait: an AckSendFile with a     *)
(* position asks for the block at that position.  A message or a block is   *)
(* delivered whole here; how it is cut out of the stream is another         *)
(* module's.  A file is the sequence of its byte numbers 1, 2, ...          *)
(*                                                                         *)
(* Contexts go by uuid, files on the disk by name: two uploads may share    *)
(* one, be it that the phone sends a file again after a connection ended.   *)
(* Each QFile writes at its own position, which only what is written moves: *)
(* on a full disk a part of a block or nothing of it is.  The blocks of the *)
(* program are larger than the QFile's buffer, so that a write reaches the  *)
(* disk at once; the last one may be smaller and reaches it when the file   *)
(* is closed, which the same handler does.                                  *)
(*                                                                         *)
(* The server runs one handler at a time and each is one step.  The phone's *)
(* program is not in this repository: what is modelled is a phone that      *)
(* answers as the server's handlers expect, over any of its connections.    *)
(***************************************************************************)
EXTENDS Integers, Sequences, Functions

CONSTANTS
  Controls, Datas, Null,  \* see DesktopSession
  Uploads, Downloads,     \* uuids of the files either side may send
  FileName,               \* the name of each upload
  FileSize,               \* the bytes in each
  BLOCK_SIZE,             \* the bytes in a full block
  MaxLost                 \* how many bytes of each upload may fail to be written (a bound)

\* written is the position of the QFile.
Context == [receivedSize : Nat, written : Nat, controlSocket : Controls, complete : BOOLEAN]

\* A uuid is given once.
ASSUME FileAssumption ==
  /\ Null \notin Controls \cup Datas \cup Uploads \cup Context
  /\ Controls \cap Datas = {} /\ Uploads \cap Downloads = {}
  /\ DOMAIN FileName = Uploads
  /\ FileSize \in [Uploads \cup Downloads -> Nat]
  /\ BLOCK_SIZE \in Nat \ {0}

VARIABLES
  conn, m_ControlSocket, m_DataSocket, uiQueue, window,  \* see DesktopSession
  toServer, toPhone,    \* messages under way on each control connection
  blocksIn, blocksOut,  \* blocks under way on each data connection
  m_ReceiveFileMap,     \* the ReceiveFileContext of each upload, or Null
  disk,                 \* the files in the download folder
  m_SendFileMap,        \* the downloads the server knows
  picked,               \* downloads whose sendFile is queued to the server thread
  upload,               \* what the phone knows of each upload
  downloaded,           \* the bytes the phone has of each download
  trouble               \* "assert" failed, a "dangling" pointer used, or "none"

\* The session's history variable is of no use here.
S == INSTANCE DesktopSession WITH orderly <- TRUE

sessionVars == <<conn, m_ControlSocket, m_DataSocket, uiQueue, window>>
netVars == <<toServer, toPhone, blocksIn, blocksOut>>
fileVars == <<m_ReceiveFileMap, disk>>
phoneVars == <<upload, downloaded>>
vars == <<sessionVars, netVars, fileVars, m_SendFileMap, picked, phoneVars, trouble>>

Names == {FileName[u] : u \in Uploads}

\* A byte of the disk says which upload wrote it; a gap is what a write beyond
\* the end leaves before it.
Byte == Uploads \X Nat

Gap == <<Null, 0>>

Bytes(from, n) == [i \in 1 .. n |-> from + i]

Message ==
  [type : {"SendFile", "AckSendFile", "AckSendComplete"},
   uuid : Uploads \cup Downloads, pos : Nat]

Block == [uuid : Uploads \cup Downloads, data : Seq(Nat)]

TypeOK ==
  /\ S!TypeOK
  /\ toServer \in [Controls -> Seq(Message)]
  /\ toPhone \in [Controls -> Seq(Message)]
  /\ blocksIn \in [Datas -> Seq(Block)]
  /\ blocksOut \in [Datas -> Seq(Block)]
  /\ m_ReceiveFileMap \in [Uploads -> Context \cup {Null}]
  /\ disk \in [Names -> Seq(Byte \cup {Gap})]
  /\ m_SendFileMap \subseteq Downloads
  /\ picked \subseteq Downloads
  /\ upload \in [Uploads -> {"idle", "offered", "done"}]
  /\ downloaded \in [Downloads -> Seq(Nat)]
  /\ trouble \in {"none", "assert", "dangling"}

Init ==
  /\ S!Init
  /\ toServer = [c \in Controls |-> <<>>] /\ toPhone = [c \in Controls |-> <<>>]
  /\ blocksIn = [d \in Datas |-> <<>>] /\ blocksOut = [d \in Datas |-> <<>>]
  /\ m_ReceiveFileMap = [u \in Uploads |-> Null]
  /\ disk = [n \in Names |-> <<>>]
  /\ m_SendFileMap = {}
  /\ picked = {}
  /\ upload = [u \in Uploads |-> "idle"]
  /\ downloaded = [f \in Downloads |-> <<>>]
  /\ trouble = "none"

-----------------------------------------------------------------------------
(* The session's own steps.  What is under way on a connection is lost with *)
(* it; it may also have been read before, in an earlier step.               *)

Connects ==
  /\ \/ \E c \in Controls : S!ControlConnects(c)
     \/ \E d \in Datas : S!DataConnects(d)
     \/ \E s \in Controls \cup Datas : S!DeleteSocket(s)
     \/ S!OnLogin \/ S!OnLogout
  /\ UNCHANGED <<netVars, fileVars, m_SendFileMap, picked, phoneVars, trouble>>

ControlLost(c) ==
  /\ S!ControlDisconnects(c)
  /\ toServer' = [toServer EXCEPT ![c] = <<>>]
  /\ toPhone' = [toPhone EXCEPT ![c] = <<>>]
  /\ UNCHANGED <<blocksIn, blocksOut, fileVars, m_SendFileMap, picked, phoneVars, trouble>>

DataLost(d) ==
  /\ S!DataDisconnects(d)
  /\ blocksIn' = [blocksIn EXCEPT ![d] = <<>>]
  /\ blocksOut' = [blocksOut EXCEPT ![d] = <<>>]
  /\ UNCHANGED <<toServer, toPhone, fileVars, m_SendFileMap, picked, phoneVars, trouble>>

-----------------------------------------------------------------------------
(* The server.                                                              *)

\* Fault: a message is written twice.
sendMessageTwice(s, type, uuid, pos) ==
  LET m == [type |-> type, uuid |-> uuid, pos |-> pos]
  IN  /\ toPhone' = IF conn[s] = "open" THEN [toPhone EXCEPT ![s] = @ \o <<m, m>>] ELSE toPhone
      /\ trouble' = IF conn[s] = "deleted" THEN "dangling" ELSE trouble

\* A write to a closed socket fails and nobody looks; a deleted one is not
\* there to be written to.
sendMessage(s, type, uuid, pos) ==
  /\ toPhone' = IF conn[s] = "open"
                  THEN [toPhone EXCEPT ![s] =
                          Append(@, [type |-> type, uuid |-> uuid, pos |-> pos])]
                  ELSE toPhone
  /\ trouble' = IF conn[s] = "deleted" THEN "dangling" ELSE trouble

\* The head of a control connection, if it is of the given type.
Reads(c, type) ==
  /\ conn[c] = "open"
  /\ toServer[c] # <<>> /\ Head(toServer[c]).type = type
  /\ toServer' = [toServer EXCEPT ![c] = Tail(@)]

\* A new context if the file can be created, which empties the one that was
\* there before.
willReceiveFile(u, c) ==
  \/ /\ m_ReceiveFileMap' = [m_ReceiveFileMap EXCEPT ![u] =
            [receivedSize |-> 0, written |-> 0, controlSocket |-> c, complete |-> FALSE]]
     /\ disk' = [disk EXCEPT ![FileName[u]] = <<>>]
  \/ UNCHANGED fileVars

\* kDesktopMessageSendFile: acknowledged whether the file was created or not.
OnSendFile(c) ==
  /\ Reads(c, "SendFile")
  /\ LET u == Head(toServer[c]).uuid
     IN  willReceiveFile(u, c) /\ sendMessage(c, "AckSendFile", u, 0)
  /\ UNCHANGED <<sessionVars, blocksIn, blocksOut, m_SendFileMap, picked, phoneVars>>

\* The block of a download at a position: what file.read returns.
BlockAt(f, pos) ==
  LET n == IF FileSize[f] - pos < BLOCK_SIZE THEN FileSize[f] - pos ELSE BLOCK_SIZE
  IN  [uuid |-> f, data |-> Bytes(pos, IF n < 0 THEN 0 ELSE n)]

\* The write to m_DataSocket and the assertion on what it returns.
WriteBlock(block) ==
  IF m_DataSocket = Null
    THEN UNCHANGED <<blocksOut, trouble>>
    ELSE /\ blocksOut' = IF conn[m_DataSocket] = "open"
                           THEN [blocksOut EXCEPT ![m_DataSocket] = Append(@, block)]
                           ELSE blocksOut
         /\ trouble' = CASE conn[m_DataSocket] = "open" -> trouble
                         [] conn[m_DataSocket] = "closed" -> "assert"
                         [] OTHER -> "dangling"

\* kDesktopMessageAckSendFile: nothing is sent if the file can no longer be
\* opened.
OnAckSendFile(c) ==
  /\ Reads(c, "AckSendFile")
  /\ LET m == Head(toServer[c])
     IN  \/ m.uuid \in m_SendFileMap /\ WriteBlock(BlockAt(m.uuid, m.pos))
         \/ UNCHANGED <<blocksOut, trouble>>
  /\ UNCHANGED <<sessionVars, toPhone, blocksIn, fileVars, m_SendFileMap, picked, phoneVars>>

\* kDesktopMessageAckSendComplete: a line in the log.
OnAckSendComplete(c) ==
  /\ Reads(c, "AckSendComplete")
  /\ UNCHANGED <<sessionVars, toPhone, blocksIn, blocksOut, fileVars, m_SendFileMap,
                 picked, phoneVars, trouble>>

\* Fault: a block that fills the last byte does not complete the file.
ReceivedShort(context, u, data, n) ==
  LET size == context.receivedSize + Len(data)
  IN  [context EXCEPT !.receivedSize = size, !.written = @ + n,
                      !.complete = size > FileSize[u]]

\* Fault: a file is complete once its last block is due.
ReceivedEager(context, u, data, n) ==
  LET size == context.receivedSize + Len(data)
  IN  [context EXCEPT !.receivedSize = size, !.written = @ + n,
                      !.complete = size + BLOCK_SIZE >= FileSize[u]]

\* Fault: the position counts blocks of full size.
ReceivedFull(context, u, data, n) ==
  LET size == context.receivedSize + BLOCK_SIZE
  IN  [context EXCEPT !.receivedSize = size, !.written = @ + n,
                      !.complete = size >= FileSize[u]]

\* The context after a block of which n bytes could be written: all of it
\* counts.
Received(context, u, data, n) ==
  LET size == context.receivedSize + Len(data)
  IN  [context EXCEPT !.receivedSize = size, !.written = @ + n,
                      !.complete = size >= FileSize[u]]

\* Fault: the QFile was opened to append.
WrittenAtEnd(content, pos, u, data) ==
  content \o [i \in DOMAIN data |-> <<u, data[i]>>]

\* The file after a QFile that stands at pos has written to it.
Written(content, pos, u, data) ==
  LET end == pos + Len(data)
      length == IF data # <<>> /\ end > Len(content) THEN end ELSE Len(content)
  IN  [i \in 1 .. length |->
         IF i \in pos + 1 .. end THEN <<u, data[i - pos]>>
         ELSE IF i <= Len(content) THEN content[i] ELSE Gap]

\* A block of an unknown file is dropped.  The QFile of a complete one is gone.
\* Nobody looks at how much of the block was written.
OnReadData(d) ==
  /\ conn[d] = "open"
  /\ blocksIn[d] # <<>>
  /\ blocksIn' = [blocksIn EXCEPT ![d] = Tail(@)]
  /\ LET u == Head(blocksIn[d]).uuid
         data == Head(blocksIn[d]).data
         old == m_ReceiveFileMap[u]
     IN  IF old = Null
           THEN UNCHANGED <<toPhone, fileVars, trouble>>
           ELSE IF old.complete
           THEN trouble' = "dangling" /\ UNCHANGED <<toPhone, fileVars>>
           ELSE \E n \in 0 .. Len(data) :
             LET context == Received(old, u, data, n)
             IN  /\ context.receivedSize - context.written <= MaxLost[u]
                 /\ disk' = [disk EXCEPT ![FileName[u]] =
                                Written(@, old.written, u, SubSeq(data, 1, n))]
                 /\ m_ReceiveFileMap' = [m_ReceiveFileMap EXCEPT ![u] = context]
                 /\ sendMessage(context.controlSocket,
                                IF context.complete THEN "AckSendComplete" ELSE "AckSendFile",
                                u, context.receivedSize)
  /\ UNCHANGED <<sessionVars, toServer, blocksOut, m_SendFileMap, picked, phoneVars>>

\* The button of the main window queues a call of sendFile.
PickFile(f) ==
  /\ window = "Widget"
  /\ f \notin picked \cup m_SendFileMap
  /\ picked' = picked \cup {f}
  /\ UNCHANGED <<sessionVars, netVars, fileVars, m_SendFileMap, phoneVars, trouble>>

\* sendFile: nothing happens if the file is there no more; the offer is lost
\* when there is no control socket.
SendFile(f) ==
  /\ f \in picked
  /\ picked' = picked \ {f}
  /\ \/ UNCHANGED <<m_SendFileMap, toPhone, trouble>>
     \/ /\ m_SendFileMap' = m_SendFileMap \cup {f}
        /\ IF m_ControlSocket = Null
             THEN UNCHANGED <<toPhone, trouble>>
             ELSE sendMessage(m_ControlSocket, "SendFile", f, 0)
  /\ UNCHANGED <<sessionVars, toServer, blocksIn, blocksOut, fileVars, phoneVars>>

ServerReads(c) == OnSendFile(c) \/ OnAckSendFile(c) \/ OnAckSendComplete(c)

-----------------------------------------------------------------------------
(* The phone.                                                               *)

Sends(c, type, uuid, pos) ==
  /\ conn[c] = "open"
  /\ toServer' = [toServer EXCEPT ![c] = Append(@, [type |-> type, uuid |-> uuid, pos |-> pos])]

OfferFile(u) ==
  /\ upload[u] = "idle"
  /\ \E c \in Controls : Sends(c, "SendFile", u, 0)
  /\ upload' = [upload EXCEPT ![u] = "offered"]
  /\ UNCHANGED <<sessionVars, toPhone, blocksIn, blocksOut, fileVars, m_SendFileMap,
                 picked, downloaded, trouble>>

\* An acknowledgement asks for the next block or ends the upload; an offer is
\* taken.
PhoneReads(c) ==
  /\ conn[c] = "open" /\ toPhone[c] # <<>>
  /\ toPhone' = [toPhone EXCEPT ![c] = Tail(@)]
  /\ LET m == Head(toPhone[c])
     IN  \/ /\ m.type = "AckSendFile"
            /\ \E d \in Datas :
                 conn[d] = "open" /\ blocksIn' = [blocksIn EXCEPT ![d] = Append(@, BlockAt(m.uuid, m.pos))]
            /\ UNCHANGED <<toServer, upload>>
         \/ /\ m.type = "AckSendComplete"
            /\ upload' = [upload EXCEPT ![m.uuid] = "done"]
            /\ UNCHANGED <<toServer, blocksIn>>
         \/ /\ m.type = "SendFile"
            /\ Sends(c, "AckSendFile", m.uuid, 0)
            /\ UNCHANGED <<blocksIn, upload>>
  /\ UNCHANGED <<sessionVars, blocksOut, fileVars, m_SendFileMap, picked, downloaded, trouble>>

PhoneReadsBlock(d) ==
  /\ conn[d] = "open" /\ blocksOut[d] # <<>>
  /\ blocksOut' = [blocksOut EXCEPT ![d] = Tail(@)]
  /\ LET f == Head(blocksOut[d]).uuid
         got == downloaded[f] \o Head(blocksOut[d]).data
     IN  /\ downloaded' = [downloaded EXCEPT ![f] = got]
         /\ \E c \in Controls :
              Sends(c, IF Len(got) >= FileSize[f] THEN "AckSendComplete" ELSE "AckSendFile", f, Len(got))
  /\ UNCHANGED <<sessionVars, toPhone, blocksIn, fileVars, m_SendFileMap, picked, upload, trouble>>

-----------------------------------------------------------------------------
Step ==
  \/ Connects
  \/ \E c \in Controls : ControlLost(c) \/ ServerReads(c) \/ PhoneReads(c)
  \/ \E d \in Datas : DataLost(d) \/ OnReadData(d) \/ PhoneReadsBlock(d)
  \/ \E f \in Downloads : PickFile(f) \/ SendFile(f)
  \/ \E u \in Uploads : OfferFile(u)

\* What a program does after it lost its way is not described.
Next == trouble = "none" /\ Step

\* The server thread handles what arrives, the phone answers the messages it
\* reads.
Fairness ==
  /\ \A c \in Controls : WF_vars(trouble = "none" /\ ServerReads(c)) /\ WF_vars(trouble = "none" /\ PhoneReads(c))
  /\ \A d \in Datas : WF_vars(trouble = "none" /\ OnReadData(d))

Spec == Init /\ [][Next]_vars /\ Fairness

-----------------------------------------------------------------------------
(* Properties.                                                              *)

\* Where on a channel the messages or blocks of a file are.
Places(x, channel) ==
  UNION {{c} \X {i \in DOMAIN channel[c] : channel[c][i].uuid = x} : c \in DOMAIN channel}

\* Whatever else goes on, at most one message or block of a file is under way:
\* each step of either side needs the answer to the one before.
OneUnderWay ==
  \A x \in Uploads \cup Downloads :
    \A k \in DOMAIN netVars : \A p \in Places(x, netVars[k]) :
      \A l \in DOMAIN netVars : \A q \in Places(x, netVars[l]) : k = l /\ p = q

\* Another upload of the same name was taken on.
Shares(u) == \E v \in Uploads \ {u} : FileName[v] = FileName[u] /\ m_ReceiveFileMap[v] # Null

Image(u, n) == [i \in 1 .. n |-> <<u, i>>]

\* A byte at place i of the file n.
AtItsPlace(byte, n, i) ==
  LET context == m_ReceiveFileMap[byte[1]]
  IN  /\ FileName[byte[1]] = n
      /\ byte[2] >= i
      /\ context # Null
      /\ context.written = context.receivedSize => byte[2] = i

\* The phone's copy of a download is a prefix of it.  What the desktop has of
\* an upload are the bytes that were written, and a prefix of the size the
\* context says if every write succeeded.  Uploads that share a name spoil
\* each other's file, but even then each byte on the disk is at the place it
\* has in its upload, or before that where bytes in front of it were not
\* written.
FilesArePrefixes ==
  /\ \A u \in Uploads :
       LET context == m_ReceiveFileMap[u]
           content == disk[FileName[u]]
       IN  context # Null /\ ~Shares(u) =>
             /\ Len(content) = context.written
             /\ context.written = context.receivedSize => content = Image(u, context.receivedSize)
  /\ \A n \in Names : \A i \in DOMAIN disk[n] : disk[n][i] # Gap => AtItsPlace(disk[n][i], n, i)
  /\ \A f \in Downloads :
       downloaded[f] = Bytes(0, Len(downloaded[f])) /\ Len(downloaded[f]) <= FileSize[f]

\* The phone believes a file is uploaded only if the desktop was given all of
\* it, written or not, and every position it is told is that of the next byte
\* the desktop was not given.
AcksAreTrue ==
  /\ \A u \in Uploads :
       upload[u] = "done" => m_ReceiveFileMap[u].complete /\ m_ReceiveFileMap[u].receivedSize = FileSize[u]
  /\ \A c \in Controls : \A i \in 1 .. Len(toPhone[c]) :
       LET m == toPhone[c][i]
           context == m_ReceiveFileMap[m.uuid]
       IN  m.type # "SendFile" /\ context # Null =>
             /\ m.pos = context.receivedSize
             /\ m.type = "AckSendComplete" <=> context.complete

\* A connection the phone made has ended.
Lost == \E s \in Controls \cup Datas : conn[s] \in {"closed", "deleted"}

\* The uploads the desktop took on all end, unless a connection does: the two
\* connections, whose messages race, never leave both sides waiting.
UploadsEnd ==
  (\E u \in Uploads : m_ReceiveFileMap[u] # Null /\ \E d \in Datas : conn[d] = "open")
    ~> ((\A u \in Uploads : m_ReceiveFileMap[u] # Null => upload[u] = "done") \/ Lost)

\* As long as no connection ends no assertion fails and nothing is used that
\* was deleted, neither a socket nor the QFile of a complete upload: it takes
\* the loss of a connection to make a pointer of the server stale.
TroubleNeedsLoss == trouble # "none" => Lost

\* An upload as its sender sees it.
Up(u) == INSTANCE Transfer WITH
  Size <- FileSize[u],
  Block <- BLOCK_SIZE,
  held <- IF m_ReceiveFileMap[u] = Null THEN 0 ELSE m_ReceiveFileMap[u].receivedSize,
  state <- IF upload[u] = "done" THEN "known"
           ELSE IF m_ReceiveFileMap[u] = Null THEN "none"
           ELSE IF m_ReceiveFileMap[u].complete THEN "complete" ELSE "open"

\* Messages and blocks on connections that come and go add up to transfers:
\* each upload grows block by block, is never begun twice and is known to be
\* complete only when it is.
AreTransfers ==
  /\ \A u \in Uploads : Up(u)!Init
  /\ [][\A u \in Uploads : [Up(u)!Next]_(Up(u)!vars)]_vars

-----------------------------------------------------------------------------
(* Why they hold: what is under way of a file is what its two sides wait    *)
(* for.                                                                     *)

UnderWay(channel) == UNION {Range(channel[c]) : c \in DOMAIN channel}

Absent(x, channel) == \A m \in UnderWay(channel) : m.uuid # x

\* The desktop is told of an upload once, before it has a context; it
\* acknowledges what it has, and is sent the block it asked for.
UploadInv(u) ==
  LET context == m_ReceiveFileMap[u]
  IN  /\ \A m \in UnderWay(toServer) : m.uuid = u => m.type = "SendFile" /\ context = Null
      /\ \A m \in UnderWay(toPhone) : m.uuid = u =>
           /\ m.type # "SendFile"
           /\ m.type = "AckSendComplete" <=> context # Null /\ context.complete
           /\ context # Null => m.pos = context.receivedSize
      /\ \A b \in UnderWay(blocksIn) : b.uuid = u /\ context # Null =>
           ~context.complete /\ b = BlockAt(u, context.receivedSize)
      /\ Absent(u, blocksOut)
      /\ context # Null =>
           IF context.complete THEN context.receivedSize = FileSize[u]
           ELSE context.receivedSize = 0 \/ context.receivedSize < FileSize[u]
      /\ context # Null => context.written <= context.receivedSize
      /\ upload[u] = "idle" =>
           context = Null /\ Absent(u, toServer) /\ Absent(u, toPhone) /\ Absent(u, blocksIn)
      /\ upload[u] = "done" => context # Null /\ context.complete

\* The phone is told of a download once, before it has any of it; it asks for
\* the next missing byte, and is sent the block there.
DownloadInv(f) ==
  LET size == Len(downloaded[f])
  IN  /\ \A m \in UnderWay(toServer) : m.uuid = f =>
           m.type = "AckSendComplete" \/ (m.type = "AckSendFile" /\ m.pos = size)
      /\ \A m \in UnderWay(toPhone) : m.uuid = f => m.type = "SendFile" /\ size = 0
      /\ Absent(f, blocksIn)
      /\ \A b \in UnderWay(blocksOut) : b.uuid = f => b = BlockAt(f, size)
      /\ f \notin m_SendFileMap =>
           size = 0 /\ Absent(f, toServer) /\ Absent(f, toPhone) /\ Absent(f, blocksOut)
      /\ f \in picked => f \notin m_SendFileMap

\* The inductive invariant.
IInv ==
  /\ TypeOK /\ OneUnderWay
  /\ \A u \in Uploads : UploadInv(u)
  /\ \A f \in Downloads : DownloadInv(f)
  /\ FilesArePrefixes
  /\ m_DataSocket # Null => conn[m_DataSocket] # "new"
  /\ TroubleNeedsLoss

-----------------------------------------------------------------------------
\* assert(written == header->blockSize + sizeof(DataHeader))
BlockIsWritten == trouble # "assert"

=============================================================================
