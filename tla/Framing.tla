------------------------------ MODULE Framing ------------------------------
(***************************************************************************)
(* How the two sockets of a session cut packages out of the byte stream     *)
(* (DeviceControlSocket and DeviceDataSocket in Network/DeviceSocket.cpp,   *)
(* sendMessage in Network/DesktopServer.cpp).  A control package is a size  *)
(* as a varint and a message, a data package a DataHeader with the size of  *)
(* its data and the data.  The stream is cut anywhere on its way.           *)
(*                                                                         *)
(* A byte of a varint is its value, the bytes of a DataHeader are the       *)
(* blockSize it holds, the bytes of the k-th package's body are all -k, so  *)
(* that a byte that goes astray shows.  The phone writes its varints as     *)
(* sendMessage does.  A message whose fields all have their defaults, of    *)
(* type kDesktopMessageNone, is empty: its package is a varint of 0 alone.  *)
(***************************************************************************)
EXTENDS Integers, Sequences, SequencesExt

CONSTANTS
  Sizes,        \* for each kind of socket in its domain, the sizes of the bodies
  HeaderSize,   \* sizeof(DataHeader), 24 in the code
  Word,         \* the first number an uint64_t cannot hold
  MaxPackages   \* bound: packages sent on each kind of socket

Kinds == DOMAIN Sizes

ASSUME FramingAssumption ==
  /\ Kinds \subseteq {"control", "data"}
  /\ "control" \in Kinds => Sizes["control"] \subseteq Nat
  /\ HeaderSize \in Nat \ {0} /\ Word \in Nat /\ Word > HeaderSize
  /\ "data" \in Kinds => Sizes["data"] \subseteq 0 .. Word - 1
  /\ MaxPackages \in [Kinds -> Nat]

VARIABLES
  kind,                  \* which of the two sockets this is
  sent,                  \* the sizes of the bodies sent
  wire,                  \* bytes that have not arrived
  inSlot,                \* the readyRead slot is in its loop
  arrived,               \* bytes for readAll
  m_Bytes,
  m_CurrentPackageSize,
  received,              \* what OnReadMessage or OnReadData was emitted with
  closed,                \* the socket closed itself
  starts                 \* history: where in the stream each package starts, and the next will

vars == <<kind, sent, wire, inSlot, arrived, m_Bytes, m_CurrentPackageSize, received, closed, starts>>

TypeOK ==
  /\ kind \in Kinds
  /\ sent \in Seq(Sizes[kind]) /\ Len(sent) <= MaxPackages[kind]
  /\ wire \in Seq(Int) /\ arrived \in Seq(Int) /\ m_Bytes \in Seq(Int)
  /\ inSlot \in BOOLEAN /\ closed \in BOOLEAN
  /\ IF kind = "control" THEN m_CurrentPackageSize \in 0 .. 255 /\ ~closed
     ELSE /\ m_CurrentPackageSize \in 0 .. Word - 1
          /\ m_CurrentPackageSize \in 1 .. HeaderSize - 1 => closed
  /\ received \in Seq(Seq(Int))
  /\ starts \in Seq(Nat)

Init ==
  /\ kind \in Kinds
  /\ sent = <<>> /\ wire = <<>> /\ arrived = <<>> /\ m_Bytes = <<>> /\ received = <<>>
  /\ inSlot = FALSE /\ closed = FALSE
  /\ m_CurrentPackageSize = 0
  /\ starts = <<0>>

-----------------------------------------------------------------------------
(* The varint.                                                              *)

computeRawVarint32Size(value) ==
  IF value < 2^7 THEN 1
  ELSE IF value < 2^14 THEN 2
  ELSE IF value < 2^21 THEN 3
  ELSE IF value < 2^28 THEN 4 ELSE 5

\* Groups of seven bits, least significant first, all but the last marked.
writeRawVarint32(value) ==
  LET groups == computeRawVarint32Size(value)
  IN  [i \in 1 .. groups |->
         ((value \div 128^(i - 1)) % 128) + (IF i < groups THEN 128 ELSE 0)]

\* The first byte is held in a uint8_t, which is never negative: whatever it
\* is, it is the size, and one byte is taken.
readRawVarint32(bytes) ==
  IF bytes = <<>> THEN [size |-> 0, varSize |-> 0] ELSE [size |-> Head(bytes), varSize |-> 1]

-----------------------------------------------------------------------------
(* The stream.                                                              *)

Body(k, size) == [i \in 1 .. size |-> -k]

DataHeader(size) == [i \in 1 .. HeaderSize |-> size]

\* The k-th package of the stream.
Package(k, size) ==
  (IF kind = "control" THEN writeRawVarint32(size) ELSE DataHeader(size)) \o Body(k, size)

\* sendMessage of either side, or a block of the phone's.
Send(size) ==
  /\ ~closed
  /\ Len(sent) < MaxPackages[kind]
  /\ sent' = Append(sent, size)
  /\ LET package == Package(Len(sent) + 1, size)
     IN  /\ wire' = wire \o package
         /\ starts' = Append(starts, starts[Len(starts)] + Len(package))
  /\ UNCHANGED <<kind, inSlot, arrived, m_Bytes, m_CurrentPackageSize, received, closed>>

\* The first n bytes arrive; readyRead is emitted.
Arrive(n) ==
  /\ ~inSlot /\ ~closed
  /\ n <= Len(wire)
  /\ arrived' = arrived \o SubSeq(wire, 1, n)
  /\ wire' = SubSeq(wire, n + 1, Len(wire))
  /\ inSlot' = TRUE
  /\ UNCHANGED <<kind, sent, m_Bytes, m_CurrentPackageSize, received, closed, starts>>

-----------------------------------------------------------------------------
(* The slots.                                                               *)

\* Fault: the loop ends after one package.
GoesOnOnce(size, bytes) == FALSE

\* Fault: the loop goes on while there are bytes.
GoesOnWaiting(size, bytes) == bytes # <<>>

\* The conditions of the loops.
GoesOn(size, bytes) ==
  size = 0 /\ Len(bytes) >= (IF kind = "control" THEN 2 ELSE HeaderSize)

\* Fault: the varint stays in front of the message.
ReadSizeKeeps(bytes) ==
  LET header == readRawVarint32(bytes)
  IN  IF m_CurrentPackageSize # 0 THEN [size |-> m_CurrentPackageSize, rest |-> bytes]
      ELSE [size |-> header.size, rest |-> bytes]

\* A control package: the size in force once the varint was looked at, and the
\* bytes that are left.  A varint of 0 is not taken, as if it had not arrived.
ReadSize(bytes) ==
  LET header == readRawVarint32(bytes)
  IN  IF m_CurrentPackageSize # 0 THEN [size |-> m_CurrentPackageSize, rest |-> bytes]
      ELSE IF header.size > 0
      THEN [size |-> header.size, rest |-> SubSeq(bytes, header.varSize + 1, Len(bytes))]
      ELSE [size |-> 0, rest |-> bytes]

\* A data package: the size in force once the header was looked at; it wraps.
PackageSize(bytes) ==
  IF m_CurrentPackageSize # 0 \/ Len(bytes) < HeaderSize THEN m_CurrentPackageSize
  ELSE (Head(bytes) + HeaderSize) % Word

\* The end of a turn: the first size bytes are a package, of which emitted is
\* passed on, or they are not all there.
EndTurn(size, bytes, whole, emitted) ==
  LET left == IF whole THEN SubSeq(bytes, size + 1, Len(bytes)) ELSE bytes
  IN  /\ received' = IF whole THEN Append(received, emitted) ELSE received
      /\ m_Bytes' = left
      /\ m_CurrentPackageSize' = IF whole THEN 0 ELSE size
      /\ inSlot' = GoesOn(m_CurrentPackageSize', left)
      /\ UNCHANGED closed

\* One turn of DeviceControlSocket's loop.
ControlTurn ==
  /\ kind = "control" /\ inSlot
  /\ arrived' = <<>>
  /\ LET header == ReadSize(m_Bytes \o arrived)
         size == header.size
     IN  EndTurn(size, header.rest, size # 0 /\ Len(header.rest) >= size, SubSeq(header.rest, 1, size))
  /\ UNCHANGED <<kind, sent, wire, starts>>

\* One turn of DeviceDataSocket's loop.  OnReadData is emitted with all of
\* m_Bytes, whatever follows the block in it.
DataTurn ==
  /\ kind = "data" /\ inSlot
  /\ arrived' = <<>>
  /\ LET bytes == m_Bytes \o arrived
         size == PackageSize(bytes)
     IN  \/ /\ m_CurrentPackageSize = 0 /\ Len(bytes) >= HeaderSize /\ size < HeaderSize
            /\ closed' = TRUE /\ inSlot' = FALSE
            /\ m_Bytes' = bytes /\ m_CurrentPackageSize' = size
            /\ UNCHANGED received
         \/ /\ m_CurrentPackageSize # 0 \/ Len(bytes) < HeaderSize \/ size >= HeaderSize
            /\ EndTurn(size, bytes, size >= HeaderSize /\ Len(bytes) >= size, bytes)
  /\ UNCHANGED <<kind, sent, wire, starts>>

Turn == ControlTurn \/ DataTurn

Next ==
  \/ \E size \in Sizes[kind] : Send(size)
  \/ \E n \in 1 .. Len(wire) : Arrive(n)
  \/ Turn

\* The server thread runs the slot it is in.
Spec == Init /\ [][Next]_vars /\ WF_vars(Turn)

-----------------------------------------------------------------------------
(* Properties.                                                              *)

Bodies == [k \in DOMAIN sent |-> Body(k, sent[k])]

\* What the handlers make of what they are given: OnReadMessage the message,
\* OnReadData the blockSize bytes after the header; 0 stands for a byte beyond
\* the end.
Understood(bytes) ==
  IF kind = "control" THEN bytes
  ELSE [i \in 1 .. Head(bytes) |->
          IF HeaderSize + i <= Len(bytes) THEN bytes[HeaderSize + i] ELSE 0]

\* The handlers find in what they are given, in order, what was sent, wherever
\* the stream was cut and also when the next package has arrived in part.
ReceivedIsPrefix == IsPrefix([i \in DOMAIN received |-> Understood(received[i])], Bodies)

\* The package after those emitted is an empty message.
EmptyNext ==
  kind = "control" /\ Len(received) < Len(sent) /\ sent[Len(received) + 1] = 0

\* Nothing stays behind: when all bytes have arrived and the slot is over,
\* every package was emitted - no later readyRead will come to its rescue - or
\* the socket closed itself, for a block whose size does not fit; and only an
\* empty message that is the last one waits for a byte behind it.
AllIsEmitted ==
  wire = <<>> /\ ~inSlot =>
    IF closed THEN \E k \in DOMAIN sent : sent[k] + HeaderSize >= Word
    ELSE \/ Len(received) = Len(sent) /\ m_Bytes = <<>>
         \/ EmptyNext /\ Len(sent) = Len(received) + 1 /\ Len(m_Bytes) = 1

\* Nothing keeps the server thread in the slot for ever but an empty message
\* with a byte behind it, whose varint is looked at again and again.
SlotEnds == inSlot ~> (~inSlot \/ (EmptyNext /\ Len(m_Bytes) > 1))

-----------------------------------------------------------------------------
(* Why they hold: the bytes that are left are those of the stream from the  *)
(* place the slot has got to.                                               *)

Rest == m_Bytes \o arrived \o wire

\* The slot has taken the packages it emitted and the varint of the next one,
\* if it knows its size; a DataHeader is taken with its block.
Taken ==
  starts[Len(received) + 1] + (IF kind = "control" /\ m_CurrentPackageSize # 0 THEN 1 ELSE 0)

Packages == [k \in DOMAIN sent |-> Package(k, sent[k])]

\* A package starts where the last one ends.
Consecutive(packages, places) ==
  /\ Len(places) = Len(packages) + 1 /\ places[1] = 0
  /\ \A k \in 1 .. Len(packages) : places[k + 1] = places[k] + Len(packages[k])
  /\ \A k \in 1 .. Len(places) : places[k] <= places[Len(places)]

\* What is left ends with the last package, and each byte of a package that is
\* left is at its place.
Placed(packages, places, rest, taken) ==
  /\ taken + Len(rest) = places[Len(places)]
  /\ \A k \in 1 .. Len(packages) : \A i \in 1 .. Len(packages[k]) :
       places[k] + i > taken => rest[places[k] + i - taken] = packages[k][i]

\* The size in force is that of the next package.
SizeIsNext ==
  /\ Len(received) <= Len(sent)
  /\ m_CurrentPackageSize # 0 \/ closed => Len(received) < Len(sent)
  /\ Len(received) < Len(sent) =>
       LET size == sent[Len(received) + 1]
       IN  IF closed THEN size + HeaderSize >= Word
           ELSE m_CurrentPackageSize \in {0, IF kind = "control" THEN size ELSE size + HeaderSize}

\* Between two slots a header or a body is incomplete, unless the socket closed.
SlotWaits ==
  /\ arrived # <<>> => inSlot
  /\ closed => ~inSlot
  /\ ~inSlot /\ ~closed =>
       IF m_CurrentPackageSize # 0 THEN Len(m_Bytes) < m_CurrentPackageSize
       ELSE Len(m_Bytes) < (IF kind = "control" THEN 2 ELSE HeaderSize)

\* What was emitted is read as what was sent.
EachUnderstood == \A k \in DOMAIN received : Understood(received[k]) = Body(k, sent[k])

\* The inductive invariant.
IInv ==
  /\ TypeOK /\ SizeIsNext /\ SlotWaits /\ EachUnderstood
  /\ Consecutive(Packages, starts) /\ Placed(Packages, starts, Rest, Taken)

=============================================================================
