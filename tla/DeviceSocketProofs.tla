------------------------ MODULE DeviceSocketProofs ------------------------
(***************************************************************************)
(* Proofs about DeviceSocket, for any set of sockets, any number of bytes   *)
(* and any buffer sizes: typing, the inductive invariant IInv, the safety   *)
(* properties it implies, and the refinement of BytePipe.                   *)
(***************************************************************************)
EXTENDS DeviceSocket, TLAPS

\* Before the first connection.
LEMMA InitInvariant == Init => IInv
<1>1. Init => TypeOK
  BY DeviceSocketAssumption DEF Init, TypeOK, Socket, NewSocket, Reader, Link
<1>2. Init => SocketsInv
  <2> SUFFICES ASSUME Init, NEW s \in Sockets PROVE SocketInv(s)
    BY DEF SocketsInv
  <2>1. /\ sock[s] = NewSocket /\ slot[s] = "none"
        /\ reader[s] = [pc |-> "idle", bufSize |-> 0, got |-> 0]
    BY DEF Init
  <2> QED BY <2>1 DEF SocketInv, Untouched, LendingProtocol, BytesAccounted,
     EventPending, QuitMeansOver, InFlight, Parked, Quitting, NewSocket
<1> QED BY <1>1, <1>2 DEF IInv

\* One socket is given a new record.
LEMMA SocketSet ==
  ASSUME TypeOK, NEW s \in Sockets, NEW r \in Socket
  PROVE  [sock EXCEPT ![s] = r] \in [Sockets -> Socket]
<1> HIDE DEF Socket
<1> QED BY DEF TypeOK

\* One reader is given a new state.
LEMMA ReaderSet ==
  ASSUME TypeOK, NEW s \in Sockets, NEW p \in {"idle", "checked", "waiting", "woken", "eof"}
  PROVE  [reader EXCEPT ![s].pc = p] \in [Sockets -> Reader]
<1>1. reader[s] \in Reader
  BY DEF TypeOK
<1>2. [reader[s] EXCEPT !.pc = p] \in Reader
  BY <1>1 DEF Reader
<1>3. PICK q \in Reader : q = [reader[s] EXCEPT !.pc = p]
  BY <1>2
<1>4. [reader EXCEPT ![s] = q] \in [Sockets -> Reader]
  BY DEF TypeOK
<1>5. [reader EXCEPT ![s].pc = p] = [reader EXCEPT ![s] = [reader[s] EXCEPT !.pc = p]]
  BY Zenon
<1> QED BY <1>3, <1>4, <1>5, Zenon

\* The members that the steps of TypeStep set.
LEMMA SocketTypes ==
  ASSUME NEW r \in Socket
  PROVE  /\ [r EXCEPT !.m_recvData = FALSE] \in Socket
         /\ [r EXCEPT !.link = "down"] \in Socket
         /\ [r EXCEPT !.open = FALSE] \in Socket
         /\ [r EXCEPT !.avail = 0, !.link = "down"] \in Socket
<1>1. [r EXCEPT !.m_recvData = FALSE] \in Socket
  BY DEF Socket
<1>2. [r EXCEPT !.link = "down"] \in Socket
  BY DEF Socket, Link
<1>3. [r EXCEPT !.open = FALSE] \in Socket
  BY DEF Socket
<1>4. [r EXCEPT !.avail = 0, !.link = "down"] \in Socket
  BY DEF Socket, Link
<1> QED BY <1>1, <1>2, <1>3, <1>4

\* What quitNotify does to the members.
LEMMA AfterQuitFields ==
  ASSUME NEW q \in Socket
  PROVE  LET r == AfterQuit(q) IN
         /\ r \in Socket /\ r.m_quit /\ ~r.m_buffer
         /\ r.avail = q.avail /\ r.taken = q.taken
         /\ r.link = q.link /\ r.open = q.open
         /\ q.m_buffer => r.m_recvData /\ r.m_dataSize = 0
         /\ ~q.m_buffer => /\ r.m_recvData = q.m_recvData
                           /\ r.m_dataSize = q.m_dataSize
BY DEF AfterQuit, Released, Socket

\* Every step keeps the types.
LEMMA TypeStep == TypeOK /\ [Next]_vars => TypeOK'
<1> USE DeviceSocketAssumption
<1> SUFFICES ASSUME TypeOK, [Next]_vars PROVE TypeOK'
  OBVIOUS
<1> USE DEF TypeOK
<1>1. ASSUME NEW s \in Sockets, RecvEnter(s) PROVE TypeOK'
  BY <1>1 DEF RecvEnter, Reader
<1>2. ASSUME NEW s \in Sockets, RecvArm(s) PROVE TypeOK'
  BY <1>2 DEF RecvArm, Reader, Socket
<1>3. ASSUME NEW s \in Sockets, RecvWaitAgain(s) \/ SpuriousWake(s) PROVE TypeOK'
  <2>1. /\ sock' = sock /\ slot' = slot
        /\ \E p \in {"waiting", "woken"} : reader' = [reader EXCEPT ![s].pc = p]
    BY <1>3 DEF RecvWaitAgain, SpuriousWake
  <2>2. PICK p \in {"waiting", "woken"} : reader' = [reader EXCEPT ![s].pc = p]
    BY <2>1
  <2>3. p \in {"idle", "checked", "waiting", "woken", "eof"}
    OBVIOUS
  <2>4. reader' \in [Sockets -> Reader]
    BY <2>2, <2>3, ReaderSet, Zenon
  <2> QED BY <2>1, <2>4, Zenon
<1>4. ASSUME NEW s \in Sockets, RecvReturn(s) PROVE TypeOK'
  <2>1. sock' \in [Sockets -> Socket]
    <3>1. sock[s] \in Socket
      OBVIOUS
    <3>2. [sock[s] EXCEPT !.m_recvData = FALSE] \in Socket
      BY <3>1, SocketTypes, Zenon
    <3>3. sock' = [sock EXCEPT ![s] = [sock[s] EXCEPT !.m_recvData = FALSE]]
      BY <1>4, Zenon DEF RecvReturn
    <3> QED BY <3>2, <3>3, SocketSet, Zenon
  <2>2. reader[s].got + sock[s].m_dataSize \in Nat
    BY DEF Reader, Socket
  <2>3. reader' \in [Sockets -> Reader]
    <3> DEFINE pc == IF sock[s].m_dataSize = 0 THEN "eof" ELSE "idle"
               got == reader[s].got + sock[s].m_dataSize
    <3>1. pc \in {"idle", "eof"} /\ got \in Nat
      BY <2>2
    <3>2. reader' = [reader EXCEPT ![s].pc = pc, ![s].got = got]
      BY <1>4 DEF RecvReturn
    <3> HIDE DEF pc, got
    <3>3. reader[s] \in Reader
      OBVIOUS
    <3>4. PICK q \in Reader : q = [reader[s] EXCEPT !.pc = pc, !.got = got]
      BY <3>1, <3>3 DEF Reader
    <3>5. reader' = [reader EXCEPT ![s] = q]
      <4>1. reader \in [Sockets -> Reader]
        OBVIOUS
      <4> HIDE DEF Reader
      <4> QED BY <3>2, <3>4, <4>1
    <3> QED BY <3>5
  <2> QED BY <1>4, <2>1, <2>3 DEF RecvReturn
<1>5. ASSUME NEW s \in Sockets, NEW r \in Socket, OnReadyRead(s, r), UNCHANGED slot
      PROVE  TypeOK'
  <2>1. reader' \in [Sockets -> Reader]
    BY <1>5 DEF OnReadyRead, WakeOne, Reader
  <2>2. Filled(r) \in Socket
    <3>1. ReadSize(r) \in Nat /\ r.avail - ReadSize(r) \in Nat
      BY DEF ReadSize, Socket
    <3>2. r.taken + ReadSize(r) \in Nat
      BY <3>1 DEF Socket
    <3> QED BY <3>1, <3>2 DEF Filled, Socket
  <2>3. sock' \in [Sockets -> Socket]
    BY <1>5, <2>2 DEF OnReadyRead
  <2> QED BY <1>5, <2>1, <2>3
<1>6. ASSUME NEW s \in Sockets, Accept(s) PROVE TypeOK'
  BY <1>6 DEF Accept, Socket, NewSocket, Link
<1>7. ASSUME NEW s \in Sockets, DataArrives(s) PROVE TypeOK'
  <2>1. PICK n \in 1 .. MaxBytes : OnReadyRead(s, [sock[s] EXCEPT !.avail = @ + n])
    BY <1>7 DEF DataArrives
  <2>2. [sock[s] EXCEPT !.avail = @ + n] \in Socket
    BY DEF Socket
  <2> QED BY <1>5, <1>7, <2>1, <2>2 DEF DataArrives
<1>8. ASSUME NEW s \in Sockets, HandleSocketEvent(s) PROVE TypeOK'
  <2>1. [sock[s] EXCEPT !.events = @ - 1] \in Socket
    BY <1>8 DEF HandleSocketEvent, Socket
  <2> QED BY <1>5, <1>8, <2>1 DEF HandleSocketEvent
<1>9. ASSUME NEW s \in Sockets, PeerDisconnects(s) \/ Close(s) PROVE TypeOK'
  <2>0. sock[s] \in Socket
    OBVIOUS
  <2>1. CASE PeerDisconnects(s)
    <3>1. [sock[s] EXCEPT !.link = "down"] \in Socket
      BY <2>0, SocketTypes, Zenon
    <3>2. /\ sock' = [sock EXCEPT ![s] = [sock[s] EXCEPT !.link = "down"]]
          /\ slot' = [slot EXCEPT ![s] = "disconnected"] /\ reader' = reader
      BY <2>1, Zenon DEF PeerDisconnects
    <3>3. sock' \in [Sockets -> Socket]
      BY <3>1, <3>2, SocketSet, Zenon
    <3> QED BY <3>2, <3>3
  <2>2. CASE Close(s)
    <3>1. [sock[s] EXCEPT !.open = FALSE] \in Socket
      BY <2>0, SocketTypes, Zenon
    <3>2. /\ sock' = [sock EXCEPT ![s] = [sock[s] EXCEPT !.open = FALSE]]
          /\ slot' = [slot EXCEPT ![s] = "aboutToClose"] /\ reader' = reader
      BY <2>2, Zenon DEF Close
    <3>3. sock' \in [Sockets -> Socket]
      BY <3>1, <3>2, SocketSet, Zenon
    <3> QED BY <3>2, <3>3
  <2> QED BY <1>9, <2>1, <2>2
<1>10. ASSUME NEW s \in Sockets, QuitNotify(s) PROVE TypeOK'
  <2>1. reader' \in [Sockets -> Reader]
    BY <1>10 DEF QuitNotify, WakeOne, Reader
  <2>2. sock[s] \in Socket /\ AfterQuit(sock[s]) \in Socket
    <3>1. sock[s] \in Socket
      OBVIOUS
    <3> QED BY <3>1, AfterQuitFields
  <2>3. [AfterQuit(sock[s]) EXCEPT !.avail = 0, !.link = "down"] \in Socket
    BY <2>2, SocketTypes, Zenon
  <2>4. sock' \in [Sockets -> Socket]
    <3>1. PICK r \in Socket : sock' = [sock EXCEPT ![s] = r]
      BY <1>10, <2>2, <2>3, Zenon DEF QuitNotify
    <3> QED BY <3>1, SocketSet, Zenon
  <2>5. slot' \in [Sockets -> {"none", "disconnected", "aboutToClose"}]
    BY <1>10 DEF QuitNotify
  <2> QED BY <2>1, <2>4, <2>5, Zenon
<1>11. CASE UNCHANGED vars
  BY <1>11 DEF vars
<1> QED
  BY <1>1, <1>2, <1>3, <1>4, <1>6, <1>7, <1>8, <1>9, <1>10, <1>11
  DEF Next, RecvStep, GuiStep

\* The members of every DeviceSocket keep their types: no counter of bytes or
\* of queued events goes below zero in onReadyRead or event().
THEOREM TypeCorrect == Spec => []TypeOK
BY InitInvariant, TypeStep, PTL DEF Spec, IInv

-----------------------------------------------------------------------------
(* SocketsInv is inductive.  Every step touches one socket: Frame reduces SocketsInv'   *)
(* to SocketInv of that socket.                                             *)

\* The other sockets are left alone.
Others(s) ==
  \A t \in Sockets \ {s} :
    sock'[t] = sock[t] /\ reader'[t] = reader[t] /\ slot'[t] = slot[t]

\* A step that changes socket s only and re-establishes SocketInv(s)
\* re-establishes it for all sockets.
LEMMA Frame ==
  ASSUME SocketsInv, NEW s \in Sockets, Others(s), SocketInv(s)'
  PROVE  SocketsInv'
<1> SUFFICES ASSUME NEW t \in Sockets, t # s PROVE SocketInv(t)'
  BY DEF SocketsInv
<1>1. SocketInv(t)
  BY DEF SocketsInv
<1>2. sock'[t] = sock[t] /\ reader'[t] = reader[t] /\ slot'[t] = slot[t]
  BY DEF Others
<1> QED
  BY <1>1, <1>2 DEF SocketInv, Untouched, LendingProtocol, BytesAccounted,
     EventPending, QuitMeansOver, InFlight, Parked, Quitting

\* The decoder thread's steps in subThreadRecvData preserve SocketsInv.
LEMMA RecvPreserves ==
  ASSUME TypeOK, SocketsInv, NEW s \in Sockets, RecvStep(s) \/ SpuriousWake(s)
  PROVE  SocketsInv'
<1> USE DeviceSocketAssumption DEF TypeOK
<1>1. SocketInv(s) /\ sock[s] \in Socket /\ reader[s] \in Reader
  BY DEF SocketsInv
<1> USE DEF SocketInv, Untouched, LendingProtocol, BytesAccounted,
            EventPending, QuitMeansOver, InFlight, Parked, Quitting
<1>2. CASE RecvEnter(s)
  <2>1. Others(s) /\ sock' = sock /\ slot' = slot
    BY <1>2 DEF RecvEnter, Others
  <2>2. PICK quit \in QuitReads(s) :
          reader' = [reader EXCEPT ![s].pc = IF quit THEN "eof" ELSE "checked"]
    BY <1>2 DEF RecvEnter
  <2>3. reader[s].pc = "idle" /\ sock[s].link # "none"
    BY <1>2 DEF RecvEnter
  <2>4. quit => Quitting(s)
    BY DEF QuitReads
  <2>5. SocketInv(s)'
    BY <1>1, <2>1, <2>2, <2>3, <2>4 DEF Reader, Socket
  <2> QED BY <2>1, <2>5, Frame
<1>3. CASE RecvArm(s)
  <2>1. Others(s)
    BY <1>3 DEF RecvArm, Others
  <2>2. SocketInv(s)'
    BY <1>1, <1>3 DEF RecvArm, Reader, Socket
  <2> QED BY <2>1, <2>2, Frame
<1>4. CASE RecvWaitAgain(s) \/ SpuriousWake(s)
  <2>1. Others(s)
    BY <1>4 DEF RecvWaitAgain, SpuriousWake, Others
  <2>2. SocketInv(s)'
    BY <1>1, <1>4 DEF RecvWaitAgain, SpuriousWake, Reader, Socket
  <2> QED BY <2>1, <2>2, Frame
<1>5. CASE RecvReturn(s)
  <2>1. Others(s)
    BY <1>5 DEF RecvReturn, Others
  <2>2. /\ sock[s].m_recvData /\ reader[s].pc = "woken" /\ ~sock[s].m_buffer
        /\ sock'[s] = [sock[s] EXCEPT !.m_recvData = FALSE]
        /\ slot' = slot
    BY <1>1, <1>5 DEF RecvReturn, Reader, Socket
  <2>3. /\ reader'[s].got = reader[s].got + sock[s].m_dataSize
        /\ reader'[s].bufSize = reader[s].bufSize
        /\ reader'[s].pc = IF sock[s].m_dataSize = 0 THEN "eof" ELSE "idle"
    BY <1>5 DEF RecvReturn, Reader
  <2>4. SocketInv(s)'
    BY <1>1, <2>2, <2>3 DEF Reader, Socket, NewSocket
  <2> QED BY <2>1, <2>4, Frame
<1> QED BY <1>2, <1>3, <1>4, <1>5 DEF RecvStep

\* r and q differ at most in the bytes and events that are waiting.
SameButData(r, q) ==
  /\ r.m_quit = q.m_quit /\ r.m_recvData = q.m_recvData
  /\ r.m_buffer = q.m_buffer /\ r.m_bufferSize = q.m_bufferSize
  /\ r.m_dataSize = q.m_dataSize /\ r.taken = q.taken
  /\ r.link = q.link /\ r.open = q.open

\* onReadyRead, run on a socket that just received bytes or lost its event,
\* preserves SocketsInv.
LEMMA ReadyReadPreserves ==
  ASSUME TypeOK, SocketsInv, NEW s \in Sockets, NEW r \in Socket,
         OnReadyRead(s, r), UNCHANGED slot,
         SameButData(r, sock[s]),
         sock[s].link # "none"
  PROVE  SocketsInv'
<1> USE DeviceSocketAssumption DEF TypeOK, SameButData
<1>1. SocketInv(s) /\ sock[s] \in Socket /\ reader[s] \in Reader
  BY DEF SocketsInv
<1>2. Others(s)
  BY DEF OnReadyRead, WakeOne, Others
<1> USE DEF SocketInv, Untouched, LendingProtocol, BytesAccounted,
            EventPending, QuitMeansOver, InFlight, Parked, Quitting
<1>3. CASE r.m_buffer /\ r.avail > 0
  <2>1. /\ sock'[s] = Filled(r)
        /\ reader' = [reader EXCEPT ![s].pc = IF @ = "waiting" THEN "woken" ELSE @]
    BY <1>3 DEF OnReadyRead, WakeOne
  <2>2. /\ reader[s].pc \in {"waiting", "woken"} /\ reader[s].bufSize > 0
        /\ sock[s].m_bufferSize = reader[s].bufSize
    BY <1>1, <1>3
  <2>3. ~sock[s].m_recvData
    BY <1>1, <1>3 DEF Socket
  <2>4. /\ ReadSize(r) \in Nat /\ ReadSize(r) > 0
        /\ ReadSize(r) <= r.m_bufferSize
    BY <1>3, <2>2 DEF ReadSize, Socket, Reader
  <2>5. SocketInv(s)'
    <3>1. /\ sock'[s].m_quit = sock[s].m_quit /\ sock'[s].m_recvData
          /\ ~sock'[s].m_buffer /\ sock'[s].m_dataSize = ReadSize(r)
          /\ sock'[s].taken = sock[s].taken + ReadSize(r)
          /\ sock'[s].link = sock[s].link /\ sock'[s].open = sock[s].open
      BY <2>1 DEF Filled, Socket
    <3>2. /\ reader'[s].got = reader[s].got /\ reader'[s].bufSize = reader[s].bufSize
          /\ reader'[s].pc = "woken"
      BY <1>1, <1>3, <2>1 DEF Reader
    <3>3. /\ reader[s].got = sock[s].taken
          /\ sock[s].link # "none"
          /\ Quitting(s) => sock[s].link = "down" \/ ~sock[s].open
      BY <1>1, <2>3 DEF Socket, Reader
    <3>4. ReadSize(r) <= reader[s].bufSize
      BY <2>2, <2>4
    <3>5. slot'[s] = slot[s]
      OBVIOUS
    <3>6. Untouched(s)' /\ LendingProtocol(s)' /\ EventPending(s)'
      BY <2>2, <3>1, <3>2, <3>3
    <3>7. BytesAccounted(s)'
      BY <1>1, <2>4, <3>1, <3>2, <3>3, <3>4 DEF Socket, Reader
    <3>8. QuitMeansOver(s)'
      BY <2>4, <2>2, <3>1, <3>2, <3>3, <3>5
    <3> QED BY <3>6, <3>7, <3>8
  <2> QED BY <1>2, <2>5, Frame
<1>4. CASE ~(r.m_buffer /\ r.avail > 0)
  <2>1. sock'[s] = r /\ reader' = reader
    BY <1>4 DEF OnReadyRead
  <2>2. SocketInv(s)'
    BY <1>1, <1>4, <2>1 DEF Reader, Socket, NewSocket
  <2> QED BY <1>2, <2>2, Frame
<1> QED BY <1>3, <1>4

\* The steps in which the connection begins and ends preserve SocketsInv.
LEMMA ConnectionPreserves ==
  ASSUME TypeOK, SocketsInv, NEW s \in Sockets,
         Accept(s) \/ PeerDisconnects(s) \/ Close(s) \/ QuitNotify(s)
  PROVE  SocketsInv'
<1> USE DEF TypeOK
<1>1. SocketInv(s) /\ sock[s] \in Socket /\ reader[s] \in Reader
  BY DEF SocketsInv
<1> USE DEF SocketInv, Untouched, LendingProtocol, BytesAccounted,
            EventPending, QuitMeansOver, InFlight, Parked, Quitting
<1>2. CASE Accept(s)
  <2>1. Others(s)
    BY <1>2 DEF Accept, Others
  <2>2. SocketInv(s)'
    BY <1>1, <1>2 DEF Accept, NewSocket, Reader, Socket
  <2> QED BY <2>1, <2>2, Frame
<1>3. CASE PeerDisconnects(s) \/ Close(s)
  <2>1. Others(s)
    BY <1>3 DEF PeerDisconnects, Close, Others
  <2>2. /\ sock'[s].m_quit = sock[s].m_quit /\ sock'[s].m_recvData = sock[s].m_recvData
        /\ sock'[s].m_buffer = sock[s].m_buffer /\ sock'[s].m_bufferSize = sock[s].m_bufferSize
        /\ sock'[s].m_dataSize = sock[s].m_dataSize /\ sock'[s].avail = sock[s].avail
        /\ sock'[s].taken = sock[s].taken /\ sock'[s].events = sock[s].events
        /\ reader' = reader /\ slot'[s] # "none"
    BY <1>1, <1>3 DEF PeerDisconnects, Close, Socket
  <2>3. sock[s].link # "none" /\ sock'[s].link # "none"
        /\ (sock'[s].link = "down" \/ ~sock'[s].open)
    <3>1. CASE PeerDisconnects(s)
      BY <1>1, <3>1 DEF PeerDisconnects, Socket
    <3>2. CASE Close(s)
      BY <1>1, <3>2 DEF Close, Socket, NewSocket
    <3> QED BY <1>3, <3>1, <3>2
  <2>4. SocketInv(s)'
    BY <1>1, <2>2, <2>3
  <2> QED BY <2>1, <2>4, Frame
<1>4. CASE QuitNotify(s)
  <2>1. Others(s)
    BY <1>4 DEF QuitNotify, WakeOne, Others
  <2> DEFINE r == AfterQuit(sock[s])
  <2>2. /\ r \in Socket /\ r.m_quit /\ ~r.m_buffer
        /\ r.avail = sock[s].avail /\ r.taken = sock[s].taken
        /\ r.link = sock[s].link /\ r.open = sock[s].open
        /\ sock[s].m_buffer => r.m_recvData /\ r.m_dataSize = 0
        /\ ~sock[s].m_buffer => /\ r.m_recvData = sock[s].m_recvData
                                /\ r.m_dataSize = sock[s].m_dataSize
    BY <1>1, AfterQuitFields
  <2>3. /\ sock[s].m_buffer =>
             reader' = [reader EXCEPT ![s].pc = IF @ = "waiting" THEN "woken" ELSE @]
        /\ ~sock[s].m_buffer => reader' = reader
    BY <1>4 DEF QuitNotify, WakeOne
  <2>4. sock[s].link # "none"
    BY <1>1, <1>4 DEF QuitNotify
  <2>5. \/ sock'[s] = r /\ slot[s] = "disconnected"
        \/ sock'[s] = [r EXCEPT !.avail = 0, !.link = "down"]
    BY <1>4 DEF QuitNotify
  <2> HIDE DEF r
  <2>6. SocketInv(s)'
    <3>1. /\ reader'[s].got = reader[s].got /\ reader'[s].bufSize = reader[s].bufSize
          /\ reader'[s].pc = IF sock[s].m_buffer /\ reader[s].pc = "waiting"
                             THEN "woken" ELSE reader[s].pc
      BY <2>3 DEF Reader
    <3>2. /\ sock'[s].m_quit /\ ~sock'[s].m_buffer /\ sock'[s].link # "none"
          /\ sock'[s].m_recvData = r.m_recvData /\ sock'[s].m_dataSize = r.m_dataSize
          /\ sock'[s].taken = r.taken
          /\ sock'[s].link = "down" \/ ~sock'[s].open
      <4>1. CASE sock'[s] = r /\ slot[s] = "disconnected"
        <5>1. sock[s].link = "down" \/ ~sock[s].open
          BY <1>1, <4>1
        <5> QED BY <2>2, <2>4, <4>1, <5>1
      <4>2. CASE sock'[s] = [r EXCEPT !.avail = 0, !.link = "down"]
        <5>1. r \in Socket /\ r.m_quit /\ ~r.m_buffer
          BY <2>2
        <5> QED BY <4>2, <5>1 DEF Socket
      <4> QED BY <2>5, <4>1, <4>2
    <3> QED BY <1>1, <2>2, <2>4, <3>1, <3>2 DEF Reader, Socket
  <2> QED BY <2>1, <2>6, Frame
<1> QED BY <1>2, <1>3, <1>4

\* The data-moving steps of the GUI thread preserve SocketsInv.
LEMMA DataPreserves ==
  ASSUME TypeOK, SocketsInv, NEW s \in Sockets, DataArrives(s) \/ HandleSocketEvent(s)
  PROVE  SocketsInv'
<1> USE DEF TypeOK
<1>1. SocketInv(s) /\ sock[s] \in Socket
  BY DEF SocketsInv
<1>2. CASE DataArrives(s)
  <2>1. PICK n \in 1 .. MaxBytes : OnReadyRead(s, [sock[s] EXCEPT !.avail = @ + n])
    BY <1>2 DEF DataArrives
  <2> DEFINE r == [sock[s] EXCEPT !.avail = @ + n]
  <2>2. r \in Socket /\ SameButData(r, sock[s])
    BY <1>1, DeviceSocketAssumption DEF Socket, SameButData
  <2>3. sock[s].link # "none" /\ UNCHANGED slot /\ OnReadyRead(s, r)
    BY <1>2, <2>1 DEF DataArrives
  <2> HIDE DEF r
  <2> QED BY <2>2, <2>3, ReadyReadPreserves DEF TypeOK
<1>3. CASE HandleSocketEvent(s)
  <2> DEFINE r == [sock[s] EXCEPT !.events = @ - 1]
  <2>1. r \in Socket /\ SameButData(r, sock[s])
    BY <1>1, <1>3 DEF Socket, HandleSocketEvent, SameButData
  <2>2. UNCHANGED slot /\ OnReadyRead(s, r)
    BY <1>3 DEF HandleSocketEvent
  <2>3. sock[s].link # "none"
    BY <1>1, <1>3 DEF HandleSocketEvent, SocketInv, Untouched, NewSocket
  <2> HIDE DEF r
  <2> QED BY <2>1, <2>2, <2>3, ReadyReadPreserves DEF TypeOK
<1> QED BY <1>2, <1>3

\* Every step keeps the protocol of each socket.
LEMMA SocketsStep == TypeOK /\ SocketsInv /\ [Next]_vars => SocketsInv'
<1> SUFFICES ASSUME TypeOK, SocketsInv, [Next]_vars PROVE SocketsInv'
  OBVIOUS
<1>1. ASSUME NEW s \in Sockets, RecvStep(s) \/ SpuriousWake(s) PROVE SocketsInv'
  BY <1>1, RecvPreserves
<1>2. ASSUME NEW s \in Sockets, DataArrives(s) \/ HandleSocketEvent(s) PROVE SocketsInv'
  BY <1>2, DataPreserves
<1>3. ASSUME NEW s \in Sockets,
             Accept(s) \/ PeerDisconnects(s) \/ Close(s) \/ QuitNotify(s)
      PROVE  SocketsInv'
  BY <1>3, ConnectionPreserves
<1>4. CASE UNCHANGED vars
  BY <1>4 DEF vars, SocketsInv, SocketInv, Untouched, LendingProtocol, BytesAccounted,
     EventPending, QuitMeansOver, InFlight, Parked, Quitting
<1> QED BY <1>1, <1>2, <1>3, <1>4 DEF Next, GuiStep

\* Every reachable state is one that subThreadRecvData, onReadyRead and
\* quitNotify can have built together.
LEMMA SocketsAreInvariant == Spec => []SocketsInv
BY InitInvariant, SocketsStep, TypeCorrect, PTL DEF Spec, IInv

\* The types and the sockets' protocol hold together in every reachable state.
THEOREM Inductive == Spec => []IInv
BY TypeCorrect, SocketsAreInvariant, PTL DEF IInv

-----------------------------------------------------------------------------
(* What SocketsInv implies.                                                       *)

\* onReadyRead never writes into a buffer whose call has returned.
THEOREM BufferIsOwned == Spec => []BufferOwned
<1>1. SocketsInv => BufferOwned
  BY DEF SocketsInv, SocketInv, LendingProtocol, BufferOwned
<1> QED BY <1>1, SocketsAreInvariant, PTL

\* No byte read() took out of the socket is lost by onReadyRead, quitNotify
\* and subThreadRecvData, in whatever order they run.
THEOREM BytesAreKept == Spec => []NothingLost
<1>1. SocketsInv => NothingLost
  BY DEF SocketsInv, SocketInv, BytesAccounted, NothingLost
<1> QED BY <1>1, SocketsAreInvariant, PTL

\* wakeOne is never called too early for the decoder thread to hear it.
THEOREM WakeupsAreKept == Spec => []NoLostWakeup
<1>1. SocketsInv => NoLostWakeup
  BY DEF SocketsInv, SocketInv, LendingProtocol, NoLostWakeup
<1> QED BY <1>1, SocketsAreInvariant, PTL

\* While a buffer is lent next to unread bytes, a DeviceSocketEvent is queued.
THEOREM DataIsNoticed == Spec => []NoMissedData
<1>1. SocketsInv => NoMissedData
  BY DEF SocketsInv, SocketInv, EventPending, NoMissedData
<1> QED BY <1>1, SocketsAreInvariant, PTL

\* subThreadRecvData returns 0 only after the connection has ended.
THEOREM EofIsHonest == Spec => []EofOnlyAfterQuit
<1>1. SocketsInv => EofOnlyAfterQuit
  BY DEF SocketsInv, SocketInv, QuitMeansOver, EofOnlyAfterQuit
<1> QED BY <1>1, SocketsAreInvariant, PTL

-----------------------------------------------------------------------------
(* The refinement of BytePipe.                                              *)

\* The values BytePipe's variables take.
Pending(s) == sock[s].avail + InFlight(s)

\* A step of socket s that moves no byte and changes neither end of the pipe
\* leaves the pipe as it is.
LEMMA PipeStutters ==
  ASSUME NEW s \in Sockets, Others(s),
         Pending(s)' = Pending(s), reader'[s].got = reader[s].got,
         Quitting(s)' = Quitting(s),
         (reader'[s].pc = "eof") = (reader[s].pc = "eof")
  PROVE  UNCHANGED Pipe!vars
<1>1. \A t \in Sockets :
        /\ Pending(t)' = Pending(t) /\ reader'[t].got = reader[t].got
        /\ Quitting(t)' = Quitting(t)
        /\ (reader'[t].pc = "eof") = (reader[t].pc = "eof")
  BY DEF Others, Pending, InFlight, Quitting
<1> QED BY <1>1 DEF Pipe!vars, Pending

\* RecvReturn takes from the pipe what the GUI thread put into the buffer, or
\* finds its end.
LEMMA ReturnTakes ==
  ASSUME TypeOK, SocketsInv, NEW s \in Sockets, RecvReturn(s)
  PROVE  [Pipe!Next]_(Pipe!vars)
<1> USE DEF TypeOK
<1>1. SocketInv(s) /\ sock[s] \in Socket /\ reader[s] \in Reader
  BY DEF SocketsInv
<1> DEFINE n == sock[s].m_dataSize
<1>2. /\ sock' = [sock EXCEPT ![s].m_recvData = FALSE] /\ slot' = slot
      /\ reader' = [reader EXCEPT ![s].pc = IF n = 0 THEN "eof" ELSE "idle",
                                 ![s].got = @ + n]
      /\ sock[s].m_recvData /\ reader[s].pc = "woken" /\ n \in Nat
  BY <1>1 DEF RecvReturn, Socket
<1>3. /\ \A t \in Sockets \ {s} :
            /\ Pending(t)' = Pending(t) /\ reader'[t].got = reader[t].got
            /\ (reader'[t].pc = "eof") = (reader[t].pc = "eof")
      /\ \A t \in Sockets : Quitting(t)' = Quitting(t)
  BY <1>2 DEF Pending, InFlight, Quitting
<1>4. /\ Pending(s) = sock[s].avail + n /\ Pending(s)' = sock[s].avail
      /\ reader'[s].got = reader[s].got + n
      /\ reader'[s].pc = IF n = 0 THEN "eof" ELSE "idle"
      /\ sock[s].avail \in Nat /\ reader[s].got \in Nat
  BY <1>1, <1>2 DEF Pending, InFlight, Socket, Reader
<1>5. CASE n = 0
  <2>1. Quitting(s)
    BY <1>1, <1>2, <1>5 DEF SocketInv, QuitMeansOver
  <2>2. [t \in Sockets |-> Pending(t)]' = [t \in Sockets |-> Pending(t)]
    BY <1>3, <1>4, <1>5
  <2>3. [t \in Sockets |-> reader[t].got]' = [t \in Sockets |-> reader[t].got]
    BY <1>3, <1>4, <1>5
  <2>4. [t \in Sockets |-> ~Quitting(t)]' = [t \in Sockets |-> ~Quitting(t)]
    BY <1>3
  <2>5. [t \in Sockets |-> reader[t].pc = "eof"]'
          = [[t \in Sockets |-> reader[t].pc = "eof"] EXCEPT ![s] = TRUE]
    BY <1>3, <1>4, <1>5
  <2>6. Pipe!End(s)
    BY <1>2, <2>1, <2>2, <2>3, <2>4, <2>5 DEF Pipe!End, Pending
  <2> QED BY <2>6 DEF Pipe!Next
<1>6. CASE n # 0
  <2>1. n \in 1 .. Pending(s) /\ Pending(s)' = Pending(s) - n
    BY <1>2, <1>4, <1>6
  <2>2. [t \in Sockets |-> Pending(t)]'
          = [[t \in Sockets |-> Pending(t)] EXCEPT ![s] = @ - n]
    BY <1>3, <2>1
  <2>3. [t \in Sockets |-> reader[t].got]'
          = [[t \in Sockets |-> reader[t].got] EXCEPT ![s] = @ + n]
    BY <1>3, <1>4
  <2>4. [t \in Sockets |-> ~Quitting(t)]' = [t \in Sockets |-> ~Quitting(t)]
    BY <1>3
  <2>5. [t \in Sockets |-> reader[t].pc = "eof"]'
          = [t \in Sockets |-> reader[t].pc = "eof"]
    BY <1>2, <1>3, <1>4, <1>6
  <2> HIDE DEF n
  <2>6. Pipe!Take(s)
    BY <1>2, <2>1, <2>2, <2>3, <2>4, <2>5 DEF Pipe!Take, Pending
  <2> QED BY <2>6 DEF Pipe!Next
<1> QED BY <1>5, <1>6

\* onReadyRead moves bytes from the socket to the buffer: to the pipe that is
\* no change, beyond the bytes that arrived with it.
LEMMA ReadyReadMoves ==
  ASSUME TypeOK, SocketsInv, NEW s \in Sockets, NEW r \in Socket,
         OnReadyRead(s, r), UNCHANGED slot, SameButData(r, sock[s])
  PROVE  /\ Pending(s)' = Pending(s) + (r.avail - sock[s].avail)
         /\ reader'[s].got = reader[s].got
         /\ (reader'[s].pc = "eof") = (reader[s].pc = "eof")
         /\ Quitting(s)' = Quitting(s)
         /\ Others(s)
<1> USE DEF TypeOK
<1>1. SocketInv(s) /\ sock[s] \in Socket /\ reader[s] \in Reader
  BY DEF SocketsInv
<1>2. Others(s) /\ reader'[s].got = reader[s].got
      /\ (reader'[s].pc = "eof") = (reader[s].pc = "eof")
  BY <1>1 DEF OnReadyRead, WakeOne, Others, Reader
<1>3. CASE r.m_buffer /\ r.avail > 0
  <2>1. sock'[s] = Filled(r)
    BY <1>3 DEF OnReadyRead
  <2>2. ReadSize(r) \in Nat
    BY DEF ReadSize, Socket
  <2>3. /\ sock'[s].m_recvData /\ sock'[s].m_dataSize = ReadSize(r)
        /\ sock'[s].avail = r.avail - ReadSize(r)
        /\ sock'[s].m_quit = sock[s].m_quit
    BY <2>1 DEF Filled, Socket, SameButData
  <2>4. ~sock[s].m_recvData
    BY <1>1, <1>3 DEF SocketInv, LendingProtocol, SameButData, Socket
  <2> QED
    BY <1>1, <1>2, <2>2, <2>3, <2>4 DEF Pending, InFlight, Quitting, Socket
<1>4. CASE ~(r.m_buffer /\ r.avail > 0)
  <2>1. sock'[s] = r
    BY <1>4 DEF OnReadyRead
  <2> QED
    BY <1>1, <1>2, <2>1 DEF Pending, InFlight, Quitting, Socket, SameButData
<1> QED BY <1>3, <1>4

\* Bytes that arrive are put into the pipe.
LEMMA ArrivalPuts ==
  ASSUME TypeOK, SocketsInv, NEW s \in Sockets, DataArrives(s)
  PROVE  Pipe!Put(s)
<1> USE DEF TypeOK
<1>1. PICK n \in 1 .. MaxBytes : OnReadyRead(s, [sock[s] EXCEPT !.avail = @ + n])
  BY DEF DataArrives
<1> DEFINE r == [sock[s] EXCEPT !.avail = @ + n]
<1>2. SocketInv(s) /\ sock[s] \in Socket /\ reader[s] \in Reader
  BY DEF SocketsInv
<1>3. r \in Socket /\ SameButData(r, sock[s]) /\ r.avail = sock[s].avail + n
  BY <1>2, DeviceSocketAssumption DEF Socket, SameButData
<1>4. UNCHANGED slot /\ OnReadyRead(s, r)
  BY <1>1 DEF DataArrives
<1>5. ~Quitting(s)
  BY <1>2 DEF DataArrives, SocketInv, QuitMeansOver
<1> HIDE DEF r
<1>6. /\ Pending(s)' = Pending(s) + (r.avail - sock[s].avail)
      /\ reader'[s].got = reader[s].got
      /\ (reader'[s].pc = "eof") = (reader[s].pc = "eof")
      /\ Quitting(s)' = Quitting(s)
      /\ Others(s)
  BY <1>3, <1>4, ReadyReadMoves DEF TypeOK
<1>7. Pending(s)' = Pending(s) + n
  <2>1. Pending(s) \in Int /\ sock[s].avail \in Nat
    BY <1>2 DEF Pending, InFlight, Socket
  <2> QED BY <1>3, <1>6, <2>1
<1>8. \A t \in Sockets \ {s} :
        /\ Pending(t)' = Pending(t) /\ reader'[t].got = reader[t].got
        /\ Quitting(t)' = Quitting(t)
        /\ (reader'[t].pc = "eof") = (reader[t].pc = "eof")
  BY <1>6 DEF Others, Pending, InFlight, Quitting
<1>9. [t \in Sockets |-> Pending(t)]'
        = [[t \in Sockets |-> Pending(t)] EXCEPT ![s] = @ + n]
  BY <1>7, <1>8
<1>10. /\ [t \in Sockets |-> reader[t].got]' = [t \in Sockets |-> reader[t].got]
       /\ [t \in Sockets |-> ~Quitting(t)]' = [t \in Sockets |-> ~Quitting(t)]
       /\ [t \in Sockets |-> reader[t].pc = "eof"]'
            = [t \in Sockets |-> reader[t].pc = "eof"]
  BY <1>6, <1>8
<1> QED BY <1>5, <1>9, <1>10 DEF Pipe!Put, Pending

\* quitNotify, once aboutToClose was delivered, drops what was not yet read.
LEMMA QuitDrops ==
  ASSUME TypeOK, SocketsInv, NEW s \in Sockets, QuitNotify(s)
  PROVE  [Pipe!Next]_(Pipe!vars)
<1> USE DEF TypeOK
<1>1. SocketInv(s) /\ sock[s] \in Socket /\ reader[s] \in Reader
  BY DEF SocketsInv
<1>2. Others(s)
  BY DEF QuitNotify, WakeOne, Others
<1>3. /\ reader'[s].got = reader[s].got
      /\ (reader'[s].pc = "eof") = (reader[s].pc = "eof")
  BY <1>1 DEF QuitNotify, WakeOne, Reader
<1> DEFINE r == AfterQuit(sock[s])
<1>4. /\ r \in Socket /\ r.m_quit /\ r.avail = sock[s].avail
      /\ sock[s].m_buffer => r.m_recvData /\ r.m_dataSize = 0
      /\ ~sock[s].m_buffer => /\ r.m_recvData = sock[s].m_recvData
                              /\ r.m_dataSize = sock[s].m_dataSize
  BY <1>1, AfterQuitFields
<1>5. \/ slot[s] = "disconnected" /\ sock'[s] = r
      \/ slot[s] = "aboutToClose" /\ sock'[s] = [r EXCEPT !.avail = 0, !.link = "down"]
  BY DEF QuitNotify
<1> HIDE DEF r
<1>6. /\ Quitting(s) /\ Quitting(s)'
      /\ InFlight(s)' = InFlight(s) /\ InFlight(s) \in Nat
  <2>1. /\ sock'[s].m_quit /\ sock'[s].m_recvData = r.m_recvData
        /\ sock'[s].m_dataSize = r.m_dataSize
    BY <1>4, <1>5 DEF Socket
  <2>2. sock[s].m_buffer => ~sock[s].m_recvData
    BY <1>1 DEF SocketInv, LendingProtocol, Socket
  <2> QED BY <1>1, <1>4, <1>5, <2>1, <2>2 DEF Quitting, InFlight, Socket
<1>7. CASE slot[s] = "disconnected"
  <2>1. sock'[s].avail = sock[s].avail
    BY <1>4, <1>5, <1>7
  <2>2. UNCHANGED Pipe!vars
    BY <1>2, <1>3, <1>6, <2>1, PipeStutters DEF Pending
  <2> QED BY <2>2
<1>8. CASE slot[s] = "aboutToClose"
  <2>1. sock'[s].avail = 0
    BY <1>4, <1>5, <1>8 DEF Socket
  <2>2. Pending(s)' \in 0 .. Pending(s)
    BY <1>1, <1>6, <2>1 DEF Pending, Socket
  <2>3. \A t \in Sockets \ {s} :
          /\ Pending(t)' = Pending(t) /\ reader'[t].got = reader[t].got
          /\ Quitting(t)' = Quitting(t)
          /\ (reader'[t].pc = "eof") = (reader[t].pc = "eof")
    BY <1>2 DEF Others, Pending, InFlight, Quitting
  <2>4. [t \in Sockets |-> Pending(t)]'
          = [[t \in Sockets |-> Pending(t)] EXCEPT ![s] = Pending(s)']
    BY <2>3
  <2>5. /\ [t \in Sockets |-> reader[t].got]' = [t \in Sockets |-> reader[t].got]
        /\ [t \in Sockets |-> ~Quitting(t)]' = [t \in Sockets |-> ~Quitting(t)]
        /\ [t \in Sockets |-> reader[t].pc = "eof"]'
             = [t \in Sockets |-> reader[t].pc = "eof"]
    BY <1>3, <1>6, <2>3
  <2>6. Pipe!Drop(s)
    BY <1>6, <2>2, <2>4, <2>5 DEF Pipe!Drop, Pending
  <2> QED BY <2>6 DEF Pipe!Next
<1> QED BY <1>7, <1>8 DEF QuitNotify

\* The connection ends: the pipe is shut.
LEMMA EndShuts ==
  ASSUME TypeOK, NEW s \in Sockets, PeerDisconnects(s) \/ Close(s)
  PROVE  Pipe!Shut(s)
<1> USE DEF TypeOK
<1>1. /\ Quitting(s)' /\ reader' = reader
      /\ Pending(s)' = Pending(s)
      /\ \A t \in Sockets \ {s} :
           Pending(t)' = Pending(t) /\ Quitting(t)' = Quitting(t)
  BY DEF PeerDisconnects, Close, Quitting, Pending, InFlight, Socket
<1>2. [t \in Sockets |-> ~Quitting(t)]'
        = [[t \in Sockets |-> ~Quitting(t)] EXCEPT ![s] = FALSE]
  BY <1>1
<1>3. /\ [t \in Sockets |-> Pending(t)]' = [t \in Sockets |-> Pending(t)]
      /\ [t \in Sockets |-> reader[t].got]' = [t \in Sockets |-> reader[t].got]
      /\ [t \in Sockets |-> reader[t].pc = "eof"]'
           = [t \in Sockets |-> reader[t].pc = "eof"]
  BY <1>1
<1> QED BY <1>2, <1>3 DEF Pipe!Shut, Pending

\* The other steps move nothing, except that subThreadRecvData may find the
\* end of the stream on entry.
LEMMA EntrySteps ==
  ASSUME TypeOK, SocketsInv, NEW s \in Sockets,
         \/ RecvEnter(s) \/ RecvArm(s) \/ RecvWaitAgain(s) \/ SpuriousWake(s)
         \/ Accept(s)
  PROVE  [Pipe!Next]_(Pipe!vars)
<1> USE DEF TypeOK
<1>1. SocketInv(s) /\ sock[s] \in Socket /\ reader[s] \in Reader
  BY DEF SocketsInv
<1>2. CASE RecvEnter(s)
  <2>1. PICK quit \in QuitReads(s) :
          reader' = [reader EXCEPT ![s].pc = IF quit THEN "eof" ELSE "checked"]
    BY <1>2 DEF RecvEnter
  <2>2. sock' = sock /\ slot' = slot /\ reader[s].pc = "idle" /\ Others(s)
    BY <1>2 DEF RecvEnter, Others
  <2>3. CASE quit
    <3>1. Quitting(s)
      BY <2>3 DEF QuitReads, Quitting
    <3>2. [t \in Sockets |-> reader[t].pc = "eof"]'
            = [[t \in Sockets |-> reader[t].pc = "eof"] EXCEPT ![s] = TRUE]
      BY <2>1, <2>3 DEF Reader
    <3>3. [t \in Sockets |-> reader[t].got]' = [t \in Sockets |-> reader[t].got]
      BY <2>1 DEF Reader
    <3>4. Pipe!End(s)
      BY <2>2, <3>1, <3>2, <3>3 DEF Pipe!End, Pending, InFlight, Quitting
    <3> QED BY <3>4 DEF Pipe!Next
  <2>4. CASE ~quit
    <3>1. UNCHANGED Pipe!vars
      BY <2>1, <2>2, <2>4, PipeStutters DEF Pending, InFlight, Quitting, Reader
    <3> QED BY <3>1
  <2> QED BY <2>3, <2>4
<1>3. CASE RecvArm(s)
  <2>1. Others(s) /\ slot' = slot /\ ~sock[s].m_recvData /\ reader[s].pc = "checked"
    BY <1>1, <1>3 DEF RecvArm, Others, SocketInv, LendingProtocol
  <2>2. /\ sock'[s].m_recvData = sock[s].m_recvData
        /\ sock'[s].avail = sock[s].avail /\ sock'[s].m_quit = sock[s].m_quit
        /\ reader'[s].got = reader[s].got /\ reader'[s].pc # "eof"
    <3>1. PICK n \in BufSizes :
            /\ sock' = [sock EXCEPT ![s].m_buffer = TRUE, ![s].m_bufferSize = n,
                                    ![s].m_dataSize = 0, ![s].events = @ + 1]
            /\ reader' = [reader EXCEPT
                 ![s].pc = IF sock[s].m_recvData THEN "woken" ELSE "waiting",
                 ![s].bufSize = n]
      BY <1>3 DEF RecvArm
    <3>2. /\ sock'[s].m_recvData = sock[s].m_recvData
          /\ sock'[s].avail = sock[s].avail /\ sock'[s].m_quit = sock[s].m_quit
      BY <3>1 DEF Socket
    <3>3. reader'[s].got = reader[s].got /\ reader'[s].pc # "eof"
      BY <3>1 DEF Reader
    <3> QED BY <3>2, <3>3
  <2>3. UNCHANGED Pipe!vars
    BY <2>1, <2>2, PipeStutters DEF Pending, InFlight, Quitting
  <2> QED BY <2>3
<1>4. CASE RecvWaitAgain(s) \/ SpuriousWake(s)
  <2>1. /\ Others(s) /\ slot' = slot /\ sock' = sock
        /\ reader'[s].got = reader[s].got
        /\ reader'[s].pc # "eof" /\ reader[s].pc # "eof"
    BY <1>4 DEF RecvWaitAgain, SpuriousWake, Reader, Others
  <2>2. UNCHANGED Pipe!vars
    BY <2>1, PipeStutters DEF Pending, InFlight, Quitting
  <2> QED BY <2>2
<1>5. CASE Accept(s)
  <2>1. /\ Others(s) /\ slot' = slot /\ reader' = reader
        /\ sock[s] = NewSocket
        /\ sock'[s] = [NewSocket EXCEPT !.link = "up", !.open = TRUE]
    BY <1>1, <1>5 DEF Accept, Others, SocketInv, Untouched
  <2>2. /\ sock'[s].avail = sock[s].avail /\ sock'[s].m_recvData = sock[s].m_recvData
        /\ sock'[s].m_dataSize = sock[s].m_dataSize /\ sock'[s].m_quit = sock[s].m_quit
    BY <2>1 DEF NewSocket
  <2>3. Pending(s)' = Pending(s) /\ Quitting(s)' = Quitting(s)
    BY <2>1, <2>2 DEF Pending, InFlight, Quitting
  <2>4. UNCHANGED Pipe!vars
    BY <2>1, <2>3, PipeStutters
  <2> QED BY <2>4
<1> QED BY <1>2, <1>3, <1>4, <1>5

\* The pipe starts empty, open and with nothing returned.
LEMMA PipeInit == Init => Pipe!Init
<1> SUFFICES ASSUME Init PROVE Pipe!Init
  OBVIOUS
<1>1. \A t \in Sockets :
        /\ sock[t].avail + InFlight(t) = 0 /\ reader[t].got = 0
        /\ ~Quitting(t) /\ reader[t].pc # "eof"
  BY DEF Init, NewSocket, InFlight, Quitting
<1> QED BY <1>1 DEF Pipe!Init

\* Every step is one of the pipe, or leaves it as it is.
LEMMA PipeStep == TypeOK /\ SocketsInv /\ [Next]_vars => [Pipe!Next]_(Pipe!vars)
<1> SUFFICES ASSUME TypeOK, SocketsInv, [Next]_vars PROVE [Pipe!Next]_(Pipe!vars)
  OBVIOUS
<1>1. ASSUME NEW s \in Sockets, RecvStep(s) \/ SpuriousWake(s) \/ Accept(s)
      PROVE  [Pipe!Next]_(Pipe!vars)
  BY <1>1, ReturnTakes, EntrySteps DEF RecvStep
<1>2. ASSUME NEW s \in Sockets, DataArrives(s) PROVE Pipe!Next
  BY <1>2, ArrivalPuts DEF Pipe!Next
<1>3. ASSUME NEW s \in Sockets, HandleSocketEvent(s)
      PROVE  UNCHANGED Pipe!vars
  <2> DEFINE r == [sock[s] EXCEPT !.events = @ - 1]
  <2>1. sock[s] \in Socket
    BY DEF TypeOK
  <2>2. r \in Socket /\ SameButData(r, sock[s]) /\ r.avail = sock[s].avail
    BY <1>3, <2>1 DEF Socket, HandleSocketEvent, SameButData
  <2>3. UNCHANGED slot /\ OnReadyRead(s, r)
    BY <1>3 DEF HandleSocketEvent
  <2> HIDE DEF r
  <2>4. /\ Pending(s)' = Pending(s) + (r.avail - sock[s].avail)
        /\ reader'[s].got = reader[s].got
        /\ (reader'[s].pc = "eof") = (reader[s].pc = "eof")
        /\ Quitting(s)' = Quitting(s)
        /\ Others(s)
    BY <2>2, <2>3, ReadyReadMoves
  <2>5. Pending(s)' = Pending(s)
    BY <2>1, <2>2, <2>4 DEF Pending, InFlight, Socket
  <2> QED BY <2>4, <2>5, PipeStutters
<1>4. ASSUME NEW s \in Sockets, PeerDisconnects(s) \/ Close(s) PROVE Pipe!Next
  BY <1>4, EndShuts DEF Pipe!Next
<1>5. ASSUME NEW s \in Sockets, QuitNotify(s) PROVE [Pipe!Next]_(Pipe!vars)
  BY <1>5, QuitDrops
<1>6. CASE UNCHANGED vars
  BY <1>6 DEF vars, Pipe!vars, InFlight, Quitting
<1> QED BY <1>1, <1>2, <1>3, <1>4, <1>5, <1>6 DEF Next, GuiStep

\* DeviceSocket implements BytePipe: what subThreadRecvData returns, call by
\* call, is the phone's stream, and its end is neither early nor repeated.
THEOREM Refinement == Spec => IsBytePipe
BY PipeInit, PipeStep, TypeCorrect, SocketsAreInvariant, PTL DEF Spec, IsBytePipe, Pipe!Spec
=============================================================================
