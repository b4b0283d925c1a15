---------------------------- MODULE DeviceSocket ----------------------------
(***************************************************************************)
(* DeviceSocket (Network/DeviceSocket.{h,cpp}): the TCP socket a phone      *)
(* streams H.264 into.  The GUI thread owns the socket; the decoder thread  *)
(* calls subThreadRecvData, which parks a pointer to the decoder's buffer   *)
(* in the object, posts a DeviceSocketEvent and sleeps on a condition until *)
(* the GUI thread has filled the buffer (onReadyRead) or given up on the    *)
(* connection (quitNotify).                                                 *)
(*                                                                         *)
(* Every section that holds m_mutex is one step: nothing outside such a     *)
(* section touches what it guards.  m_quit is the exception the code makes: *)
(* it is read and written without the mutex.  The test on entry is a step   *)
(* of its own, and while a write is racing with it the test may see either  *)
(* value; the mutex section that follows the write publishes it.  Bytes are *)
(* counted, not represented: a socket hands over the next n of the stream.  *)
(***************************************************************************)
EXTENDS Integers

CONSTANTS
  Sockets,   \* the sockets a TcpServer may accept
  MaxBytes,  \* bound: bytes the phone sends on one socket
  BufSizes   \* buffer sizes the demuxer passes to subThreadRecvData

ASSUME DeviceSocketAssumption ==
  /\ MaxBytes \in Nat
  /\ BufSizes \subseteq Nat \ {0}

VARIABLES
  sock,    \* members of each DeviceSocket, and Qt's side of it
  reader,  \* the thread inside, or between, calls of subThreadRecvData
  slot     \* the GUI thread inside quitNotify, and the signal that called it

vars == <<sock, reader, slot>>

(***************************************************************************)
(* m_buffer is TRUE when the pointer is not null.  avail is                 *)
(* bytesAvailable(), taken counts the bytes read() has taken out of the     *)
(* socket, events the DeviceSocketEvents posted and not yet delivered.      *)
(***************************************************************************)
Link == {"none", "up", "down"}

Socket == [m_quit : BOOLEAN, m_recvData : BOOLEAN, m_buffer : BOOLEAN,
           m_bufferSize : Nat, m_dataSize : Nat,
           avail : Nat, taken : Nat, events : Nat,
           link : Link, open : BOOLEAN]

NewSocket == [m_quit |-> FALSE, m_recvData |-> FALSE, m_buffer |-> FALSE,
              m_bufferSize |-> 0, m_dataSize |-> 0,
              avail |-> 0, taken |-> 0, events |-> 0,
              link |-> "none", open |-> FALSE]

(***************************************************************************)
(* pc: "idle" between two calls, "checked" past the unlocked test of        *)
(* m_quit, "waiting" asleep on m_recvDataCond, "woken" about to look at     *)
(* m_recvData again, "eof" after a call returned 0.  got counts the bytes   *)
(* returned so far, bufSize is the argument of the current call.            *)
(***************************************************************************)
Reader == [pc : {"idle", "checked", "waiting", "woken", "eof"},
           bufSize : Nat, got : Nat]

Parked(s) == reader[s].pc \in {"waiting", "woken"}

TypeOK ==
  /\ sock \in [Sockets -> Socket]
  /\ reader \in [Sockets -> Reader]
  /\ slot \in [Sockets -> {"none", "disconnected", "aboutToClose"}]

Init ==
  /\ sock = [s \in Sockets |-> NewSocket]
  /\ reader = [s \in Sockets |-> [pc |-> "idle", bufSize |-> 0, got |-> 0]]
  /\ slot = [s \in Sockets |-> "none"]

-----------------------------------------------------------------------------
(* The decoder thread: subThreadRecvData.                                   *)

\* What an unlocked read of m_quit may see: the GUI thread inside quitNotify
\* has a write in flight.
QuitReads(s) == {sock[s].m_quit} \cup {quit \in {TRUE} : slot[s] # "none"}

\* The test of m_quit on entry, made without the mutex.
RecvEnter(s) ==
  /\ sock[s].link # "none"
  /\ reader[s].pc = "idle"
  /\ \E quit \in QuitReads(s) :
       reader' = [reader EXCEPT ![s].pc = IF quit THEN "eof" ELSE "checked"]
  /\ UNCHANGED <<sock, slot>>

\* Fault: the buffer is lent and no event is posted.
RecvArmSilent(s) ==
  /\ reader[s].pc = "checked"
  /\ \E n \in BufSizes :
       /\ sock' = [sock EXCEPT ![s].m_buffer = TRUE,
                               ![s].m_bufferSize = n,
                               ![s].m_dataSize = 0]
       /\ reader' = [reader EXCEPT
            ![s].pc = IF sock[s].m_recvData THEN "woken" ELSE "waiting",
            ![s].bufSize = n]
  /\ UNCHANGED slot

\* Under the mutex: publish the buffer, post the event, sleep unless
\* m_recvData is already set.
RecvArm(s) ==
  /\ reader[s].pc = "checked"
  /\ \E n \in BufSizes :
       /\ sock' = [sock EXCEPT ![s].m_buffer = TRUE,
                               ![s].m_bufferSize = n,
                               ![s].m_dataSize = 0,
                               ![s].events = @ + 1]
       /\ reader' = [reader EXCEPT
            ![s].pc = IF sock[s].m_recvData THEN "woken" ELSE "waiting",
            ![s].bufSize = n]
  /\ UNCHANGED slot

\* A condition variable may wake its waiter for no reason.
SpuriousWake(s) ==
  /\ reader[s].pc = "waiting"
  /\ reader' = [reader EXCEPT ![s].pc = "woken"]
  /\ UNCHANGED <<sock, slot>>

\* The loop condition fails: sleep again.
RecvWaitAgain(s) ==
  /\ reader[s].pc = "woken"
  /\ ~sock[s].m_recvData
  /\ reader' = [reader EXCEPT ![s].pc = "waiting"]
  /\ UNCHANGED <<sock, slot>>

\* Fault: m_recvData stays set for the next call.
RecvReturnKeepsFlag(s) ==
  /\ reader[s].pc = "woken"
  /\ sock[s].m_recvData
  /\ reader' = [reader EXCEPT
       ![s].pc = IF sock[s].m_dataSize = 0 THEN "eof" ELSE "idle",
       ![s].got = @ + sock[s].m_dataSize]
  /\ UNCHANGED <<sock, slot>>

\* Leave the loop and return m_dataSize; 0 tells Decoder::recvData to report
\* the end of the stream, after which the demuxer does not call again.
RecvReturn(s) ==
  /\ reader[s].pc = "woken"
  /\ sock[s].m_recvData
  /\ sock' = [sock EXCEPT ![s].m_recvData = FALSE]
  /\ reader' = [reader EXCEPT
       ![s].pc = IF sock[s].m_dataSize = 0 THEN "eof" ELSE "idle",
       ![s].got = @ + sock[s].m_dataSize]
  /\ UNCHANGED slot

-----------------------------------------------------------------------------
(* The GUI thread: the socket's slots.                                      *)

WakeOne(s) ==
  reader' = [reader EXCEPT ![s].pc = IF @ = "waiting" THEN "woken" ELSE @]

ReadSize(r) == IF r.avail < r.m_bufferSize THEN r.avail ELSE r.m_bufferSize

\* Fault: the pointer to the buffer is kept.
FilledKeepsBuffer(r) ==
  [r EXCEPT !.m_dataSize = ReadSize(r), !.avail = @ - ReadSize(r),
            !.taken = @ + ReadSize(r), !.m_recvData = TRUE]

Filled(r) ==
  [r EXCEPT !.m_dataSize = ReadSize(r), !.avail = @ - ReadSize(r),
            !.taken = @ + ReadSize(r),
            !.m_buffer = FALSE, !.m_bufferSize = 0, !.m_recvData = TRUE]

\* onReadyRead on a socket whose record is r when the slot runs.
OnReadyRead(s, r) ==
  \/ /\ r.m_buffer /\ r.avail > 0
     /\ sock' = [sock EXCEPT ![s] = Filled(r)]
     /\ WakeOne(s)
  \/ /\ ~(r.m_buffer /\ r.avail > 0)
     /\ sock' = [sock EXCEPT ![s] = r]
     /\ UNCHANGED reader

\* TcpServer::incomingConnection: a new, connected DeviceSocket.
Accept(s) ==
  /\ sock[s].link = "none"
  /\ sock' = [sock EXCEPT ![s] = [NewSocket EXCEPT !.link = "up", !.open = TRUE]]
  /\ UNCHANGED <<reader, slot>>

\* Bytes from the phone, and the readyRead they cause.
DataArrives(s) ==
  /\ slot[s] = "none"
  /\ sock[s].link = "up" /\ sock[s].open
  /\ \E n \in 1 .. MaxBytes :
       /\ sock[s].avail + sock[s].taken + n <= MaxBytes
       /\ OnReadyRead(s, [sock[s] EXCEPT !.avail = @ + n])
  /\ UNCHANGED slot

\* The event subThreadRecvData posted.
HandleSocketEvent(s) ==
  /\ slot[s] = "none"
  /\ sock[s].events > 0
  /\ OnReadyRead(s, [sock[s] EXCEPT !.events = @ - 1])
  /\ UNCHANGED slot

\* The peer hangs up: Qt emits disconnected, and quitNotify starts writing
\* m_quit without the mutex.
PeerDisconnects(s) ==
  /\ slot[s] = "none"
  /\ sock[s].link = "up"
  /\ sock' = [sock EXCEPT ![s].link = "down"]
  /\ slot' = [slot EXCEPT ![s] = "disconnected"]
  /\ UNCHANGED reader

\* The owner calls close(): Qt emits aboutToClose first.
Close(s) ==
  /\ slot[s] = "none"
  /\ sock[s].open
  /\ sock' = [sock EXCEPT ![s].open = FALSE]
  /\ slot' = [slot EXCEPT ![s] = "aboutToClose"]
  /\ UNCHANGED reader

Released(r) ==
  [r EXCEPT !.m_buffer = FALSE, !.m_bufferSize = 0,
            !.m_recvData = TRUE, !.m_dataSize = 0]

\* Fault: the members are reset whether or not a buffer is lent.
AfterQuitAlways(r) == Released([r EXCEPT !.m_quit = TRUE])

AfterQuit(r) ==
  LET q == [r EXCEPT !.m_quit = TRUE] IN IF r.m_buffer THEN Released(q) ELSE q

\* The rest of quitNotify, under the mutex, m_quit now visible to all.  Once
\* aboutToClose is delivered, close() drops Qt's read buffer and disconnects,
\* which delivers disconnected to the same slot.
QuitNotify(s) ==
  LET r == AfterQuit(sock[s]) IN
  /\ slot[s] # "none"
  /\ IF sock[s].m_buffer THEN WakeOne(s) ELSE UNCHANGED reader
  /\ \/ /\ slot[s] = "disconnected"
        /\ sock' = [sock EXCEPT ![s] = r]
        /\ slot' = [slot EXCEPT ![s] = "none"]
     \/ /\ slot[s] = "aboutToClose"
        /\ sock' = [sock EXCEPT ![s] = [r EXCEPT !.avail = 0, !.link = "down"]]
        /\ slot' = [slot EXCEPT ![s] = IF sock[s].link = "up"
                                       THEN "disconnected" ELSE "none"]

-----------------------------------------------------------------------------
RecvStep(s) ==
  \/ RecvEnter(s) \/ RecvArm(s) \/ RecvWaitAgain(s) \/ RecvReturn(s)

GuiStep(s) == HandleSocketEvent(s) \/ QuitNotify(s)

Next ==
  \E s \in Sockets :
    \/ RecvStep(s) \/ SpuriousWake(s)
    \/ GuiStep(s)
    \/ Accept(s) \/ DataArrives(s) \/ PeerDisconnects(s) \/ Close(s)

\* Threads run and event loops turn; phones and users promise nothing.
Fairness ==
  \A s \in Sockets : WF_vars(RecvStep(s)) /\ WF_vars(GuiStep(s))

Spec == Init /\ [][Next]_vars /\ Fairness

-----------------------------------------------------------------------------
(* Properties.                                                              *)

\* The GUI thread keeps the pointer to the decoder's buffer only while the
\* decoder thread is asleep in the call that lent it, and with the size that
\* call passed: it never writes into a buffer whose call has returned.
BufferOwned ==
  \A s \in Sockets :
    sock[s].m_buffer => /\ Parked(s)
                        /\ sock[s].m_bufferSize = reader[s].bufSize

InFlight(s) == IF sock[s].m_recvData THEN sock[s].m_dataSize ELSE 0

\* Every byte read() takes out of the socket reaches the decoder: it has been
\* returned, or it is in the buffer of the call in progress - also when the
\* connection ends between the two - and that buffer was large enough.
NothingLost ==
  \A s \in Sockets :
    /\ reader[s].got + InFlight(s) = sock[s].taken
    /\ InFlight(s) <= reader[s].bufSize

\* No wake-up is lost: once the GUI thread has set m_recvData, the decoder
\* thread is not asleep.
NoLostWakeup ==
  \A s \in Sockets : sock[s].m_recvData => reader[s].pc = "woken"

\* Nobody sleeps next to data: a lent buffer and unread bytes imply that an
\* event is still queued which will run onReadyRead.
NoMissedData ==
  \A s \in Sockets :
    sock[s].m_buffer /\ sock[s].avail > 0 => sock[s].events > 0

\* The connection is over, or the GUI thread is inside quitNotify.
Quitting(s) == sock[s].m_quit \/ slot[s] # "none"

\* The decoder is told "end of stream" only once the connection has ended, at
\* the earliest while quitNotify is running.
EofOnlyAfterQuit ==
  \A s \in Sockets : reader[s].pc = "eof" => Quitting(s)

\* A thread in subThreadRecvData for which there is an answer gets out: when
\* bytes are there, and when quitNotify runs.
AnswerReleases ==
  \A s \in Sockets :
    (Parked(s) /\ (sock[s].avail > 0 \/ slot[s] # "none")) ~> ~Parked(s)

-----------------------------------------------------------------------------
(* The inductive invariant behind them.                                     *)

\* A socket not accepted yet has seen nothing.
Untouched(s) ==
  sock[s].link = "none" =>
    /\ sock[s] = NewSocket
    /\ reader[s].pc = "idle" /\ reader[s].got = 0
    /\ slot[s] = "none"

\* A parked call has either lent its buffer or been answered, never both, and
\* an answered call is awake.
LendingProtocol(s) ==
  /\ Parked(s) => sock[s].m_buffer # sock[s].m_recvData /\ reader[s].bufSize > 0
  /\ sock[s].m_buffer => Parked(s) /\ sock[s].m_bufferSize = reader[s].bufSize
  /\ sock[s].m_recvData => reader[s].pc = "woken"

\* The bytes of NothingLost, for one socket.
BytesAccounted(s) ==
  /\ reader[s].got + InFlight(s) = sock[s].taken
  /\ InFlight(s) <= reader[s].bufSize

\* An event is queued for every lent buffer next to unread bytes.
EventPending(s) ==
  sock[s].m_buffer /\ sock[s].avail > 0 => sock[s].events > 0

\* Quitting never happens to a live connection, and an answer of 0 bytes or an
\* end of stream only to a quitting one.
QuitMeansOver(s) ==
  /\ Quitting(s) => sock[s].link = "down" \/ ~sock[s].open
  /\ sock[s].m_recvData /\ sock[s].m_dataSize = 0 => Quitting(s)
  /\ reader[s].pc = "eof" => Quitting(s)

\* The state of every socket is one the two threads can have built together:
\* strong enough that every step of either preserves it.
SocketInv(s) ==
  /\ Untouched(s)
  /\ LendingProtocol(s)
  /\ BytesAccounted(s)
  /\ EventPending(s)
  /\ QuitMeansOver(s)

SocketsInv == \A s \in Sockets : SocketInv(s)

\* With the types, the inductive invariant.
IInv == TypeOK /\ SocketsInv

-----------------------------------------------------------------------------
(* The pipe a caller of subThreadRecvData sees.                             *)

Pipe == INSTANCE BytePipe WITH
  pending  <- [s \in Sockets |-> sock[s].avail + InFlight(s)],
  returned <- [s \in Sockets |-> reader[s].got],
  open     <- [s \in Sockets |-> ~Quitting(s)],
  eof      <- [s \in Sockets |-> reader[s].pc = "eof"]

\* Buffer, condition and events together are a byte stream: the chunks that
\* subThreadRecvData returns are the bytes the phone sent, each once; bytes
\* are dropped, and the end reported, only once the connection has ended.
IsBytePipe == Pipe!Spec
=============================================================================
