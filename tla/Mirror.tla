------------------------------- MODULE Mirror -------------------------------
(***************************************************************************)
(* The mirror window: MirrorWidget, its Decoder thread, the DeviceSockets   *)
(* its TcpServer accepts and the Frames between the two threads             *)
(* (MirrorWidget.cpp, Render/Decoder.cpp, Network/tcpserver.cpp).           *)
(*                                                                         *)
(* It extends Frames and has an instance of DeviceSocket: a step of this    *)
(* module is a step of one of them by the thread that takes it, or a step   *)
(* of the window or of Decoder::run between such steps.  There is one GUI   *)
(* thread: it runs one slot at a time and, in the destructor, no event loop *)
(* at all.  The sockets' life after the window is gone is left out: nobody  *)
(* reads them.                                                              *)
(***************************************************************************)
EXTENDS Frames

CONSTANTS
  Sockets,     \* the mirror connections the phone may make
  MaxBytes,    \* bound: bytes sent on each
  BufSizes,    \* sizes of the demuxer's buffer
  NoSocket     \* the null pointer

ASSUME MirrorAssumption ==
  /\ NoSocket \notin Sockets
  /\ MaxBytes \in Nat /\ BufSizes \subseteq Nat \ {0}

VARIABLES
  sock, reader, slot,  \* see DeviceSocket
  m_deviceSocket,  \* MirrorWidget's and Decoder's current socket
  m_quit,          \* Decoder::m_quit
  run,             \* where the decoder thread is in Decoder::run
  eof_reached,     \* the AVIOContext's flag
  inCall,          \* the socket whose subThreadRecvData it is in
  window           \* the life of the MirrorWidget

DS == INSTANCE DeviceSocket

dsVars == <<sock, reader, slot>>
frVars == vars  \* those of Frames
threadVars == <<m_deviceSocket, m_quit, run, eof_reached, inCall>>
mirrorVars == <<dsVars, frVars, threadVars, window>>

(***************************************************************************)
(* run: "off" not started or finished, "open" in avformat_open_input,       *)
(* "loop" at the loop's condition, "read" in av_read_frame, "decode" from   *)
(* there to the end of the loop's body, "exit" at runQuit.                  *)
(* window: "closing" is ~MirrorWidget before stopDecode, "join" in its      *)
(* wait(), "gone" past it.                                                  *)
(***************************************************************************)
MirrorTypeOK ==
  /\ DS!TypeOK /\ TypeOK
  /\ m_deviceSocket \in Sockets \cup {NoSocket}
  /\ m_quit \in BOOLEAN
  /\ run \in {"off", "open", "loop", "read", "decode", "exit"}
  /\ eof_reached \in BOOLEAN
  /\ inCall \in Sockets \cup {NoSocket}
  /\ window \in {"open", "closing", "join", "gone"}

MirrorInit ==
  /\ DS!Init /\ Init
  /\ m_deviceSocket = NoSocket
  /\ m_quit = FALSE
  /\ run = "off"
  /\ eof_reached = FALSE
  /\ inCall = NoSocket
  /\ window = "open"

-----------------------------------------------------------------------------
(* The decoder thread.                                                      *)

\* The demuxer calls readPacket, hence recvData and subThreadRecvData.
CallRecv ==
  /\ run \in {"open", "read"}
  /\ inCall = NoSocket /\ ~eof_reached
  /\ DS!RecvEnter(m_deviceSocket)
  /\ eof_reached' = (reader'[m_deviceSocket].pc = "eof")
  /\ inCall' = IF eof_reached' THEN NoSocket ELSE m_deviceSocket
  /\ UNCHANGED <<frVars, m_deviceSocket, m_quit, run, window>>

\* Inside the call, short of its return.
WaitInRecv ==
  /\ inCall # NoSocket
  /\ DS!RecvArm(inCall) \/ DS!RecvWaitAgain(inCall)
  /\ UNCHANGED <<frVars, threadVars, window>>

SpuriousWake ==
  /\ inCall # NoSocket
  /\ DS!SpuriousWake(inCall)
  /\ UNCHANGED <<frVars, threadVars, window>>

\* recvData turns 0 into AVERROR_EOF.
LeaveRecv ==
  /\ inCall # NoSocket
  /\ DS!RecvReturn(inCall)
  /\ eof_reached' = (reader'[inCall].pc = "eof")
  /\ inCall' = NoSocket
  /\ UNCHANGED <<frVars, m_deviceSocket, m_quit, run, window>>

\* avformat_open_input returns, in success only if it got something to probe;
\* so do the allocations before it and the calls that open the codec after it.
OpenInput ==
  /\ run = "open" /\ inCall = NoSocket
  /\ \/ (\E s \in Sockets : reader[s].got > 0) /\ run' = "loop"
     \/ run' = "exit"
  /\ UNCHANGED <<dsVars, frVars, m_deviceSocket, m_quit, eof_reached, inCall, window>>

TestQuit ==
  /\ run = "loop"
  /\ run' = IF m_quit THEN "exit" ELSE "read"
  /\ UNCHANGED <<dsVars, frVars, m_deviceSocket, m_quit, eof_reached, inCall, window>>

\* av_read_frame returns a packet, which avcodec_send_packet takes; or one of
\* the two fails.
ReadFrame ==
  /\ run = "read" /\ inCall = NoSocket
  /\ \/ BeginDecode /\ run' = "decode"
     \/ run' = "exit" /\ UNCHANGED frVars
  /\ UNCHANGED <<dsVars, m_deviceSocket, m_quit, eof_reached, inCall, window>>

\* The body of the loop ends once the frame is pushed, or there was none to
\* push; an error of avcodec_receive_frame other than EAGAIN ends the run.
DecodeFrame ==
  /\ run = "decode"
  /\ \/ FinishDecode \/ OfferDecodedFrame \/ EmitNewFrame \/ NoPicture
  /\ run' \in IF decoder' # "idle" THEN {"decode"}
              ELSE IF eof_reached THEN {"exit"}
              ELSE IF decoder = "writing" THEN {"loop", "exit"}
              ELSE {"loop"}
  /\ UNCHANGED <<dsVars, m_deviceSocket, m_quit, eof_reached, inCall, window>>

\* Clean up and return from run: the thread is finished.
ExitRun ==
  /\ run = "exit"
  /\ run' = "off"
  /\ UNCHANGED <<dsVars, frVars, m_deviceSocket, m_quit, eof_reached, inCall, window>>

DecoderThread ==
  \/ CallRecv \/ WaitInRecv \/ LeaveRecv \/ OpenInput \/ TestQuit
  \/ ReadFrame \/ DecodeFrame \/ ExitRun

-----------------------------------------------------------------------------
(* The GUI thread.                                                          *)

\* Back in the event loop.
EventLoop ==
  /\ window = "open"
  /\ frame = "none"
  /\ \A s \in Sockets : slot[s] = "none"

\* QThread::start does nothing while the thread is running.
StartDecode ==
  /\ m_quit' = FALSE
  /\ run' = IF run = "off" THEN "open" ELSE run
  /\ eof_reached' = IF run = "off" THEN FALSE ELSE eof_reached

\* TcpServer accepts; the newConnection slot makes the socket the current one
\* and starts to decode.
NewConnection ==
  /\ EventLoop
  /\ \E s \in Sockets : DS!Accept(s) /\ m_deviceSocket' = s
  /\ StartDecode
  /\ UNCHANGED <<frVars, inCall, window>>

PhoneActs ==
  /\ EventLoop
  /\ \E s \in Sockets : DS!DataArrives(s) \/ DS!PeerDisconnects(s)
  /\ UNCHANGED <<frVars, threadVars, window>>

DeliverEvent(s) ==
  /\ EventLoop
  /\ DS!HandleSocketEvent(s)
  /\ UNCHANGED <<frVars, threadVars, window>>

FinishQuitNotify ==
  /\ window \in {"open", "closing"}
  /\ \E s \in Sockets : DS!QuitNotify(s)
  /\ UNCHANGED <<frVars, threadVars, window>>

\* The onNewFrame slot.
TakeFrame ==
  /\ EventLoop
  /\ ConsumeRenderedFrame
  /\ UNCHANGED <<dsVars, threadVars, window>>

DrawFrame ==
  /\ FinishDrawing
  /\ UNCHANGED <<dsVars, threadVars, window>>

\* The user closes the window: ~MirrorWidget closes the server and the
\* current socket.
CloseWindow ==
  /\ EventLoop
  /\ window' = "closing"
  /\ IF m_deviceSocket = NoSocket THEN UNCHANGED dsVars ELSE DS!Close(m_deviceSocket)
  /\ UNCHANGED <<frVars, threadVars>>

\* Fault: stopDecode waits without setting m_quit.
StopDecodeQuietly ==
  /\ window = "closing"
  /\ \A s \in Sockets : slot[s] = "none"
  /\ window' = "join"
  /\ UNCHANGED <<dsVars, frVars, m_deviceSocket, m_quit, run, eof_reached, inCall>>

\* Fault: stopDecode does not wait for the thread to leave its loop, it ends it.
StopDecodeTerminates ==
  /\ window = "closing"
  /\ \A s \in Sockets : slot[s] = "none"
  /\ m_quit' = TRUE
  /\ run' = "off"
  /\ window' = "join"
  /\ UNCHANGED <<dsVars, frVars, m_deviceSocket, eof_reached, inCall>>

\* close() has returned: stopDecode sets m_quit and waits for the thread.
StopDecode ==
  /\ window = "closing"
  /\ \A s \in Sockets : slot[s] = "none"
  /\ m_quit' = TRUE
  /\ window' = "join"
  /\ UNCHANGED <<dsVars, frVars, m_deviceSocket, run, eof_reached, inCall>>

\* wait() returns; m_Frames.deinit() frees the frames.
JoinReturns ==
  /\ window = "join"
  /\ run = "off"
  /\ window' = "gone"
  /\ UNCHANGED <<dsVars, frVars, threadVars>>

GuiThread ==
  \/ FinishQuitNotify \/ TakeFrame \/ DrawFrame \/ StopDecode \/ JoinReturns

-----------------------------------------------------------------------------
MirrorNext ==
  \/ DecoderThread \/ SpuriousWake
  \/ GuiThread \/ \E s \in Sockets : DeliverEvent(s)
  \/ NewConnection \/ PhoneActs \/ CloseWindow

\* Both threads run and the event loop delivers every event; phone and user
\* are free to do nothing.
MirrorFairness ==
  /\ WF_mirrorVars(DecoderThread) /\ WF_mirrorVars(GuiThread)
  /\ \A s \in Sockets : WF_mirrorVars(DeliverEvent(s))

MirrorSpec == MirrorInit /\ [][MirrorNext]_mirrorVars /\ MirrorFairness

-----------------------------------------------------------------------------
(* Properties.                                                              *)

\* The decoder thread in subThreadRecvData, its buffer lent, nobody answering.
Asleep == inCall # NoSocket /\ sock[inCall].m_buffer

\* Closing the window can hang in one place only: with the decoder thread
\* asleep in subThreadRecvData.  In particular the two threads never wait for
\* each other through the mutex of Frames, and once no read is outstanding
\* the loop of run sees m_quit.  A decoder thread that is already asleep when
\* close() runs is woken by it and joined.
HangsOnlyAsleep ==
  /\ window = "closing" ~> (window = "gone" \/ (window = "join" /\ Asleep))
  /\ (window = "closing" /\ Asleep /\ slot[inCall] = "aboutToClose") ~> window = "gone"

\* "Wait for the decode thread to exit": ~MirrorWidget returns.
CloseReturns == window = "closing" ~> window = "gone"

\* While the window is open every picture decoded is shown or overtaken by a
\* newer one, whatever the sockets do to the GUI thread meanwhile.
PicturesShown ==
  \A n \in 1 .. MaxPictures : decoded >= n ~> (shown >= n \/ window # "open")

\* The only buffer the GUI thread can find lent is that of the read in which
\* the running Decoder::run is: bytes and queued events of a connection that
\* was replaced or left find none, and run never gets to the end, where it
\* frees the buffer, while a socket still has it.
LentByTheRun ==
  \A s \in Sockets : sock[s].m_buffer => s = inCall /\ run \in {"open", "read"}

\* The calls of subThreadRecvData on all sockets are at most one.
OneCall ==
  /\ \A s \in Sockets : reader[s].pc \in {"checked", "waiting", "woken"} => s = inCall
  /\ inCall # NoSocket => run \in {"open", "read"}

\* The inductive invariant: those of the parts, which the window disturbs in no
\* order of its steps, the one call, and a thread that runs has a socket.
MirrorInv ==
  /\ MirrorTypeOK
  /\ DS!SocketsInv /\ IInv
  /\ OneCall
  /\ run # "off" => m_deviceSocket # NoSocket

=============================================================================
