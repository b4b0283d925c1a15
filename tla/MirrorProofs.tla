---------------------------- MODULE MirrorProofs ----------------------------
(***************************************************************************)
(* Proofs about Frames, then about Mirror, which extends it, and about      *)
(* KeepRatio, which shares no state with them.  The window keeps the        *)
(* inductive invariants of its two parts, and reads from one socket at a    *)
(* time: the parts' own lemmas do most of the work, as a step of the window *)
(* is a step of each of them or leaves it alone.                            *)
(***************************************************************************)
EXTENDS Mirror, KeepRatio, TLAPS

\* The proofs about DeviceSocket, of the window's sockets.
DSP == INSTANCE DeviceSocketProofs

-----------------------------------------------------------------------------
(***************************************************************************)
(* Frames, for any number of pictures: its inductive invariant, the         *)
(* announcement protocol of onNewFrame and the refinement of LatestFrame.   *)
(***************************************************************************)

\* Before the first picture.
LEMMA FramesInit == Init => IInv
BY FramesAssumption DEF Init, TypeOK, IInv, AnnouncedOnce, AVFrame

\* Every step of either thread keeps the types and the protocol of frames,
\* flag, mutex and signal.
LEMMA FramesStep == IInv /\ [Next]_vars => IInv'
<1> SUFFICES ASSUME IInv, [Next]_vars PROVE IInv'
  OBVIOUS
<1> USE FramesAssumption
<1> USE DEF TypeOK, IInv, AnnouncedOnce, AVFrame
<1>1. CASE BeginDecode
  BY <1>1 DEF BeginDecode
<1>2. CASE FinishDecode
  <2>1. decoded + 1 \in 0 .. MaxPictures
    BY <1>2 DEF FinishDecode
  <2>2. /\ picture' \in [AVFrame -> 0 .. MaxPictures]
        /\ picture'[m_decodingFrame] = decoded + 1
        /\ picture'[m_renderingframe] = picture[m_renderingframe]
    BY <1>2, <2>1 DEF FinishDecode
  <2>3. TypeOK'
    BY <1>2, <2>1, <2>2 DEF FinishDecode
  <2>4. IInv'
    BY <1>2, <2>2, <2>3 DEF FinishDecode
  <2> QED BY <2>4
<1>3. CASE NoPicture
  BY <1>3 DEF NoPicture
<1>4. CASE OfferDecodedFrame
  <2>1. TypeOK'
    BY <1>4 DEF OfferDecodedFrame
  <2>2. /\ picture[m_decodingFrame] = decoded
        /\ picture[m_renderingframe] = decoded - 1
        /\ decoded \in Int /\ shown \in Int
        /\ frame = "none" /\ shown < decoded
    BY <1>4 DEF OfferDecodedFrame
  <2>3. AnnouncedOnce'
    BY <1>4 DEF OfferDecodedFrame
  <2>4. IInv'
    BY <1>4, <2>1, <2>2, <2>3 DEF OfferDecodedFrame
  <2> QED BY <2>4
<1>5. CASE EmitNewFrame
  BY <1>5 DEF EmitNewFrame
<1>6. CASE ConsumeRenderedFrame
  BY <1>6 DEF ConsumeRenderedFrame
<1>7. CASE FinishDrawing
  BY <1>7 DEF FinishDrawing
<1>8. CASE UNCHANGED vars
  BY <1>8 DEF vars
<1> QED
  BY <1>1, <1>2, <1>3, <1>4, <1>5, <1>6, <1>7, <1>8
  DEF Next, DecoderStep, ViewerStep

\* The members of Frames and of its two users keep their types, the number of
\* queued onNewFrame signals and the picture numbers stay in range, and the
\* protocol of frames, flag, mutex and signal is kept by every step.
THEOREM FramesInvariance == Spec => []IInv
BY FramesInit, FramesStep, PTL DEF Spec

\* The Q_ASSERT of consumeRenderedFrame holds, and no picture is announced
\* twice or left unannounced, whatever the two threads' speeds.
THEOREM FramesAnnouncement == Spec => []AnnouncedOnce
<1>1. IInv => AnnouncedOnce
  BY DEF IInv
<1> QED BY <1>1, FramesInvariance, PTL

\* The GUI thread draws whole pictures only, and always the newest offered.
THEOREM FramesDrawing == Spec => []DrawsTheNewest
<1>1. IInv => DrawsTheNewest
  BY DEF TypeOK, IInv, DrawsTheNewest
<1> QED BY <1>1, FramesInvariance, PTL

\* At first there is no picture.
LEMMA ViewInit == Init => View!Init
BY FramesAssumption DEF Init, View!Init, AVFrame

\* Every step publishes a picture, shows one, or leaves the view as it is.
LEMMA ViewStep == IInv /\ IInv' /\ [Next]_vars => [View!Next]_(View!vars)
<1> USE FramesAssumption
<1> SUFFICES ASSUME IInv, IInv', [Next]_vars
             PROVE  [View!Next]_(View!vars)
  OBVIOUS
<1> USE DEF TypeOK, IInv, AVFrame, View!vars
<1>1. CASE BeginDecode
  BY <1>1 DEF BeginDecode
<1>2. CASE FinishDecode
  BY <1>2 DEF FinishDecode
<1>3. CASE NoPicture
  BY <1>3 DEF NoPicture
<1>4. CASE OfferDecodedFrame
  <2>1. View!Publish
    BY <1>4 DEF OfferDecodedFrame, View!Publish
  <2> QED BY <2>1 DEF View!Next
<1>5. CASE EmitNewFrame
  BY <1>5 DEF EmitNewFrame
<1>6. CASE ConsumeRenderedFrame
  <2>1. ~m_renderingFrameConsumed
    BY <1>6 DEF ConsumeRenderedFrame, AnnouncedOnce
  <2> QED BY <1>6, <2>1 DEF ConsumeRenderedFrame
<1>7. CASE FinishDrawing
  <2>1. m_renderingFrameConsumed
    BY <1>7 DEF FinishDrawing
  <2>2. View!Show
    BY <1>7, <2>1 DEF FinishDrawing, View!Show
  <2> QED BY <2>2 DEF View!Next
<1>8. CASE UNCHANGED vars
  BY <1>8 DEF vars
<1> QED
  BY <1>1, <1>2, <1>3, <1>4, <1>5, <1>6, <1>7, <1>8
  DEF Next, DecoderStep, ViewerStep

\* Frames implements LatestFrame: pictures are shown in order, whole, at most
\* once each.
THEOREM FramesRefinement == Spec => IsLatestFrame
BY ViewInit, ViewStep, FramesInvariance, PTL DEF Spec, IsLatestFrame, View!Spec

-----------------------------------------------------------------------------
(* Every step is a step of the parts.                                       *)

USE DEF dsVars, frVars, threadVars

\* The window and the decoder thread touch the Frames through its operations.
LEMMA StepsOfFrames == [MirrorNext]_mirrorVars => [Next]_vars
<1> SUFFICES ASSUME [MirrorNext]_mirrorVars PROVE [Next]_vars
  OBVIOUS
<1>1. CASE ReadFrame
  BY <1>1 DEF ReadFrame, vars, Next, DecoderStep
<1>2. CASE DecodeFrame
  BY <1>2 DEF DecodeFrame, Next, DecoderStep
<1>3. CASE TakeFrame \/ DrawFrame
  BY <1>3 DEF TakeFrame, DrawFrame, Next, ViewerStep
<1>4. CASE \/ CallRecv \/ WaitInRecv \/ LeaveRecv \/ OpenInput \/ TestQuit \/ ExitRun
           \/ SpuriousWake
  BY <1>4 DEF CallRecv, WaitInRecv, LeaveRecv, OpenInput, TestQuit, ExitRun,
              SpuriousWake, vars
<1>5. CASE \/ FinishQuitNotify \/ StopDecode \/ JoinReturns \/ NewConnection
           \/ PhoneActs \/ CloseWindow \/ \E s \in Sockets : DeliverEvent(s)
  BY <1>5 DEF FinishQuitNotify, StopDecode, JoinReturns, NewConnection,
              PhoneActs, CloseWindow, DeliverEvent, vars
<1>6. CASE UNCHANGED mirrorVars
  BY <1>6 DEF mirrorVars, vars
<1> QED
  BY <1>1, <1>2, <1>3, <1>4, <1>5, <1>6 DEF MirrorNext, DecoderThread, GuiThread

\* They touch the DeviceSockets through theirs, one at a time.
LEMMA StepsOfSockets == MirrorInv /\ [MirrorNext]_mirrorVars => [DS!Next]_(DS!vars)
<1> SUFFICES ASSUME MirrorInv, [MirrorNext]_mirrorVars PROVE [DS!Next]_(DS!vars)
  OBVIOUS
<1>1. /\ m_deviceSocket \in Sockets \cup {NoSocket}
      /\ inCall \in Sockets \cup {NoSocket}
      /\ run # "off" => m_deviceSocket \in Sockets
  BY DEF MirrorInv, MirrorTypeOK
<1>2. CASE CallRecv
  <2>1. m_deviceSocket \in Sockets
    BY <1>1, <1>2 DEF CallRecv
  <2> QED BY <1>2, <2>1 DEF CallRecv, DS!Next, DS!RecvStep
<1>3. CASE WaitInRecv \/ LeaveRecv \/ SpuriousWake
  <2>1. inCall \in Sockets
    BY <1>1, <1>3 DEF WaitInRecv, LeaveRecv, SpuriousWake
  <2> QED
    BY <1>3, <2>1 DEF WaitInRecv, LeaveRecv, SpuriousWake, DS!Next, DS!RecvStep
<1>4. CASE NewConnection \/ PhoneActs
  BY <1>4 DEF NewConnection, PhoneActs, DS!Next
<1>5. CASE FinishQuitNotify \/ \E s \in Sockets : DeliverEvent(s)
  BY <1>5 DEF FinishQuitNotify, DeliverEvent, DS!Next, DS!GuiStep
<1>6. CASE CloseWindow
  <2>1. CASE m_deviceSocket = NoSocket
    BY <1>6, <2>1 DEF CloseWindow, DS!vars
  <2>2. CASE m_deviceSocket # NoSocket
    BY <1>1, <1>6, <2>2 DEF CloseWindow, DS!Next
  <2> QED BY <2>1, <2>2
<1>7. CASE \/ OpenInput \/ TestQuit \/ ReadFrame \/ DecodeFrame \/ ExitRun
           \/ TakeFrame \/ DrawFrame \/ StopDecode \/ JoinReturns \/ UNCHANGED mirrorVars
  BY <1>7 DEF OpenInput, TestQuit, ReadFrame, DecodeFrame, ExitRun, TakeFrame,
              DrawFrame, StopDecode, JoinReturns, mirrorVars, DS!vars
<1> QED
  BY <1>2, <1>3, <1>4, <1>5, <1>6, <1>7 DEF MirrorNext, DecoderThread, GuiThread

-----------------------------------------------------------------------------
(* The parts' lemmas, read in the window.                                   *)

\* What the proofs about DeviceSocket speak of is what Mirror is built on.
LEMMA SameSockets ==
  /\ DSP!IInv <=> DS!IInv
  /\ DSP!Init <=> DS!Init
  /\ [DSP!Next]_(DSP!vars) <=> [DS!Next]_(DS!vars)
<1> USE DEF DS!Socket, DSP!Socket, DS!Reader, DSP!Reader, DS!Link,
            DSP!Link, DS!NewSocket, DSP!NewSocket, DS!Parked,
            DSP!Parked, DS!Quitting, DSP!Quitting,
            DS!InFlight, DSP!InFlight
<1>1. DSP!IInv <=> DS!IInv
  BY DEF DS!IInv, DSP!IInv, DS!TypeOK, DSP!TypeOK, DS!SocketsInv,
         DSP!SocketsInv, DS!SocketInv, DSP!SocketInv,
         DS!Untouched, DSP!Untouched, DS!LendingProtocol,
         DSP!LendingProtocol, DS!BytesAccounted,
         DSP!BytesAccounted, DS!EventPending, DSP!EventPending,
         DS!QuitMeansOver, DSP!QuitMeansOver
<1>2. DSP!Init <=> DS!Init
  BY DEF DS!Init, DSP!Init
<1>3. DSP!Next <=> DS!Next
  BY DEF DS!Next, DSP!Next, DS!RecvStep, DSP!RecvStep, DS!GuiStep,
         DSP!GuiStep, DS!QuitReads, DSP!QuitReads, DS!RecvEnter,
         DSP!RecvEnter, DS!RecvArm, DSP!RecvArm, DS!SpuriousWake,
         DSP!SpuriousWake, DS!RecvWaitAgain, DSP!RecvWaitAgain,
         DS!RecvReturn, DSP!RecvReturn, DS!WakeOne, DSP!WakeOne,
         DS!ReadSize, DSP!ReadSize, DS!Filled, DSP!Filled,
         DS!OnReadyRead, DSP!OnReadyRead, DS!Accept, DSP!Accept,
         DS!DataArrives, DSP!DataArrives, DS!HandleSocketEvent,
         DSP!HandleSocketEvent, DS!PeerDisconnects,
         DSP!PeerDisconnects, DS!Close, DSP!Close, DS!Released,
         DSP!Released, DS!AfterQuit, DSP!AfterQuit,
         DS!QuitNotify, DSP!QuitNotify
<1>4. DSP!vars = DS!vars /\ (DSP!vars' = DS!vars')
  BY DEF DS!vars, DSP!vars
<1> QED BY <1>1, <1>2, <1>3, <1>4

\* What DeviceSocket starts with and keeps.
LEMMA SocketsKept ==
  /\ DS!Init => DS!IInv
  /\ DS!IInv /\ [DS!Next]_(DS!vars) => DS!IInv'
<1>1. DSP!IInv' <=> DS!IInv'
  BY SameSockets, PTL
<1>2. DSP!Init => DSP!IInv
  BY DSP!InitInvariant, MirrorAssumption DEF MirrorAssumption
<1>3. DSP!IInv /\ [DSP!Next]_(DSP!vars) => DSP!IInv'
  BY DSP!TypeStep, DSP!SocketsStep, MirrorAssumption
  DEF MirrorAssumption, DSP!IInv
<1> QED BY <1>1, <1>2, <1>3, SameSockets

\* The pipes they are.
LEMMA PipesKept ==
  /\ DS!Init => DS!Pipe!Init
  /\ DS!IInv /\ [DS!Next]_(DS!vars) => [DS!Pipe!Next]_(DS!Pipe!vars)
<1> USE DEF DS!Quitting, DSP!Quitting, DS!InFlight, DSP!InFlight
<1>1. DSP!Pipe!Init <=> DS!Pipe!Init
  BY DEF DS!Pipe!Init, DSP!Pipe!Init
<1>2. DSP!Pipe!Next <=> DS!Pipe!Next
  BY DEF DS!Pipe!Next, DSP!Pipe!Next, DS!Pipe!Put, DSP!Pipe!Put, DS!Pipe!Take,
         DSP!Pipe!Take, DS!Pipe!Shut, DSP!Pipe!Shut, DS!Pipe!Drop, DSP!Pipe!Drop,
         DS!Pipe!End, DSP!Pipe!End
<1>3. DSP!Pipe!vars = DS!Pipe!vars /\ DSP!Pipe!vars' = DS!Pipe!vars'
  BY DEF DS!Pipe!vars, DSP!Pipe!vars
<1>4. DSP!Init => DSP!Pipe!Init
  BY DSP!PipeInit, MirrorAssumption DEF MirrorAssumption
<1>5. DSP!IInv /\ [DSP!Next]_(DSP!vars) => [DSP!Pipe!Next]_(DSP!Pipe!vars)
  BY DSP!PipeStep, MirrorAssumption DEF MirrorAssumption, DSP!IInv
<1> QED BY <1>1, <1>2, <1>3, <1>4, <1>5, SameSockets

-----------------------------------------------------------------------------
(* The invariant of the composition.                                        *)

\* What Mirror adds to the types of its parts.
WindowTypes ==
  /\ m_deviceSocket \in Sockets \cup {NoSocket}
  /\ m_quit \in BOOLEAN
  /\ run \in {"off", "open", "loop", "read", "decode", "exit"}
  /\ eof_reached \in BOOLEAN
  /\ inCall \in Sockets \cup {NoSocket}
  /\ window \in {"open", "closing", "join", "gone"}

\* MirrorInv in these parts.
LEMMA InParts ==
  MirrorInv <=> /\ DS!IInv /\ IInv /\ WindowTypes /\ OneCall
                /\ run # "off" => m_deviceSocket # NoSocket
<1>1. IInv => TypeOK
  BY DEF IInv
<1>2. DS!IInv <=> DS!TypeOK /\ DS!SocketsInv
  BY DEF DS!IInv
<1> QED BY <1>1, <1>2, Zenon DEF MirrorInv, MirrorTypeOK, WindowTypes

\* The window's own variables keep their types.
LEMMA TypesKept ==
  ASSUME WindowTypes, [MirrorNext]_mirrorVars
  PROVE  WindowTypes'
<1> USE DEF WindowTypes
<1>1. CASE CallRecv \/ WaitInRecv \/ LeaveRecv \/ SpuriousWake
  BY <1>1 DEF CallRecv, WaitInRecv, LeaveRecv, SpuriousWake
<1>2. CASE OpenInput \/ TestQuit \/ ReadFrame \/ ExitRun
  BY <1>2 DEF OpenInput, TestQuit, ReadFrame, ExitRun
<1>3. CASE DecodeFrame
  <2>1. run' \in {"decode", "exit", "loop"}
    BY <1>3 DEF DecodeFrame
  <2> QED BY <1>3, <2>1 DEF DecodeFrame
<1>4. CASE \/ FinishQuitNotify \/ TakeFrame \/ DrawFrame \/ StopDecode \/ JoinReturns
           \/ PhoneActs \/ CloseWindow \/ \E s \in Sockets : DeliverEvent(s)
  BY <1>4 DEF FinishQuitNotify, TakeFrame, DrawFrame, StopDecode, JoinReturns,
              PhoneActs, CloseWindow, DeliverEvent
<1>5. CASE NewConnection
  BY <1>5 DEF NewConnection, StartDecode
<1>6. CASE UNCHANGED mirrorVars
  BY <1>6 DEF mirrorVars
<1> QED
  BY <1>1, <1>2, <1>3, <1>4, <1>5, <1>6 DEF MirrorNext, DecoderThread, GuiThread

\* A step of the GUI thread on the sockets begins no call.
LEMMA GuiBeginsNoCall ==
  ASSUME DS!TypeOK, NEW s \in Sockets,
         \/ DS!Accept(s) \/ DS!DataArrives(s) \/ DS!PeerDisconnects(s) \/ DS!HandleSocketEvent(s)
         \/ DS!Close(s) \/ DS!QuitNotify(s)
  PROVE  \A t \in Sockets : reader'[t].pc \in {"checked", "waiting", "woken"} =>
           reader[t].pc \in {"checked", "waiting", "woken"}
<1> USE DEF DS!TypeOK, DS!Reader
<1>1. CASE DS!Accept(s) \/ DS!PeerDisconnects(s) \/ DS!Close(s)
  BY <1>1 DEF DS!Accept, DS!PeerDisconnects, DS!Close
<1>2. CASE DS!WakeOne(s) \/ UNCHANGED reader
  BY <1>2 DEF DS!WakeOne
<1>3. ASSUME DS!DataArrives(s) \/ DS!HandleSocketEvent(s)
      PROVE  DS!WakeOne(s) \/ UNCHANGED reader
  BY <1>3 DEF DS!DataArrives, DS!HandleSocketEvent, DS!OnReadyRead
<1>4. ASSUME DS!QuitNotify(s)
      PROVE  DS!WakeOne(s) \/ UNCHANGED reader
  BY <1>4 DEF DS!QuitNotify
<1> QED BY <1>1, <1>2, <1>3, <1>4

\* The decoder thread enters one call at a time, and stays in run's part that
\* reads until it has left it.
LEMMA CallKept ==
  ASSUME MirrorTypeOK, OneCall, [MirrorNext]_mirrorVars
  PROVE  OneCall'
<1>1. /\ \A s \in Sockets : reader[s].pc \in {"checked", "waiting", "woken"} => s = inCall
      /\ inCall # NoSocket => run \in {"open", "read"}
      /\ inCall \in Sockets \cup {NoSocket} /\ m_deviceSocket \in Sockets \cup {NoSocket}
      /\ NoSocket \notin Sockets
      /\ DS!TypeOK
  BY MirrorAssumption DEF OneCall, MirrorTypeOK, MirrorAssumption
<1>2. reader \in [Sockets -> DS!Reader]
  BY <1>1 DEF DS!TypeOK
<1> SUFFICES /\ \A s \in Sockets : reader'[s].pc \in {"checked", "waiting", "woken"} => s = inCall'
             /\ inCall' # NoSocket => run' \in {"open", "read"}
  BY DEF OneCall
<1>3. CASE CallRecv
  <2>1. /\ run \in {"open", "read"} /\ run' = run
        /\ inCall = NoSocket
        /\ inCall' = IF reader'[m_deviceSocket].pc = "eof" THEN NoSocket ELSE m_deviceSocket
    BY <1>3 DEF CallRecv
  <2>2. \A s \in Sockets : s # m_deviceSocket => reader'[s] = reader[s]
    BY <1>2, <1>3 DEF CallRecv, DS!RecvEnter
  <2> QED BY <1>1, <2>1, <2>2
<1>4. CASE WaitInRecv \/ SpuriousWake
  <2>1. inCall # NoSocket /\ inCall' = inCall /\ run' = run
    BY <1>4 DEF WaitInRecv, SpuriousWake, threadVars
  <2>2. \A s \in Sockets : s # inCall => reader'[s] = reader[s]
    BY <1>2, <1>4 DEF WaitInRecv, SpuriousWake, DS!RecvArm, DS!RecvWaitAgain, DS!SpuriousWake
  <2> QED BY <1>1, <2>1, <2>2
<1>5. CASE LeaveRecv
  <2>1. inCall \in Sockets /\ inCall' = NoSocket
    BY <1>1, <1>5 DEF LeaveRecv
  <2>2. reader'[inCall].pc \in {"eof", "idle"}
    BY <1>2, <1>5, <2>1 DEF LeaveRecv, DS!RecvReturn, DS!Reader
  <2>3. \A s \in Sockets : s # inCall => reader'[s] = reader[s]
    BY <1>2, <1>5 DEF LeaveRecv, DS!RecvReturn
  <2> QED BY <1>1, <2>1, <2>2, <2>3
<1>6. CASE OpenInput \/ TestQuit \/ ReadFrame \/ DecodeFrame \/ ExitRun
  <2>1. inCall = NoSocket /\ inCall' = inCall /\ reader' = reader
    BY <1>1, <1>6 DEF OpenInput, TestQuit, ReadFrame, DecodeFrame, ExitRun, dsVars
  <2> QED BY <1>1, <2>1
<1>7. CASE TakeFrame \/ DrawFrame \/ StopDecode \/ JoinReturns \/ UNCHANGED mirrorVars
  BY <1>1, <1>7 DEF TakeFrame, DrawFrame, StopDecode, JoinReturns, mirrorVars, dsVars, threadVars
<1>8. CASE \/ NewConnection \/ PhoneActs \/ CloseWindow \/ FinishQuitNotify
           \/ \E s \in Sockets : DeliverEvent(s)
  <2>1. /\ inCall' = inCall
        /\ run' = run \/ run = "off"
    BY <1>8 DEF NewConnection, StartDecode, PhoneActs, CloseWindow, FinishQuitNotify, DeliverEvent,
       threadVars
  <2>2. \A t \in Sockets : reader'[t].pc \in {"checked", "waiting", "woken"} =>
          reader[t].pc \in {"checked", "waiting", "woken"}
    <3>1. CASE CloseWindow
      BY <1>1, <3>1, GuiBeginsNoCall DEF CloseWindow, dsVars
    <3>2. CASE NewConnection \/ PhoneActs
      BY <1>1, <3>2, GuiBeginsNoCall DEF NewConnection, PhoneActs
    <3>3. CASE FinishQuitNotify \/ \E s \in Sockets : DeliverEvent(s)
      BY <1>1, <3>3, GuiBeginsNoCall DEF FinishQuitNotify, DeliverEvent
    <3> QED BY <1>8, <3>1, <3>2, <3>3
  <2> QED BY <1>1, <2>1, <2>2
<1> QED
  BY <1>3, <1>4, <1>5, <1>6, <1>7, <1>8 DEF MirrorNext, DecoderThread, GuiThread

\* run leaves "off" only when a connection became the current one.
LEMMA SocketKept ==
  ASSUME run # "off" => m_deviceSocket # NoSocket, [MirrorNext]_mirrorVars
  PROVE  run' # "off" => m_deviceSocket' # NoSocket
<1>1. CASE NewConnection
  BY <1>1, MirrorAssumption DEF NewConnection, MirrorAssumption
<1>2. CASE DecoderThread \/ SpuriousWake
  BY <1>2 DEF DecoderThread, CallRecv, WaitInRecv, LeaveRecv, OpenInput, TestQuit,
              ReadFrame, DecodeFrame, ExitRun, SpuriousWake
<1>3. CASE GuiThread \/ PhoneActs \/ CloseWindow \/ \E s \in Sockets : DeliverEvent(s)
  BY <1>3 DEF GuiThread, FinishQuitNotify, TakeFrame, DrawFrame, StopDecode,
              JoinReturns, PhoneActs, CloseWindow, DeliverEvent
<1>4. CASE UNCHANGED mirrorVars
  BY <1>4 DEF mirrorVars
<1> QED BY <1>1, <1>2, <1>3, <1>4 DEF MirrorNext

\* The invariants of DeviceSocket and of Frames, proved there for one socket
\* and one writer, hold in the window that runs them together.
THEOREM MirrorInvariance == MirrorSpec => []MirrorInv
<1>1. MirrorInit => MirrorInv
  <2>1. MirrorInit => WindowTypes /\ OneCall /\ run = "off"
    <3>1. ASSUME MirrorInit, NEW s \in Sockets PROVE reader[s].pc = "idle"
      BY <3>1 DEF MirrorInit, DS!Init
    <3>2. MirrorInit => OneCall
      BY <3>1 DEF MirrorInit, OneCall
    <3> QED BY <3>2 DEF MirrorInit, WindowTypes
  <2> QED BY <2>1, FramesInit, SocketsKept, InParts DEF MirrorInit
<1>2. MirrorInv /\ [MirrorNext]_mirrorVars => MirrorInv'
  <2> SUFFICES ASSUME MirrorInv, [MirrorNext]_mirrorVars PROVE MirrorInv'
    OBVIOUS
  <2>1. DS!IInv' /\ IInv'
    <3>1. DS!IInv /\ IInv
      BY InParts, Zenon
    <3>2. DS!IInv'
      BY <3>1, StepsOfSockets, SocketsKept, Zenon
    <3>3. IInv'
      BY <3>1, StepsOfFrames, FramesStep, Zenon
    <3> QED BY <3>2, <3>3
  <2>2. /\ WindowTypes' /\ OneCall'
        /\ run' # "off" => m_deviceSocket' # NoSocket
    BY InParts, TypesKept, CallKept, SocketKept DEF MirrorInv
  <2> QED
    BY <2>1, <2>2 DEF MirrorInv, MirrorTypeOK, WindowTypes, DS!IInv, IInv
<1> QED BY <1>1, <1>2, PTL DEF MirrorSpec

\* A lent buffer is that of the read in progress, in the run in progress,
\* however connections replace each other.
THEOREM BuffersBelongToTheRun == MirrorSpec => []LentByTheRun
<1>1. MirrorInv => LentByTheRun
  <2> SUFFICES ASSUME MirrorInv, NEW s \in Sockets, sock[s].m_buffer
               PROVE  s = inCall /\ run \in {"open", "read"}
    BY DEF LentByTheRun
  <2>1. reader[s].pc \in {"waiting", "woken"}
    BY DEF MirrorInv, DS!SocketsInv, DS!SocketInv, DS!LendingProtocol, DS!Parked
  <2> QED BY <2>1, MirrorAssumption DEF MirrorInv, OneCall, MirrorAssumption
<1> QED BY <1>1, MirrorInvariance, PTL

\* In the window too no bytes are lost between onReadyRead, quitNotify and the
\* decoder thread, and onReadyRead writes only into a buffer that is lent.
THEOREM SocketsStaySound == MirrorSpec => [](DS!BufferOwned /\ DS!NothingLost)
<1>1. MirrorInv => DS!BufferOwned /\ DS!NothingLost
  BY DEF MirrorInv, DS!SocketsInv, DS!SocketInv, DS!LendingProtocol, DS!BytesAccounted,
         DS!BufferOwned, DS!NothingLost
<1> QED BY <1>1, MirrorInvariance, PTL

\* In the window too the GUI thread draws whole pictures, the newest offered.
THEOREM FramesStaySound == MirrorSpec => [](AnnouncedOnce /\ DrawsTheNewest)
<1>1. MirrorInv => AnnouncedOnce /\ DrawsTheNewest
  BY DEF MirrorInv, IInv, TypeOK, AnnouncedOnce, DrawsTheNewest
<1> QED BY <1>1, MirrorInvariance, PTL

\* In the window too Frames is a latest-picture view, whatever connections
\* start and stop the thread that decodes.
THEOREM WindowIsLatestFrame == MirrorSpec => IsLatestFrame
<1>1. MirrorInit => View!Init
  BY ViewInit DEF MirrorInit
<1>2. MirrorInv /\ MirrorInv' /\ [MirrorNext]_mirrorVars => [View!Next]_(View!vars)
  <2>1. MirrorInv => IInv
    BY DEF MirrorInv
  <2>2. MirrorInv' => IInv'
    BY DEF MirrorInv
  <2> QED BY <2>1, <2>2, StepsOfFrames, ViewStep
<1> QED BY <1>1, <1>2, MirrorInvariance, PTL DEF MirrorSpec, IsLatestFrame, View!Spec

\* In the window too each connection is a byte pipe for the demuxer, whichever
\* connection it reads and whenever they replace each other.
THEOREM WindowReadsBytePipes == MirrorSpec => DS!IsBytePipe
<1>1. MirrorInit => DS!Pipe!Init
  BY PipesKept DEF MirrorInit
<1>2. MirrorInv /\ [MirrorNext]_mirrorVars => [DS!Pipe!Next]_(DS!Pipe!vars)
  <2>1. MirrorInv => DS!IInv
    BY DEF MirrorInv, MirrorTypeOK, DS!IInv
  <2> QED BY <2>1, StepsOfSockets, PipesKept
<1> QED BY <1>1, <1>2, MirrorInvariance, PTL DEF MirrorSpec, DS!IsBytePipe, DS!Pipe!Spec

-----------------------------------------------------------------------------
(***************************************************************************)
(* The geometry of the window, for widgets, frames and screens of every     *)
(* size.  The products are linear once they have a name; the one fact about *)
(* them is that a truncated quotient beyond the side would be off by a      *)
(* divisor.                                                                 *)
(***************************************************************************)

\* Half of a margin on either side.
LEMMA Half == ASSUME NEW d \in Nat PROVE d - 2 * (d \div 2) \in {0, 1}
OBVIOUS

\* What is at most a side, but for rounding, fits it once truncated.
LEMMA TruncatedFits ==
  ASSUME NEW side \in Nat, NEW den \in Nat \ {0}, NEW num \in Nat,
         AtMost(num, side, den), NEW n \in Truncated(num, den)
  PROVE  n \in 0 .. side
<1> DEFINE full == side * den
           part == den * n
<1>1. n \in Int /\ n >= 0 /\ full \in Int /\ part \in Int
  BY DEF Truncated
<1>2. 10 * part <= 10 * num + den /\ 10 * num <= 10 * full + den
  BY DEF Truncated, AtMost
<1>3. ASSUME n > side PROVE part >= full + den
  <2>1. n >= side + 1
    BY <1>1, <1>3
  <2>2. den * n >= den * (side + 1)
    BY <1>1, <2>1
  <2> QED BY <2>2
<1> HIDE DEF full, part
<1>4. ~(part >= full + den)
  BY <1>1, <1>2
<1> QED BY <1>1, <1>3, <1>4

\* Products of sizes.
LEMMA ProductNat == ASSUME NEW a \in Nat, NEW b \in Nat PROVE a * b \in Nat
OBVIOUS

\* A width that is the height times the ratio, cut to an integer.
LEMMA RatioByHeight ==
  ASSUME NEW pic \in Frame, NEW height \in Nat,
         NEW w \in Truncated(height * pic.width, pic.height),
         NEW g, g.width = w, g.height = height
  PROVE  KeepsRatio(g, pic)
<1> DEFINE across == w * pic.height
           down == height * pic.width
<1>1. pic.width \in Nat \ {0} /\ pic.height \in Nat \ {0} /\ down \in Nat
  BY ProductNat DEF Frame
<1>2. w \in Nat /\ across \in Nat /\ across = pic.height * w
  BY <1>1 DEF Truncated
<1>3. 10 * across <= 10 * down + pic.height /\ 10 * across >= 10 * down - 11 * pic.height
  BY <1>2 DEF Truncated
<1> HIDE DEF across, down
<1>4. LET pixel == pic.width + pic.height
      IN  10 * across <= 10 * down + 11 * pixel /\ 10 * down <= 10 * across + 11 * pixel
  BY <1>1, <1>2, <1>3
<1> QED BY <1>4 DEF KeepsRatio, across, down

\* A height that is the width divided by the ratio, cut to an integer.
LEMMA RatioByWidth ==
  ASSUME NEW pic \in Frame, NEW width \in Nat,
         NEW h \in Truncated(width * pic.height, pic.width),
         NEW g, g.width = width, g.height = h
  PROVE  KeepsRatio(g, pic)
<1> DEFINE across == width * pic.height
           down == h * pic.width
<1>1. pic.width \in Nat \ {0} /\ pic.height \in Nat \ {0} /\ across \in Nat
  BY ProductNat DEF Frame
<1>2. h \in Nat /\ down \in Nat /\ down = pic.width * h
  BY <1>1 DEF Truncated
<1>3. 10 * down <= 10 * across + pic.width /\ 10 * down >= 10 * across - 11 * pic.width
  BY <1>2 DEF Truncated
<1> HIDE DEF across, down
<1>4. LET pixel == pic.width + pic.height
      IN  10 * across <= 10 * down + 11 * pixel /\ 10 * down <= 10 * across + 11 * pixel
  BY <1>1, <1>2, <1>3
<1> QED BY <1>4 DEF KeepsRatio, across, down

\* Wherever rounding leads, the video stays inside and centred, in a widget of
\* any size.
THEOREM VideoFits ==
  ASSUME NEW curSize \in Space, NEW pic \in Frame, NEW g \in adjustSubWidget(curSize, pic)
  PROVE  Fits(g, curSize) /\ KeepsRatio(g, pic)
<1> DEFINE W == curSize.width
           H == curSize.height
<1>1. W \in Nat /\ H \in Nat /\ pic.width \in Nat \ {0} /\ pic.height \in Nat \ {0}
  BY DEF Space, Frame
<1>2. W * pic.height \in Nat /\ H * pic.width \in Nat
  BY <1>1, ProductNat
<1>3. ASSUME NEW w \in 0 .. W, g = [x |-> (W - w) \div 2, y |-> 0, width |-> w, height |-> H]
      PROVE  Fits(g, curSize)
  <2>0. W - w \in Nat
    BY <1>1
  <2>1. (W - w) - 2 * ((W - w) \div 2) \in {0, 1}
    BY <2>0, Half
  <2> QED BY <1>1, <1>3, <2>1 DEF Fits
<1>4. ASSUME NEW h \in 0 .. H, g = [x |-> 0, y |-> (H - h) \div 2, width |-> W, height |-> h]
      PROVE  Fits(g, curSize)
  <2>1. (H - h) - 2 * ((H - h) \div 2) \in {0, 1}
    BY <1>1, Half
  <2> QED BY <1>1, <1>4, <2>1 DEF Fits
<1>5. ASSUME g = [x |-> 0, y |-> 0, width |-> W, height |-> H]
      PROVE  Fits(g, curSize)
  BY <1>1, <1>5 DEF Fits
<1>6. ASSUME AtMost(H * pic.width, W, pic.height) PROVE Truncated(H * pic.width, pic.height) \subseteq 0 .. W
  BY <1>1, <1>2, <1>6, TruncatedFits
<1>7. ASSUME AtMost(W * pic.height, H, pic.width) PROVE Truncated(W * pic.height, pic.width) \subseteq 0 .. H
  BY <1>1, <1>2, <1>7, TruncatedFits
<1>8. Fits(g, curSize)
  BY <1>3, <1>4, <1>5, <1>6, <1>7 DEF adjustSubWidget
<1>9. ASSUME NEW w \in Truncated(H * pic.width, pic.height), g.width = w, g.height = H
      PROVE  KeepsRatio(g, pic)
  BY <1>1, <1>9, RatioByHeight
<1>10. ASSUME NEW h \in Truncated(W * pic.height, pic.width), g.width = W, g.height = h
       PROVE  KeepsRatio(g, pic)
  BY <1>1, <1>10, RatioByWidth
<1>11. ASSUME AtMost(H * pic.width, W, pic.height), AtMost(W * pic.height, H, pic.width),
              g.width = W, g.height = H
       PROVE  KeepsRatio(g, pic)
  <2> DEFINE across == W * pic.height
             down == H * pic.width
  <2>1. 10 * down <= 10 * across + pic.height /\ 10 * across <= 10 * down + pic.width
    BY <1>11 DEF AtMost
  <2> HIDE DEF across, down
  <2>2. across \in Nat /\ down \in Nat
    BY <1>2 DEF across, down
  <2>3. LET pixel == pic.width + pic.height
        IN  10 * across <= 10 * down + 11 * pixel /\ 10 * down <= 10 * across + 11 * pixel
    BY <1>1, <2>1, <2>2
  <2> QED BY <1>11, <2>3 DEF KeepsRatio, across, down
<1>12. KeepsRatio(g, pic)
  BY <1>9, <1>10, <1>11 DEF adjustSubWidget
<1> QED BY <1>8, <1>12

\* The window keeps the frame's ratio, is never larger than the frame, and is
\* within what updateFrameSize leaves it of the screen: of its height for a
\* frame that is upright, of its width for one that is not.
THEOREM WindowFits ==
  ASSUME NEW pic \in Frame, NEW screen \in Space, screen.height >= 200,
         NEW s \in showSize(pic, screen)
  PROVE  Shows(s, pic, screen)
<1>1. /\ pic.width \in Nat \ {0} /\ pic.height \in Nat \ {0}
      /\ screen.width \in Nat /\ screen.height - 200 \in Nat /\ screen.width \div 2 \in Nat
  BY DEF Space, Frame
<1>2. ASSUME NEW full \in Nat \ {0}, NEW other \in Nat \ {0}, NEW room \in Nat,
             NEW n \in Truncated(Smaller(full, room) * other, full)
      PROVE  n \in 0 .. other
  <2> DEFINE side == Smaller(full, room)
  <2>1. side \in Nat /\ side <= full
    BY DEF Smaller
  <2> HIDE DEF side
  <2>2. side * other \in Nat /\ side * other <= other * full
    <3>1. (full - side) \in Nat /\ (full - side) * other \in Nat
      BY <2>1
    <3> QED BY <2>1, <3>1
  <2>3. other * full \in Nat
    BY ProductNat
  <2>4. AtMost(side * other, other, full)
    BY <2>2, <2>3 DEF AtMost
  <2>5. n \in Truncated(side * other, full)
    BY DEF side
  <2> QED BY <2>2, <2>4, <2>5, TruncatedFits
<1>3. CASE pic.width < pic.height
  <2>1. PICK w \in Truncated(Smaller(pic.height, screen.height - 200) * pic.width, pic.height) :
          s = [width |-> w, height |-> Smaller(pic.height, screen.height - 200)]
    BY <1>3 DEF showSize
  <2>2. w \in 0 .. pic.width
    BY <1>1, <1>2
  <2>3. /\ Smaller(pic.height, screen.height - 200) \in 0 .. pic.height
        /\ Smaller(pic.height, screen.height - 200) <= screen.height - 200
    BY <1>1 DEF Smaller
  <2>4. KeepsRatio(s, pic)
    <3> DEFINE side == Smaller(pic.height, screen.height - 200)
    <3>1. w \in Truncated(side * pic.width, pic.height)
      BY <2>1
    <3>2. side \in Nat /\ s.width = w /\ s.height = side
      BY <1>1, <2>1, <2>3
    <3> HIDE DEF side
    <3> QED BY <3>1, <3>2, RatioByHeight
  <2> QED BY <1>3, <2>1, <2>2, <2>3, <2>4 DEF Shows
<1>4. CASE ~(pic.width < pic.height)
  <2>1. PICK h \in Truncated(Smaller(pic.width, screen.width \div 2) * pic.height, pic.width) :
          s = [width |-> Smaller(pic.width, screen.width \div 2), height |-> h]
    BY <1>4 DEF showSize
  <2>2. h \in 0 .. pic.height
    BY <1>1, <1>2
  <2>3. /\ Smaller(pic.width, screen.width \div 2) \in 0 .. pic.width
        /\ Smaller(pic.width, screen.width \div 2) <= screen.width \div 2
    BY <1>1 DEF Smaller
  <2>4. KeepsRatio(s, pic)
    <3> DEFINE side == Smaller(pic.width, screen.width \div 2)
    <3>1. h \in Truncated(side * pic.height, pic.width)
      BY <2>1
    <3>2. side \in Nat /\ s.height = h /\ s.width = side
      BY <1>1, <2>1, <2>3
    <3> HIDE DEF side
    <3> QED BY <3>1, <3>2, RatioByWidth
  <2> QED BY <1>4, <2>1, <2>2, <2>3, <2>4 DEF Shows
<1> QED BY <1>3, <1>4
=============================================================================
