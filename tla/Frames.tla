------------------------------- MODULE Frames -------------------------------
(***************************************************************************)
(* Frames (Render/Frames.{h,cpp}) between its two users: the decoder thread *)
(* (Decoder::run and pushFrame), which decodes into one AVFrame and swaps   *)
(* it with the other, and the GUI thread (the onNewFrame slot of            *)
(* MirrorWidget), which draws the other one.  onNewFrame crosses threads as *)
(* a queued signal, and is emitted only if the previous picture was taken.  *)
(*                                                                         *)
(* Pictures are numbered in the order they are decoded; 0 is an AVFrame     *)
(* with nothing, or something half written, in it.  offerDecodedFrame holds *)
(* the mutex from its first line to its last and is one step; the GUI       *)
(* thread holds it while it draws, which takes two.                         *)
(***************************************************************************)
EXTENDS Integers

CONSTANT MaxPictures  \* bound: pictures decoded

ASSUME FramesAssumption == MaxPictures \in Nat

AVFrame == {"frame1", "frame2"}  \* the two allocated by init()

VARIABLES
  m_decodingFrame,           \* the AVFrame the decoder writes
  m_renderingframe,          \* the AVFrame the GUI thread reads
  m_renderingFrameConsumed,
  m_mutex,                   \* its holder between steps: "nobody" or "viewer"
  picture,                   \* what is in each AVFrame
  decoder,                   \* the decoder thread within the loop body of run
  frame,                     \* the AVFrame the GUI thread is drawing, or "none"
  onNewFrame,                \* signals emitted and not yet delivered
  decoded,                   \* pictures decoded so far
  shown                      \* the picture on the screen

vars == <<m_decodingFrame, m_renderingframe, m_renderingFrameConsumed, m_mutex,
          picture, decoder, frame, onNewFrame, decoded, shown>>

TypeOK ==
  /\ m_decodingFrame \in AVFrame
  /\ m_renderingframe \in AVFrame
  /\ m_renderingFrameConsumed \in BOOLEAN
  /\ m_mutex \in {"nobody", "viewer"}
  /\ picture \in [AVFrame -> 0 .. MaxPictures]
  /\ decoder \in {"idle", "writing", "offer", "emit"}
  /\ frame \in AVFrame \cup {"none"}
  /\ onNewFrame \in Nat
  /\ decoded \in 0 .. MaxPictures
  /\ shown \in 0 .. MaxPictures

Init ==
  /\ m_decodingFrame = "frame1"
  /\ m_renderingframe = "frame2"
  /\ m_renderingFrameConsumed = TRUE
  /\ m_mutex = "nobody"
  /\ picture = [f \in AVFrame |-> 0]
  /\ decoder = "idle"
  /\ frame = "none"
  /\ onNewFrame = 0
  /\ decoded = 0
  /\ shown = 0

-----------------------------------------------------------------------------
(* The decoder thread.                                                      *)

\* avcodec_receive_frame starts by emptying the AVFrame it is given.
BeginDecode ==
  /\ decoder = "idle"
  /\ decoded < MaxPictures
  /\ picture' = [picture EXCEPT ![m_decodingFrame] = 0]
  /\ decoder' = "writing"
  /\ UNCHANGED <<m_decodingFrame, m_renderingframe, m_renderingFrameConsumed,
                 m_mutex, frame, onNewFrame, decoded, shown>>

\* It returns a picture: pushFrame follows.
FinishDecode ==
  /\ decoder = "writing"
  /\ picture' = [picture EXCEPT ![m_decodingFrame] = decoded + 1]
  /\ decoded' = decoded + 1
  /\ decoder' = "offer"
  /\ UNCHANGED <<m_decodingFrame, m_renderingframe, m_renderingFrameConsumed,
                 m_mutex, frame, onNewFrame, shown>>

\* It returns none: it wants more data (EAGAIN), or it failed.
NoPicture ==
  /\ decoder = "writing"
  /\ decoder' = "idle"
  /\ UNCHANGED <<m_decodingFrame, m_renderingframe, m_renderingFrameConsumed,
                 m_mutex, picture, frame, onNewFrame, decoded, shown>>

\* Fault: the swap does not take the mutex.
OfferUnlocked ==
  /\ decoder = "offer"
  /\ m_decodingFrame' = m_renderingframe
  /\ m_renderingframe' = m_decodingFrame
  /\ decoder' = IF m_renderingFrameConsumed THEN "emit" ELSE "idle"
  /\ m_renderingFrameConsumed' = FALSE
  /\ UNCHANGED <<m_mutex, picture, frame, onNewFrame, decoded, shown>>

\* Swap the frames; announce the picture only if the last one was taken.
OfferDecodedFrame ==
  /\ decoder = "offer"
  /\ m_mutex = "nobody"
  /\ m_decodingFrame' = m_renderingframe
  /\ m_renderingframe' = m_decodingFrame
  /\ decoder' = IF m_renderingFrameConsumed THEN "emit" ELSE "idle"
  /\ m_renderingFrameConsumed' = FALSE
  /\ UNCHANGED <<m_mutex, picture, frame, onNewFrame, decoded, shown>>

EmitNewFrame ==
  /\ decoder = "emit"
  /\ onNewFrame' = onNewFrame + 1
  /\ decoder' = "idle"
  /\ UNCHANGED <<m_decodingFrame, m_renderingframe, m_renderingFrameConsumed,
                 m_mutex, picture, frame, decoded, shown>>

-----------------------------------------------------------------------------
(* The GUI thread.                                                          *)

\* Fault: the picture is taken and not marked so.
ConsumeKeepsFlag ==
  /\ frame = "none"
  /\ onNewFrame > 0
  /\ m_mutex = "nobody"
  /\ onNewFrame' = onNewFrame - 1
  /\ m_mutex' = "viewer"
  /\ frame' = m_renderingframe
  /\ UNCHANGED <<m_decodingFrame, m_renderingframe, m_renderingFrameConsumed,
                 picture, decoder, decoded, shown>>

\* The slot takes the mutex and the picture.
ConsumeRenderedFrame ==
  /\ frame = "none"
  /\ onNewFrame > 0
  /\ m_mutex = "nobody"
  /\ onNewFrame' = onNewFrame - 1
  /\ m_mutex' = "viewer"
  /\ m_renderingFrameConsumed' = TRUE
  /\ frame' = m_renderingframe
  /\ UNCHANGED <<m_decodingFrame, m_renderingframe, picture, decoder, decoded, shown>>

\* updateTextures has copied the picture; the slot releases the mutex.
FinishDrawing ==
  /\ frame # "none"
  /\ shown' = picture[frame]
  /\ m_mutex' = "nobody"
  /\ frame' = "none"
  /\ UNCHANGED <<m_decodingFrame, m_renderingframe, m_renderingFrameConsumed,
                 picture, decoder, onNewFrame, decoded>>

-----------------------------------------------------------------------------
DecoderStep ==
  BeginDecode \/ FinishDecode \/ NoPicture \/ OfferDecodedFrame \/ EmitNewFrame

ViewerStep == ConsumeRenderedFrame \/ FinishDrawing

Next == DecoderStep \/ ViewerStep

\* A picture once decoded is pushed without waiting for anything but the
\* mutex; the GUI thread delivers queued signals and finishes what it draws.
Fairness ==
  /\ WF_vars(OfferDecodedFrame) /\ WF_vars(EmitNewFrame)
  /\ WF_vars(ViewerStep)

Spec == Init /\ [][Next]_vars /\ Fairness

-----------------------------------------------------------------------------
(* Properties.                                                              *)

\* The picture in m_renderingframe is announced exactly once: while it has not
\* been taken there is one signal for it, about to be emitted or in the queue;
\* once it is taken there is none.  So consumeRenderedFrame's Q_ASSERT holds
\* whenever the slot runs, and no picture waits unannounced.
AnnouncedOnce ==
  onNewFrame + (IF decoder = "emit" THEN 1 ELSE 0)
    = IF m_renderingFrameConsumed THEN 0 ELSE 1

\* What the GUI thread is drawing is whole, newer than what is on the screen,
\* and the newest picture that was offered.
DrawsTheNewest ==
  frame # "none" =>
    /\ picture[frame] > shown
    /\ picture[frame] = IF decoder = "offer" THEN decoded - 1 ELSE decoded

\* Nothing but the mutex keeps the decoder from pushing, and it is not held
\* for long: every picture decoded is shown or overtaken by a newer one.
EveryPictureOvertaken ==
  \A n \in 1 .. MaxPictures : decoded >= n ~> shown >= n

\* The inductive invariant behind the safety properties: the two AVFrames are
\* distinct, the mutex is held exactly while the GUI thread draws, the picture
\* in m_renderingframe is the last one offered, and it is ahead of the screen
\* while it waits or is being drawn.  It is marked taken before it is drawn.
IInv ==
  /\ TypeOK
  /\ m_decodingFrame # m_renderingframe
  /\ frame = IF m_mutex = "viewer" THEN m_renderingframe ELSE "none"
  /\ AnnouncedOnce
  /\ picture[m_renderingframe] = IF decoder = "offer" THEN decoded - 1 ELSE decoded
  /\ decoder = "offer" => picture[m_decodingFrame] = decoded
  /\ decoder = "writing" => decoded < MaxPictures
  /\ frame # "none" \/ ~m_renderingFrameConsumed
       => picture[m_renderingframe] > shown
  /\ shown <= picture[m_renderingframe]
  /\ frame # "none" => m_renderingFrameConsumed

View == INSTANCE LatestFrame WITH
  latest <- picture[m_renderingframe],
  fresh  <- ~m_renderingFrameConsumed \/ frame # "none"

\* The two AVFrames, the flag, the mutex and the queued signal together show
\* pictures in order, whole and each at most once.
IsLatestFrame == View!Spec

=============================================================================
