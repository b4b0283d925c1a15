# ANPhoneTool in TLA+

ANPhoneTool connects an Android phone to a Windows desktop: the phone mirrors
its screen into a window of the desktop, sends key presses, text and files, and
takes files. This directory models the desktop program (`src/`, C++ and Qt): its
threads, its connections and the protocols between them. The phone's program is
not in the repository; where it matters, a module says what it assumes of it.

`PROJECT.json` lists, for every definition, the source lines it stands for, and
every run, mutant, hazard, finding and theorem.

## Inventory

The program has these threads: the **GUI thread** (main), the **server thread**
(`DesktopServerThread`), one **decoder thread** per mirror window (`Decoder`) and
the **service thread** of each `MDNSService`. They share state through two
mutexes, queued Qt signals, posted events, and in some places nothing at all.

| part | state | operations | correct when |
|---|---|---|---|
| `DeviceSocket`, `TcpServer` (Network/) | lent buffer, `m_recvData`, `m_quit`, condition | `subThreadRecvData` (decoder), `onReadyRead`, `event`, `quitNotify` (GUI) | a byte stream: nothing lost, no buffer used after its call, no lost wake-up, end reported only at the end |
| `Frames` (Render/) | two AVFrames, consumed flag, mutex | `offerDecodedFrame` (decoder), `consumeRenderedFrame` (GUI) | each picture announced once, drawn whole, newest first |
| `Decoder`, `MirrorWidget` | current socket, thread, `m_quit` | `startDecode`, `stopDecode`, `run`; new connection, new frame, destructor | pictures are shown; closing the window returns |
| `DesktopServer` session | `m_ControlSocket`, `m_DataSocket` | connections come and go | windows follow the session; a session has a live control connection and ends with it |
| `DesktopServer` files | `m_ReceiveFileMap`, `m_SendFileMap` | SendFile, AckSendFile, AckSendComplete, data blocks, `sendFile` | what was written is at its place, acknowledgements are true, transfers end |
| message framing (`DeviceControlSocket`, `DeviceDataSocket`) | `m_Bytes`, `m_CurrentPackageSize` | `readyRead` slot | messages come out as they went in, none stays behind |
| `main`, `DesktopServerThread` | `m_EventLoop`, `m_Server`, loop's exit flag, the stream of the log | start, connect, exec, `stopServer`, wait | the server is there when used; nothing is torn down under a thread |
| `MDNSService` (Core/) | references, two lists, thread flag | `Register`, `StartDiscover`, their opposites, the thread's loop and callbacks | every live reference is served, none after it was freed |
| `AndroidDaemon`, `AdbHandler` | start step, flags, two adb processes | `start`, `stop`, results, connection | a start is answered once; the phone is cleaned up |
| `Log` (Utilities/) | list of messages, callback | `logv`, setters | bounded, the end of what was printed, no repetition; a usable callback |
| `KeepRatioWidget`, `updateFrameSize` | ratio | resize, new frame size | the picture fits its widget and keeps its ratio, so does the window, whose longer side the screen limits |
| `KeyboardHandler`, `UUID`, `UserNotificationCenter`, `QD3D11*` | none of the program's own | calls of the operating system | not modelled |
| `proto/`, `External/`, `Tools/` | | generated, third-party, a trial program | not modelled |

How they interact: `main` registers the program with `MDNSService`, starts the
server thread and shows `LoginView`. A phone opens a control and a data
connection; `DesktopServer` pairs them and signals the GUI, which shows `Widget`.
`Widget` opens a `MirrorWidget`, which listens, accepts a `DeviceSocket` and
starts the `Decoder`; the decoder thread reads through `subThreadRecvData` and
pushes pictures into `Frames`; the GUI draws them on `onNewFrame`. Files run over
both connections of the session. `AndroidDaemon` is complete but its calls in
`MirrorWidget` are commented out.

What is hard to test here: steps of two threads around `m_quit`, the lent buffer
and the consumed flag; connections that end or come twice at the wrong moment;
pointers that outlive what they point to; streams cut anywhere; processes that
fail at each step; an end of the program that waits for a thread. `hazards` in
`PROJECT.json` lists each at its line with the properties that watch it.

## Modules

| module | models | built on |
|---|---|---|
| `BytePipe` | what a reader of a stream may rely on (abstract) | |
| `DeviceSocket` | the mirror socket between decoder and GUI thread | refines `BytePipe` |
| `LatestFrame` | what a video view promises (abstract) | |
| `Frames` | the hand-over of pictures | refines `LatestFrame` |
| `Mirror` | decoder thread, connections, window, from open to destructor | extends `Frames`, composes `DeviceSocket` |
| `KeepRatio` | where the video goes in its widget, how large the window is | |
| `DesktopSession` | pairing of connections, the windows | |
| `Transfer` | what the desktop promises the sender of one file (abstract) | |
| `FileTransfer` | uploads and downloads, the disk | composes `DesktopSession`, refines `Transfer` |
| `Framing` | the two `readyRead` loops and their headers | |
| `Startup` | the part of main() that meets the server thread | |
| `Log` | the shared log | |
| `Program` | all of main(), the service thread, who logs when | composes `Startup` and `Log` |
| `MDNSService` | owner and service thread | |
| `AndroidDaemon` | the daemon and its adb processes | |
| `*Proofs` | theorems about the module they are named after; those about `Frames` and `KeepRatio` are in `MirrorProofs` | |
| `MC*` | the instance TLC checks | |

Definitions keep the names of the source. One action is one handler, or one
section between two points where another thread can come in. Fault operators,
marked `Fault:`, are what a plausible mistake would make of the definition below
them; they are in no behaviour, and `mutants` names, for each property, one that
makes it fail.

**DeviceSocket.** `sock[s]` holds the members of the class plus Qt's side
(`avail`, queued `events`, `link`); `reader[s].pc` says where the decoder thread
is in `subThreadRecvData`. A mutex section is one step. The test of `m_quit` on
entry is a step of its own, made without the mutex, and may see either value
while `quitNotify` is writing it.

**Frames.** `decoder` and `frame` say where the two threads are with a picture;
the decoder writes into `m_decodingFrame` in a step that lasts, so that a swap
under a drawing thread shows.

**Mirror.** `run` is the program counter of `Decoder::run`, `window` that of the
destructor. The module extends `Frames` and has an instance `DS` of `DeviceSocket`;
each of its actions is one of theirs, or a step of the window or of `Decoder::run`
between two such, with the other left unchanged. What is of the whole window has
`Mirror` in its name (`MirrorSpec`, `MirrorInv`), as in `Program`.

**KeepRatio.** `adjustSubWidget` and `showSize` are functions of sizes, so they are
operators: the set of geometries the code may set. `m_widthHeightRatio` is a float.
Rounding decides which of two almost equal ratios is the larger and on which side
of an integer a product falls; the operators let either happen within a tenth of a
pixel. A float is off by less than that for the sizes and ratios of screens.

**DesktopSession, FileTransfer.** A slot of the server thread is one step. The
signals to the GUI are a queue. In `FileTransfer` messages and blocks are whole
and in order on each connection; a lost connection loses what is under way on
it. The variable `orderly` of the session only records whether the phone kept its
connections in order so far (`Orderly`): one control connection at a time, a data
connection only beside one. `SessionIsLive` and the second half of `EndsWithControl`
hold as long as it did.
A deleted socket or QFile that is used sets `trouble`, after which the model stops:
what the program does then is not defined. Contexts go by uuid and files on the disk
by name, as in the code: each byte of `disk` says which upload put it there, and
each QFile writes at its own position. A write may fail wholly or in part: the code
ignores what `write()` returns, so that `receivedSize` counts the whole block and the
position of the QFile, `written`, what is on the disk. `Up(u)` maps the state of upload u to
`Transfer`: `held` is `receivedSize`, `state` goes from `none` to `known` (the phone
has the acknowledgement).

**Framing.** `kind` says which of the two sockets it is. A stream is a sequence of
bytes, a header's bytes carry the size, all bytes of the k-th body are -k; a message
may be empty.
`Arrive` cuts the stream anywhere; `ControlTurn` and `DataTurn` are one turn of a
do-while loop. `starts` is a history of where in the stream each package starts; no
step depends on it, and the invariant needs it.

**Startup.** `main` and `server` are the two program counters; nothing orders
their accesses to the pointers. `QEventLoop::exec` clears the exit flag.

**Log, Program.** `phase` is main()'s place outside of `Startup`, whose steps are
those of the phase `run`. A line is logged in two steps, `logv` up to the callback
and `Printed` after it, with the mutex held between; main, server and service
thread log whenever they run. `setLogCallback` is one step, as main() calls it before
there is any other thread. `printed` is a history of the lines the
callback got.

**MDNSService.** A reference is live or freed, socket numbers may be used again.
`Snapshot`, `Select`, `Handle` are the loop: `batch` is its copy of the list, `set`
the `fd_set` that `select` left, which may be older than the list by the time an
entry is looked at. The owner's calls are cut where they
wait: `Call` up to the wait of `StopServiceThread`, `Join` its end, then `Free` (as
`UnRegister` or `StopDiscover`) and, for a start, `Open` (as `Register` or
`StartDiscover`). `misuse` records a freed reference that was processed or a thread
assigned to while joinable; the model stops there.

**AndroidDaemon.** Every signal a `QProcess` can give is an action; the phone
side is two flags, the jar and the tunnel. A push or a reverse may change the phone and
yet be reported as failed, when adb crashes or the phone's answer is lost; `unheard` is
a history of such commands. The socket listens on after the server process has ended,
so that a phone may still connect. `careful` records whether the owner let
every start end before the next.

## Runs

Passing runs:

| run | instance | what it shows |
|---|---|---|
| `device_socket` | 1 socket, 3 bytes, buffers of 1 and 2 | ownership of the buffer, the inductive invariant, a read that has an answer returns, the refinement of `BytePipe` |
| `frames` | 8 pictures | the inductive invariant, every picture shown or overtaken, the refinement of `LatestFrame` |
| `mirror` | 2 connections, 1 byte on each, 2 pictures; widgets up to 7 by 7, frames up to 6 by 6 | the whole pipeline up to the end of the destructor, also with a connection replaced: only a sleeping read can keep it, no socket keeps a buffer of a run that is over; every geometry fits (the ASSUMEs of `MCMirror`) |
| `session` | 3 control, 2 data connections | the windows follow the session in every order; a session ends with a control connection and with nothing else; those of an orderly phone are live and end with their own |
| `file_transfer` | uploads of 3 and 2 bytes with one name, a download of 3, block of 2; 2 control, 1 data connection; one byte of the longer upload may fail to be written | the inductive invariant, what was written is at its place and a prefix if all was, one message of a file under way, true acknowledgements, nothing stale is used before a connection ends, uploads end, each is a `Transfer` |
| `framing` | messages of 0, 1, 2, 127 bytes; header 3, word 8, data of 0, 1, 4, 6 bytes | the inductive invariant, packages come out, the loops end for all but an empty message with a byte behind it, only the wrapping size closes |
| `mdns` | 3 references, 2 starts, both uses | the inductive invariant, lists match the live references, a stop returns, what a life of the object can go wrong by |
| `daemon` | 2 starts, 2 stops | the inductive invariant, answers, nothing that adb reported as done is forgotten on the phone, a start answered with a failure cleans up |
| `program` | 2 sessions, 11 lines of 2 messages, a maximum of 6 | ends of sessions are shown, closing ends the program, nobody logs into a stream that is gone, the log keeps the end of what was printed |

Runs that end in a violation, each of something the repository states:

| run | the statement | what happens |
|---|---|---|
| `mirror_close_returns` | "wait for the decode thread to exit" (Decoder.cpp:92) | the connection ends between the test of `m_quit` and the mutex; nobody answers the read |
| `file_transfer_block` | the assertion at DesktopServer.cpp:313 | `m_DataSocket` outlives its connection |
| `framing_long` | text of any length (DesktopMessage.proto:25), headers of several bytes (DesktopServer.cpp:71) | a `uint8_t` is never negative: one byte is read |

Other behaviours of the models that a maintainer should know of; they are the
reason why a property above has the condition it has:

* `Mirror`: a second connection replaces `m_deviceSocket` while the decoder
  thread is asleep on the first (MirrorWidget.cpp:49). The destructor closes only
  the second (104-106); if the first is still up, the thread is never woken and
  the destructor hangs. `HangsOnlyAsleep` therefore allows the hang.
* `DesktopSession`: with a phone that is not orderly, a control connection that
  ended unpaired still gets its pair, and the late end of an old one ends a new
  session (DesktopServer.cpp:123, 180). `EndsWithControl` says the latter: any control
  connection's end is the session's, also one that was replaced.
* `FileTransfer`: the context of an upload keeps the control socket of its offer
  (DesktopServer.cpp:430), which may have been deleted: `trouble = "dangling"`.
  `TroubleNeedsLoss` says that it takes the end of a connection.
* `FileTransfer`: two uploads of one name open the same path (DesktopServer.cpp:440)
  and spoil each other's file; also one that the phone sends again after a
  connection ended. `FilesArePrefixes` excepts files that are shared.
* `FileTransfer`: the result of `write` is ignored (DesktopServer.cpp:360-361). After a
  short or failed write, as on a full disk, the upload goes on, is acknowledged and ends
  as complete with a file that lacks bytes, also in the middle. `FilesArePrefixes`
  claims a prefix only of an upload whose writes succeeded, `AcksAreTrue` and
  `Transfer` speak of what the desktop was given.
* `FileTransfer`: an offer whose file cannot be created is acknowledged all the same
  (DesktopServer.cpp:278-281, 446); its blocks are dropped and the phone waits.
  `UploadsEnd` is about uploads that have a context.
* `Framing`: a message whose fields all have their defaults, of type
  `kDesktopMessageNone`, is empty, and its header is 0, which the loop takes for a
  header that has not arrived (DeviceSocket.cpp:148-164). With nothing behind it, it
  waits; with a byte behind it the `do`-`while` (182) turns for ever and the server
  thread with it. `SlotEnds` and `AllIsEmitted` say that this is the only message that
  does so.
* `MDNSService`: `UnRegister` and `StopDiscover` set the reference to null before
  they call `RemoveService` with it (MDNSService.cpp:316, 422). It stays on the
  list, and in a second life whose socket has the same number the loop processes
  it. `KeepsItsWay` is about objects that are started once, as in main().
* `MDNSService`: `Register` and `StartDiscover` on one object assign to a thread that
  runs (MDNSService.cpp:227), which ends the program. Nothing in the repository
  uses one object for both.
* `Startup`: `main` dereferences the server pointer on the line after
  `QThread::start`, when `run` may not have set it (main.cpp:73-74); `connect`
  with no sender does nothing, and the windows then never follow the phone.
* `AndroidDaemon`: while the server is being executed only "started" and "start
  failed" are heard (AndroidDaemon.cpp:106-119); an adb that is not found is never
  answered, and what the start put on the phone stays. `StartIsAnswered` excepts it, and
  `FailureCleansUp` is about starts that are answered.
* `AndroidDaemon`: the flags are set on `kAdbSuccess` alone (AndroidDaemon.cpp:74-84,
  90-98). A push or a reverse that changed the phone and was reported as failed is
  forgotten: `NothingForgotten` excepts what is in `unheard`.
* The comment at DeviceSocket.h:30 has `blockSize` include the header; the code
  has it exclude it on both sides (DeviceSocket.cpp:203, DesktopServer.cpp:304).

**Bounds.** In `device_socket` two bytes and two buffer sizes are enough for a short
read, a full one and one left over; three make each happen twice. The pipeline of
`mirror` adds nothing to what a byte is, so that it has one on each connection, in a
buffer of two: a short read, and an end of the stream before and after it. Eight
pictures overtake each other many times; the proofs have no bound. Three control
connections let the late end of the first meet the third. A file of one block and a bit
has a full and a short block; one byte that is not written makes either of them a short
write or, for the last, a failed one. Messages of 127 and 128 bytes are on the two sides
of the varint's edge, one of 0 bytes is a header alone. A word of 8 and a header of 3
make the sum wrap as 2^64 and 24 do; two messages and three blocks have every cut
between and inside packages. Two starts of `MDNSService` and `AndroidDaemon` are the
fewest in which something of the first is left for the second. A maximum of 6 makes the
log drop 3 lines at a time, an odd number, so that with two alternating messages a wrong
half shows; 11 lines trim it twice. Widgets of up to 7 and frames of up to 6 pixels have
every ratio above, below and equal, and every remainder.

Each `TypeOK` is a part of an inductive invariant that a run checks, with three
exceptions: that of `Mirror` is proved as a part of `MirrorInv`, that of
`DesktopSession` is checked in `file_transfer` as a part of `IInv` and proved alone,
and `ProgramTypeOK` is checked by its own name.

`CHECK_DEADLOCK` is off everywhere: a phone may stay silent, a user may do
nothing, and the program ends; what must not stop is stated as liveness.

**Fairness.** Weak, and for the program's own threads only: a thread that can run runs,
an event loop delivers what is queued, a woken thread returns, an adb push or reverse
ends. No phone, user or mDNS responder has to act, except that in `FileTransfer` the
phone reads its messages and answers them, without which no upload ends (`UploadsEnd`);
that it takes the blocks of a download is not assumed. In `Startup` and `Program` a
callback of the log returns, and it is assumed that the events that keep the server's
loop busy end (the bound on sessions), so that the loop sees its flag.

## Proofs

The theorems hold for every value of the constants (any number of sockets, bytes,
pictures, connections, uploads, packages). They use the assumptions on constants at
the top of each module, and those of `FramingProofs` one hypothesis more, `Short`,
which is discussed there. Every invariant and every action property that a passing
run checks is stated by a theorem, and so is every refinement.

The assumptions are what the code gives: sizes are natural numbers and buffers hold
something, a null pointer is no socket, a control socket is no data socket, and in
`FileAssumption` a uuid is given once, so that uploads, downloads and `Null` are
distinct.

* `DeviceSocketProofs`. The inductive invariant is `IInv`, one `SocketInv` per
  socket: a parked call has lent its buffer or been answered, never both
  (`LendingProtocol`); bytes taken equal bytes returned and in flight
  (`BytesAccounted`); a lent buffer next to unread bytes has an event queued
  (`EventPending`); quitting means the connection is over (`QuitMeansOver`).
  None of the five properties is inductive alone: that no byte is lost needs that an
  answered call is not answered again, which is the lending protocol. The
  properties follow, and with them the refinement of `BytePipe`: one lemma per
  kind of step says which step of the pipe it is.
* `DesktopSessionProofs`. `SignalsFollow`, the two properties of the signals, is
  inductive as a property of one sequence (`Tells`): a step of the server appends
  the signal its pairing calls for, a step of the GUI takes the head off. As long
  as the phone is orderly an open control connection is the current one
  (`Current`), which carries `SessionIsLive` and that a session ends with its own
  control connection; that it ends exactly with a control connection
  (`EndsWithControl`) holds of every step, because every end of a control connection runs
  `DoOnDisConnected` and nothing else does.
* `MirrorProofs`, on `Frames`: `IInv` is `TypeOK` and the announcement protocol
  (`AnnouncedOnce`) with where the newest picture is and when the mutex is held; from
  it `DrawsTheNewest` and the refinement of `LatestFrame`. On `Mirror`: every step of
  the window is a step of `DeviceSocket` and of `Frames` or leaves them alone
  (`StepsOfSockets`, `StepsOfFrames`), so the lemmas about the two, the former
  instantiated, give their invariants and their refinements in the composition:
  in the whole window each connection is a `BytePipe` (`WindowReadsBytePipes`) and the
  pictures are a `LatestFrame` (`WindowIsLatestFrame`). That a step is one of *some*
  socket needs one thing of the window: a thread that runs has a socket.
  `LentByTheRun` relates the lent buffers of all sockets to the one `run`: it needs the
  sockets' lending protocol (a lent buffer is that of a call in progress) and that at
  most one call is in progress on all of them together, the one `Decoder::run` made
  (`OneCall`), which a replaced connection and the destructor leave as it is. On
  `KeepRatio`: `VideoFits` and `WindowFits` are about all sizes; the latter says that the
  window keeps the frame's ratio, is no larger than the frame, and that the screen limits
  its height if the frame is upright and its width otherwise. The other side is not
  limited by the screen, in the code as in the theorem. The products are named
  and the rest is linear; a truncated quotient beyond the side would be off by a
  divisor.
* `FileTransferProofs`. The properties of `FileTransfer` are about files, its steps
  about connections, so the invariant is told per file: `OneUnderWay` (at most one
  message or block of a file on all channels together), `UploadInv` and `DownloadInv`
  (which one it can be, given how far the two sides are), `FilesArePrefixes`, and what
  may have gone wrong before a connection ended (`TroubleNeedsLoss`). `FilesArePrefixes`
  and `AcksAreTrue` are not inductive alone: that a block fits the position counted so
  far needs that no older block of the same upload is still under way on
  another connection, which is `OneUnderWay`; and this needs `UploadInv`, as a handler
  answers what it takes. The argument is the same for every handler. A step takes at
  most one message or block of one file and puts at most one of the same file, in its
  place, on whatever connection; what is known of every other file is kept
  (`UploadKept`, `DownloadKept`). The refinement (`AreTransfers`) gives each upload its
  own `Transfer` and shows every step to be `Open`, `Take` or `Acknowledge` for one of
  them and a stutter for all others (`TransferSteps`).
* `FramingProofs`. The bytes that are left (in `m_Bytes`, for `readAll` and on the wire)
  are those of the stream from the place `Taken` on, the place the slot got to
  (`Placed`), and that place is the start of the next package or the end of its varint.
  A turn drops a prefix of what is left and the place moves on by as many bytes
  (`Moves`); an arrival moves a byte from one part of what is left to another; a sent
  package is added at the end. So the header that is read is one that was written
  (`Current`), the body is the next body (`ReceivedIsSent`), and when nothing is left
  every place has been passed (`NothingStaysBehind`): a slot ends only when a header or
  a body is incomplete (`SlotWaits`). The hypothesis `Short` says that the messages on a
  control socket have at most 127 bytes, the longest whose varint is the one byte that
  is read of it; empty ones are among them, and once one is next no place moves any more
  (`ControlNothing`, `LastIsEmpty`); `framing_long` shows that the theorems are false
  without it. Blocks on a data socket have any size, also one that wraps, for which the
  socket closes.
* `ProgramProofs`. The server thread is alive from `start` to `wait` and the service
  thread from `Register` to `UnRegister`, both before main() destroys its stream
  (`ServerLife`, `MainLife`): hence `CallbackIsUsable`. `LogIsKept` is inductive once a
  thread inside the log is known to have left its line there (`LogInv`).
* `AndroidDaemonProofs`. While the step is one of a start's an answer is owed
  (`OwesAnswer`), which gives `NoSecondAnswer` for any owner. With a careful owner
  the work process does what the step waits for and the flags are those of the steps
  taken (`WorkIsOfTheStep`), which `NothingForgotten` and `FailureCleansUp` need.
  Neither assumes that a command that failed left the phone alone.
* `MDNSServiceProofs`. No reference is twice on the list (`ListInv`), the owner's
  references are live and its own (`OwnRefs`), where one thread is limits where the
  other can be (`ThreadInv`), and in a first life a freed reference is listed only
  when there is no thread to see it (`FirstLife`). `LiveIsListed`,
  `ResolveInfosMatch` and `KeepsItsWay` are parts of the invariant or follow from it.

Only model-checked: liveness, that is `AnswerReleases`, `EveryPictureOvertaken`,
`PicturesShown`, `HangsOnlyAsleep`, `WindowFollows`, `UploadsEnd`, `SlotEnds`,
`StopReturns`, `StartIsAnswered`, `EndIsShown` and `CloseEndsProgram`, as it needs
fairness and ENABLED. What the varint of a longer message would be is defined by cases
on its size and is not reasoned about beyond one byte.

## Not modelled

Almost all lines under `src/` are those of third-party headers and generated code in
`src/External` (protobuf, FFmpeg, qrencode, libpng, glm, ojoie, dns_sd); they are no
part of the program's own logic, and what of them matters is modelled by how the
program uses it. Of the program's own code:

* rendering (`QD3D11*`), `KeyboardHandler`, `UUID`: calls of the operating system with no
  state of the program's; `UserNotificationCenter`: its only call is commented out;
  `Tools/`: a trial program;
* the messages for keys, text and ringing, which change nothing in the server; mouse
  and key events of the mirror window;
* `AdbHandler`'s output and its parsing (`getDeviceSerials`, `getDeivceIPAddress`), and
  `setFile`, `setPath`, `resetLogCallback` of the log: no caller in the repository;
* the ratio of the mirror window before its first connection, which nothing sets;
* a second mirror window, which would listen on the same port (`MIRROR_PORT`) and fail;
* a read error in the middle of a download; `select` that fails while every socket is open.

## Plan

1. An abstract channel of packages refined by `Framing`, and `Framing` under
   `FileTransfer` instead of whole messages.
2. What the abstract specifications promise, as theorems about them: of a `Transfer`
   that was acknowledged, of the pictures a `LatestFrame` skips.
3. The session under the mirror windows: several windows, one port.
4. `Log` with the decoder thread as a fourth thread that logs, in one module with
   `Mirror`.
