--------------------------- MODULE AndroidDaemon ----------------------------
(***************************************************************************)
(* AndroidDaemon (Network/AndroidDaemon.cpp) brings the mirror server to    *)
(* the phone with adb, step by step, and takes it away again; AdbHandler    *)
(* (adb/AdbHandler.cpp) turns the signals of an adb process into results.   *)
(*                                                                         *)
(* All slots run in one thread and each is one step.  An adb process is     *)
(* known by the signals of QProcess; one that crashes emits kAdbStartFail   *)
(* and then kAdbError, the second of which no step listens to.  What an adb *)
(* reports need not be what it did: a push or a reverse that is reported as *)
(* failed may have changed the phone.  Output, serial numbers and the info  *)
(* the server sends are left out.                                           *)
(***************************************************************************)
EXTENDS Integers

CONSTANTS
  MaxStarts,  \* bound: calls of start()
  MaxStops    \* bound: calls of stop() by the owner

ASSUME DaemonAssumption == MaxStarts \in Nat /\ MaxStops \in Nat

VARIABLES
  m_serverStartStep, m_serverCopiedToDevice, m_enableReverse,
  m_serverSocket,   \* it is listening
  m_deviceSocket,   \* "none", "open" or "closed"
  work, server,     \* m_workProcess and m_serverProcess
  workCmd,          \* the command m_workProcess was given last
  rm, unreverse,    \* processes under way that remove the server, the tunnel
  jar, tunnel,      \* what is on the phone
  rmFailed,         \* history: a process that was to remove something did not
  unheard,          \* history: commands that were reported as failed and left something
  unanswered,       \* calls of start() without an OnStart so far
  starts, stops,
  careful           \* history: see Careful

flagVars == <<m_serverCopiedToDevice, m_enableReverse, rm, unreverse>>
deviceVars == <<jar, tunnel, rmFailed, unheard>>
socketVars == <<m_serverSocket, m_deviceSocket>>
countVars == <<starts, stops>>
daemonVars == <<m_serverStartStep, flagVars, socketVars, work, workCmd, server, deviceVars, unanswered, countVars>>
vars == <<daemonVars, careful>>

TypeOK ==
  /\ m_serverStartStep \in {"NULL", "PUSH", "ENABLE_REVERSE", "EXECUTE_SERVER", "RUNNING"}
  /\ m_serverCopiedToDevice \in BOOLEAN /\ m_enableReverse \in BOOLEAN
  /\ m_serverSocket \in BOOLEAN
  /\ m_deviceSocket \in {"none", "open", "closed"}
  /\ work \in {"idle", "starting", "running"}
  /\ server \in {"idle", "starting", "running", "killed"}
  /\ workCmd \in {"push", "reverse"}
  /\ rm \in Nat /\ unreverse \in Nat
  /\ jar \in BOOLEAN /\ tunnel \in BOOLEAN /\ rmFailed \in BOOLEAN
  /\ unheard \subseteq {"push", "reverse"}
  /\ unanswered \in Int
  /\ starts \in 0 .. MaxStarts /\ stops \in 0 .. MaxStops
  /\ careful \in BOOLEAN

Init ==
  /\ m_serverStartStep = "NULL"
  /\ m_serverCopiedToDevice = FALSE /\ m_enableReverse = FALSE
  /\ m_serverSocket = FALSE /\ m_deviceSocket = "none"
  /\ work = "idle" /\ server = "idle" /\ workCmd = "push"
  /\ rm = 0 /\ unreverse = 0
  /\ jar = FALSE /\ tunnel = FALSE /\ rmFailed = FALSE /\ unheard = {}
  /\ unanswered = 0 /\ starts = 0 /\ stops = 0
  /\ careful = TRUE

-----------------------------------------------------------------------------
(* The parts of the handlers.                                               *)

\* QProcess::start does nothing while the process runs.
executeCmd(process) == IF process = "idle" THEN "starting" ELSE process

cancel(process) == IF process = "idle" THEN "idle" ELSE "killed"

OnStart == unanswered' = unanswered - 1

\* Fault: the flags are cleared and nothing is removed.
ClearFlags(copied, reversed) ==
  /\ m_serverCopiedToDevice' = (m_serverCopiedToDevice /\ ~copied)
  /\ m_enableReverse' = (m_enableReverse /\ ~reversed)
  /\ UNCHANGED <<rm, unreverse>>

\* removeServer and disableTunnelReverse, as far as they are called: each does
\* something only if its flag is set, and clears the flag at once.
Clear(copied, reversed) ==
  /\ m_serverCopiedToDevice' = (m_serverCopiedToDevice /\ ~copied)
  /\ m_enableReverse' = (m_enableReverse /\ ~reversed)
  /\ rm' = IF copied /\ m_serverCopiedToDevice THEN rm + 1 ELSE rm
  /\ unreverse' = IF reversed /\ m_enableReverse THEN unreverse + 1 ELSE unreverse

removeServer == Clear(TRUE, FALSE)

\* disableTunnelReverse and removeServer.
CleanUp == Clear(TRUE, TRUE)

WorkRuns(process, cmd) ==
  /\ work' = executeCmd(process)
  /\ workCmd' = IF process = "idle" THEN cmd ELSE workCmd

pushServer == WorkRuns(work, "push")

\* Called when the push has ended.
enableTunnelReverse == WorkRuns("idle", "reverse")

execute == server' = executeCmd(server)

\* Whether the name and the size of the phone are there within 300 ms.
readInfo == BOOLEAN

-----------------------------------------------------------------------------
(* The owner.                                                               *)

start ==
  /\ starts < MaxStarts
  /\ starts' = starts + 1
  /\ unanswered' = unanswered + 1
  /\ m_serverStartStep' = "PUSH"
  /\ pushServer
  /\ UNCHANGED <<flagVars, socketVars, server, deviceVars, stops>>

\* stop() leaves m_serverStartStep alone.
DoStop ==
  /\ m_deviceSocket' = IF m_deviceSocket = "none" THEN "none" ELSE "closed"
  /\ server' = cancel(server)
  /\ CleanUp
  /\ m_serverSocket' = FALSE

\* Fault: stop() answers the start it gives up, whose step goes on.
StopAnswers ==
  /\ stops < MaxStops
  /\ stops' = stops + 1
  /\ DoStop
  /\ unanswered' = IF m_serverStartStep \in {"PUSH", "ENABLE_REVERSE", "EXECUTE_SERVER"}
                     THEN unanswered - 1 ELSE unanswered
  /\ UNCHANGED <<m_serverStartStep, work, workCmd, deviceVars, starts>>

stop ==
  /\ stops < MaxStops
  /\ stops' = stops + 1
  /\ DoStop
  /\ UNCHANGED <<m_serverStartStep, work, workCmd, deviceVars, unanswered, starts>>

-----------------------------------------------------------------------------
(* Results of m_workProcess.                                                *)

WorkStarted ==
  /\ work = "starting"
  /\ work' = "running"
  /\ UNCHANGED <<m_serverStartStep, flagVars, socketVars, workCmd, server, deviceVars, unanswered, countVars>>

PushSucceeds ==
  /\ m_serverStartStep = "PUSH"
  /\ m_serverCopiedToDevice' = TRUE
  /\ m_serverStartStep' = "ENABLE_REVERSE"
  /\ enableTunnelReverse
  /\ UNCHANGED <<m_enableReverse, rm, unreverse, m_serverSocket, server, unanswered>>

\* Fault: a failure to listen only ends the start.
ReverseSucceedsDirty ==
  /\ m_serverStartStep = "ENABLE_REVERSE"
  /\ work' = "idle" /\ UNCHANGED workCmd
  /\ \/ /\ m_serverSocket' = TRUE /\ m_enableReverse' = TRUE
        /\ m_serverStartStep' = "EXECUTE_SERVER"
        /\ execute
        /\ UNCHANGED <<m_serverCopiedToDevice, rm, unreverse, unanswered>>
     \/ /\ m_serverStartStep' = "NULL" /\ OnStart
        /\ UNCHANGED <<flagVars, m_serverSocket, server>>

\* The next step listens, and executes the server if it can.
ReverseSucceeds ==
  /\ m_serverStartStep = "ENABLE_REVERSE"
  /\ work' = "idle" /\ UNCHANGED workCmd
  /\ \/ /\ m_serverSocket' = TRUE
        /\ ~m_serverSocket
        /\ m_enableReverse' = TRUE
        /\ m_serverStartStep' = "EXECUTE_SERVER"
        /\ execute
        /\ UNCHANGED <<m_serverCopiedToDevice, rm, unreverse, unanswered>>
     \/ /\ m_serverStartStep' = "NULL"
        /\ m_enableReverse' = FALSE
        /\ unreverse' = unreverse + 1
        /\ m_serverCopiedToDevice' = FALSE
        /\ rm' = IF m_serverCopiedToDevice THEN rm + 1 ELSE rm
        /\ OnStart
        /\ UNCHANGED <<m_serverSocket, server>>

NoWorkStep ==
  /\ m_serverStartStep \notin {"PUSH", "ENABLE_REVERSE"}
  /\ work' = "idle"
  /\ UNCHANGED <<m_serverStartStep, flagVars, m_serverSocket, server, workCmd, unanswered>>

\* What adb push or adb reverse does to the phone, wholly or in part.
TakesEffect ==
  /\ IF workCmd = "push" THEN jar' = TRUE /\ UNCHANGED tunnel
     ELSE tunnel' = TRUE /\ UNCHANGED jar
  /\ UNCHANGED rmFailed

\* adb push or adb reverse did its work.
WorkSucceeds ==
  /\ work = "running"
  /\ TakesEffect
  /\ unheard' = unheard \ {workCmd}
  /\ PushSucceeds \/ ReverseSucceeds \/ NoWorkStep
  /\ UNCHANGED <<m_deviceSocket, countVars>>

\* A process that ran may have done its work before it crashed or lost the phone.
EffectUnheard ==
  \/ UNCHANGED deviceVars
  \/ work = "running" /\ TakesEffect /\ unheard' = unheard \cup {workCmd}

\* Fault: a push that fails is not answered.
WorkFailsSilently ==
  /\ work # "idle"
  /\ work' = "idle"
  /\ m_serverStartStep' = IF m_serverStartStep = "PUSH" THEN "NULL" ELSE m_serverStartStep
  /\ EffectUnheard
  /\ UNCHANGED <<unanswered, flagVars, socketVars, workCmd, server, countVars>>

\* Any result but kAdbSuccess and kAdbStarted.
WorkFails ==
  /\ work # "idle"
  /\ work' = "idle"
  /\ EffectUnheard
  /\ CASE m_serverStartStep = "PUSH" ->
            m_serverStartStep' = "NULL" /\ OnStart /\ UNCHANGED flagVars
       [] m_serverStartStep = "ENABLE_REVERSE" ->
            m_serverStartStep' = "NULL" /\ OnStart /\ removeServer
       [] OTHER -> UNCHANGED <<m_serverStartStep, unanswered, flagVars>>
  /\ UNCHANGED <<socketVars, workCmd, server, countVars>>

-----------------------------------------------------------------------------
(* Results of m_serverProcess.                                              *)

\* Any result while the server is running ends it for the daemon.
StopsRunning ==
  /\ m_serverStartStep' = IF m_serverStartStep = "RUNNING" THEN "NULL" ELSE m_serverStartStep
  /\ UNCHANGED <<flagVars, unanswered>>

\* Also of a process that is killed before the signal is delivered.
ServerStarted ==
  /\ \/ server = "starting" /\ server' = "running"
     \/ server = "killed" /\ m_serverStartStep = "EXECUTE_SERVER" /\ UNCHANGED server
  /\ IF m_serverStartStep = "EXECUTE_SERVER"
       THEN m_serverStartStep' = "RUNNING" /\ OnStart /\ UNCHANGED flagVars
       ELSE StopsRunning
  /\ UNCHANGED <<socketVars, work, workCmd, deviceVars, countVars>>

\* Fault: the step is not looked at when the server dies.
ServerCrashesUnheard ==
  /\ server \in {"running", "killed"}
  /\ server' = "idle"
  /\ m_serverStartStep' = "NULL" /\ OnStart /\ CleanUp
  /\ UNCHANGED <<socketVars, work, workCmd, deviceVars, countVars>>

\* kAdbStartFail: the process crashed or was killed.
ServerCrashes ==
  /\ server \in {"running", "killed"}
  /\ server' = "idle"
  /\ IF m_serverStartStep = "EXECUTE_SERVER"
       THEN m_serverStartStep' = "NULL" /\ OnStart /\ CleanUp
       ELSE StopsRunning
  /\ UNCHANGED <<socketVars, work, workCmd, deviceVars, countVars>>

\* kAdbFileNotFound from a process that cannot start, kAdbSuccess or kAdbError
\* from one that ran: the step that executes the server listens to none.
ServerEnds ==
  /\ server \in {"starting", "running"}
  /\ server' = "idle"
  /\ StopsRunning
  /\ UNCHANGED <<socketVars, work, workCmd, deviceVars, countVars>>

\* newConnection: the info of the phone can be read or it cannot.  The socket
\* goes on listening after the process of the server has ended.
Connected ==
  /\ m_serverSocket
  /\ CleanUp
  /\ \E infoRead \in readInfo :
       IF infoRead
         THEN m_deviceSocket' = "open" /\ UNCHANGED <<server, m_serverSocket>>
         ELSE m_deviceSocket' = "closed" /\ server' = cancel(server) /\ m_serverSocket' = FALSE
  /\ UNCHANGED <<m_serverStartStep, work, workCmd, deviceVars, unanswered, countVars>>

-----------------------------------------------------------------------------
(* The processes of removeServer and disableTunnelReverse, which delete     *)
(* themselves.                                                              *)

RemovesServer ==
  /\ rm > 0 /\ rm' = rm - 1
  /\ jar' \in {FALSE, jar}
  /\ rmFailed' = (rmFailed \/ jar')
  /\ unheard' = IF jar' THEN unheard ELSE unheard \ {"push"}
  /\ UNCHANGED <<m_serverStartStep, m_serverCopiedToDevice, m_enableReverse, unreverse, socketVars,
                 work, workCmd, server, tunnel, unanswered, countVars>>

RemovesTunnel ==
  /\ unreverse > 0 /\ unreverse' = unreverse - 1
  /\ tunnel' \in {FALSE, tunnel}
  /\ rmFailed' = (rmFailed \/ tunnel')
  /\ unheard' = IF tunnel' THEN unheard ELSE unheard \ {"reverse"}
  /\ UNCHANGED <<m_serverStartStep, m_serverCopiedToDevice, m_enableReverse, rm, socketVars,
                 work, workCmd, server, jar, unanswered, countVars>>

WorkProcess == WorkStarted \/ WorkSucceeds \/ WorkFails

ServerStarts == ServerStarted \/ (server = "starting" /\ ServerEnds)

(***************************************************************************)
(* An owner that calls start() only when nothing of the last start goes on  *)
(* and stop() has cleaned up after a server that died before it connected.  *)
(* start() itself does not ask.  The variable careful tells whether the     *)
(* owner has kept to it so far and is of no influence on any step.          *)
(***************************************************************************)
Careful ==
  starts' # starts =>
    /\ m_serverStartStep = "NULL" /\ work = "idle" /\ server = "idle" /\ rm = 0 /\ unreverse = 0
    /\ ~m_serverCopiedToDevice /\ ~m_enableReverse

Step ==
  \/ start \/ stop
  \/ WorkProcess
  \/ ServerStarted \/ ServerCrashes \/ ServerEnds \/ Connected
  \/ RemovesServer \/ RemovesTunnel

Next == Step /\ careful' = (careful /\ Careful)

\* adb push and adb reverse end, and a process that is started starts or
\* fails to, and dies when it is killed.
Fairness ==
  /\ WF_daemonVars(WorkProcess) /\ WF_daemonVars(ServerStarts)
  /\ WF_daemonVars(server = "killed" /\ ServerCrashes)

Spec == Init /\ [][Next]_vars /\ Fairness

-----------------------------------------------------------------------------
(* Properties.                                                              *)

\* A start under way has its answer still to come.
OwesAnswer ==
  unanswered >= IF m_serverStartStep \in {"PUSH", "ENABLE_REVERSE", "EXECUTE_SERVER"} THEN 1 ELSE 0

\* With a careful owner the work process does what the step is waiting for, and
\* the flags are those of the steps already taken.
WorkIsOfTheStep ==
  careful =>
    /\ work # "idle" =>
         \/ m_serverStartStep = "PUSH" /\ workCmd = "push"
         \/ m_serverStartStep = "ENABLE_REVERSE" /\ workCmd = "reverse"
    /\ m_serverStartStep = "PUSH" => ~m_serverCopiedToDevice
    /\ m_serverStartStep \in {"PUSH", "ENABLE_REVERSE"} => ~m_enableReverse

\* No call of start() is answered twice, however often start and stop are
\* called meanwhile and however the processes fail.
NoSecondAnswer == unanswered >= 0

\* As long as the owner is careful the daemon forgets nothing that adb told it
\* of: what is on the phone is known to be there or on its way out, unless a
\* removal failed, or the command that put it there was reported as failed and
\* none has put it there or removed it since.
NothingForgotten ==
  careful =>
    /\ jar => m_serverCopiedToDevice \/ rm > 0 \/ rmFailed \/ "push" \in unheard
    /\ tunnel => m_enableReverse \/ unreverse > 0 \/ rmFailed \/ "reverse" \in unheard

\* The types and the steps a start goes through: what neither a result that
\* comes late nor a stop() in between can break.
IInv == TypeOK /\ OwesAnswer /\ WorkIsOfTheStep /\ NothingForgotten

\* When a start of a careful owner is answered with a failure, every command
\* that succeeded is undone, or begins to be.  A start that is never answered
\* is not spoken of; see StartIsAnswered.
FailureCleansUp ==
  [][careful /\ unanswered' < unanswered /\ m_serverStartStep' = "NULL" =>
       ~m_serverCopiedToDevice' /\ ~m_enableReverse']_vars

\* A start of a careful owner is answered, but for the step that executes the
\* server: if that process ends without having started, nobody hears of it.
StartIsAnswered ==
  unanswered > 0 ~>
    \/ unanswered = 0
    \/ m_serverStartStep = "EXECUTE_SERVER" /\ server = "idle"
    \/ ~careful

=============================================================================
