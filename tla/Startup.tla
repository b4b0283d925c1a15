------------------------------ MODULE Startup -------------------------------
(***************************************************************************)
(* The life of the program: main() starts the server thread, connects the   *)
(* two signals of DesktopServer to the windows, runs the GUI and takes the  *)
(* server thread down again (main.cpp; DesktopServerThread in               *)
(* Network/DesktopServer.cpp).                                              *)
(*                                                                         *)
(* The two threads share m_EventLoop, m_Server and the event loop's exit    *)
(* flag, and nothing orders their accesses.  Of a phone only the sessions   *)
(* matter that module DesktopSession takes apart.                           *)
(***************************************************************************)
EXTENDS Naturals, Sequences

CONSTANT MaxSessions  \* bound: sessions a phone starts

ASSUME StartupAssumption == MaxSessions \in Nat

VARIABLES
  main,         \* where main() is
  server,       \* where DesktopServerThread::run() is
  m_EventLoop,  \* the pointer is set
  m_Server,     \* the pointer is set
  exit,         \* QEventLoop's flag
  connections,  \* the signals main() has connected
  sessions,     \* sessions begun
  paired,       \* the server has a session
  uiQueue,      \* signals on their way to the GUI
  window

vars == <<main, server, m_EventLoop, m_Server, exit, connections, sessions, paired, uiQueue, window>>

serverVars == <<server, m_EventLoop, m_Server, sessions, paired>>

Signals == {"OnConnected", "OnDisConnected"}

TypeOK ==
  /\ main \in {"start", "get", "connectLogin", "connectLogout", "exec", "stop", "wait", "done"}
  /\ server \in {"new", "createLoop", "createServer", "exec", "loop", "finished"}
  /\ m_EventLoop \in BOOLEAN /\ m_Server \in BOOLEAN /\ exit \in BOOLEAN
  /\ m_Server => m_EventLoop
  /\ connections \subseteq Signals
  /\ sessions \in 0 .. MaxSessions
  /\ paired \in BOOLEAN
  /\ uiQueue \in Seq(connections)
  /\ window \in {"LoginView", "Widget"}

Init ==
  /\ main = "start" /\ server = "new"
  /\ m_EventLoop = FALSE /\ m_Server = FALSE /\ exit = FALSE
  /\ connections = {}
  /\ sessions = 0 /\ paired = FALSE
  /\ uiQueue = <<>> /\ window = "LoginView"

-----------------------------------------------------------------------------
(* The main thread.                                                         *)

Main(from, to) == main = from /\ main' = to

StartThread ==
  /\ Main("start", "get")
  /\ server' = "createLoop"
  /\ UNCHANGED <<m_EventLoop, m_Server, exit, connections, sessions, paired, uiQueue, window>>

\* GetDesktopServer() the first time; the reference is not used.
GetServer ==
  /\ Main("get", "connectLogin")
  /\ UNCHANGED <<serverVars, exit, connections, uiQueue, window>>

\* QObject::connect does nothing but complain when the sender is null.
connect(signal) ==
  connections' = IF m_Server THEN connections \cup {signal} ELSE connections

\* Fault: the order of the two calls is swapped.
ConnectWindowsSwapped ==
  /\ \/ Main("connectLogin", "connectLogout") /\ connect("OnDisConnected")
     \/ Main("connectLogout", "exec") /\ connect("OnConnected")
  /\ UNCHANGED <<serverVars, exit, uiQueue, window>>

ConnectWindows ==
  /\ \/ Main("connectLogin", "connectLogout") /\ connect("OnConnected")
     \/ Main("connectLogout", "exec") /\ connect("OnDisConnected")
  /\ UNCHANGED <<serverVars, exit, uiQueue, window>>

\* LoginView::OnLogin or Widget::OnLogout.
HandleSignal ==
  /\ main = "exec"
  /\ uiQueue # <<>>
  /\ window' = IF Head(uiQueue) = "OnConnected" THEN "Widget" ELSE "LoginView"
  /\ uiQueue' = Tail(uiQueue)
  /\ UNCHANGED <<main, serverVars, exit, connections>>

\* The user closes the window.
CloseWindow ==
  /\ Main("exec", "stop")
  /\ UNCHANGED <<serverVars, exit, connections, uiQueue, window>>

\* Fault: the loop is not told.
stopServerSilent ==
  /\ Main("stop", "wait")
  /\ UNCHANGED <<serverVars, exit, connections, uiQueue, window>>

stopServer ==
  /\ Main("stop", "wait")
  /\ exit' = (m_EventLoop \/ exit)
  /\ UNCHANGED <<serverVars, connections, uiQueue, window>>

\* wait() returns and main() takes down what the server thread used.
TearDown ==
  /\ server = "finished"
  /\ Main("wait", "done")
  /\ UNCHANGED <<serverVars, exit, connections, uiQueue, window>>

-----------------------------------------------------------------------------
(* The server thread.                                                       *)

mainVars == <<main, connections, window>>

\* Fault: the pointer is set before there is an event loop.
CreateServerFirst ==
  /\ server = "createLoop" /\ server' = "createServer"
  /\ m_Server' = TRUE
  /\ UNCHANGED <<mainVars, m_EventLoop, exit, sessions, paired, uiQueue>>

CreateEventLoop ==
  /\ server = "createLoop" /\ server' = "createServer"
  /\ m_EventLoop' = TRUE
  /\ UNCHANGED <<mainVars, m_Server, exit, sessions, paired, uiQueue>>

CreateServer ==
  /\ server = "createServer" /\ server' = "exec"
  /\ m_Server' = TRUE
  /\ UNCHANGED <<mainVars, m_EventLoop, exit, sessions, paired, uiQueue>>

\* QEventLoop::exec() clears the flag before it turns.
Exec ==
  /\ server = "exec" /\ server' = "loop"
  /\ exit' = FALSE
  /\ UNCHANGED <<mainVars, m_EventLoop, m_Server, sessions, paired, uiQueue>>

Emit(signal) == uiQueue' = IF signal \in connections THEN Append(uiQueue, signal) ELSE uiQueue

SessionBegins ==
  /\ server = "loop"
  /\ ~paired /\ sessions < MaxSessions
  /\ paired' = TRUE
  /\ sessions' = sessions + 1
  /\ Emit("OnConnected")
  /\ UNCHANGED <<mainVars, server, m_EventLoop, m_Server, exit>>

SessionEnds ==
  /\ server = "loop"
  /\ paired
  /\ paired' = FALSE
  /\ Emit("OnDisConnected")
  /\ UNCHANGED <<mainVars, server, m_EventLoop, m_Server, exit, sessions>>

\* The loop sees the flag; run() returns.
LoopEnds ==
  /\ server = "loop" /\ exit
  /\ server' = "finished"
  /\ UNCHANGED <<mainVars, m_EventLoop, m_Server, exit, sessions, paired, uiQueue>>

-----------------------------------------------------------------------------
MainSteps == StartThread \/ GetServer \/ ConnectWindows \/ HandleSignal \/ stopServer \/ TearDown

ServerSteps == CreateEventLoop \/ CreateServer \/ Exec \/ LoopEnds

Next == MainSteps \/ CloseWindow \/ ServerSteps \/ SessionBegins \/ SessionEnds

\* Both threads go on; neither the user nor the phone has to do anything.
\* What keeps the server's loop busy ends, so that the flag is seen.
Spec == Init /\ [][Next]_vars /\ WF_vars(MainSteps) /\ WF_vars(ServerSteps)

-----------------------------------------------------------------------------
(* Properties.                                                              *)

\* Who hears of a session hears of its end: whatever the race with the server
\* thread lost, a session that the running GUI may show does not stay on the
\* screen when it is over.  (One that begins after the first call of connect
\* and ends before the second does: nothing is claimed of it.)
EndIsShown ==
  [](main = "exec" /\ paired =>
       [](~paired => <>(window = "LoginView" \/ paired \/ main # "exec")))

=============================================================================
