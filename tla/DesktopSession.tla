--------------------------- MODULE DesktopSession ---------------------------
(***************************************************************************)
(* The phone's session with the desktop: DesktopServer, which pairs a       *)
(* control connection with a data connection (Network/DesktopServer.cpp),   *)
(* and the two windows that follow it, Widget and LoginView.                *)
(*                                                                         *)
(* DesktopServer lives in the server thread; every slot below runs to its   *)
(* end in that thread's event loop and is one step.  Its two signals are    *)
(* queued to the GUI thread.  The model starts when main() has connected    *)
(* them.  What travels on the connections is left to other modules.         *)
(***************************************************************************)
EXTENDS Sequences, Integers

CONSTANTS
  Controls,  \* control connections the phone may make
  Datas,     \* data connections the phone may make
  Null       \* the null pointer

ASSUME SessionAssumption ==
  /\ Null \notin Controls /\ Null \notin Datas
  /\ Controls \cap Datas = {}

Connections == Controls \cup Datas

VARIABLES
  conn,             \* each socket, "closed" until its deleteLater is carried out
  m_ControlSocket,
  m_DataSocket,
  uiQueue,          \* OnConnected and OnDisConnected on their way to the GUI
  window,           \* the window that is shown
  orderly           \* history: see Orderly

sessionVars == <<conn, m_ControlSocket, m_DataSocket, uiQueue, window>>
vars == <<sessionVars, orderly>>

TypeOK ==
  /\ conn \in [Connections -> {"new", "open", "closed", "deleted"}]
  /\ m_ControlSocket \in Controls \cup {Null}
  /\ m_DataSocket \in Datas \cup {Null}
  /\ uiQueue \in Seq({"OnConnected", "OnDisConnected"})
  /\ window \in {"LoginView", "Widget"}
  /\ orderly \in BOOLEAN

Init ==
  /\ conn = [s \in Connections |-> "new"]
  /\ m_ControlSocket = Null
  /\ m_DataSocket = Null
  /\ uiQueue = <<>>
  /\ window = "LoginView"
  /\ orderly = TRUE

Paired == m_ControlSocket # Null /\ m_DataSocket # Null

-----------------------------------------------------------------------------
(* The server thread.                                                       *)

\* Called with the new values of the two pointers in place.
DoOnConnected ==
  uiQueue' = IF Paired' THEN Append(uiQueue, "OnConnected") ELSE uiQueue

\* Fault: the pointers go and nobody is told.
DoOnDisConnectedSilent ==
  /\ m_ControlSocket' = Null
  /\ m_DataSocket' = Null
  /\ UNCHANGED uiQueue

DoOnDisConnected ==
  IF Paired
    THEN /\ m_ControlSocket' = Null
         /\ m_DataSocket' = Null
         /\ uiQueue' = Append(uiQueue, "OnDisConnected")
    ELSE UNCHANGED <<m_ControlSocket, m_DataSocket, uiQueue>>

\* Fault: a control socket that is already there is not replaced.
ControlConnectsOnce(c) ==
  /\ conn[c] = "new"
  /\ conn' = [conn EXCEPT ![c] = "open"]
  /\ m_ControlSocket' = IF m_ControlSocket = Null THEN c ELSE m_ControlSocket
  /\ UNCHANGED m_DataSocket
  /\ DoOnConnected
  /\ UNCHANGED window

\* newConnection of m_ControlServer.
ControlConnects(c) ==
  /\ conn[c] = "new"
  /\ conn' = [conn EXCEPT ![c] = "open"]
  /\ m_ControlSocket' = c
  /\ UNCHANGED m_DataSocket
  /\ DoOnConnected
  /\ UNCHANGED window

\* newConnection of m_DataServer.
DataConnects(d) ==
  /\ conn[d] = "new"
  /\ conn' = [conn EXCEPT ![d] = "open"]
  /\ m_DataSocket' = d
  /\ UNCHANGED m_ControlSocket
  /\ DoOnConnected
  /\ UNCHANGED window

\* disconnected of any control socket, the current one or not.
ControlDisconnects(c) ==
  /\ conn[c] = "open"
  /\ conn' = [conn EXCEPT ![c] = "closed"]
  /\ DoOnDisConnected
  /\ UNCHANGED window

\* Fault: the end of a data connection ends the session.
DataDisconnectsAll(d) ==
  /\ conn[d] = "open"
  /\ conn' = [conn EXCEPT ![d] = "closed"]
  /\ DoOnDisConnected
  /\ UNCHANGED window

\* disconnected (or aboutToClose) of a data socket: nothing but deleteLater.
DataDisconnects(d) ==
  /\ conn[d] = "open"
  /\ conn' = [conn EXCEPT ![d] = "closed"]
  /\ UNCHANGED <<m_ControlSocket, m_DataSocket, uiQueue, window>>

\* The event loop carries out a deleteLater.
DeleteSocket(s) ==
  /\ conn[s] = "closed"
  /\ conn' = [conn EXCEPT ![s] = "deleted"]
  /\ UNCHANGED <<m_ControlSocket, m_DataSocket, uiQueue, window>>

-----------------------------------------------------------------------------
(* The GUI thread: LoginView::OnLogin and Widget::OnLogout.                 *)

OnLogin ==
  /\ uiQueue # <<>> /\ Head(uiQueue) = "OnConnected"
  /\ uiQueue' = Tail(uiQueue)
  /\ window' = "Widget"
  /\ UNCHANGED <<conn, m_ControlSocket, m_DataSocket>>

OnLogout ==
  /\ uiQueue # <<>> /\ Head(uiQueue) = "OnDisConnected"
  /\ uiQueue' = Tail(uiQueue)
  /\ window' = "LoginView"
  /\ UNCHANGED <<conn, m_ControlSocket, m_DataSocket>>

-----------------------------------------------------------------------------
(***************************************************************************)
(* A phone that keeps its connections in order: it opens a control          *)
(* connection only after the end of the last one was noticed, and a data    *)
(* connection only while its control connection is up.  The code relies on  *)
(* it without saying so; the phone's program is not in this repository.     *)
(* The variable orderly tells whether it has kept to it so far and is of no *)
(* influence on any step.                                                   *)
(***************************************************************************)
Orderly ==
  /\ \A c \in Controls :
       conn[c] # conn'[c] /\ conn[c] = "new" => \A o \in Controls : conn[o] # "open"
  /\ \A d \in Datas :
       conn[d] # conn'[d] /\ conn[d] = "new" => \E c \in Controls : conn[c] = "open"

Step ==
  \/ \E c \in Controls : ControlConnects(c) \/ ControlDisconnects(c)
  \/ \E d \in Datas : DataConnects(d) \/ DataDisconnects(d)
  \/ \E s \in Connections : DeleteSocket(s)
  \/ OnLogin \/ OnLogout

Next == Step /\ orderly' = (orderly /\ Orderly)

Fairness == WF_sessionVars(OnLogin \/ OnLogout)

Spec == Init /\ [][Next]_vars /\ Fairness

-----------------------------------------------------------------------------
(* Properties.                                                              *)

\* The signals the GUI has still to act on, after what it shows now.
Signals ==
  <<IF window = "Widget" THEN "OnConnected" ELSE "OnDisConnected">> \o uiQueue

\* The last signal sent tells whether a pair of sockets is in place: whatever
\* order connections come and go in, the windows end up where the server is.
SignalsMatchPairing == Signals[Len(Signals)] = "OnConnected" <=> Paired

\* The GUI is never told to log out twice in a row, nor before it logged in.
LogoutsAnswerLogins ==
  \A i \in 1 .. Len(uiQueue) :
    Signals[i + 1] = "OnDisConnected" => Signals[i] = "OnConnected"

\* Both: what the windows are told.
SignalsFollow == SignalsMatchPairing /\ LogoutsAnswerLogins

\* A session that lasts is shown, and one that is over is not shown for ever.
WindowFollows ==
  /\ Paired ~> (window = "Widget" \/ ~Paired)
  /\ ~Paired ~> (window = "LoginView" \/ Paired)

\* As long as the phone is orderly a session has a live control connection.
SessionIsLive == orderly /\ Paired => conn[m_ControlSocket] = "open"

\* This step is the end of connection c.
Ended(c) == conn[c] = "open" /\ conn'[c] # "open"

\* A session ends exactly when a control connection ends, never with a data
\* connection: any control connection, an older one that was replaced too, and
\* its own as long as the phone is orderly.
EndsWithControl ==
  [][Paired => /\ ~Paired' <=> \E c \in Controls : Ended(c)
               /\ orderly' /\ ~Paired' => Ended(m_ControlSocket)]_vars

=============================================================================
