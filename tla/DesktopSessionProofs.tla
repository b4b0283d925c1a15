------------------------ MODULE DesktopSessionProofs ------------------------
(***************************************************************************)
(* Theorems about DesktopSession, for any number of connections.  The two   *)
(* properties of the signals are inductive together with the type           *)
(* invariant: a step of the server appends to Signals what the pairing      *)
(* before and after it calls for, a step of the GUI takes its head off.     *)
(***************************************************************************)
EXTENDS DesktopSession, TLAPS

-----------------------------------------------------------------------------
(* Types.                                                                   *)

\* Every operation keeps the types.
LEMMA StepTypes ==
  ASSUME TypeOK, Step, orderly' \in BOOLEAN
  PROVE  TypeOK'
<1> USE SessionAssumption DEF TypeOK, Connections
<1>1. ASSUME NEW c \in Controls, ControlConnects(c) PROVE TypeOK'
  BY <1>1 DEF ControlConnects, DoOnConnected
<1>2. ASSUME NEW c \in Controls, ControlDisconnects(c) PROVE TypeOK'
  BY <1>2 DEF ControlDisconnects, DoOnDisConnected
<1>3. ASSUME NEW d \in Datas, DataConnects(d) PROVE TypeOK'
  BY <1>3 DEF DataConnects, DoOnConnected
<1>4. ASSUME NEW d \in Datas, DataDisconnects(d) PROVE TypeOK'
  BY <1>4 DEF DataDisconnects
<1>5. ASSUME NEW s \in Connections, DeleteSocket(s) PROVE TypeOK'
  BY <1>5 DEF DeleteSocket
<1>6. CASE OnLogin
  BY <1>6 DEF OnLogin
<1>7. CASE OnLogout
  BY <1>7 DEF OnLogout
<1> QED BY <1>1, <1>2, <1>3, <1>4, <1>5, <1>6, <1>7 DEF Step

\* The windows, the queue and the two pointers keep their types: a control
\* socket is never stored as the data socket, nor the other way round.
THEOREM TypeCorrect == Spec => []TypeOK
<1>1. Init => TypeOK
  BY SessionAssumption DEF Init, TypeOK, Connections
<1>2. TypeOK /\ [Next]_vars => TypeOK'
  <2>1. CASE UNCHANGED vars
    BY <2>1 DEF vars, sessionVars, TypeOK
  <2>2. TypeOK /\ Next => Step /\ orderly' \in BOOLEAN
    BY DEF Next, TypeOK
  <2>3. TypeOK /\ Step /\ orderly' \in BOOLEAN => TypeOK'
    BY StepTypes
  <2> QED BY <2>1, <2>2, <2>3
<1> QED BY <1>1, <1>2, PTL DEF Spec

-----------------------------------------------------------------------------
(* Windows and session.                                                     *)

\* The signals of DesktopServer to the GUI.
Signal == {"OnConnected", "OnDisConnected"}

\* The two properties of a sequence of signals, the last of which says whether
\* there is a session.
Tells(signals, session) ==
  /\ signals[Len(signals)] = "OnConnected" <=> session
  /\ \A i \in 1 .. Len(signals) - 1 :
       signals[i + 1] = "OnDisConnected" => signals[i] = "OnConnected"

\* What the two properties say of the state.
LEMMA TellsAll ==
  ASSUME TypeOK
  PROVE  /\ Signals \in Seq(Signal) /\ Len(Signals) = Len(uiQueue) + 1
         /\ Tells(Signals, Paired) <=> SignalsMatchPairing /\ LogoutsAnswerLogins
<1>1. uiQueue \in Seq(Signal)
  BY DEF TypeOK, Signal
<1>2. Signals \in Seq(Signal) /\ Len(Signals) = Len(uiQueue) + 1
  BY <1>1 DEF Signals, Signal
<1>3. \A i \in 1 .. Len(uiQueue) : Signals[i + 1] = uiQueue[i]
  BY <1>1 DEF Signals, Signal
<1>4. LogoutsAnswerLogins <=>
        \A i \in 1 .. Len(Signals) - 1 :
          Signals[i + 1] = "OnDisConnected" => Signals[i] = "OnConnected"
  BY <1>2 DEF LogoutsAnswerLogins
<1> QED BY <1>2, <1>4 DEF Tells, SignalsMatchPairing

\* A login may be told at any time, a logout while there is a session.
LEMMA TellMore ==
  ASSUME NEW q \in Seq(Signal), q # <<>>, NEW session \in BOOLEAN,
         Tells(q, session),
         NEW signal \in Signal, signal = "OnDisConnected" => session
  PROVE  Tells(Append(q, signal), signal = "OnConnected")
<1> DEFINE p == Append(q, signal)
<1>1. /\ Len(p) = Len(q) + 1 /\ Len(q) \in Nat \ {0}
      /\ p[Len(p)] = signal
      /\ \A i \in 1 .. Len(q) : p[i] = q[i]
  OBVIOUS
<1>2. ASSUME NEW i \in 1 .. Len(q), p[i + 1] = "OnDisConnected"
      PROVE  p[i] = "OnConnected"
  <2>1. CASE i = Len(q)
    BY <1>1, <1>2, <2>1 DEF Tells
  <2>2. CASE i # Len(q)
    <3>1. i \in 1 .. Len(q) - 1 /\ i + 1 \in 1 .. Len(q)
      BY <1>1, <2>2
    <3> QED BY <1>1, <1>2, <3>1 DEF Tells
  <2> QED BY <2>1, <2>2
<1> QED BY <1>1, <1>2 DEF Tells

\* What was acted upon can be forgotten.
LEMMA TellLess ==
  ASSUME NEW q \in Seq(Signal), Len(q) > 1, NEW session \in BOOLEAN, Tells(q, session)
  PROVE  Tells(Tail(q), session)
<1>1. /\ Len(Tail(q)) = Len(q) - 1 /\ Len(q) \in Nat
      /\ \A i \in 1 .. Len(q) - 1 : Tail(q)[i] = q[i + 1]
  OBVIOUS
<1>2. Tail(q)[Len(Tail(q))] = q[Len(q)]
  BY <1>1
<1>3. ASSUME NEW i \in 1 .. Len(q) - 2, Tail(q)[i + 1] = "OnDisConnected"
      PROVE  Tail(q)[i] = "OnConnected"
  <2>1. i + 1 \in 1 .. Len(q) - 1
    BY <1>1
  <2> QED BY <1>1, <1>3, <2>1 DEF Tells
<1> QED BY <1>1, <1>2, <1>3 DEF Tells

\* A step that leaves queue and window alone, and the pairing as it was.
LEMMA TellNothing ==
  ASSUME Tells(Signals, Paired), UNCHANGED <<uiQueue, window>>, Paired' <=> Paired
  PROVE  Tells(Signals', Paired')
BY DEF Tells, Signals

\* The steps of the server that make a pair or keep one.
LEMMA ConnectTells ==
  ASSUME TypeOK, TypeOK', Tells(Signals, Paired), Paired => Paired', DoOnConnected,
         UNCHANGED window
  PROVE  Tells(Signals', Paired')
<1>1. Signals \in Seq(Signal) /\ Signals # <<>> /\ Paired \in BOOLEAN
  BY TellsAll DEF TypeOK, Paired
<1>2. CASE Paired'
  <2>1. Signals' = Append(Signals, "OnConnected")
    BY <1>2 DEF DoOnConnected, Signals, TypeOK, Signal
  <2> QED BY <1>1, <1>2, <2>1, TellMore DEF Signal
<1>3. CASE ~Paired'
  BY <1>3, TellNothing DEF DoOnConnected
<1> QED BY <1>2, <1>3

\* The step that ends a session.
LEMMA DisconnectTells ==
  ASSUME TypeOK, TypeOK', Tells(Signals, Paired), DoOnDisConnected, UNCHANGED window
  PROVE  Tells(Signals', Paired')
<1>1. Signals \in Seq(Signal) /\ Signals # <<>> /\ Paired \in BOOLEAN
  BY TellsAll DEF TypeOK, Paired
<1>2. CASE Paired
  <2>1. Signals' = Append(Signals, "OnDisConnected") /\ ~Paired'
    BY <1>2 DEF DoOnDisConnected, Paired, Signals, TypeOK, Signal
  <2>2. Tells(Append(Signals, "OnDisConnected"), "OnDisConnected" = "OnConnected")
    BY <1>1, <1>2, TellMore DEF Signal
  <2>3. ("OnDisConnected" = "OnConnected") <=> Paired'
    BY <2>1
  <2> QED BY <2>1, <2>2, <2>3 DEF Tells
<1>3. CASE ~Paired
  BY <1>3, TellNothing DEF DoOnDisConnected, Paired
<1> QED BY <1>2, <1>3

\* The steps of the GUI.
LEMMA GuiTells ==
  ASSUME TypeOK, TypeOK', Tells(Signals, Paired), OnLogin \/ OnLogout
  PROVE  Tells(Signals', Paired')
<1>1. Signals \in Seq(Signal) /\ Len(Signals) = Len(uiQueue) + 1 /\ Paired \in BOOLEAN
  BY TellsAll DEF TypeOK, Paired
<1>2. uiQueue \in Seq(Signal) /\ Len(uiQueue) > 0 /\ Paired' = Paired
  BY DEF TypeOK, OnLogin, OnLogout, Paired, Signal
<1>3. Signals' = Tail(Signals)
  <2>1. Tail(Signals) = uiQueue
    BY <1>2 DEF Signals, Signal
  <2>2. Signals' = <<Head(uiQueue)>> \o Tail(uiQueue)
    BY <1>2 DEF Signals, OnLogin, OnLogout
  <2>3. <<Head(uiQueue)>> \o Tail(uiQueue) = uiQueue
    BY <1>2
  <2> QED BY <2>1, <2>2, <2>3
<1> QED BY <1>1, <1>2, <1>3, TellLess

\* In whatever order connections come and go, the last signal on its way to
\* the GUI, or the last it acted upon, says whether the server has a pair of
\* sockets; and a logout is never told but after a login.
THEOREM WindowsAreTold == Spec => []SignalsFollow
<1> DEFINE Inv == Tells(Signals, Paired)
<1>1. Init => Inv
  BY DEF Init, Tells, Signals, Paired
<1>2. TypeOK /\ TypeOK' /\ Inv /\ [Next]_vars => Inv'
  <2> SUFFICES ASSUME TypeOK, TypeOK', Inv, [Next]_vars PROVE Tells(Signals', Paired')
    BY DEF Tells
  <2>1. ASSUME NEW c \in Controls, ControlConnects(c) PROVE Tells(Signals', Paired')
    <3>1. Paired => Paired'
      BY <2>1, SessionAssumption DEF ControlConnects, Paired
    <3> QED BY <2>1, <3>1, ConnectTells DEF ControlConnects
  <2>2. ASSUME NEW c \in Controls, ControlDisconnects(c) PROVE Tells(Signals', Paired')
    BY <2>2, DisconnectTells DEF ControlDisconnects
  <2>3. ASSUME NEW d \in Datas, DataConnects(d) PROVE Tells(Signals', Paired')
    <3>1. Paired => Paired'
      BY <2>3, SessionAssumption DEF DataConnects, Paired
    <3> QED BY <2>3, <3>1, ConnectTells DEF DataConnects
  <2>4. ASSUME NEW d \in Datas, DataDisconnects(d) PROVE Tells(Signals', Paired')
    BY <2>4, TellNothing DEF DataDisconnects, Paired
  <2>5. ASSUME NEW s \in Connections, DeleteSocket(s) PROVE Tells(Signals', Paired')
    BY <2>5, TellNothing DEF DeleteSocket, Paired
  <2>6. CASE OnLogin \/ OnLogout
    BY <2>6, GuiTells
  <2>7. CASE UNCHANGED vars
    BY <2>7, TellNothing DEF vars, sessionVars, Paired
  <2> QED BY <2>1, <2>2, <2>3, <2>4, <2>5, <2>6, <2>7 DEF Next, Step
<1>3. TypeOK /\ Inv => SignalsFollow
  BY TellsAll DEF SignalsFollow
<1> QED BY <1>1, <1>2, <1>3, TypeCorrect, PTL DEF Spec

-----------------------------------------------------------------------------
(* The orderly phone.                                                       *)

\* Inductive: as long as the phone is orderly, a control connection that is
\* open is the current one, and a session has one.
Current ==
  orderly => /\ \A c \in Controls : conn[c] = "open" => m_ControlSocket = c
             /\ Paired => conn[m_ControlSocket] = "open"

\* An orderly step keeps the conditions of Current, and ends a session only
\* with the current control connection.
LEMMA OrderlyStep ==
  ASSUME TypeOK, Step, Orderly,
         \A c \in Controls : conn[c] = "open" => m_ControlSocket = c,
         Paired => conn[m_ControlSocket] = "open"
  PROVE  /\ \A c \in Controls : conn'[c] = "open" => m_ControlSocket' = c
         /\ Paired' => conn'[m_ControlSocket'] = "open"
         /\ Paired /\ ~Paired' => conn'[m_ControlSocket] # "open"
<1> DEFINE Kept == /\ \A c \in Controls : conn'[c] = "open" => m_ControlSocket' = c
                   /\ Paired' => conn'[m_ControlSocket'] = "open"
<1> USE SessionAssumption DEF TypeOK, Connections, Paired
<1>1. ASSUME NEW c \in Controls, ControlConnects(c) PROVE Kept /\ (Paired => Paired')
  <2>1. \A o \in Controls : conn[o] # "open"
    BY <1>1 DEF ControlConnects, Orderly
  <2> QED BY <1>1, <2>1 DEF ControlConnects
<1>2. ASSUME NEW c \in Controls, ControlDisconnects(c)
      PROVE  Kept /\ (Paired /\ ~Paired' => conn'[m_ControlSocket] # "open")
  <2>1. m_ControlSocket = c
    BY <1>2 DEF ControlDisconnects
  <2>2. \A o \in Controls : conn'[o] # "open"
    BY <1>2, <2>1 DEF ControlDisconnects
  <2>3. ~Paired'
    BY <1>2 DEF ControlDisconnects, DoOnDisConnected
  <2> QED BY <2>1, <2>2, <2>3
<1>3. ASSUME NEW d \in Datas, DataConnects(d) PROVE Kept /\ (Paired => Paired')
  <2>1. \E c \in Controls : conn[c] = "open"
    BY <1>3 DEF DataConnects, Orderly
  <2>2. \A c \in Controls : conn'[c] = conn[c]
    BY <1>3 DEF DataConnects
  <2> QED BY <1>3, <2>1, <2>2 DEF DataConnects
<1>4. ASSUME NEW d \in Datas, DataDisconnects(d) PROVE Kept /\ (Paired => Paired')
  BY <1>4 DEF DataDisconnects
<1>5. ASSUME NEW s \in Connections, DeleteSocket(s) PROVE Kept /\ (Paired => Paired')
  BY <1>5 DEF DeleteSocket
<1>6. CASE OnLogin \/ OnLogout
  BY <1>6 DEF OnLogin, OnLogout
<1> QED BY <1>1, <1>2, <1>3, <1>4, <1>5, <1>6 DEF Step

\* Whatever the phone does, a session ends exactly when a control connection
\* ends.
LEMMA EndOfControl ==
  ASSUME TypeOK, Step, Paired
  PROVE  ~Paired' <=> \E c \in Controls : Ended(c)
<1> USE SessionAssumption DEF TypeOK, Connections, Paired, Ended
<1>1. ASSUME NEW c \in Controls, ControlConnects(c) PROVE Paired' /\ ~\E o \in Controls : Ended(o)
  BY <1>1 DEF ControlConnects
<1>2. ASSUME NEW c \in Controls, ControlDisconnects(c) PROVE ~Paired' /\ Ended(c)
  BY <1>2 DEF ControlDisconnects, DoOnDisConnected
<1>3. ASSUME NEW d \in Datas, DataConnects(d) PROVE Paired' /\ ~\E o \in Controls : Ended(o)
  BY <1>3 DEF DataConnects
<1>4. ASSUME NEW d \in Datas, DataDisconnects(d) PROVE Paired' /\ ~\E o \in Controls : Ended(o)
  BY <1>4 DEF DataDisconnects
<1>5. ASSUME NEW s \in Connections, DeleteSocket(s) PROVE Paired' /\ ~\E o \in Controls : Ended(o)
  BY <1>5 DEF DeleteSocket
<1>6. CASE OnLogin \/ OnLogout
  BY <1>6 DEF OnLogin, OnLogout
<1> QED BY <1>1, <1>2, <1>3, <1>4, <1>5, <1>6 DEF Step

\* Current holds at first, every step keeps it, and it is what the two
\* properties need.
LEMMA CurrentInvariant ==
  /\ Init => Current
  /\ TypeOK /\ Current /\ [Next]_vars => Current'
  /\ TypeOK /\ Current /\ [Next]_vars =>
       [Paired => /\ ~Paired' <=> \E c \in Controls : Ended(c)
                  /\ orderly' /\ ~Paired' => Ended(m_ControlSocket)]_vars
<1>1. Init => Current
  BY SessionAssumption DEF Init, Current, Paired, Connections
<1>2. ASSUME TypeOK, Current, Next, orderly'
      PROVE  Current' /\ (Paired /\ ~Paired' => conn'[m_ControlSocket] # "open")
  <2>1. orderly /\ Orderly /\ Step
    BY <1>2 DEF Next
  <2>2. /\ \A c \in Controls : conn[c] = "open" => m_ControlSocket = c
        /\ Paired => conn[m_ControlSocket] = "open"
    BY <1>2, <2>1 DEF Current
  <2>3. /\ \A c \in Controls : conn'[c] = "open" => m_ControlSocket' = c
        /\ Paired' => conn'[m_ControlSocket'] = "open"
        /\ Paired /\ ~Paired' => conn'[m_ControlSocket] # "open"
    BY <1>2, <2>1, <2>2, OrderlyStep
  <2> QED BY <2>3 DEF Current
<1>3. ASSUME Current, UNCHANGED vars PROVE Current'
  BY <1>3 DEF vars, sessionVars, Current, Paired
<1>4. ~orderly' => Current'
  BY DEF Current
<1>5. ASSUME TypeOK, Current, Next, Paired
      PROVE  /\ ~Paired' <=> \E c \in Controls : Ended(c)
             /\ orderly' /\ ~Paired' => Ended(m_ControlSocket)
  <2>1. Step /\ (orderly' => orderly)
    BY <1>5 DEF Next
  <2>2. orderly => conn[m_ControlSocket] = "open"
    BY <1>5 DEF Current
  <2> QED BY <1>2, <1>5, <2>1, <2>2, EndOfControl DEF Ended
<1> QED BY <1>1, <1>2, <1>3, <1>4, <1>5

\* As long as the phone is orderly there is never a session whose control
\* connection is gone: DoOnDisConnected clears both pointers when it goes, and
\* a control socket left behind unpaired is replaced before there is a pair.
THEOREM SessionStaysLive == Spec => []SessionIsLive
<1>1. Current => SessionIsLive
  BY DEF Current, SessionIsLive
<1> QED BY <1>1, CurrentInvariant, TypeCorrect, PTL DEF Spec

\* A session ends with any control connection, the late end of an older one
\* included, and with nothing else; only for an orderly phone is that its own.
THEOREM SessionEndsWithControl == Spec => EndsWithControl
<1> QED BY CurrentInvariant, TypeCorrect, PTL DEF Spec, EndsWithControl
=============================================================================
