------------------------ MODULE AndroidDaemonProofs -------------------------
(***************************************************************************)
(* Proofs about AndroidDaemon, for any number of calls of start() and       *)
(* stop(): typing, the inductive invariant IInv and the safety properties   *)
(* it implies.                                                              *)
(***************************************************************************)
EXTENDS AndroidDaemon, TLAPS

\* removeServer and disableTunnelReverse: a flag that is cleared leaves a
\* process behind that removes what it stood for.
LEMMA ClearLeavesAProcess ==
  ASSUME TypeOK, NEW copied \in BOOLEAN, NEW reversed \in BOOLEAN, Clear(copied, reversed)
  PROVE  /\ m_serverCopiedToDevice' \in BOOLEAN /\ m_enableReverse' \in BOOLEAN
         /\ rm' \in Nat /\ unreverse' \in Nat
         /\ rm' >= rm /\ unreverse' >= unreverse
         /\ m_serverCopiedToDevice => m_serverCopiedToDevice' \/ rm' > 0
         /\ m_enableReverse => m_enableReverse' \/ unreverse' > 0
         /\ m_serverCopiedToDevice' => m_serverCopiedToDevice /\ ~copied
         /\ m_enableReverse' => m_enableReverse /\ ~reversed
<1>1. /\ m_serverCopiedToDevice \in BOOLEAN /\ m_enableReverse \in BOOLEAN
      /\ rm \in Nat /\ unreverse \in Nat
  BY DEF TypeOK
<1>2. /\ m_serverCopiedToDevice' = (m_serverCopiedToDevice /\ ~copied)
      /\ m_enableReverse' = (m_enableReverse /\ ~reversed)
  BY DEF Clear
<1>3. /\ m_serverCopiedToDevice' \in BOOLEAN /\ m_enableReverse' \in BOOLEAN
      /\ m_serverCopiedToDevice' <=> m_serverCopiedToDevice /\ ~copied
      /\ m_enableReverse' <=> m_enableReverse /\ ~reversed
  BY <1>1, <1>2, Zenon
<1>4. /\ rm' = IF copied /\ m_serverCopiedToDevice THEN rm + 1 ELSE rm
      /\ unreverse' = IF reversed /\ m_enableReverse THEN unreverse + 1 ELSE unreverse
  BY DEF Clear
<1>5. rm' \in Nat /\ rm' >= rm /\ (copied /\ m_serverCopiedToDevice => rm' > 0)
  BY <1>1, <1>4
<1>6. unreverse' \in Nat /\ unreverse' >= unreverse /\ (reversed /\ m_enableReverse => unreverse' > 0)
  BY <1>1, <1>4
<1> QED BY <1>3, <1>5, <1>6

\* What adb does to the phone, whatever it reports.
LEMMA EffectKeepsTypes ==
  ASSUME TypeOK, TakesEffect
  PROVE  /\ jar' \in BOOLEAN /\ tunnel' \in BOOLEAN /\ rmFailed' \in BOOLEAN
         /\ workCmd \in {"push", "reverse"}
BY DEF TypeOK, TakesEffect

\* Every step keeps the types: no process that removes something ends twice.
LEMMA StepKeepsTypes ==
  ASSUME TypeOK, Step, careful' \in BOOLEAN
  PROVE  TypeOK'
<1> USE DaemonAssumption DEF TypeOK, flagVars, deviceVars, socketVars, countVars
<1>1. CASE start
  BY <1>1 DEF start, pushServer, WorkRuns, executeCmd
<1>2. CASE stop
  <2>1. /\ m_serverCopiedToDevice' \in BOOLEAN /\ m_enableReverse' \in BOOLEAN
        /\ rm' \in Nat /\ unreverse' \in Nat
    BY <1>2, ClearLeavesAProcess DEF stop, DoStop, CleanUp
  <2>2. m_deviceSocket' \in {"none", "open", "closed"} /\ m_serverSocket' \in BOOLEAN
    BY <1>2 DEF stop, DoStop
  <2>3. server' \in {"idle", "starting", "running", "killed"}
    BY <1>2 DEF stop, DoStop, cancel
  <2>4. stops' \in 0 .. MaxStops
    BY <1>2 DEF stop
  <2> QED BY <1>2, <2>1, <2>2, <2>3, <2>4 DEF stop
<1>3. CASE WorkStarted
  BY <1>3 DEF WorkStarted
<1>4. CASE WorkSucceeds
  <2>1. /\ jar' \in BOOLEAN /\ tunnel' \in BOOLEAN /\ rmFailed' \in BOOLEAN
        /\ unheard' \subseteq {"push", "reverse"}
    BY <1>4, EffectKeepsTypes DEF WorkSucceeds
  <2>2. CASE PushSucceeds
    BY <1>4, <2>1, <2>2 DEF WorkSucceeds, PushSucceeds, enableTunnelReverse, WorkRuns, executeCmd
  <2>3. CASE ReverseSucceeds
    <3>1. /\ m_serverCopiedToDevice' \in BOOLEAN /\ m_enableReverse' \in BOOLEAN
          /\ m_serverSocket' \in BOOLEAN
          /\ server' \in {"idle", "starting", "running", "killed"}
      BY <2>3 DEF ReverseSucceeds, execute, executeCmd
    <3>2. rm' \in Nat /\ unreverse' \in Nat /\ unanswered' \in Int
      BY <2>3 DEF ReverseSucceeds, OnStart
    <3> QED BY <1>4, <2>1, <2>3, <3>1, <3>2 DEF WorkSucceeds, ReverseSucceeds
  <2>4. CASE NoWorkStep
    BY <1>4, <2>1, <2>4 DEF WorkSucceeds, NoWorkStep
  <2> QED BY <1>4, <2>2, <2>3, <2>4 DEF WorkSucceeds
<1>5. CASE WorkFails
  <2>1. /\ m_serverCopiedToDevice' \in BOOLEAN /\ m_enableReverse' \in BOOLEAN
        /\ rm' \in Nat /\ unreverse' \in Nat
    BY <1>5, ClearLeavesAProcess DEF WorkFails, removeServer
  <2>2. m_serverStartStep' \in {"NULL", "PUSH", "ENABLE_REVERSE", "EXECUTE_SERVER", "RUNNING"}
        /\ unanswered' \in Int
    BY <1>5 DEF WorkFails, OnStart
  <2>3. /\ jar' \in BOOLEAN /\ tunnel' \in BOOLEAN /\ rmFailed' \in BOOLEAN
        /\ unheard' \subseteq {"push", "reverse"}
    <3>1. CASE UNCHANGED deviceVars
      BY <3>1
    <3>2. CASE TakesEffect /\ unheard' = unheard \cup {workCmd}
      BY <3>2, EffectKeepsTypes
    <3> QED BY <1>5, <3>1, <3>2 DEF WorkFails, EffectUnheard
  <2> QED BY <1>5, <2>1, <2>2, <2>3 DEF WorkFails
<1>6. CASE ServerStarted
  BY <1>6 DEF ServerStarted, StopsRunning, OnStart
<1>7. CASE ServerCrashes
  <2>1. /\ m_serverCopiedToDevice' \in BOOLEAN /\ m_enableReverse' \in BOOLEAN
        /\ rm' \in Nat /\ unreverse' \in Nat
    BY <1>7, ClearLeavesAProcess DEF ServerCrashes, StopsRunning, CleanUp
  <2> QED BY <1>7, <2>1 DEF ServerCrashes, StopsRunning, OnStart
<1>8. CASE ServerEnds
  BY <1>8 DEF ServerEnds, StopsRunning
<1>9. CASE Connected
  <2>1. /\ m_serverCopiedToDevice' \in BOOLEAN /\ m_enableReverse' \in BOOLEAN
        /\ rm' \in Nat /\ unreverse' \in Nat
    BY <1>9, ClearLeavesAProcess DEF Connected, CleanUp
  <2> QED BY <1>9, <2>1 DEF Connected, cancel
<1>10. CASE RemovesServer
  <2>1. jar' \in BOOLEAN /\ rmFailed' \in BOOLEAN
    BY <1>10, Zenon DEF RemovesServer
  <2>2. unheard' \subseteq {"push", "reverse"}
    BY <1>10 DEF RemovesServer
  <2> QED BY <1>10, <2>1, <2>2 DEF RemovesServer
<1>11. CASE RemovesTunnel
  <2>1. tunnel' \in BOOLEAN /\ rmFailed' \in BOOLEAN
    BY <1>11, Zenon DEF RemovesTunnel
  <2>2. unheard' \subseteq {"push", "reverse"}
    BY <1>11 DEF RemovesTunnel
  <2> QED BY <1>11, <2>1, <2>2 DEF RemovesTunnel
<1> QED BY <1>1, <1>2, <1>3, <1>4, <1>5, <1>6, <1>7, <1>8, <1>9, <1>10, <1>11
        DEF Step, WorkProcess

\* A start under way owes an answer, and only its answer is counted.
LEMMA StepOwes ==
  ASSUME TypeOK, OwesAnswer, Step
  PROVE  OwesAnswer'
<1> USE DEF TypeOK, OwesAnswer, OnStart, StopsRunning
<1>1. CASE start
  BY <1>1 DEF start
<1>2. CASE stop \/ WorkStarted \/ Connected \/ RemovesServer \/ RemovesTunnel
  BY <1>2 DEF stop, WorkStarted, Connected, RemovesServer, RemovesTunnel
<1>3. CASE WorkSucceeds
  BY <1>3 DEF WorkSucceeds, PushSucceeds, ReverseSucceeds, NoWorkStep
<1>4. CASE WorkFails
  BY <1>4 DEF WorkFails
<1>5. CASE ServerStarted \/ ServerCrashes \/ ServerEnds
  BY <1>5 DEF ServerStarted, ServerCrashes, ServerEnds
<1> QED BY <1>1, <1>2, <1>3, <1>4, <1>5 DEF Step, WorkProcess

\* With a careful owner a result of the work process is that of the step.
LEMMA StepKeepsWork ==
  ASSUME TypeOK, WorkIsOfTheStep, Next
  PROVE  WorkIsOfTheStep'
<1> SUFFICES ASSUME careful' PROVE WorkIsOfTheStep'
  BY DEF WorkIsOfTheStep
<1>1. careful /\ Careful /\ Step
  BY DEF Next
<1>2. /\ work # "idle" =>
            \/ m_serverStartStep = "PUSH" /\ workCmd = "push"
            \/ m_serverStartStep = "ENABLE_REVERSE" /\ workCmd = "reverse"
      /\ m_serverStartStep = "PUSH" => ~m_serverCopiedToDevice
      /\ m_serverStartStep \in {"PUSH", "ENABLE_REVERSE"} => ~m_enableReverse
  BY <1>1 DEF WorkIsOfTheStep
<1> SUFFICES /\ work' # "idle" =>
                  \/ m_serverStartStep' = "PUSH" /\ workCmd' = "push"
                  \/ m_serverStartStep' = "ENABLE_REVERSE" /\ workCmd' = "reverse"
             /\ m_serverStartStep' = "PUSH" => ~m_serverCopiedToDevice'
             /\ m_serverStartStep' \in {"PUSH", "ENABLE_REVERSE"} => ~m_enableReverse'
  BY DEF WorkIsOfTheStep
<1> USE DEF TypeOK, flagVars, StopsRunning
<1>3. CASE start
  <2>1. starts' # starts
    BY <1>3 DEF start
  <2> QED BY <1>1, <1>3, <2>1 DEF start, Careful, pushServer, WorkRuns, executeCmd
<1>4. CASE stop
  BY <1>2, <1>4, ClearLeavesAProcess DEF stop, DoStop, CleanUp
<1>5. CASE WorkStarted
  BY <1>2, <1>5 DEF WorkStarted
<1>6. CASE WorkSucceeds
  BY <1>2, <1>6 DEF WorkSucceeds, PushSucceeds, ReverseSucceeds, NoWorkStep,
     enableTunnelReverse, WorkRuns, executeCmd
<1>7. CASE WorkFails
  BY <1>2, <1>7 DEF WorkFails
<1>8. CASE ServerStarted \/ ServerEnds
  BY <1>2, <1>8 DEF ServerStarted, ServerEnds
<1>9. CASE ServerCrashes
  BY <1>2, <1>9 DEF ServerCrashes
<1>10. CASE Connected
  BY <1>2, <1>10, ClearLeavesAProcess DEF Connected, CleanUp
<1>11. CASE RemovesServer
  BY <1>2, <1>11 DEF RemovesServer
<1>12. CASE RemovesTunnel
  BY <1>2, <1>12 DEF RemovesTunnel
<1> QED BY <1>1, <1>3, <1>4, <1>5, <1>6, <1>7, <1>8, <1>9, <1>10, <1>11, <1>12 DEF Step, WorkProcess

\* What is on the phone stays known or on its way out.
LEMMA StepForgetsNothing ==
  ASSUME TypeOK, WorkIsOfTheStep, NothingForgotten, Next
  PROVE  NothingForgotten'
<1> SUFFICES ASSUME careful' PROVE NothingForgotten'
  BY DEF NothingForgotten
<1>1. careful /\ Step
  BY DEF Next
<1>2. /\ jar => m_serverCopiedToDevice \/ rm > 0 \/ rmFailed \/ "push" \in unheard
      /\ tunnel => m_enableReverse \/ unreverse > 0 \/ rmFailed \/ "reverse" \in unheard
  BY <1>1 DEF NothingForgotten
<1>3. work # "idle" =>
        \/ m_serverStartStep = "PUSH" /\ workCmd = "push"
        \/ m_serverStartStep = "ENABLE_REVERSE" /\ workCmd = "reverse"
  BY <1>1 DEF WorkIsOfTheStep
<1> SUFFICES /\ jar' => m_serverCopiedToDevice' \/ rm' > 0 \/ rmFailed' \/ "push" \in unheard'
             /\ tunnel' => m_enableReverse' \/ unreverse' > 0 \/ rmFailed' \/ "reverse" \in unheard'
  BY DEF NothingForgotten
<1> USE DEF TypeOK, flagVars, deviceVars, StopsRunning
<1>4. ASSUME NEW copied \in BOOLEAN, NEW reversed \in BOOLEAN, Clear(copied, reversed),
             UNCHANGED deviceVars
      PROVE  /\ jar' => m_serverCopiedToDevice' \/ rm' > 0 \/ rmFailed' \/ "push" \in unheard'
             /\ tunnel' => m_enableReverse' \/ unreverse' > 0 \/ rmFailed' \/ "reverse" \in unheard'
  BY <1>2, <1>4, ClearLeavesAProcess
<1>5. CASE start \/ WorkStarted
  BY <1>2, <1>5 DEF start, WorkStarted
<1>6. CASE stop \/ Connected
  BY <1>4, <1>6 DEF stop, DoStop, Connected, CleanUp
<1>7. CASE WorkSucceeds
  <2>1. CASE PushSucceeds
    BY <1>2, <1>3, <1>7, <2>1 DEF WorkSucceeds, PushSucceeds, TakesEffect
  <2>2. CASE ReverseSucceeds
    BY <1>2, <1>3, <1>7, <2>2 DEF WorkSucceeds, ReverseSucceeds, TakesEffect
  <2>3. CASE NoWorkStep
    BY <1>3, <1>7, <2>3 DEF WorkSucceeds, NoWorkStep
  <2> QED BY <1>7, <2>1, <2>2, <2>3 DEF WorkSucceeds
<1>8. CASE WorkFails
  <2>1. UNCHANGED flagVars \/ Clear(TRUE, FALSE)
    BY <1>8 DEF WorkFails, removeServer
  <2>2. CASE UNCHANGED deviceVars
    BY <1>2, <1>4, <2>1, <2>2
  <2>3. CASE TakesEffect /\ unheard' = unheard \cup {workCmd}
    <3>1. /\ m_serverCopiedToDevice => m_serverCopiedToDevice' \/ rm' > 0
          /\ m_enableReverse => m_enableReverse' \/ unreverse' > 0
          /\ rm' >= rm /\ unreverse' >= unreverse
          /\ rm' \in Nat /\ unreverse' \in Nat
      <4>1. CASE UNCHANGED flagVars
        BY <4>1
      <4>2. CASE Clear(TRUE, FALSE)
        BY <4>2, ClearLeavesAProcess
      <4> QED BY <2>1, <4>1, <4>2
    <3>2. /\ rmFailed' = rmFailed
          /\ jar' => jar \/ "push" \in unheard'
          /\ tunnel' => tunnel \/ "reverse" \in unheard'
          /\ unheard \subseteq unheard'
      BY <2>3 DEF TakesEffect
    <3> QED BY <1>2, <3>1, <3>2
  <2> QED BY <1>8, <2>2, <2>3 DEF WorkFails, EffectUnheard
<1>9. CASE ServerStarted \/ ServerEnds
  BY <1>2, <1>9 DEF ServerStarted, ServerEnds
<1>10. CASE ServerCrashes
  <2>1. UNCHANGED deviceVars /\ (UNCHANGED flagVars \/ Clear(TRUE, TRUE))
    BY <1>10 DEF ServerCrashes, CleanUp
  <2> QED BY <1>2, <1>4, <2>1
<1>11. CASE RemovesServer
  <2>1. rmFailed' <=> rmFailed \/ jar'
    BY <1>11, Zenon DEF RemovesServer
  <2> QED BY <1>2, <1>11, <2>1 DEF RemovesServer
<1>12. CASE RemovesTunnel
  <2>1. rmFailed' <=> rmFailed \/ tunnel'
    BY <1>12, Zenon DEF RemovesTunnel
  <2> QED BY <1>2, <1>12, <2>1 DEF RemovesTunnel
<1> QED BY <1>1, <1>5, <1>6, <1>7, <1>8, <1>9, <1>10, <1>11, <1>12 DEF Step, WorkProcess

-----------------------------------------------------------------------------
(* The theorems.                                                            *)

\* Whatever is called when, and however the processes fail: the types, the
\* answer that is owed, and the steps of a careful owner's start.
THEOREM Invariance == Spec => []IInv
<1>1. Init => IInv
  <2> SUFFICES ASSUME Init PROVE IInv
    OBVIOUS
  <2>1. starts \in 0 .. MaxStarts /\ stops \in 0 .. MaxStops
    BY DaemonAssumption DEF Init
  <2>2. TypeOK
    <3>1. /\ m_serverStartStep \in {"NULL", "PUSH", "ENABLE_REVERSE", "EXECUTE_SERVER", "RUNNING"}
          /\ m_deviceSocket \in {"none", "open", "closed"}
          /\ work \in {"idle", "starting", "running"}
          /\ server \in {"idle", "starting", "running", "killed"}
          /\ workCmd \in {"push", "reverse"}
      BY DEF Init
    <3>2. rm \in Nat /\ unreverse \in Nat /\ unanswered \in Int
      BY DEF Init
    <3>3. /\ m_serverCopiedToDevice \in BOOLEAN /\ m_enableReverse \in BOOLEAN
          /\ m_serverSocket \in BOOLEAN
          /\ jar \in BOOLEAN /\ tunnel \in BOOLEAN /\ rmFailed \in BOOLEAN
          /\ careful \in BOOLEAN
          /\ unheard \subseteq {"push", "reverse"}
      BY Zenon DEF Init
    <3> QED BY <2>1, <3>1, <3>2, <3>3 DEF TypeOK
  <2>3. OwesAnswer
    BY DEF Init, OwesAnswer
  <2>4. WorkIsOfTheStep /\ NothingForgotten
    BY DEF Init, WorkIsOfTheStep, NothingForgotten
  <2> QED BY <2>2, <2>3, <2>4 DEF IInv
<1>2. IInv /\ [Next]_vars => IInv'
  <2> SUFFICES ASSUME IInv, [Next]_vars PROVE IInv'
    OBVIOUS
  <2>1. CASE Next
    <3>1. careful' \in BOOLEAN
      BY <2>1, Zenon DEF Next
    <3>2. TypeOK'
      BY <2>1, <3>1, StepKeepsTypes DEF Next, IInv
    <3>3. OwesAnswer'
      BY <2>1, StepOwes DEF Next, IInv
    <3>4. WorkIsOfTheStep' /\ NothingForgotten'
      BY <2>1, StepKeepsWork, StepForgetsNothing DEF IInv
    <3> QED BY <3>2, <3>3, <3>4 DEF IInv
  <2>2. CASE UNCHANGED vars
    BY <2>2 DEF vars, daemonVars, flagVars, deviceVars, socketVars, countVars, IInv, TypeOK,
       OwesAnswer, WorkIsOfTheStep, NothingForgotten
  <2> QED BY <2>1, <2>2
<1> QED BY <1>1, <1>2, PTL DEF Spec

\* OnStart is never called more often than start().
THEOREM AnsweredOnce == Spec => []NoSecondAnswer
<1>1. IInv => NoSecondAnswer
  BY DEF IInv, TypeOK, OwesAnswer, NoSecondAnswer
<1> QED BY <1>1, Invariance, PTL

\* With a careful owner nothing that adb push or adb reverse did and reported is
\* forgotten.
THEOREM PhoneIsCleaned == Spec => []NothingForgotten
<1>1. IInv => NothingForgotten
  BY DEF IInv
<1> QED BY <1>1, Invariance, PTL

\* With a careful owner a start that is answered with a failure has undone, or
\* begun to undo, each of its commands that succeeded.
THEOREM FailureIsCleaned == Spec => FailureCleansUp
<1>1. IInv /\ [Next]_vars =>
        [careful /\ unanswered' < unanswered /\ m_serverStartStep' = "NULL" =>
           ~m_serverCopiedToDevice' /\ ~m_enableReverse']_vars
  <2> SUFFICES ASSUME IInv, Next, careful, unanswered' < unanswered, m_serverStartStep' = "NULL"
               PROVE  ~m_serverCopiedToDevice' /\ ~m_enableReverse'
    OBVIOUS
  <2>1. TypeOK /\ Step
    BY DEF Next, IInv
  <2>2. /\ m_serverStartStep = "PUSH" => ~m_serverCopiedToDevice
        /\ m_serverStartStep \in {"PUSH", "ENABLE_REVERSE"} => ~m_enableReverse
    BY DEF IInv, WorkIsOfTheStep
  <2> USE <2>1 DEF TypeOK, flagVars
  <2>3. unanswered \in Int /\ unanswered' # unanswered /\ unanswered' # unanswered + 1
    OBVIOUS
  <2>4. ~start /\ ~stop /\ ~WorkStarted
    BY <2>3 DEF start, stop, WorkStarted
  <2>5. ~ServerEnds /\ ~Connected
    BY <2>3 DEF ServerEnds, StopsRunning, Connected
  <2>6. ~RemovesServer /\ ~RemovesTunnel
    BY <2>3 DEF RemovesServer, RemovesTunnel
  <2>7. CASE WorkSucceeds
    BY <2>7 DEF WorkSucceeds, PushSucceeds, ReverseSucceeds, NoWorkStep
  <2>8. CASE WorkFails
    <3>1. CASE m_serverStartStep = "PUSH"
      <4>1. UNCHANGED <<m_serverCopiedToDevice, m_enableReverse>>
        BY <2>8, <3>1 DEF WorkFails
      <4> QED BY <2>2, <3>1, <4>1
    <3>2. CASE m_serverStartStep = "ENABLE_REVERSE"
      <4>1. Clear(TRUE, FALSE)
        BY <2>8, <3>2 DEF WorkFails, removeServer
      <4> QED BY <2>2, <3>2, <4>1, ClearLeavesAProcess
    <3> QED BY <2>3, <2>8, <3>1, <3>2 DEF WorkFails
  <2>9. CASE ServerStarted
    BY <2>9 DEF ServerStarted, StopsRunning
  <2>10. CASE ServerCrashes
    <3>1. Clear(TRUE, TRUE)
      BY <2>3, <2>10 DEF ServerCrashes, StopsRunning, CleanUp
    <3> QED BY <3>1, ClearLeavesAProcess
  <2> QED BY <2>1, <2>4, <2>5, <2>6, <2>7, <2>8, <2>9, <2>10 DEF Step, WorkProcess
<1> QED BY <1>1, Invariance, PTL DEF Spec, FailureCleansUp
=============================================================================
