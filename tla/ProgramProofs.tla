--------------------------- MODULE ProgramProofs ----------------------------
(***************************************************************************)
(* Theorems about Program, for any number of sessions, lines and messages   *)
(* and any maximum of the log from 2 on.  That the callback is usable needs *)
(* the order in which main() starts and joins its threads; that the log is  *)
(* kept is inductive once a thread inside the log is known to have left a   *)
(* line there.                                                              *)
(***************************************************************************)
EXTENDS Program, SequenceTheorems, TLAPS

-----------------------------------------------------------------------------
(* The server thread is there between start() and wait().                   *)

ServerLife ==
  /\ server = "new" <=> main = "start"
  /\ main = "done" => server = "finished"
  /\ m_EventLoop <=> server \notin {"new", "createLoop"}
  /\ m_Server <=> server \notin {"new", "createLoop", "createServer"}

\* A step of Startup keeps its types and the life of the server thread.
LEMMA StartupStep ==
  ASSUME TypeOK, ServerLife, MainSteps \/ CloseWindow \/ ServerSteps \/ SessionBegins \/ SessionEnds
  PROVE  TypeOK' /\ ServerLife'
<1> USE StartupAssumption DEF TypeOK, ServerLife, Signals, Main, serverVars, mainVars
<1>1. CASE StartThread
  BY <1>1 DEF StartThread
<1>2. CASE GetServer
  BY <1>2 DEF GetServer
<1>3. CASE ConnectWindows
  <2>1. connections \subseteq connections'
    BY <1>3 DEF ConnectWindows, connect
  <2>2. uiQueue' \in Seq(connections')
    BY <1>3, <2>1, SeqMonotonic DEF ConnectWindows
  <2> QED BY <1>3, <2>2 DEF ConnectWindows, connect
<1>4. CASE HandleSignal
  BY <1>4 DEF HandleSignal
<1>5. CASE CloseWindow
  BY <1>5 DEF CloseWindow
<1>6. CASE stopServer
  BY <1>6 DEF stopServer
<1>7. CASE TearDown
  BY <1>7 DEF TearDown
<1>8. CASE ServerSteps
  <2>1. CASE CreateEventLoop
    BY <2>1 DEF CreateEventLoop
  <2>2. CASE CreateServer
    BY <2>2 DEF CreateServer
  <2>3. CASE Exec
    BY <2>3 DEF Exec
  <2>4. CASE LoopEnds
    BY <2>4 DEF LoopEnds
  <2> QED BY <1>8, <2>1, <2>2, <2>3, <2>4 DEF ServerSteps
<1>9. CASE SessionBegins
  <2>1. uiQueue' \in Seq(connections)
    BY <1>9 DEF SessionBegins, Emit
  <2>2. sessions' \in 0 .. MaxSessions
    BY <1>9 DEF SessionBegins
  <2> QED BY <1>9, <2>1, <2>2 DEF SessionBegins
<1>10. CASE SessionEnds
  <2>1. uiQueue' \in Seq(connections)
    BY <1>10 DEF SessionEnds, Emit
  <2>2. sessions' \in 0 .. MaxSessions
    BY <1>10 DEF SessionEnds
  <2> QED BY <1>10, <2>1, <2>2 DEF SessionEnds
<1> QED BY <1>1, <1>2, <1>3, <1>4, <1>5, <1>6, <1>7, <1>8, <1>9, <1>10 DEF MainSteps

\* What main() has not started yet, and what it has ended.
MainLife ==
  /\ ServerLife
  /\ phase \in {"setCallback", "register"} => main = "start" /\ ~service
  /\ phase \in {"unRegister", "return", "ended"} => main = "done"
  /\ phase \in {"return", "ended"} => ~service
  /\ file = "destroyed" => phase = "ended"
  /\ phase = "ended" => mutex # "main"

\* Types and lives of the threads.
LifeInv == ProgramTypeOK /\ MainLife

-----------------------------------------------------------------------------
(* The log.                                                                 *)

\* The maximum and what is dropped of a list that is longer.
Max == MaxMaintainLogNum

Half == MaxMaintainLogNum \div 2

\* A list that is longer can lose a half and keep something.
LEMMA HalfIsPart == Half \in Nat /\ Half >= 1 /\ 2 * Half <= Max /\ Max \in Nat
BY ProgramAssumption DEF Half, Max

\* What a line does to the list: it is the last, the rest is the end of what
\* was there, and only a list that is too long loses lines.
LEMMA AddKeepsTheEnd ==
  ASSUME NEW S, NEW kept \in Seq(S), NEW line \in S,
         NEW new, new = L!Add(kept, line)
  PROVE  /\ new \in Seq(S) /\ new # <<>>
         /\ new[Len(new)] = line
         /\ Len(new) = (IF Len(kept) > Max THEN Len(kept) - Half ELSE Len(kept)) + 1
         /\ \A i \in 1 .. Len(new) - 1 : new[i] = kept[i + (Len(kept) + 1 - Len(new))]
<1>1. CASE Len(kept) > Max
  <2> DEFINE old == SubSeq(kept, Half + 1, Len(kept))
  <2>1. new = Append(old, line)
    BY <1>1 DEF L!Add, Half, Max
  <2>2. /\ old \in Seq(S)
        /\ Len(old) = Len(kept) - Half
        /\ \A i \in 1 .. Len(old) : old[i] = kept[i + Half]
    <3>1. Half + 1 \in 1 .. Len(kept) + 1 /\ Len(kept) \in Half .. Len(kept)
      BY <1>1, HalfIsPart
    <3>2. \A i \in Half + 1 .. Len(kept) : kept[i] \in S
      BY <3>1, HalfIsPart, ElementOfSeq
    <3>3. /\ old \in Seq(S)
          /\ Len(old) = IF Half + 1 <= Len(kept) THEN Len(kept) - (Half + 1) + 1 ELSE 0
          /\ \A i \in 1 .. Len(kept) - (Half + 1) + 1 : old[i] = kept[Half + 1 + i - 1]
      BY <3>1, <3>2, HalfIsPart, SubSeqProperties
    <3> HIDE DEF old
    <3>4. Len(old) = Len(kept) - Half
      BY <3>1, <3>3, HalfIsPart
    <3>5. ASSUME NEW i \in 1 .. Len(old) PROVE old[i] = kept[i + Half]
      <4>1. i \in 1 .. Len(kept) - (Half + 1) + 1 /\ Half + 1 + i - 1 = i + Half
        BY <3>4, HalfIsPart
      <4> QED BY <3>3, <4>1
    <3> QED BY <3>3, <3>4, <3>5
  <2> HIDE DEF old
  <2>3. /\ new \in Seq(S) /\ new # <<>> /\ Len(new) = Len(old) + 1
        /\ new[Len(old) + 1] = line
        /\ \A i \in 1 .. Len(old) : new[i] = old[i]
    BY <2>1, <2>2, AppendProperties
  <2>4. Len(new) = Len(kept) - Half + 1
    BY <2>2, <2>3, HalfIsPart
  <2>5. ASSUME NEW i \in 1 .. Len(new) - 1
        PROVE  new[i] = kept[i + (Len(kept) + 1 - Len(new))]
    <3>1. i \in 1 .. Len(old) /\ i + (Len(kept) + 1 - Len(new)) = i + Half
      BY <2>2, <2>3, <2>4, HalfIsPart
    <3> QED BY <2>2, <2>3, <3>1
  <2> QED BY <1>1, <2>3, <2>4, <2>5
<1>2. CASE ~(Len(kept) > Max)
  <2>1. new = Append(kept, line)
    BY <1>2 DEF L!Add, Max
  <2> QED BY <1>2, <2>1
<1> QED BY <1>1, <1>2

\* The line is the last of the list.
LEMMA AddEndsWith ==
  ASSUME NEW kept \in Seq(Lines), NEW line \in Lines
  PROVE  LET new == L!Add(kept, line) IN new \in Seq(Lines) /\ new # <<>> /\ new[Len(new)] = line
BY AddKeepsTheEnd

\* LogIsKept, of any list and any history.
Kept(list, all) ==
  /\ Len(list) <= Len(all)
  /\ \A i \in 1 .. Len(list) : list[i] = all[i + (Len(all) - Len(list))]
  /\ Len(list) <= Max + 1
  /\ Len(list) < Len(all) => Len(list) + Half >= Max + 2
  /\ \A i \in 1 .. Len(all) - 1 : all[i] # all[i + 1]

\* A line that does not repeat the last one keeps all of it.
LEMMA KeptGrows ==
  ASSUME NEW S, NEW list \in Seq(S), NEW all \in Seq(S), NEW line \in S,
         Kept(list, all), list # <<>> => list[Len(list)] # line
  PROVE  Kept(L!Add(list, line), Append(all, line))
<1> DEFINE new == L!Add(list, line)
           more == Append(all, line)
<1>1. /\ new \in Seq(S) /\ new # <<>>
      /\ new[Len(new)] = line
      /\ Len(new) = (IF Len(list) > Max THEN Len(list) - Half ELSE Len(list)) + 1
      /\ \A i \in 1 .. Len(new) - 1 : new[i] = list[i + (Len(list) + 1 - Len(new))]
  BY AddKeepsTheEnd
<1>2. /\ more \in Seq(S) /\ Len(more) = Len(all) + 1
      /\ more[Len(all) + 1] = line
      /\ \A i \in 1 .. Len(all) : more[i] = all[i]
  BY AppendProperties
<1> HIDE DEF new, more
<1>3. /\ Len(list) \in Nat /\ Len(all) \in Nat /\ Len(list) <= Len(all)
      /\ Len(list) <= Max + 1
      /\ Len(list) < Len(all) => Len(list) + Half >= Max + 2
  BY DEF Kept
<1>4. /\ Len(new) \in Nat \ {0}
      /\ Len(new) <= Len(list) + 1
      /\ Len(new) <= Len(more) /\ Len(new) <= Max + 1
      /\ Len(new) < Len(more) => Len(new) + Half >= Max + 2
  <2>1. Len(new) = (IF Len(list) > Max THEN Len(list) - Half ELSE Len(list)) + 1
    BY <1>1
  <2>2. Len(more) = Len(all) + 1
    BY <1>2
  <2> QED BY <1>3, <2>1, <2>2, HalfIsPart
<1>5. ASSUME NEW i \in 1 .. Len(new) PROVE new[i] = more[i + (Len(more) - Len(new))]
  <2>1. CASE i = Len(new)
    BY <1>1, <1>2, <1>3, <1>4, <2>1
  <2>2. CASE i # Len(new)
    <3>1. i \in 1 .. Len(new) - 1
      BY <1>4, <2>2
    <3> DEFINE j == i + (Len(list) + 1 - Len(new))
    <3>2. j \in 1 .. Len(list) /\ new[i] = list[j]
      <4>1. new[i] = list[j]
        BY <1>1, <3>1
      <4> QED BY <1>3, <1>4, <3>1, <4>1
    <3>3. list[j] = all[j + (Len(all) - Len(list))]
      BY <3>2 DEF Kept
    <3>4. /\ j + (Len(all) - Len(list)) = i + (Len(more) - Len(new))
          /\ j + (Len(all) - Len(list)) \in 1 .. Len(all)
      BY <1>2, <1>3, <1>4, <3>2 DEF Kept
    <3> QED BY <1>2, <3>2, <3>3, <3>4
  <2> QED BY <2>1, <2>2
<1>6. ASSUME NEW i \in 1 .. Len(more) - 1 PROVE more[i] # more[i + 1]
  <2>1. CASE i = Len(all)
    <3>1. Len(list) # 0
      BY <1>3, <2>1, HalfIsPart DEF Kept
    <3>2. list # <<>> /\ list[Len(list)] = all[Len(all)]
      BY <1>3, <3>1 DEF Kept
    <3> QED BY <1>2, <1>3, <2>1, <3>2
  <2>2. CASE i # Len(all)
    <3>1. i \in 1 .. Len(all) - 1 /\ i \in 1 .. Len(all) /\ i + 1 \in 1 .. Len(all)
      BY <1>2, <1>3, <2>2
    <3> QED BY <1>2, <3>1 DEF Kept
  <2> QED BY <2>1, <2>2
<1> QED BY <1>4, <1>5, <1>6 DEF Kept, new, more

-----------------------------------------------------------------------------
(* The program.                                                             *)

\* The log, with a line that is in the list and not yet printed.
LogInv == L!AllPrinted \in Seq(Lines) /\ Kept(logs, L!AllPrinted)

\* The inductive invariant.
IInv == LifeInv /\ LogInv

\* Kept says of the program's list what LogIsKept says.
LEMMA KeptIsLogIsKept == Kept(logs, L!AllPrinted) <=> LogIsKept
BY DEF Kept, LogIsKept, L!IsEndOfPrinted, L!IsBounded, L!IsRecent, L!NoRepetition, Max, Half

\* Before the first line of main().
LEMMA InitInv == ProgramInit => IInv
<1> SUFFICES ASSUME ProgramInit PROVE IInv
  OBVIOUS
<1>1. logs = <<>> /\ printed = <<>> /\ mutex = NoThread /\ L!AllPrinted = <<>>
  BY DEF ProgramInit, L!Init, L!AllPrinted
<1>2. LogInv
  BY <1>1, HalfIsPart DEF LogInv, Kept
<1>3. TypeOK
  <2>1. uiQueue \in Seq(connections)
    BY EmptySeq DEF ProgramInit, Init
  <2>2. sessions \in 0 .. MaxSessions
    BY StartupAssumption DEF ProgramInit, Init
  <2> QED BY <2>1, <2>2 DEF ProgramInit, Init, TypeOK, Signals
<1>4. ProgramTypeOK
  <2>1. logs \in Seq(Lines) /\ printed \in Seq(Lines)
    BY <1>1, EmptySeq
  <2>2. callback = "file"
    BY DEF ProgramInit, L!Init
  <2> QED BY <1>1, <1>3, <2>1, <2>2, ProgramAssumption DEF ProgramInit, ProgramTypeOK
<1>5. MainLife
  BY <1>1, ProgramAssumption DEF ProgramInit, Init, MainLife, ServerLife
<1> QED BY <1>2, <1>4, <1>5 DEF IInv, LifeInv

\* A step outside the log leaves the history as it is.
LEMMA LogStays ==
  ASSUME LogInv, UNCHANGED <<logs, mutex, printed>>
  PROVE  LogInv'
BY DEF LogInv, L!AllPrinted, Kept, L!Last

\* logv up to the callback.
LEMMA LoggingInv ==
  ASSUME IInv, NEW t \in Threads, logv(t)
  PROVE  IInv'
<1>1. PICK line \in Lines : L!logv(t, line)
  BY DEF logv
<1>2. /\ mutex = NoThread /\ mutex' = t /\ t # NoThread
      /\ logs' = L!Add(logs, line)
      /\ UNCHANGED <<startupVars, phase, service, file, callback, printed>>
  BY <1>1, ProgramAssumption DEF L!logv, logv, Threads
<1>3. logs \in Seq(Lines) /\ printed \in Seq(Lines)
  BY DEF IInv, LifeInv, ProgramTypeOK
<1>4. logs' \in Seq(Lines) /\ logs' # <<>> /\ logs'[Len(logs')] = line
  BY <1>1, <1>2, <1>3, AddEndsWith
<1>5. L!AllPrinted = printed /\ L!AllPrinted' = Append(printed, line)
  BY <1>2, <1>4 DEF L!AllPrinted, L!Last
<1>6. LogInv'
  <2>1. logs # <<>> => logs[Len(logs)] # line
    BY <1>1 DEF L!logv, L!Last
  <2>2. Kept(logs, printed)
    BY <1>5 DEF IInv, LogInv
  <2>3. Kept(logs', Append(printed, line))
    BY <1>1, <1>2, <1>3, <2>1, <2>2, KeptGrows
  <2> QED BY <1>1, <1>3, <1>5, <2>3, AppendProperties DEF LogInv
<1>7. TypeOK'
  BY <1>2 DEF IInv, LifeInv, ProgramTypeOK, TypeOK, startupVars, vars
<1>8. ProgramTypeOK'
  <2>1. /\ t = "server" => server \notin {"new", "finished"}
        /\ t = "service" => service
    BY DEF logv, Logging
  <2> QED BY <1>2, <1>3, <1>4, <1>7, <2>1
        DEF IInv, LifeInv, ProgramTypeOK, startupVars, vars, Threads
<1>9. MainLife'
  <2>1. t = "main" => phase # "ended"
    BY DEF logv, Logging
  <2> QED BY <1>2, <2>1 DEF IInv, LifeInv, MainLife, ServerLife, startupVars, vars
<1> QED BY <1>6, <1>8, <1>9 DEF IInv, LifeInv

\* The callback's return.
LEMMA PrintedInv ==
  ASSUME IInv, NEW t \in Threads, Printed(t)
  PROVE  IInv'
<1>1. /\ mutex = t /\ mutex' = NoThread /\ t # NoThread
      /\ printed' = Append(printed, logs[Len(logs)])
      /\ UNCHANGED <<startupVars, phase, service, file, callback, logs>>
  BY ProgramAssumption DEF Printed, L!Printed, L!Last, Threads
<1>2. logs \in Seq(Lines) /\ logs # <<>> /\ printed \in Seq(Lines)
  BY <1>1 DEF IInv, LifeInv, ProgramTypeOK
<1>3. L!AllPrinted = Append(printed, logs[Len(logs)]) /\ L!AllPrinted' = printed'
  BY <1>1 DEF L!AllPrinted, L!Last
<1>4. LogInv'
  BY <1>1, <1>3 DEF IInv, LogInv, Kept
<1>5. printed' \in Seq(Lines)
  BY <1>1, <1>3 DEF IInv, LogInv
<1>6. TypeOK'
  BY <1>1 DEF IInv, LifeInv, ProgramTypeOK, TypeOK, startupVars, vars
<1>7. ProgramTypeOK'
  BY <1>1, <1>2, <1>5, <1>6, ProgramAssumption DEF IInv, LifeInv, ProgramTypeOK, startupVars, vars
<1>8. MainLife'
  BY <1>1, ProgramAssumption DEF IInv, LifeInv, MainLife, ServerLife, startupVars, vars
<1> QED BY <1>4, <1>7, <1>8 DEF IInv, LifeInv

\* Each step of main(), and of the server thread beside it.
LEMMA MainInv ==
  ASSUME IInv, MainThread
  PROVE  IInv'
<1>1. LifeInv'
  <2> USE DEF IInv, LifeInv, ProgramTypeOK, MainLife, Phase
  <2>1. CASE SetCallback
    <3>1. UNCHANGED startupVars => (TypeOK <=> TypeOK') /\ (ServerLife <=> ServerLife')
      BY DEF startupVars, vars, TypeOK, ServerLife
    <3> QED BY <2>1, <3>1
          DEF SetCallback, L!SetCallback, logVars, startupVars, vars
  <2>2. CASE Run
    <3>1. TypeOK' /\ ServerLife'
      BY <2>2, StartupStep DEF Run
    <3>2. ProgramTypeOK'
      <4>1. mutex = "server" => server' \notin {"new", "finished"}
        BY <2>2 DEF Run, TypeOK, MainSteps, Main, StartThread, GetServer, ConnectWindows, HandleSignal,
           stopServer, TearDown, CloseWindow, serverVars
      <4> QED BY <2>2, <3>1, <4>1 DEF Run, logVars
    <3>3. MainLife'
      BY <2>2, <3>1 DEF Run, logVars
    <3> QED BY <3>2, <3>3
  <2>3. CASE Register \/ Waited \/ UnRegister \/ Return
    <3>1. UNCHANGED <<startupVars, logVars>>
      BY <2>3 DEF Register, Waited, UnRegister, Return
    <3>2. TypeOK' /\ ServerLife'
      BY <3>1 DEF startupVars, vars, TypeOK, ServerLife
    <3> USE <3>1, <3>2 DEF startupVars, vars, logVars
    <3>3. CASE Register
      BY <3>3 DEF Register
    <3>4. CASE Waited
      BY <3>4 DEF Waited
    <3>5. CASE UnRegister
      BY <3>5 DEF UnRegister
    <3>6. CASE Return
      BY <3>6 DEF Return
    <3> QED BY <2>3, <3>3, <3>4, <3>5, <3>6
  <2> QED BY <2>1, <2>2, <2>3 DEF MainThread
<1>2. UNCHANGED <<logs, mutex, printed>>
  BY DEF MainThread, SetCallback, Register, Run, Waited, UnRegister, Return, logVars,
     L!SetCallback
<1> QED BY <1>1, <1>2, LogStays DEF IInv

\* Order of start and end and the log hold together, in every step of
\* every thread.
THEOREM Invariance == ProgramSpec => []IInv
<1>1. ProgramInit => IInv
  BY InitInv
<1>2. IInv /\ [ProgramNext]_allVars => IInv'
  <2> SUFFICES ASSUME IInv, [ProgramNext]_allVars PROVE IInv'
    OBVIOUS
  <2>1. CASE UNCHANGED allVars
    <3>1. LogInv'
      BY <2>1, LogStays DEF allVars, logVars, IInv
    <3>2. LifeInv'
      BY <2>1 DEF allVars, logVars, startupVars, vars, IInv, LifeInv, ProgramTypeOK, TypeOK,
         MainLife, ServerLife
    <3> QED BY <3>1, <3>2 DEF IInv
  <2>2. CASE ProgramNext
    BY <2>2, MainInv, LoggingInv, PrintedInv DEF ProgramNext
  <2> QED BY <2>1, <2>2
<1> QED BY <1>1, <1>2, PTL DEF ProgramSpec

\* The types of main(), its threads and the log; a thread inside the log is
\* one that runs.
THEOREM TypeCorrect == ProgramSpec => []ProgramTypeOK
<1>1. IInv => ProgramTypeOK
  BY DEF IInv, LifeInv
<1> QED BY <1>1, Invariance, PTL

\* However many threads log while main() ends, none that is inside the log has
\* its stream destroyed under it.
THEOREM CallbackStaysUsable == ProgramSpec => []CallbackIsUsable
<1>1. IInv => CallbackIsUsable
  <2> SUFFICES ASSUME IInv, mutex # NoThread PROVE file = "open"
    BY DEF CallbackIsUsable
  <2> QED BY DEF IInv, LifeInv, ProgramTypeOK, MainLife, ServerLife
<1> QED BY <1>1, Invariance, PTL

\* The log is bounded, recent and the end of what was printed, for every
\* maximum from 2 on.
THEOREM LogStaysKept == ProgramSpec => []LogIsKept
<1>1. IInv => LogIsKept
  BY KeptIsLogIsKept DEF IInv, LogInv
<1> QED BY <1>1, Invariance, PTL
=============================================================================
