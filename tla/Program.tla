------------------------------ MODULE Program -------------------------------
(***************************************************************************)
(* main() from its first line to its return (main.cpp): the life of the     *)
(* server thread as module Startup has it, inside that of the service       *)
(* thread of MDNSService, inside that of the log's callback, which writes   *)
(* to a stream that is a local variable of main().                          *)
(*                                                                         *)
(* Three threads log.  (The decoder thread ends with its window, within     *)
(* QApplication::exec.)  A thread inside the log does nothing else.         *)
(***************************************************************************)
EXTENDS Startup

CONSTANTS
  Lines, MaxMaintainLogNum, NoThread,  \* see Log
  MaxLines                             \* bound: lines that are printed

ASSUME ProgramAssumption ==
  /\ NoThread \notin {"main", "server", "service"}
  /\ MaxMaintainLogNum \in Nat /\ MaxMaintainLogNum >= 2
  /\ MaxLines \in Nat

VARIABLES
  phase,    \* where main() is outside of what Startup models
  service,  \* the service thread runs
  file,     \* main()'s std::ofstream: "open" or "destroyed"
  logs, mutex, callback, printed  \* see Log

L == INSTANCE Log

startupVars == vars
logVars == <<logs, mutex, callback, printed>>
allVars == <<startupVars, phase, service, file, logVars>>

ProgramTypeOK ==
  /\ TypeOK
  /\ phase \in {"setCallback", "register", "run", "unRegister", "return", "ended"}
  /\ service \in BOOLEAN
  /\ file \in {"open", "destroyed"}
  /\ logs \in Seq(Lines) /\ printed \in Seq(Lines)
  /\ mutex \in {NoThread, "main", "server", "service"}
  /\ mutex = "server" => server \notin {"new", "finished"}
  /\ mutex = "service" => service
  /\ mutex # NoThread => logs # <<>>
  /\ callback \in {"file", "main"}

ProgramInit ==
  /\ Init
  /\ L!Init
  /\ phase = "setCallback"
  /\ service = FALSE
  /\ file = "open"

-----------------------------------------------------------------------------
Phase(from, to) == phase = from /\ phase' = to /\ mutex # "main"

\* The callback is the program's own unless a debugger is present.
SetCallback ==
  /\ Phase("setCallback", "register")
  /\ L!SetCallback("main") \/ UNCHANGED logVars
  /\ UNCHANGED <<startupVars, service, file>>

\* The service thread starts if the responder takes the registration.
Register ==
  /\ Phase("register", "run")
  /\ service' \in BOOLEAN
  /\ UNCHANGED <<startupVars, file, logVars>>

\* Module Startup, by whichever thread.
Run ==
  /\ phase = "run"
  /\ \/ mutex # "main" /\ (MainSteps \/ CloseWindow)
     \/ mutex # "server" /\ (ServerSteps \/ SessionBegins \/ SessionEnds)
  /\ UNCHANGED <<phase, service, file, logVars>>

\* wait() has returned.
Waited ==
  /\ main = "done"
  /\ Phase("run", "unRegister")
  /\ UNCHANGED <<startupVars, service, file, logVars>>

\* Fault: the service thread is not joined.
UnRegisterNoJoin ==
  /\ Phase("unRegister", "return")
  /\ UNCHANGED <<startupVars, service, file, logVars>>

\* MDNSService::UnRegister returns when the service thread is joined, which
\* first leaves the log.
UnRegister ==
  /\ Phase("unRegister", "return")
  /\ mutex # "service"
  /\ service' = FALSE
  /\ UNCHANGED <<startupVars, file, logVars>>

\* The locals of main() are destroyed, the stream last.
Return ==
  /\ Phase("return", "ended")
  /\ file' = "destroyed"
  /\ UNCHANGED <<startupVars, service, logVars>>

Logging(t) ==
  CASE t = "main" -> phase # "ended"
    [] t = "server" -> server \notin {"new", "finished"}
    [] t = "service" -> service

logv(t) ==
  /\ Logging(t)
  /\ Len(printed) < MaxLines
  /\ \E line \in Lines : L!logv(t, line)
  /\ UNCHANGED <<startupVars, phase, service, file>>

Printed(t) ==
  /\ L!Printed(t)
  /\ UNCHANGED <<startupVars, phase, service, file>>

-----------------------------------------------------------------------------
MainThread == SetCallback \/ Register \/ Run \/ Waited \/ UnRegister \/ Return

Threads == {"main", "server", "service"}

ProgramNext == MainThread \/ \E t \in Threads : logv(t) \/ Printed(t)

\* As in Startup; and a callback returns.
ProgramSpec ==
  /\ ProgramInit /\ [][ProgramNext]_allVars
  /\ WF_allVars(SetCallback \/ Register \/ Waited \/ UnRegister \/ Return)
  /\ WF_allVars(Run /\ MainSteps) /\ WF_allVars(Run /\ ServerSteps)
  /\ \A t \in Threads : WF_allVars(Printed(t))

-----------------------------------------------------------------------------
(* Properties.  EndIsShown of Startup is one of them.                       *)

\* Whoever is inside the log finds the stream that the program's own callback
\* writes to: main() destroys it without resetting the callback.
CallbackIsUsable == mutex # NoThread /\ callback = "main" => file = "open"

\* The list of the log stays bounded and is always the end of what was printed,
\* with more than half of the maximum in it once anything was erased; and no
\* line is printed twice in a row, whichever threads it comes from.
LogIsKept == L!IsEndOfPrinted /\ L!IsBounded /\ L!IsRecent /\ L!NoRepetition

\* Once the server's loop turns, closing the window ends the program, logging
\* threads or not.
CloseEndsProgram == main = "stop" /\ server = "loop" ~> phase = "ended"

=============================================================================
