-------------------------------- MODULE Log ---------------------------------
(***************************************************************************)
(* The log all threads share (Utilities/Log.cpp): the lines it keeps, and   *)
(* the callback it hands each new line to.                                  *)
(*                                                                         *)
(* logv holds the mutex from its first look at the list until the callback  *)
(* has returned; both ends of that section are steps.  A line is its        *)
(* message; time, thread and type are left out, they decide nothing.        *)
(***************************************************************************)
EXTENDS Naturals, Sequences, SequencesExt

CONSTANTS
  Lines,             \* messages
  MaxMaintainLogNum,  \* with 1, half of it is nothing, and the list only grows
  NoThread           \* the mutex is free

VARIABLES
  logs,      \* the lines kept
  mutex,     \* the thread that holds it
  callback,  \* with its userdata: "file" (ANLogFileLogCallback) or one of the program's
  printed    \* history: the lines handed to the callback

vars == <<logs, mutex, callback, printed>>

Init ==
  /\ logs = <<>>
  /\ mutex = NoThread
  /\ callback = "file"
  /\ printed = <<>>

\* Fault: the newest lines are erased.
EraseNewest(kept, line) ==
  Append(IF Len(kept) > MaxMaintainLogNum
           THEN SubSeq(kept, 1, Len(kept) - (MaxMaintainLogNum \div 2)) ELSE kept, line)

\* __log: the older half goes when there are too many.
Add(kept, line) ==
  Append(IF Len(kept) > MaxMaintainLogNum
           THEN SubSeq(kept, (MaxMaintainLogNum \div 2) + 1, Len(kept)) ELSE kept, line)

\* A line that repeats the last one is skipped.
logv(t, line) ==
  /\ mutex = NoThread
  /\ logs # <<>> => Last(logs) # line
  /\ mutex' = t
  /\ logs' = Add(logs, line)
  /\ UNCHANGED <<callback, printed>>

\* The callback has the line.
Printed(t) ==
  /\ mutex = t
  /\ printed' = Append(printed, Last(logs))
  /\ mutex' = NoThread
  /\ UNCHANGED <<logs, callback>>

\* setLogCallback, of which main() is the only caller, before any other thread.
SetCallback(aCallback) == callback' = aCallback /\ UNCHANGED <<logs, mutex, printed>>

-----------------------------------------------------------------------------
\* With the line under way.
AllPrinted == IF mutex = NoThread THEN printed ELSE Append(printed, Last(logs))

\* The list is the end of what was printed: nothing missing, doubled or out of
\* order, and never longer than one more than the maximum.
IsEndOfPrinted ==
  /\ Len(logs) <= Len(AllPrinted)
  /\ \A i \in 1 .. Len(logs) : logs[i] = AllPrinted[i + (Len(AllPrinted) - Len(logs))]

IsBounded == Len(logs) <= MaxMaintainLogNum + 1

\* Whatever was erased, the latest lines are there: more than half of the
\* maximum, or all there ever were.
IsRecent ==
  Len(logs) < Len(AllPrinted) => Len(logs) + (MaxMaintainLogNum \div 2) >= MaxMaintainLogNum + 2

NoRepetition == \A i \in 1 .. Len(AllPrinted) - 1 : AllPrinted[i] # AllPrinted[i + 1]
=============================================================================
