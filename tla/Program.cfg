SPECIFICATION ProgramSpec
CONSTANTS
  MaxSessions = 2
  Lines = {a, b}
  MaxMaintainLogNum = 6
  NoThread = NoThread
  MaxLines = 11
INVARIANTS ProgramTypeOK CallbackIsUsable LogIsKept
PROPERTIES EndIsShown CloseEndsProgram
\* The program ends; or, when the quit was lost, waits.
CHECK_DEADLOCK FALSE
