SPECIFICATION Spec
CONSTANTS
  Sockets = {s1}
  MaxBytes = 3
  BufSizes = {1, 2}
INVARIANTS BufferOwned IInv
PROPERTIES AnswerReleases IsBytePipe
CHECK_DEADLOCK FALSE
