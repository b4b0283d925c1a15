SPECIFICATION Spec
CONSTANTS
  MaxStarts = 2
  MaxStops = 2
INVARIANTS IInv NoSecondAnswer NothingForgotten
PROPERTIES FailureCleansUp StartIsAnswered
CHECK_DEADLOCK FALSE
