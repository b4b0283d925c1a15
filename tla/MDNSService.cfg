SPECIFICATION Spec
CONSTANTS
  Refs = {r1, r2, r3}
  Fds = {1, 2, 3}
  NoRef = NoRef
  Uses = {"register", "discover"}
  MaxStarts = 2
INVARIANTS IInv LiveIsListed ResolveInfosMatch KeepsItsWay
PROPERTIES StopReturns
CHECK_DEADLOCK FALSE
