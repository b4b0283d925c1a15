SPECIFICATION Spec
CONSTANTS
  Sizes <- ShortMessages
  HeaderSize = 3
  Word = 8
  MaxPackages <- ShortMax
INVARIANTS IInv ReceivedIsPrefix AllIsEmitted
PROPERTY SlotEnds
CHECK_DEADLOCK FALSE
