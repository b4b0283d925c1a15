SPECIFICATION Spec
CONSTANTS
  Sizes <- LongMessages
  HeaderSize = 3
  Word = 8
  MaxPackages <- LongMax
INVARIANT ReceivedIsPrefix
CHECK_DEADLOCK FALSE
