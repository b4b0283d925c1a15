SPECIFICATION MirrorSpec
CONSTANTS
  Sockets = {s1}
  MaxBytes = 1
  BufSizes = {1}
  MaxPictures = 1
  NoSocket = NoSocket
PROPERTY CloseReturns
CHECK_DEADLOCK FALSE
