SPECIFICATION MirrorSpec
CONSTANTS
  Sockets = {s1, s2}
  MaxBytes = 1
  BufSizes = {2}
  MaxPictures = 2
  NoSocket = NoSocket
INVARIANT LentByTheRun
PROPERTIES HangsOnlyAsleep PicturesShown
CHECK_DEADLOCK FALSE
