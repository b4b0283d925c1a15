SPECIFICATION Spec
CONSTANTS
  Controls = {c1}
  Datas = {d1}
  Null = Null
  u1 = u1
  u2 = u2
  f1 = f1
  name = name
  Uploads = {}
  Downloads = {f1}
  FileName <- OneName
  FileSize <- Sizes
  BLOCK_SIZE = 2
  MaxLost <- Lost1
INVARIANT BlockIsWritten
CHECK_DEADLOCK FALSE
