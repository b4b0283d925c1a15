SPECIFICATION Spec
CONSTANTS
  Controls = {c1, c2}
  Datas = {d1}
  Null = Null
  u1 = u1
  u2 = u2
  f1 = f1
  name = name
  Uploads = {u1, u2}
  Downloads = {f1}
  FileName <- OneName
  FileSize <- Sizes
  BLOCK_SIZE = 2
  MaxLost <- Lost1
INVARIANTS IInv FilesArePrefixes OneUnderWay AcksAreTrue TroubleNeedsLoss
PROPERTIES UploadsEnd AreTransfers
CHECK_DEADLOCK FALSE
