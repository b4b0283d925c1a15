SPECIFICATION Spec
CONSTANT MaxPictures = 8
INVARIANTS IInv
PROPERTIES EveryPictureOvertaken IsLatestFrame
CHECK_DEADLOCK FALSE
