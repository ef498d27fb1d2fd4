SPECIFICATION StartupSpec
CONSTANTS
  BlockBytes = 2
  PtrBytes = 1
  Byte = {0, 1}
  ZeroByte = 0
  XorByte <- XorBit
  NextByte <- NextBit
  Beyond = {m1}
  Sector <- SmallSectors
  Lists <- AnyLists
  InitialMarks <- AnyMarks
  Contents <- SomeContents
  metadata_size = 1
  dev_size = 3
  MaxCorruptible = 2
CHECK_DEADLOCK FALSE
INVARIANT CorruptionIsNoticed
