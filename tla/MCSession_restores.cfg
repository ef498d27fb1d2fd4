SPECIFICATION SessionSpec
CONSTANTS
  BlockBytes = 1
  PtrBytes = 1
  Byte = {0}
  ZeroByte = 0
  XorByte <- XorBit
  Beyond = {m1}
  DataSector = {0, 1}
  ParityOffset = 5
  MapEntries = 6
  SectorsPerBlock = 3
  MetaStart = 10
  SectorBlocks = 2
  Default = Default
  Unset = Unset
  NoRequest = NoRequest
  MaxWrites = 6
  MaxFailures = 0
  ByteRange = 16
  MaxSessions = 2
CHECK_DEADLOCK FALSE
PROPERTIES
  ReopenHasEveryBlock
