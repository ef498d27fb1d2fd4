SPECIFICATION Spec
CONSTANTS
  BlockBytes = 2
  PtrBytes = 1
  Byte = {0, 1}
  ZeroByte = 0
  XorByte <- XorBit
  Beyond = {m1}
  DataSector = {0}
  ParityOffset = 1
  MapEntries = 2
  SectorsPerBlock = 2
  MetaStart = 10
  SectorBlocks = 9
  Default = Default
  Unset = Unset
  NoRequest = NoRequest
  MaxWrites = 3
  MaxFailures = 1
CHECK_DEADLOCK FALSE
INVARIANTS
  ParityBioHoldsParity
