SPECIFICATION Spec
CONSTANTS
  DeviceSizes = {0, 7, 16, 25, 33, 341, 342, 700, 1024, 1367, 2100}
  UintRange = 4096
  ByteRange = 256
  MaxFlushes = 4
  MaxIoBlocks = 1
INVARIANTS
  TypeOK
  DivisionIsSound
  RequestsStayOnDevice
  ParityLandsAhead
