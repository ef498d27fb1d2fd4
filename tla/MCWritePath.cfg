SPECIFICATION Spec
CONSTANTS
  BlockBytes = 1
  PtrBytes = 1
  Byte = {0, 1}
  ZeroByte = 0
  XorByte <- XorBit
  Beyond = {m1}
  DataSector = {0, 1}
  ParityOffset = 1
  MapEntries = 2
  SectorsPerBlock = 3
  MetaStart = 10
  SectorBlocks = 30
  Default = Default
  Unset = Unset
  NoRequest = NoRequest
  MaxWrites = 6
  MaxFailures = 2
CHECK_DEADLOCK FALSE
INVARIANTS
  TypeOK
  LastBlockIsChainTail
  SurvivingBlocksAreRecoverable
  SectorLogMatchesChain
  ChecksumLogMatchesChain
  MapTracksChain
  LogsDriftOnlyByFailures
  OopsAtSecondChecksumFlush
  ChecksumsNeedHalfTheBlocks
PROPERTIES
  FlushedBlocksAreFinal
  ImplementsLog
