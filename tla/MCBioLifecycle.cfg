SPECIFICATION Spec
CONSTANTS
  w1 = w1
  w2 = w2
  r1 = r1
  s1 = s1
  s2 = s2
  Write = {w1, w2}
  Read = {r1}
  Sector = {s1, s2}
  SectorOf <- Different
  DeviceErrors = TRUE
  NoBio = NoBio
CHECK_DEADLOCK FALSE
INVARIANTS
  TypeOK
  IssuedWritesAreInChain
  ReferencesBalance
  OnlySecondEndTouchesFreed
  PagesComeBack
  AnswersAgree
PROPERTIES
  ReadsAreAnswered
  WritesAreAnswered
