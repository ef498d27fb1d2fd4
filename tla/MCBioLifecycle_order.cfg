SPECIFICATION Spec
CONSTANTS
  w1 = w1
  w2 = w2
  r1 = r1
  s1 = s1
  s2 = s2
  Write = {w1, w2}
  Read = {}
  Sector = {s1}
  SectorOf <- Same
  DeviceErrors = FALSE
  NoBio = NoBio
CHECK_DEADLOCK FALSE
INVARIANTS
  DiskHasLastWrite
