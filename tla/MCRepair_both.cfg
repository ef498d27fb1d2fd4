SPECIFICATION Spec
CONSTANTS
  Sector <- OddSectors
  Lists <- OddLists
  InitialMarks = {{}}
CHECK_DEADLOCK FALSE
INVARIANT DataIsRebuiltFromBothParities
