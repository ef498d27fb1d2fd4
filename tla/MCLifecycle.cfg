SPECIFICATION Spec
CONSTANTS
  NoCommand = NoCommand
  MaxCommands = 4
CHECK_DEADLOCK FALSE
INVARIANTS
  TypeOK
  TargetNeedsPools
  NothingIsHeldWithoutDevice
PROPERTIES
  ReturnTellsDevice
  CommandsReturn
