CONSTANTS
  MaxDepth = 2
  StaticTypes <- Ordinary
  Registered <- AtRuntime
  MaxIds = 1
  NrSlots = 2
  Space = 72
  Lens = {0, 1, 2}
  Extras = {0, 4}
  MaxCycles = 2
  Null = Null
SPECIFICATION Spec
INVARIANTS TypeOK OnlyExtraFails
PROPERTY ImplementsValues
CHECK_DEADLOCK FALSE
