CONSTANTS
  MaxDepth = 2
  StaticTypes <- WithNested
  Registered <- AtRuntime
  MaxIds = 1
  NrSlots = 2
  Space = 64
  Lens = {0}
  Extras = {0}
  MaxCycles = 1
  Null = Null
SPECIFICATION Spec
INVARIANT VisitsPointers
CHECK_DEADLOCK FALSE
