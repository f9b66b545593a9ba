CONSTANTS
  Mutators = {m1, m2}
  Slots = {s1}
  Fields = {f1}
  SlotsOf <- AllSlots
  m1 = m1
  m2 = m2
  s1 = s1
  s2 = s2
  Null = Null
  NrPages = 1
  PageObjs = 1
  MaxTries = 1
  MaxCycles = 1
SPECIFICATION Spec
INVARIANT NoStalePage
CHECK_DEADLOCK FALSE
