CONSTANTS
  Mutators = {m1, m2}
  Slots = {s1, s2}
  Fields = {f1}
  SlotsOf <- TwoAndOne
  m1 = m1
  m2 = m2
  s1 = s1
  s2 = s2
  Null = Null
  NrPages = 2
  PageObjs = 1
  MaxTries = 1
  MaxCycles = 1
SPECIFICATION Spec
INVARIANTS TypeOK TriColour LiveExactly NoDangling MarkUniform RecordsSound
PROPERTIES ImplementsHeap WaitEnds CycleSucceeds
CHECK_DEADLOCK FALSE
