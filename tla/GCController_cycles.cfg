SPECIFICATION FairSpec
CONSTANTS
  m1 = m1
  m2 = m2
  m3 = m3
  gc = gc
  owner = owner
  Mutators = {m1, m2, m3}
  MaxCycles = 3
INVARIANTS IInv NoLostRequest NoMissedWakeup ExclusiveHoldsOffCycle
PROPERTIES RequestsServed ShutdownEndsCycle
CHECK_DEADLOCK FALSE
