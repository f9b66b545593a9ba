CONSTANTS
  m1 = m1
  m2 = m2
  Mutators = {m1, m2}
  NrPages = 3
  None = None
SPECIFICATION FairSpec
INVARIANTS IInv PlacedOnce ObjectsBeforeZeros ReturnsComplete SleeperKnown
PROPERTY FinishReturns
CHECK_DEADLOCK FALSE
