CONSTANTS
  NrPages = 4
  PageSize = 4
  SmallMax = 3
  MediumMax = 6
  MediumPages = 2
  None = None
  Contexts = {c1, c2}
  Sizes = {1, 2, 3, 5, 6}
  MaxObjects = 4
SPECIFICATION Spec
INVARIANTS TypeOK ObjectsPlaced PagesResolve MapsSources EvacuatesOneKind
SYMMETRY Symmetry
CHECK_DEADLOCK FALSE
