CONSTANTS
  NrPages = 4
  PageSize = 4
  SmallMax = 3
  MediumMax = 6
  MediumPages = 2
  None = None
  Contexts = {c1}
  Sizes = {1, 2, 3, 5, 6}
  MaxObjects = 4
SPECIFICATION Spec
INVARIANT FindsDestinations
CHECK_DEADLOCK FALSE
