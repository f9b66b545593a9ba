CONSTANTS
  Refs = {r1, r2, r3}
  Objects = {o1, o2, o3, o4}
  Addresses = {a1, a2, a3, a4}
  Null = Null
  OverflowChecks = TRUE
  MaxPanics = 1
  Data = {d1, d2}
  Zero = Zero
  Period = 512
  MaxData = 2
SPECIFICATION VecSpec
INVARIANTS IInv SafepointSafe NothingLeaks Contents SelfFresh
SYMMETRY Symmetry
