SPECIFICATION FairSpec
CONSTANTS
  gc = gc
  m1 = m1
  m2 = m2
  m3 = m3
  Threads = {gc, m1, m2, m3}
  Writers = {gc, m1}
  CommandSize = 1
  PipeCapacity = 2
  MaxLive = 6
  NoThread = NoThread
INVARIANTS IInv Exclusion NothingPending
PROPERTIES StopCompletes ParkedWakes ImplementsSTW
CHECK_DEADLOCK TRUE
