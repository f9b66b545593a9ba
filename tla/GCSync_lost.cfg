SPECIFICATION FairSpec
CONSTANTS
  gc = gc
  m1 = m1
  m2 = m2
  m3 = m3
  Threads = {gc, m1, m2}
  Writers = {gc}
  CommandSize = 0
  PipeCapacity = 2
  MaxLive = 5
  NoThread = NoThread
PROPERTIES StopCompletes
CHECK_DEADLOCK FALSE
