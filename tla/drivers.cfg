SPECIFICATION IoSpec
CONSTANTS
  e1 = e1
  e2 = e2
  Threads = {t1, t2}
  Events = {e1, e2}
  Null = Null
  WaitSets <- MCWaitSets
  InitCapacity = 2
  MaxCapacity = 2
  MaxPending = 1
  Io = Io
  ip = ip
  r1 = r1
  r2 = r2
  r3 = r3
INVARIANTS
  ListenersMatchWaits
  
  
  
  RingsAreQueues
  
PROPERTIES
  ImplementsEvent
  UnorderedView
CHECK_DEADLOCK FALSE
