SPECIFICATION Spec
CONSTANTS
  e1 = e1
  e2 = e2
  Threads = {t1, t2}
  Events = {e1, e2}
  Null = Null
  WaitSets <- MCWaitSets
  InitCapacity = 0
  MaxCapacity = 2
  MaxPending = 1
INVARIANT
  NoListenersMeansEmptyList
CHECK_DEADLOCK FALSE
