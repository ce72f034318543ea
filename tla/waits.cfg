SPECIFICATION WaitsSpec
CONSTANTS
  ti = ti
  ta = ta
  tb = tb
  Threads <- MCThreads
  Idle = Idle
  ListHead = ListHead
  Null = Null
  Procs = {"init", "A"}
  InitProc = "init"
  ProcOf <- OneProcOf
  MainOf <- OneMainOf
  Sigs = {"TERM", "USR"}
  SigNum <- MCSigNum
  NoCldStop = {}
  Exceptions = FALSE
  ContOnce = TRUE
INVARIANTS
  SchedulerInv
  GoesOnWhereItStopped
  SlotsFound
  NobodySleepsOnReady
  ClientsAgree
  
CHECK_DEADLOCK FALSE
