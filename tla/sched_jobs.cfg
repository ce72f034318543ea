SPECIFICATION FairSpec
CONSTANTS
  ti = ti
  ta = ta
  tb = tb
  Threads <- PairThreads
  Idle = Idle
  ListHead = ListHead
  Null = Null
  Procs = {"init", "A"}
  InitProc = "init"
  ProcOf <- PairProcOf
  MainOf <- OneMainOf
  Sigs = {"STOP", "CONT", "USR"}
  SigNum <- MCSigNum
  NoCldStop = {}
  Exceptions = TRUE
  ContOnce = TRUE
INVARIANTS
  RunListInv
  SwitchesToRunnable

  
