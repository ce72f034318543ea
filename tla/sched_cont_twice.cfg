SPECIFICATION Spec
CONSTANTS
  ti = ti
  ta = ta
  tb = tb
  Threads <- MCThreads
  Idle = Idle
  ListHead = ListHead
  Null = Null
  Procs = {"init", "A", "B"}
  InitProc = "init"
  ProcOf <- TwoProcOf
  MainOf <- TwoMainOf
  Sigs = {"STOP", "CONT"}
  SigNum <- MCSigNum
  NoCldStop = {}
  Exceptions = FALSE
  ContOnce = FALSE
INVARIANT
  SwitchesToRunnable
