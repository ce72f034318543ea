SPECIFICATION ProcsSpec
CONSTANTS
  console = console
  Junk = Junk
  Procs = {init, child}
  InitProc = init
  Descs = {console, d1}
  NumStdio = 1
  Stdio <- MCStdio
  Null = Null
  NoDesc = NoDesc
  MaxFds = 3
  Mins = {0, 2}
VIEW WithoutNum
INVARIANTS
  NoFreeBelowHint
  FlagsOnlyOnUsed
  FamilyIsTree
  NoOversleep
  
  
  FileIsSequence
PROPERTIES
  TakesLowest
  DeathAnswersWait
CHECK_DEADLOCK FALSE
