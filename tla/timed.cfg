SPECIFICATION TimedSpec
CONSTANTS
  t2 = t2
  t3 = t3
  f = f
  g = g
  tid = tid
  page = page
  page2 = page2
  Threads = {t1, t2}
  Main = t1
  itimer = itimer
  Null = Null
  NoSock = NoSock
  Second = 2
  Durations <- OneSleep
  Intervals <- OneInterval
  Tick = 2
  UdpSocks = {"a", "b"}
  Ports = {1}
  AllocPorts = {2}
  Cap = 1
  MaxArrivals = 2
INVARIANTS
  
  TimersBelong
  
  
PROPERTY
  NanosleepEnds
CHECK_DEADLOCK FALSE
