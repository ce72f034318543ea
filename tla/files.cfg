SPECIFICATION FilesSpec
CONSTANTS
  Threads = {t1, t2}
  pipe_event = pipe_event
  Capacity = 1
  Counts = {1, 2}
  MaxWritten = 2
  size = 4
  Width = 3
  Values = {1, 2}
  Inputs <- RingInputs
  MaxCount = 5
  eventfd_event = eventfd_event
  COUNTER_MAX = 2
  Initvals = {0, 2}
  TtyCapacity = 2
  TtyCounts = {0, 1, 2}
  TtyPending = 1
  MaxPending = 1
  srv = srv
  Clients = {client}
  Connected = {conn}
  StreamCapacity = 1
  StreamCounts = {1}
  Socks = {"a", "b", "named"}
  Names = {"named"}
  DgramCap = 1
  Null = Null
  NoSock = NoSock
INVARIANTS
  NoLostWakeup
  NobodySleepsInVain
  
PROPERTIES
  IsFifo
  HangupEndsCalls
CHECK_DEADLOCK FALSE
