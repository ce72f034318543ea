SPECIFICATION Spec
CONSTANTS
  p1 = p1
  p2 = p2
  p3 = p3
  p4 = p4
  Null = Null
  NumPages = 3
  MmapBase = 0
  Frames = {p1, p2}
  MemfdFrames <- OneMemfd
  Prots = {"r", "w"}
  Offsets = {0}
  Types = {"DIRECT_VIRTUAL"}
  Fixed = FALSE
INVARIANT NoFreePageInUse
