CONSTANTS
  Buffers = {b1}
  Textures = {}
  BindlessArrays = {}
  DefaultHandles = {d1}
  NonDefaultStreams = {}
  DefaultStream = s0
  CmdBufs = {c1}
  Threads = {t1}
  MaxCmds = 1
  MaxBatch = 1
  ElemSize = 4
  Counts <- MCCounts
  UsizeBits = 4
  Build = "release"
  FormatSupported = TRUE
  CanFail = FALSE
  NoHandle = NoHandle
SPECIFICATION Spec
INVARIANT BufferFitsAllocation
CHECK_DEADLOCK FALSE
