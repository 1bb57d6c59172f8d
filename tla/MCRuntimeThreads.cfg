CONSTANTS
  Buffers = {b1}
  Textures = {}
  BindlessArrays = {}
  DefaultHandles = {d1, d2}
  NonDefaultStreams = {s1}
  DefaultStream = s0
  CmdBufs = {c1, c2}
  Threads = {t1, t2}
  MaxCmds = 2
  MaxBatch = 1
  ElemSize = 4
  Counts <- MCCounts
  UsizeBits = 4
  Build = "debug"
  FormatSupported = TRUE
  CanFail = TRUE
  NoHandle = NoHandle
SPECIFICATION Spec
INVARIANTS
  SubmitAndSyncWaits
  LiveHandleHasLiveStream
  ReleasedExactlyWhenUnreferenced
CHECK_DEADLOCK FALSE
