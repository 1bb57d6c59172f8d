CONSTANTS
  Buffers = {b1}
  Textures = {x1}
  BindlessArrays = {}
  DefaultHandles = {d1, d2}
  NonDefaultStreams = {s1}
  DefaultStream = s0
  CmdBufs = {c1, c2}
  Threads = {t1}
  MaxCmds = 2
  MaxBatch = 2
  ElemSize = 4
  Counts <- MCCounts
  UsizeBits = 4
  Build = "debug"
  FormatSupported = TRUE
  CanFail = TRUE
  NoHandle = NoHandle
SPECIFICATION Spec
INVARIANT TypeOK
INVARIANT ReleasedExactlyWhenUnreferenced
INVARIANT LiveHandleHasLiveStream
INVARIANT SubmitAndSyncWaits
CHECK_DEADLOCK FALSE
PROPERTY DispatchOnlyToLiveStreams
