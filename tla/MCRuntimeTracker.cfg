CONSTANTS
  Buffers = {b1}
  Textures = {}
  BindlessArrays = {}
  DefaultHandles = {d1}
  NonDefaultStreams = {s1}
  DefaultStream = s0
  CmdBufs = {c1}
  Threads = {t1}
  MaxCmds = 1
  MaxBatch = 1
  ElemSize = 4
  Counts <- MCCounts
  UsizeBits = 4
  Build = "debug"
  FormatSupported = TRUE
  CanFail = FALSE
  NoHandle = NoHandle
SPECIFICATION Spec
INVARIANT NoUseAfterFree
CHECK_DEADLOCK FALSE
