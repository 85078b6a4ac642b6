CONSTANTS
  Keys <- DebugKeys
  Addrs <- ProgramAddrs
  Code <- Program
  CyclesPerFrame = 2
  AutoStart = FALSE
  MaxCalls = 2
SPECIFICATION MCSpec
INVARIANTS DisplayFollows NoStaleStepBreak
PROPERTY FrameReturns
CHECK_DEADLOCK FALSE
