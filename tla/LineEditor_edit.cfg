CONSTANTS
  Numbers = {10, 20, 30}
  Bodies <- MixedBodies
  ProgramStart = 512
  HighAddress = 600
  MemLast = 600
  Reserve = 8
SPECIFICATION FairSpec
INVARIANTS ProgramSound LowPastProgram
PROPERTIES ImplementsProgramStore EditEnds
CHECK_DEADLOCK FALSE
