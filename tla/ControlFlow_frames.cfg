CONSTANTS
  Programs <- OneOfEach
  Edits <- OneOfEach
  Commands <- Immediate
  MaxStack = 4
  MaxLocals = 1
  MaxCpu = 1
SPECIFICATION Spec
INVARIANTS TypeOK LineMatchesCode FramesSound
PROPERTY ErrorsNameTheirLine
CHECK_DEADLOCK FALSE
