CONSTANTS
  Top = 128
  Low = 24
  High = 76
  Names <- MCNames
  Arrays <- MCArrays
  Tokens <- MCTokens
  HeadAt <- MCHeadAt
  NameAt <- MCNameAt
  Values <- MCValues
  Subscripts <- MCSubscripts
  Sizes <- MCSizes
  NoName = "none"
  MaxStatements = 4
  CallVariables <- MCVariables
  CallFast <- MCCallFast
  Texts <- MCTexts
  Tables <- MCTables
  CallValues <- MCCallValues
  CallZero = 0
  Procedures <- MCProcedures
  Formals <- MCFormals
  Arguments <- MCArguments
  Constant <- MCConstant
  MaxStack = 5
  PrmBuffer = 128
  PrmColumn = 16
  BasStack = 192
  CpuStack = 1022
  FrameSizes <- MCFrameSizes
  Nestings <- MCNestings
  NoBase = NoBase
  MaxParameters = 8
  MaxFrames = 4
  MaxLevels = 4
  Bad = Bad
  Text = Text
SPECIFICATION MCSpec
INVARIANTS StoreSound FramesKept ParametersArrive
PROPERTIES ImplementsVariableStore ImplementsScopes
CHECK_DEADLOCK FALSE
