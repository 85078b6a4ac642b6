CONSTANTS
  Vars = {p, q}
  Strings <- LongStrings
  MemStart = 40
  MemTop = 58
  MaxLen = 4
  Spare = 1
  Gap = 5
  RecSize = 2
  Clones <- NoClones
  DimSizes = {8}
  MaxParams = 1
  MaxTemps = 1
  MaxStack = 1
  CaseConv = FALSE
  Unset = Unset
SPECIFICATION Spec
PROPERTY LetStoresValue
CHECK_DEADLOCK FALSE
