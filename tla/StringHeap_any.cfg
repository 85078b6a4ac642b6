CONSTANTS
  Vars = {p, q}
  Strings <- AnyStrings
  MemStart = 40
  MemTop = 56
  MaxLen = 4
  Spare = 2
  Gap = 5
  RecSize = 2
  Clones <- NoClones
  DimSizes = {}
  MaxParams = 2
  MaxTemps = 1
  MaxStack = 1
  CaseConv = TRUE
  Unset = Unset
SPECIFICATION Spec
SYMMETRY VarSymmetry
INVARIANTS HeapTiled StorageSound LocalsFit
CHECK_DEADLOCK FALSE
