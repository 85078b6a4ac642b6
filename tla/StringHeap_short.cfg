CONSTANTS
  Vars = {p, q}
  Strings <- ShortStrings
  MemStart = 40
  MemTop = 56
  MaxLen = 4
  Spare = 1
  Gap = 5
  RecSize = 2
  Clones <- NoClones
  DimSizes = {8}
  MaxParams = 1
  MaxTemps = 1
  MaxStack = 2
  CaseConv = FALSE
  Unset = Unset
SPECIFICATION Spec
INVARIANTS TypeOK NoSilentCrossing OnlyTempsOverrun
PROPERTIES StorageNeverShrinks ImplementsStore
CHECK_DEADLOCK FALSE
