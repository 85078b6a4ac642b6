CONSTANTS
  Programs <- WellBehaved
  Edits <- NoEdits
  Commands <- RunOnly
  MaxStack = 5
  MaxLocals = 1
  MaxCpu = 1
SPECIFICATION LiveSpec
INVARIANTS MirrorsNesting NoStructureErrors
PROPERTY Finishes
