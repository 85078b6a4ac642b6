CONSTANTS
  Table <- MCTable
  LowTop = 8
  ShiftTop = 8
  BufferSize = 64
  ByteTop = 64
  LastNumber = 9
  Programs <- MCPrograms
  Arguments <- MCArguments
SPECIFICATION MCSpec
INVARIANTS WithinBuffer SameTokens ReadsBack IndentShows
CHECK_DEADLOCK FALSE
