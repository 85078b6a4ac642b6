CONSTANTS
  Bits = 6
  Power <- MCPower
  Shifts = 16
  ConvertBits = 8
  ConvertPower <- MCConvertPower
  Cases <- MCCases
  Texts <- MCTexts
  CountHalf = 16
  Loops <- MCLoops
  HalfTop = 4
  ByteTop = 8
  Numbers <- MCNumberPairs
  Pairs <- MCPairs
  WordTop = 64
  CharTop = 16
  Strings <- MCStrings
  Counts <- MCCounts
SPECIFICATION MCSpec
INVARIANTS ProductKept DivisionExact NumbersReadBack CountsToTarget OperatorsAsTested
CHECK_DEADLOCK FALSE
