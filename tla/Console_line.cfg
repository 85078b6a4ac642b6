CONSTANTS
  Width = 4
  Height = 2
  Tab = 2
  Chars <- MCChars
  Space = "_"
  Keys <- MCKeys
  Code <- MCCode
  Shows <- MCShows
  None = "none"
  MaxPresses = 3
  MaxOutputs = 1
SPECIFICATION FairSpec
PROPERTIES ImplementsTerminal EachPressOnce HeldKeyIsRead
CHECK_DEADLOCK FALSE
