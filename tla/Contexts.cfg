SPECIFICATION Spec
CONSTANTS
  Name <- MCName
  Line <- MCLine
  DefaultLabel = 9999
  MaxLines = 4
INVARIANTS TypeOK Sorted NothingLost MostSpecificWins
CHECK_DEADLOCK FALSE
