CONSTANTS
  Char = {49, 97, 45, 58}
  MaxLen = 3
  Epoch = {0, 12}
  INT_MAX = 12
  Nil = Nil
  Name <- MCName
  Given <- MCGiven
  MaxProblems = 2
SPECIFICATION CheckSpec
INVARIANTS
  CheckTypeOK
  ReportsUnmet
  ReportsOwner
