CONSTANTS
  Setups <- MCSetups
  Height = {1, 2, 4}
  Trash = 2
  DefaultMax = 5
  Dword = 1000
SPECIFICATION Spec
CHECK_DEADLOCK FALSE
INVARIANTS FunctionsFound RowsAreThePage ShowsItsProcess
PROPERTY ReadsFinished
