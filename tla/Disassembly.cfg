CONSTANTS
  Line <- MCLine
  Region <- MCRegion
  Target = {5, 12, 17}
  Reach = 5
  Back = 1
  MaxRows = 2
  Session = 2
  History = 1
  Asks = 3
SPECIFICATION Spec
CHECK_DEADLOCK FALSE
INVARIANTS WantedIsShown RowsAreTheCode
PROPERTY WorkerComesBack
