CONSTANTS
  Process = {1, 2}
  Main = 1
  Bits <- MCBits
  Thread = {1, 2}
  Owner <- MCOwner
  First = 1
  Breaks = 2
  Edits = 2
SPECIFICATION Spec
CHECK_DEADLOCK FALSE
INVARIANTS ViewsShowTheBreak CallStackIsCurrent
PROPERTIES EditsReachTheThread HardwareStays
