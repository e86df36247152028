CONSTANTS
  Page = {1, 2}
  Own <- MCOwn
  Ins <- MCIns
  Shape <- MCShape
  Menu <- MCMenu
  Reader = {"disassembler", "dump"}
  Session = 2
  Edits = 3
SPECIFICATION Spec
CHECK_DEADLOCK FALSE
INVARIANTS ProtectionReturns ArmedOrStepping
PROPERTY HitsPass
