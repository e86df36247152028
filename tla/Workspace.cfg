CONSTANTS
  p1 = p1  p2 = p2  exe = exe  child = child  dll = dll
  Setups <- MCSetups
  NoPid = NoPid
  File = {exe, child, dll}  NoFile = NoFile
  Target = exe
  Bases <- MCBases
  Heap = {}
  Org = Org  Byte = {Org, new}
  QueuedInput = FALSE  EarlyPatches = FALSE
  MaxSessions = 2
SPECIFICATION Spec
CHECK_DEADLOCK FALSE
INVARIANT MemoryIsPatched
PROPERTY ReappliedAtEntry
