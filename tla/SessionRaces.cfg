SPECIFICATION Spec
CONSTANTS
  Pid = {p1, p2}
  DebugChilds = TRUE
  SuspendThreads = FALSE
  Unhandled = {"break", "ask", "pass"}
  GUIRuns = {"run", "launch", "announce", "ask", "leave", "exit", "queued", "event"}
  MaxSessions = 2
  MaxQueue = 1
  MaxSuspend = 1
INVARIANT TypeOK
INVARIANT OneQuestion
INVARIANT NoGhostSession
