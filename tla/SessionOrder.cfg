SPECIFICATION Spec
CONSTANTS
  Pid = {p1}
  DebugChilds = FALSE
  SuspendThreads = TRUE
  Unhandled = {"break", "ask", "pass"}
  GUIRuns = {"leave"}
  MaxSessions = 3
  MaxQueue = 2
  MaxSuspend = 1
INVARIANT StateShown
PROPERTY StopEnds
PROPERTY DetachEnds
PROPERTY RestartStarts
PROPERTY AnswerReaches
