CONSTANTS
  Code = {av, div}
  Action = {0, 1}
  Jit = {none, drwtsn32}
  Nanomite = "nanomite"
  Requests = 8
SPECIFICATION Spec
SYMMETRY Symmetry
INVARIANTS SavedIsLoaded OriginalKept
CHECK_DEADLOCK FALSE
