SPECIFICATION Spec
CONSTANTS
  Procs = {p1, p2}
  NoProc = NoProc
  SetupSteps = 2
  MaxRetries = 3
  Faults = {}
INVARIANTS ReadyToBeCopied
CHECK_DEADLOCK FALSE
