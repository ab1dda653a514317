SPECIFICATION Spec
CONSTANTS
  Procs = {p1, p2, p3}
  NoProc = NoProc
  SetupSteps = 2
  MaxRetries = 2
  Faults = {"crash", "reboot", "launch", "setup", "info", "expire"}
SYMMETRY Symmetry
INVARIANTS TypeOK FinishedIsComplete OneBuilder CopiesAreComplete
PROPERTIES FreshVerdictSparesBuilder ImplementsCache
CHECK_DEADLOCK FALSE
