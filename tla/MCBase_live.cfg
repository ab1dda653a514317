SPECIFICATION SpecExiting
CONSTANTS
  Procs = {p1, p2}
  NoProc = NoProc
  SetupSteps = 2
  MaxRetries = 3
  Faults = {"crash", "reboot", "launch", "setup", "info", "expire", "slow"}
PROPERTIES EveryLaunchEnds
CHECK_DEADLOCK FALSE
