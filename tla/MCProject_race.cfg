SPECIFICATION Spec
CONSTANTS
  Procs = {p1, p2}
  NewBase = NewBase
  OldBase = OldBase
  MaxOps = 1
  TagFits = TRUE
  Faults = {}
  MaxLength = 63
  KeptLength = 40
  HashLength = 20
  Ids = {0, 1, 2}
  NoId = NoId
PROPERTIES LaunchesDoNotRace
CHECK_DEADLOCK FALSE
