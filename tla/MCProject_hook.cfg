SPECIFICATION Spec
CONSTANTS
  Procs = {p1}
  NewBase = NewBase
  OldBase = OldBase
  MaxOps = 1
  TagFits <- ExampleFits
  Faults = {}
  MaxLength = 63
  KeptLength = 40
  HashLength = 20
  Ids = {0, 1, 2}
  NoId = NoId
PROPERTIES HookKeepsCurrentBase
CHECK_DEADLOCK FALSE
