SPECIFICATION Spec
CONSTANTS
  Procs = {p1, p2}
  NewBase = NewBase
  OldBase = OldBase
  MaxOps = 1
  TagFits = TRUE
  Faults = {"crash", "fail", "taken", "nodesc"}
  MaxLength = 63
  KeptLength = 40
  HashLength = 20
  Ids = {0, 1, 2}
  NoId = NoId
SYMMETRY Symmetry
VIEW View
INVARIANTS TypeOK BareOnlyMeanwhile NamesAreValid NamesIdentify BasesAreRecognised IdMapRoundTrip
PROPERTIES RaisesForAReason HookSparesCurrent NoOrphans
CHECK_DEADLOCK FALSE
