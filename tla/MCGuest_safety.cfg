SPECIFICATION Spec
CONSTANTS
  NSnaps = 2
  Revs = {r1, r2}
  Tags = {t1, t2}
  OsSteps = 2
  Faults = {"break", "unread", "refresh"}
SYMMETRY Symmetry
INVARIANTS TypeOK AcceptedIsComplete RecordsAreTrue AcceptedHasSnaps
PROPERTIES CleanRunSucceeds ImplementsEnvironment
