SPECIFICATION Spec
CONSTANTS
  NSnaps = 1
  Revs = {r1}
  Tags = {t1}
  OsSteps = 1
  Faults = {"break"}
INVARIANTS SuccessMeansInstalled
