SPECIFICATION Spec
CONSTANTS
  Procs = {p1, p2}
  Delays = {"now", "later"}
  Copies = {"valid", "built", "followed"}
  Faults = {"crash", "reboot", "guest", "silent"}
SYMMETRY Symmetry
INVARIANTS TypeOK UseIsUndisturbed MadeIsNamed RunsOnlyMapped
PROPERTIES LaunchSucceedsAlone SessionEndsClean CleansOnlyBroken
