SPECIFICATION Spec
CONSTANTS
  Procs = {p1, p2}
  Delays = {"now", "later"}
  Copies = {"valid"}
  Faults = {}
INVARIANTS OneUser
