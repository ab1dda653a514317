SPECIFICATION Spec
CONSTANTS
  Procs = {p1}
  Delays = {"later"}
  Copies = {"valid"}
  Faults = {}
PROPERTIES GoodInstanceIsKept
