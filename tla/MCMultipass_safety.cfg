SPECIFICATION FairSpec
CONSTANTS
  Bases = {b1, devel}
  Devel = devel
  Tags = {t1, t2}
  Proxies = {x1, x2}
  Nothing = Nothing
  Timeout = 3
  RetryWait = 2
  Faults = {"fail", "crash", "prune", "trash", "unread"}
INVARIANTS TypeOK AcceptedIsComplete UseIsUndisturbed SnapsUndisturbed SessionEndsClean RaisesForAReason WaitsAreBounded
PROPERTIES GoodVmIsKept ImplementsEnvironment SessionAdvances SessionEnds
