CONSTANTS
  s1 = s1
  s2 = s2
  a1 = a1
  a2 = a2
  o1 = o1
  o2 = o2
  Specs = {s1, s2}
  Admins = {a1, a2}
  Owners = {o1, o2}
  Scenarios <- MCScenarios
  MaxEvents = 1
  MaxJobs = 2
SPECIFICATION Spec
INVARIANTS TypeOK BundlesAreWhole SettledIsStored
PROPERTY AtomicStoreSpec
CHECK_DEADLOCK FALSE
