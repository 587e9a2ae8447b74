SPECIFICATION SafetySpec
CONSTANTS
  e1 = e1
  e2 = e2
  r1 = r1
  r2 = r2
  r3 = r3
  Envs = {e1, e2}
  Requests = {r1, r2}
  None = None
  Kinds = {"bulk"}
  Interval = 2
  MaxTime = 3
  MaxRebuilds = 1
  MaxFailures = 1
SYMMETRY Symmetry
INVARIANTS TypeOK BulkQueriesSpaced UpdatedNotOlder LocksHeld
PROPERTIES FreshAndHonest LastUpdateMonotone
