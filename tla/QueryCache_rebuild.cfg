SPECIFICATION SafetySpec
CONSTANTS
  e1 = e1
  e2 = e2
  r1 = r1
  r2 = r2
  r3 = r3
  Envs = {e1}
  Requests = {r1}
  None = None
  Kinds = {"single"}
  Interval = 2
  MaxTime = 2
  MaxRebuilds = 1
  MaxFailures = 0
INVARIANTS QueriesSpaced
