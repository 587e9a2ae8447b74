SPECIFICATION Spec
CONSTANTS
  e1 = e1
  e2 = e2
  r1 = r1
  r2 = r2
  r3 = r3
  Envs = {e1}
  Requests = {r1, r2}
  None = None
  Kinds = {"bulk", "single"}
  Interval = 2
  MaxTime = 3
  MaxRebuilds = 1
  MaxFailures = 1
INVARIANT UpdatedNotOlder
PROPERTIES FreshAndHonest LastUpdateMonotone RequestsEnd
