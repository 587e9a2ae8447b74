SPECIFICATION SafetySpec
CONSTANTS
  n1 = n1
  n2 = n2
  a = a
  b = b
  t1 = t1
  t2 = t2
  Environments <- AllEnvironments
  Triggers = {t1, t2}
  Empty = ""
  ZeroTime = 0
  Nil = Nil
  MaxChanges = 3
  MaxTime = 3
SYMMETRY Symmetry
INVARIANTS TypeOK RightSeries CountedHaveTimes AcceptedIsVisible
CHECK_DEADLOCK FALSE
