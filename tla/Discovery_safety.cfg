SPECIFICATION SafetySpec
CONSTANTS
  n1 = n1
  n2 = n2
  a = a
  b = b
  Namespaces = {n1, n2}
  Labels = {a, b}
  CreationTimes = {1, 2}
  AnnotationSets <- GoodAndBad
  StatusProbers <- Checks
  MetadataProbers <- MetadataKeys
  TrueValues <- True
  JSONScalars <- Scalars
  Empty = ""
  EmptyString = ""
  ZeroTime = 0
  Nil = Nil
  Absent = Absent
  MaxChanges = 2
  MaxPending = 2
  MaxRestarts = 1
SYMMETRY Symmetry
INVARIANTS TypeOK EventChain NoGhosts LookupByNamespaceDeterministic InfoMatchesStore NothingLost ServedOrQueued
PROPERTIES ImplementsDirectory
CHECK_DEADLOCK FALSE
