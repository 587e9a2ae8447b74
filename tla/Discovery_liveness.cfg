SPECIFICATION Spec
CONSTANTS
  n1 = n1
  n2 = n2
  a = a
  b = b
  Namespaces = {n1, n2}
  Labels = {a, b}
  CreationTimes = {1}
  AnnotationSets <- GoodAndBad
  StatusProbers <- Checks
  MetadataProbers <- MetadataKeys
  TrueValues <- True
  JSONScalars <- Scalars
  Empty = ""
  EmptyString = ""
  ZeroTime = 0
  Nil = Nil
  Absent = Absent
  MaxChanges = 2
  MaxPending = 2
  MaxRestarts = 1
PROPERTIES Converges ContestedNamesListed
CHECK_DEADLOCK FALSE
