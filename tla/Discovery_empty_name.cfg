SPECIFICATION SafetySpec
CONSTANTS
  n1 = n1
  n2 = n2
  Namespaces = {n1, n2}
  Labels = {"name", ""}
  CreationTimes = {1}
  AnnotationSets <- OnlyPlain
  StatusProbers <- Checks
  MetadataProbers <- MetadataKeys
  TrueValues <- True
  JSONScalars <- Scalars
  Empty = ""
  EmptyString = ""
  ZeroTime = 0
  Nil = Nil
  Absent = Absent
  MaxChanges = 2
  MaxPending = 2
  MaxRestarts = 0
INVARIANTS StoredUnderItsName
CHECK_DEADLOCK FALSE
