SPECIFICATION SafetySpec
CONSTANTS
  n1 = n1
  n2 = n2
  a = a
  b = b
  Namespaces = {n1, n2}
  Labels = {a, b}
  CreationTimes = {1}
  AnnotationSets <- Mixed
  StatusProbers <- Checks
  MetadataProbers <- MetadataKeys
  MetadataTypes <- OwnerTypes
  TrueValues <- True
  JSONScalars <- Scalars
  Floats <- TwoFloats
  Calls <- EveryCall
  Empty = ""
  ZeroTime = 0
  Nil = Nil
  Absent = Absent
  None = None
  r1 = r1
  Requests = {r1}
  MaxEvents = 3
INVARIANTS Snapshot AllOrNothing LogKnowsFailures
