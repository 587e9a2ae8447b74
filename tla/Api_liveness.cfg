SPECIFICATION Spec
CONSTANTS
  n1 = n1
  n2 = n2
  a = a
  b = b
  Namespaces = {n1}
  Labels = {a, b}
  CreationTimes = {1}
  AnnotationSets <- OnlyBare
  StatusProbers <- Checks
  MetadataProbers <- NoKeys
  MetadataTypes <- OwnerTypes
  TrueValues <- True
  JSONScalars <- Scalars
  Floats <- OneFloat
  Calls <- ContendingCalls
  Empty = ""
  ZeroTime = 0
  Nil = Nil
  Absent = Absent
  None = None
  r1 = r1
  r2 = r2
  Requests = {r1, r2}
  MaxEvents = 2
INVARIANTS TypeOK NoCircularWait
PROPERTIES RequestsAnswered EventsHandled
