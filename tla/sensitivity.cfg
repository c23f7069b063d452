SPECIFICATION Spec
CONSTANTS
  Process = {p1, p2}
  N = 3
  Probes = 2
  s1 = s1
  s2 = s2
  Signature = {s1, s2}
  Mixed = FALSE
  Launch <- CommandLines
  None = None
  Nobody = Nobody
INVARIANTS
  TypeOK
  ExactlyOnce
  ReusedCacheIsOwn
PROPERTIES
  RecycleLosesNothing
  SuccessIsComplete
  ImplementsCollection
CHECK_DEADLOCK FALSE
