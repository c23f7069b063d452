SPECIFICATION Spec
CONSTANTS
  Process = {p1, p2}
  N = 3
  Probes = 2
  s1 = s1
  s2 = s2
  Signature = {s1, s2}
  Mixed = TRUE
  Launch <- CommandLines
  None = None
  Nobody = Nobody
INVARIANT
  ReusedCacheIsOwn
CHECK_DEADLOCK FALSE
