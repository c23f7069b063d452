SPECIFICATION Spec
CONSTANTS
  Process = {p1, p2}
  Site = {1, 2}
  s1 = s1
  s2 = s2
  s3 = s3
  Settings = {s1, s2, s3}
  Stored <- StoredPart
  Plain = {s3}
  Launch <- CommandLines
  None = None
  Nobody = Nobody
INVARIANTS
  TypeOK
  OutputUniform
  RecoveredIsOwn
PROPERTIES
  NothingLost
  NoSiteTwice
  SuccessIsComplete
CHECK_DEADLOCK FALSE
