SPECIFICATION Spec
CONSTANTS
  Thread = {t1, t2}
  N = 2
  a = a
  b = b
  Layout = {a, b}
  Record <- Records
  None = None
  Nobody = Nobody
INVARIANTS
  TypeOK
  ReturnsOwnGains
  CleanBetween
PROPERTIES
  FailsForAReason
  LockComesFree
