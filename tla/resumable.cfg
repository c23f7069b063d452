SPECIFICATION SSpec
CONSTANTS
  Process = {p1, p2}
  N = 3
  Probes = 1
  s1 = s1
  s2 = s2
  Signature = {s1, s2}
  Launch <- CommandLines
  None = None
  Nobody = Nobody
  Launcher = {l1}
  Other = {p2}
  MaxRecycles = 1
  KillRetries = 1
INVARIANTS
  STypeOK
  LauncherSuccess
  RecycleBuysProgress
PROPERTIES
  LauncherEnds
  CompletesWhenCalm
CHECK_DEADLOCK FALSE
