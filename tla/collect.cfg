SPECIFICATION Spec
CONSTANTS
  Site <- Sites
  StreamConfig <- Config3
  NumCalls = 2
  NumProbes = 2
  MaxRows = 2
  Reached <- ReachedKeys
  i1 = i1
  i2 = i2
  i3 = i3
  Id = {i1, i2, i3}
  Shard <- Shards
  Seed <- SameSeed
  Random <- Draw
  Setting <- Settings
  MinBytes = 2
  MaxPinned = 4
  None = None
SYMMETRY Ids
INVARIANTS
  TypeOK
  CapturesFaithful
  MatchesReference
  ReservoirUninterrupted
  BudgetKept
