CONSTANTS
  Cost <- mcCost
  IdOrder <- mcIdOrder
  Scale = 12
  ItemId = {"i"}
  AugmentId = {"a1"}
  MaxTime = 1
  r1 = r1
  r2 = r2
  Request = {r1, r2}
  Query <- mcQuery
  NoQuery = NoQuery
  NoAnswer = NoAnswer
  Batch <- mcBatch
  Ttl = 1
  MinSample = 2
  HighTier = {"CHALLENGER"}
  LowTier = {"IRON"}
  Augment = {"a1", "a2"}
  Category <- mcCategory
  MaxLimit = 2
  TopChampions = 1
  TopItems = 1
  Superseded = {"old"}
  Halving = 1
  MaxFlushes = 1
  MaxErrors = 1
SPECIFICATION Spec
INVARIANTS TypesApart ListGetAgree FloorKept NotStale
PROPERTY FlushedAsPlayed
CHECK_DEADLOCK FALSE
