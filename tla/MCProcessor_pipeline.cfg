CONSTANTS
  Part = {p1, p2}
  SaveEvery = 1
  QueueMax = 1
  DrainMax = 2
  FlushAt = 2
  Nil = Nil
  MaxSeq = 2
  MaxFaults = 2
SPECIFICATION FairSpec
INVARIANTS NoneDropped CausalOrder RepeatBound LatestFlushServed
PROPERTY EveryMatchCounted
