CONSTANTS
  challenger = challenger
  iron = iron
  Task <- MCTask
  Rank <- MCRank
  Worker = {w1, w2}
  NoTask = NoTask
  Rate = 2
  TicksPerSec = 2
  MaxPlayers = 1
  MaxIds = 2
  MaxRounds = 2
  MaxThrottle = 1
SPECIFICATION FairSpec
INVARIANTS SecondBound TierPriority
PROPERTIES PartitionOrder RoundsEnd
