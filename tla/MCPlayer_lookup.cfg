CONSTANTS
  r1 = r1
  r2 = r2
  p1 = p1
  p2 = p2
  ip1 = ip1
  ip2 = ip2
  Ip = {ip1, ip2}
  Limit <- mcLimit
  RiotDailyCap = 1
  Window = 2
  TicksPerSec = 2
  Day = 2
  MaxTime = 3
  Request = {r1, r2}
  Query <- mcQuery
  NoQuery = NoQuery
  PlayerId = {p1, p2}
  Seed = {}
  Rank <- mcRank
  Unranked = Unranked
  MatchList <- mcMatchList
  Cost <- mcCost
  Keep = 2
  Before <- mcBefore
  Torn = Torn
  None = None
  MaxCrashes = 1
SPECIFICATION Spec
INVARIANTS WindowBound RetrySuffices DailyBudget HistoryOrdered RecordedKept ProfileAgrees
CHECK_DEADLOCK FALSE
