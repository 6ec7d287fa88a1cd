CONSTANTS
  Sub = {s1, s2}
  MaxRecords = 2
  Tears = TRUE
  PowerLoss = FALSE
  TrimFaults = FALSE
  SaveEvery = 4
  MaxPublish = 4
  MaxRestarts = 0
  MaxDrops = 0
SPECIFICATION FairSpec
INVARIANT SentAsPublished
PROPERTY StreamsCatchUp
