CONSTANTS
  Sub = {s1}
  MaxRecords = 0
  Tears = TRUE
  PowerLoss = TRUE
  TrimFaults = FALSE
  SaveEvery = 2
  MaxPublish = 3
  MaxRestarts = 1
  MaxDrops = 1
SPECIFICATION Spec
INVARIANT SentAsPublished
CHECK_DEADLOCK FALSE
