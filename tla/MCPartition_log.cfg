CONSTANTS
  Sub = {s1}
  MaxRecords = 2
  Tears = FALSE
  PowerLoss = FALSE
  TrimFaults = TRUE
  SaveEvery = 2
  MaxPublish = 6
  MaxRestarts = 2
  MaxDrops = 2
SPECIFICATION Spec
INVARIANT SentInOrder
PROPERTY IsAppendLog
