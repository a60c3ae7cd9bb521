SPECIFICATION FairSpec
CONSTANTS
  w1 = w1
  MaxRows = 1
  Writers = {w1}
  MaxVersion = 2
  BatchSize = 2
  Provisioned = TRUE
  MaxFaults = 0
  MaxBackfills = 0
PROPERTIES UpdateIsCopied
