SPECIFICATION FairSpec
CONSTANTS
  w1 = w1
  MaxRows = 4
  Writers = {w1}
  MaxVersion = 2
  BatchSize = 2
  Provisioned = TRUE
  MaxFaults = 1
  MaxBackfills = 1
INVARIANTS TypeOK CopiedOnce NoGap RunCopiesAll
PROPERTIES NewRowIsCopied
