SPECIFICATION Spec
CONSTANTS
  MaxReqs = 2
  MaxModelLen = 5
  PageSize = 2
  BlockSize = 2
  DcpWorld = 1
  DcpRank = 0
  Interleave = 1
  MaxSteps = 2
INVARIANTS
  TypeOK
  BufferHoldsBatch
  RowsReadOwnPages
  PlannedLengthIsAdjusted
