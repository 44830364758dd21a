SPECIFICATION Spec
CONSTANTS
  MaxReqs = 2
  MaxModelLen = 4
  PageSize = 2
  BlockSize = 2
  DcpWorld = 2
  DcpRank = 0
  Interleave = 1
  MaxSteps = 1
INVARIANTS
  PlannedLengthIsAdjusted
