SPECIFICATION Spec
CONSTANTS
  NumPages = 2
  BlockSize = 4
  Heads = 2
  ScaleDim = 4
  GroupBytes = 1
  Majors <- MCMajors
  OverlayMayFail = TRUE
  UsedSlots <- MCUsedSlots
  MaxTokens = 2
  MaxLaunches = 2
INVARIANTS
  ScalesReadBack
