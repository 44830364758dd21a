SPECIFICATION Spec
CONSTANTS
  NumPages = 2
  BlockSize = 4
  Heads = 2
  ScaleDim = 4
  GroupBytes = 1
  Majors <- MCMajors
  OverlayMayFail = FALSE
  UsedSlots <- MCUsedSlots
  MaxTokens = 3
  MaxLaunches = 2
INVARIANTS
  TypeOK
  DataReadBack
  ScalesReadBack
