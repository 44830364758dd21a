SPECIFICATION FairSpec
CONSTANTS
  NumWarps = 2
  Kernels <- MCKernels
  MaxTiles = 2
INVARIANTS
  TypeOK
  TilesFoldInOrder
  OutputIsWhole
PROPERTIES
  ImplementsBlock
  BlockFinishes
