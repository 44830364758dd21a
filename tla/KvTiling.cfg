SPECIFICATION Spec
CONSTANTS
  GroupSize = 3
  TileQ = 4
  TileKv = 2
  Word = 64
  MaxQo = 3
  MaxKv = 8
  Requests <- MCRequests
INVARIANTS
  TypeOK
  RowsAttendWhole
  PartialsAreDisjoint
