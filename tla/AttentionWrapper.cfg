SPECIFICATION Spec
CONSTANTS
  Lanes <- MCLanes
  Calls <- MCCalls
  MaxQueryLen = 3
  NoCall = NoCall
  NoLaunch = NoLaunch
INVARIANTS
  TypeOK
  KernelServesTypes
  QueriesSplitAsPlanned
  GraphShapeIsFrozen
  PlannedRunsAccepted
