SPECIFICATION FairSpec
CONSTANTS
  SpecDepths <- MCSpecDepths
  CaptureReqs <- MCCaptureReqs
  ParallelDrafting = TRUE
  MaxReqs = 3
  MaxCapture = 4
  PinMemory = TRUE
  MaxQueryLen = 4
  MaxSteps = 3
INVARIANTS
  TypeOK
  BuildNeverRaises
  RunNeverRaises
  ReplayReadsPlannedWrapper
  KernelsReadOwnMetadata
  KernelsReadOwnPlan
  KernelsReadNoOlderPlan
PROPERTIES
  BuiltStepsFinish
  ImplementsService
