SPECIFICATION Spec
CONSTANTS
  SpecDepths <- MCSpecDepths
  CaptureReqs <- MCCaptureReqs
  ParallelDrafting = TRUE
  MaxReqs = 2
  MaxCapture = 4
  PinMemory = TRUE
  MaxQueryLen = 4
  MaxSteps = 2
INVARIANTS
  KernelsReadOwnPlanAlways
