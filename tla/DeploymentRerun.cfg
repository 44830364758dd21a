SPECIFICATION Spec
CONSTANTS
  Weights <- MCWeights
  Sweep <- MCSweep
  MaxTries = 2
  Absent = Absent
INVARIANTS
  SkippedStepsAreFinished
