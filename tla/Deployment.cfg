SPECIFICATION FairSpec
CONSTANTS
  Weights <- MCWeights
  Sweep <- MCSweep
  MaxTries = 2
  Absent = Absent
INVARIANTS
  TypeOK
  DoneServesThisRun
  QuietRunIsWarm
PROPERTIES
  RunsEnd
  RerunsRecover
