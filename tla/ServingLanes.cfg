SPECIFICATION Spec
CONSTANTS
  Configurations <- MCConfigurations
  NoLayer = NoLayer
  NoBuilder = NoBuilder
INVARIANTS
  TypeOK
  LayerMatchesBuilder
  UniformGraphsHoldDecodes
  LargePagesStayOnTrtllm
  StartedServersServe
