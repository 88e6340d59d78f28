SPECIFICATION FairSpec
CONSTANTS
  DEPTH_SPEC = 2
  DEPTH_COMMIT = 2
  Configs <- ProgressConfigs
INVARIANT NonIdempotentLoadsNotSpeculative
PROPERTY EveryInstructionLeaves
