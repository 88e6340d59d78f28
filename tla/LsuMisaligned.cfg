SPECIFICATION Spec
CONSTANTS
  DEPTH_SPEC = 2
  DEPTH_COMMIT = 2
  Configs <- Misaligned
INVARIANT ResultsAreOwn
