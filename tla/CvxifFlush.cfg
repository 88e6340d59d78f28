SPECIFICATION Spec
CONSTANTS
  Regs = {0, 1}
  Configs <- FlushedOffload
INVARIANT ResultsAreOwn
