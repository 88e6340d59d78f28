SPECIFICATION Spec
CONSTANTS
  Regs = {0, 1}
  Configs <- RefusedOffload
INVARIANT NothingLost
