SPECIFICATION Spec
CONSTANTS
  Regs = {0, 1}
  Configs <- AllConfigs
INVARIANTS TypeOK RingInOrder NothingLost OneResultAtPort CsrAddressIsHeads ResultsAreOwn
PROPERTY ImplementsInOrder
