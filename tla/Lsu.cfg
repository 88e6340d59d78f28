SPECIFICATION Spec
CONSTANTS
  DEPTH_SPEC = 2
  DEPTH_COMMIT = 2
  Configs <- SafetyConfigs
INVARIANTS TypeOK CommittedStoresHappen ResultsAreOwn NoMemoryInstructionLost LoadsFollowOlderStores WaitingLoadKeepsRequest
PROPERTIES StoresInOrder FencesDrainStores LoadEntriesNotOverwritten
