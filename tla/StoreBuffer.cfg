SPECIFICATION FairSpec
CONSTANTS
  DEPTH_SPEC = 4
  DEPTH_COMMIT = 4
  MaxStore = 9
INVARIANTS TypeOK QueuesCoherent
PROPERTIES ImplementsStoreOrder RetiredStoresAreWritten
