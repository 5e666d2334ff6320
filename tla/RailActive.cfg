CONSTANTS
  NEps = 3
SPECIFICATION FairSpec
INVARIANTS TypeOK CountersExact RefsExact CallsInOrder NoEndpointLeftBehind NoAssertFails
PROPERTIES ImplementsPromise ConnectAnswered FailedRailFreed
CHECK_DEADLOCK FALSE
