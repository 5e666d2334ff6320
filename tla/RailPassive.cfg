CONSTANTS
  NEps = 3
SPECIFICATION FairSpec
INVARIANTS TypeOK CountersExact RefsExact SafeRemoval
PROPERTIES LostRailFreed
CHECK_DEADLOCK FALSE
