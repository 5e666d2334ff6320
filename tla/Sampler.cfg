CONSTANTS
  Admins = {a1, a2}
  Shared = shared
  Exclusive = {x1, x2}
  NoOs = none
  MaxCommands = 8
SPECIFICATION FairSpec
INVARIANTS TypeOK RefsExact ClaimsExact FaultsAreRaces
PROPERTIES StopReturns StartedIsSampled
CHECK_DEADLOCK FALSE
