SPECIFICATION FairSpec
CONSTANTS
    Names = {n1}
    Slots = {s1, s2}
    NoName = NoName
    NoSlot = NoSlot
    MaxCb = 2
INVARIANTS TypeOK RefsExact NoAssertFails
PROPERTIES OfferedIsUpdated
CHECK_DEADLOCK FALSE
