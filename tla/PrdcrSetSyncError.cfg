SPECIFICATION Spec
CONSTANTS
    Names = {n1}
    Slots = {s1, s2}
    NoName = NoName
    NoSlot = NoSlot
    MaxCb = 2
INVARIANTS UpdatePutsBack
CHECK_DEADLOCK FALSE
