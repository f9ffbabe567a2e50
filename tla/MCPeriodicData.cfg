CONSTANTS
    Dids = {d1, d2, d3}
    DynSlots = 2
    Slots = 2
    Dividers <- MCDividers
    OnVin = {d1}
    None = None
SPECIFICATION LiveSpec
INVARIANTS NothingTwice OneLateFrame
PROPERTIES AllServed
