SPECIFICATION Spec
CONSTANTS
    p1 = p1
    p2 = p2
    k1 = k1
    k2 = k2
    s1 = s1
    None = None
    Procs <- MCProcs
    Keys <- MCKeys
    Slots <- MCSlots
    SlotOf <- MCSlotOf
    MaxTurns = 4
    MaxKeys = 2
    MaxLosses = 1
SYMMETRY Symmetry
INVARIANTS
    RecordTrue
    ContextExact
    OneKey
