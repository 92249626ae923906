SPECIFICATION Spec
CONSTANTS
    c1 = c1
    c2 = c2
    Conns <- MCConns
    Readers <- MCReaders
    MaxConnections = 2
    MaxActive = 1
    MaxRecords = 1
CHECK_DEADLOCK FALSE
SYMMETRY ConnSymmetry
INVARIANTS
    OutliveUsers
    EndsClean
    NothingHangs
    HookSeesTurn
