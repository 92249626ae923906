\* u1 and u2 may share a process; u3 asks for another scope or for a launch of its own.
SPECIFICATION Spec
CONSTANTS
    u1 = u1
    u2 = u2
    u3 = u3
    g1 = g1
    g2 = g2
    g3 = g3
    NoGroup = NoGroup
    Users <- ThreeUsers
    Asks <- MCAsks
    Groups <- ThreeGroups
    MaxProcesses = 2
    SessionsPerProcess = 2
    MaxIdle = 1
CHECK_DEADLOCK FALSE
SYMMETRY Symmetry
INVARIANTS
    
    Isolation
    LeasesEnd
    WaitersReturn
PROPERTIES
    BusyKept
