SPECIFICATION SocketSpec
CONSTANTS
    c1 = c1
    c2 = c2
    x1 = x1
    x2 = x2
    None = None
    Children <- MCChildren
    Requests <- MCRequests
    Connections = 2
    MaxActive = 1
CHECK_DEADLOCK FALSE
SYMMETRY Symmetry
INVARIANTS
    LateChild
    NothingLeft
    AllEnd
    AnsweredOnce
