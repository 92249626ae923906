\* Three calls, of which two may be pending; the call history holds two, and one frame does not
\* hold two calls.
SPECIFICATION Spec
CONSTANTS
    c1 = c1
    c2 = c2
    c3 = c3
    Calls <- ThreeCalls
    IdOf <- DistinctId
    Size <- Sizes
    PendingLimit = 2
    PendingBytes = 3
    CallHistory = 2
    FrameBytes = 2
    MaxBatches = 2
CHECK_DEADLOCK FALSE
SYMMETRY Symmetry
INVARIANTS
    BatchPartition
    AnsweredOrPending
    Capacity
    NoLostWakeup
PROPERTIES
    HandoffSpec
