\* One request and a Models caller.
SPECIFICATION FairSpec
CONSTANTS
    c1 = c1
    c2 = c2
    m1 = m1
    Nobody = Nobody
    Callers <- OneCaller
    Refreshers = {m1}
    Faults <- AllFaults
    MaxBatches = 1
    MaxRecreations = 1
PROPERTIES
    LossSettles
CHECK_DEADLOCK FALSE
