\* Two requests of one session, no Models caller: a driver of the Manager.
SPECIFICATION Spec
CONSTANTS
    c1 = c1
    c2 = c2
    m1 = m1
    Nobody = Nobody
    Callers <- TwoCallers
    Refreshers = {}
    Faults <- AllFaults
    MaxBatches = 1
    MaxRecreations = 1
CHECK_DEADLOCK FALSE
SYMMETRY Symmetry
INVARIANTS
    OneTurn
    Owned
    CloseJoins
    NobodyWaits
PROPERTIES
    PromptMatchesSession
    ResolvedAfterDelivery
