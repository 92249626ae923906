SPECIFICATION Spec
CONSTANTS
    s1 = s1  s2 = s2  s3 = s3  k1 = k1  k2 = k2
    Starts = {s1, s2, s3}
    Key <- TwoOfThree
    Prunes = {p}
    Lists = {l}
    MaxSessions = 1
    Persistent = TRUE
    OwnsPool = TRUE
    MaxFaults = 1
    Discovery = discovery
    Pool = pool
    None = none
INVARIANTS
    EvictedRest
    DriverOwned
    CloseOrder
