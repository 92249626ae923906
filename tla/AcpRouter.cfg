SPECIFICATION Spec
CONSTANTS
  l1 = l1
  l2 = l2
  s1 = s1
  s2 = s2
  Callers <- MCLeases
  Leases <- MCLeases
  Sessions = {s1, s2}
  NoSession = NoSession
  Nobody = Nobody
  MaxPending = 2
  EventQueue = 1
  WriteQueue = 1
  LeaseQueue = 1
  MaxID = 3
  MaxFrames = 3
SYMMETRY MCSymmetry
CHECK_DEADLOCK FALSE
INVARIANTS
    OwnAnswer
    OrderedDelivery
    Attribution
    NothingStuck
