SPECIFICATION Spec
CONSTANTS
  Procs = {p1, p2}
  Calls = {c1, c2, c3}
  Ids = {i1, i2}
  Contents = {x, y}
  Sizes <- MCSizes
  Capacity = 3
  MaxReceipt = 3
  MaxCrashes = 1
  MaxFaults = 1
  None = None
SYMMETRY MCSymmetry
CHECK_DEADLOCK FALSE
INVARIANTS  ReplayFaithful ActiveOwned
