SPECIFICATION MCSpec
CONSTANTS
  c1 = c1
  c2 = c2
  k1 = k1
  k2 = k2
  o1 = o1
  s1 = s1
  n1 = n1
  n2 = n2
  Connects = {c1, c2}
  Keys = {k1, k2}
  Opens = {o1}
  Publications = {}
  SignOuts = {s1}
  Renewals = {n1, n2}
  Threshold = 1
  MaxBoots = 2
CHECK_DEADLOCK FALSE
INVARIANTS SignedOutGone PausedInTime
PROPERTIES RenewalFenced CommandsEnd
