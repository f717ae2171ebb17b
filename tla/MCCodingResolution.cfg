SPECIFICATION MCSpec
CONSTANTS
  r1 = r1
  r2 = r2
  w1 = w1
  w2 = w2
  w3 = w3
  Readers = {r1, r2}
  Writers = {w1, w2, w3}
  MaxParallel = 2
  Patches = {1, 2}
  Usages = {0, 2, 3}
  Limit = 8
  Reservation <- MCReservation
  Repositories <- MCRepositories
  Home <- MCHome
CHECK_DEADLOCK FALSE
INVARIANTS DependenciesFirst IntegratedAsReviewed BudgetKept AppliedWhole
PROPERTIES CancelEnds
