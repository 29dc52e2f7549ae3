SPECIFICATION Spec
CHECK_DEADLOCK FALSE
SYMMETRY WorkersAlike
CONSTANTS
  d1 = d1
  f1 = f1
  f2 = f2
  g1 = g1
  j1 = j1
  k1 = k1
  k2 = k2
  r1 = r1
  u1 = u1
  Nobody = Nobody
  Nothing = Nothing
  Files = {f1}
  Rows = {k1, k2}
  RowsOf <- OneFile
  CardOf <- OneCard
  Faulty = {}
  Jobs = {j1}
  Uploaders = {u1}
  Runners = {r1}
  Ledgers = {g1}
  MaxRetries = 1
  GuardEnabled = TRUE
  RedisMayFail = FALSE
  LockMayLapse = FALSE
  BusMayFail = FALSE
  FinanceMayFail = FALSE
  StorageMayFail = FALSE
  MaxFaults = 1
INVARIANTS
  CompletedMeansImported
