SPECIFICATION Spec
CHECK_DEADLOCK FALSE
SYMMETRY Alike
CONSTANTS
  d1 = d1
  f1 = f1
  f2 = f2
  g1 = g1
  g2 = g2
  j1 = j1
  k1 = k1
  k2 = k2
  r1 = r1
  r2 = r2
  u1 = u1
  Nobody = Nobody
  Nothing = Nothing
  Files = {f1}
  Rows = {k1, k2}
  RowsOf <- OneFile
  CardOf <- OneCard
  Faulty = {f1}
  Jobs = {j1}
  Uploaders = {u1}
  Runners = {r1, r2}
  Ledgers = {g1, g2}
  MaxRetries = 0
  GuardEnabled = FALSE
  RedisMayFail = FALSE
  LockMayLapse = FALSE
  BusMayFail = TRUE
  FinanceMayFail = TRUE
  StorageMayFail = FALSE
  MaxFaults = 1
INVARIANTS
  TypeOK
  CompletedMeansImported
  CompletedIsVisible
  AccountsReused
  LockExclusive
