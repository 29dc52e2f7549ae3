SPECIFICATION FairSpec
CHECK_DEADLOCK FALSE
CONSTANTS
  d1 = d1
  f1 = f1
  f2 = f2
  g1 = g1
  j1 = j1
  k1 = k1
  k2 = k2
  r1 = r1
  r2 = r2
  u1 = u1
  u2 = u2
  Nobody = Nobody
  Nothing = Nothing
  Files = {f1}
  Rows = {k1, k2}
  RowsOf <- OneFile
  CardOf <- OneCard
  Faulty = {f1}
  Jobs = {j1}
  Uploaders = {u1, u2}
  Runners = {r1, r2}
  Ledgers = {g1}
  MaxRetries = 1
  GuardEnabled = TRUE
  RedisMayFail = TRUE
  LockMayLapse = TRUE
  BusMayFail = FALSE
  FinanceMayFail = TRUE
  StorageMayFail = TRUE
  MaxFaults = 1
PROPERTIES
  FinalStatusStable
  EventuallyFinished
