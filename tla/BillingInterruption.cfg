SPECIFICATION Spec
CONSTANTS
  r1 = r1  r2 = r2  r3 = r3  capped = capped  free = free
  Requests = {r1, r2}
  Tokens = {capped}
  Limited = {capped}
  Setups <- SharedSetup
  InitWallet = 4
  InitRemain <- MCRemain
  Estimates = {2}
  Prices = {1, 3}
  Fees = {}
  TrustQuota = 0
  CachedQuotas = {}
  DbFaults = FALSE  Panics = TRUE  Crashes = FALSE
INVARIANTS InterruptionReturnsHold
