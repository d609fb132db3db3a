SPECIFICATION FairSpec
CONSTANTS
  r1 = r1  r2 = r2  r3 = r3  capped = capped  free = free
  Requests = {r1, r2}
  Tokens = {capped, free}
  Limited = {capped}
  Setups <- BothSetups
  InitWallet = 4
  InitRemain <- MCRemain
  Estimates = {0, 2}
  Prices = {0, 1, 3}
  Fees = {1}
  TrustQuota = 3
  CachedQuotas = {5}
  DbFaults = TRUE  Panics = TRUE  Crashes = TRUE
INVARIANTS TypeOK NoOverdraft BooksBalance ChargeMatchesSession TokenFollowsWallet FailureIsFree
PROPERTIES SettledIsFinal ImplementsLedger RefundArrives
