SPECIFICATION Spec
CONSTANTS
  h1 = h1  h2 = h2   c1 = c1
  Handlers = {h1, h2}
  Codes = {c1}
  InitQuota = 1  InitAff = 1
  CodeQuotas <- MCQuotas  Edits <- MCEdits  Award = 1  Bonus = 1
  Moves = {1}  Overrides = {0}
  MaxQuota = 1
  MaxDay = 1
  MaxRequests = 3
  DbFaults = TRUE  Crashes = TRUE
INVARIANTS TypeOK PaidOncePerOpening AwardFollowsRecord BalancesAddUp
SYMMETRY HandlerSymmetry
CHECK_DEADLOCK FALSE
