SPECIFICATION Spec
CONSTANTS
  r1 = r1  r2 = r2
  Requests = {r1, r2}
  WithCycle = TRUE
  Settings <- MCSettings
  FirstSettings <- Usual
  StartTime = 2
  Amounts = {0, 2}
  Prices = {3}
  MaxSaves = 1
  DbFaults = TRUE
  MaxTime = 3
SYMMETRY RequestSymmetry
INVARIANTS TypeOK UsedWithinQuota UsedIsAccounted WindowFollowsCycle
PROPERTIES WindowsAdvance
