SPECIFICATION Spec
CONSTANTS
  r1 = r1  r2 = r2
  Requests = {r1, r2}
  WithCycle = FALSE
  Settings <- OneSetting
  FirstSettings <- Usual
  StartTime = 2
  Amounts = {2}
  Prices = {3}
  MaxSaves = 1
  DbFaults = FALSE
  MaxTime = 3
SYMMETRY RequestSymmetry
INVARIANTS SavesKeepCharges
