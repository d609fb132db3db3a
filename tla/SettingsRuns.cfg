\* A settings form, its query and another administrator.
SPECIFICATION Spec
CONSTANTS
  k1 = k1
  k2 = k2
  Keys = {k1, k2}
  Values = {0, 1, 2}
  Stored <- MCStored
  MaxForeign = 1
SYMMETRY KeySymmetry
INVARIANTS TypeOK CleanShowsServer SaveIsRefreshed
PROPERTIES SavesOnlyEdits EchoKeepsInput
