\* The form of one administrator, with nobody else writing.
SPECIFICATION Spec
CONSTANTS
  k1 = k1
  k2 = k2
  Keys = {k1, k2}
  Values = {0, 1}
  Stored <- MCAsTyped
  MaxForeign = 0
PROPERTY InputStays
