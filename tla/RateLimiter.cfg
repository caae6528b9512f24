SPECIFICATION Spec
CONSTANTS
  Keys = {h1, h2}
  Limits = {0, 1, 2}
  Interval = 2
  MaxNow = 6
INVARIANTS
  TypeOK
  TwoWindowBound
PROPERTY ImplementsFixedWindow
