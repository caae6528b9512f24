SPECIFICATION Spec
CONSTANTS
  Requests = {r1, r2}
  none = none
  Outcomes <- MCOutcomes
  MaxRuns = 2
SYMMETRY Symmetry
INVARIANTS
  TypeOK
  LogHasNoHoles
  EverySinkTold
CHECK_DEADLOCK FALSE
