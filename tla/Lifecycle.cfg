SPECIFICATION LeavingSpec
CONSTANTS
  Requests = {r1, r2}
  Pages = {p1, p2}
INVARIANTS
  TypeOK
  GracefulExit
  FatalOnlyOnFailure
PROPERTY Ends
CHECK_DEADLOCK FALSE
