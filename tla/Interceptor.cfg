SPECIFICATION FairSpec
CONSTANTS
  a = a
  b = b
  Names = {1}
  Contents <- MCContents
  Tools = {a, b}
  Requests = {r1, r2}
  Hosts = {h1}
  CallLists <- MCCallLists
  Budget = 1
  MaxReloads = 2
INVARIANTS
  TypeOK
  ClearedByPolicy
  RecordedBeforeOutcome
  LearnsOnlyCleared
PROPERTIES
  Answered
  ImplementsGate
CHECK_DEADLOCK FALSE
