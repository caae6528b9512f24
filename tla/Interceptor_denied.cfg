SPECIFICATION Spec
CONSTANTS
  a = a
  b = b
  Names = {1}
  Contents <- MCContents
  Tools = {a, b}
  Requests = {r1}
  Hosts = {h1}
  CallLists <- MCCallLists
  Budget = 1
  MaxReloads = 1
INVARIANT DeniedCounted
CHECK_DEADLOCK FALSE
