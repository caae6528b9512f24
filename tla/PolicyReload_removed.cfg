SPECIFICATION Spec
CONSTANTS
  t1 = t1
  Names = {1, 2}
  Tools = {t1}
  Contents <- MCContents
  MaxWrites = 1
INVARIANT RemovedIsUnenforced
CHECK_DEADLOCK FALSE
