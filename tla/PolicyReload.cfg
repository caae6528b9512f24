SPECIFICATION FairSpec
CONSTANTS
  Names = {1, 2}
  t1 = t1
  Tools = {t1}
  Contents <- MCContents
  MaxWrites = 3
INVARIANTS
  TypeOK
  UpToDateIsEnforced
PROPERTIES
  NothingUnloads
  Converges
CHECK_DEADLOCK FALSE
