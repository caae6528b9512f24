SPECIFICATION FairSpec
CONSTANTS
  Events = {e1, e2, e3}
  Denied = {e1}
  Pages = {p1}
  Capacity = 2
  none = none
INVARIANTS
  TypeOK
  SnapshotAddsUp
  ShownIsCounted
  FeedInOrder
PROPERTIES
  RecordsFinish
  LeavesMap
CHECK_DEADLOCK FALSE
