SPECIFICATION FairSpec
CONSTANTS
  Names = {n1, n2}
  t1 = t1
  Tools = {t1}
  Contents <- MCContents
  test = test
  unknown = unknown
  note = note
  broken = broken
  long = long
  Lines <- MCLines
  Anonymous <- MCAnonymous
  KindOf <- MCKindOf
  ToolOf <- MCToolOf
INVARIANTS
  TypeOK
  VerdictsMatchDirectory
  OneAnswerEach
PROPERTY AnswersCome
CHECK_DEADLOCK FALSE
