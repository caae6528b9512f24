SPECIFICATION DetectorSpec
CONSTANTS
  c1 = c1
  c2 = c2
  c3 = c3
  Calls <- MCCalls
  ToolOf <- MCToolOf
  Saved <- MCSaved
  RateThreshold = 3
  MaxPrevTools = 2
  MaxIntervals = 1
INVARIANTS
  DetectorTypeOK
  UnknownToolsReported
  SequencesReported
  HighRateIsRepeated
CHECK_DEADLOCK FALSE
