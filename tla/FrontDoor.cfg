SPECIFICATION FairSpec
CONSTANTS
  Unopenable <- MCUnopenable
  Denied <- MCDenied
  Answers <- MCAnswers
  OwnNames <- MCOwnNames
  MaxMessages = 5
  Serves <- MCServes
  MaxHops = 2
  MaxUnits = 2
  Window = 1
  Setups <- MCSetups
INVARIANTS
  TypeOK
  StartsAsTold
  EveryCallSeen
  OneAnswerAhead
  StreamsIntact
PROPERTY TunnelEnds
CHECK_DEADLOCK FALSE
