SPECIFICATION Spec
CONSTANTS
  Unopenable <- MCUnopenable
  Denied <- MCDenied
  Answers <- MCAnswers
  OwnNames <- MCOwnNames
  MaxMessages = 5
  Serves <- MCServes
  MaxHops = 2
  MaxUnits = 2
  Window = 1
  Setups <- READMESetup
INVARIANT BaseURLIsJudged
CHECK_DEADLOCK FALSE
