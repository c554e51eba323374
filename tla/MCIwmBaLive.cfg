SPECIFICATION Spec
CONSTANTS
  NumTid = 1
  MaxTidCount = 1
  MaxSessions = 1
  NumBaid = 1
  MqModes = {TRUE, FALSE}
  Moves <- MCMoves
  AllocFails = TRUE
  Resetter = {"systq"}
PROPERTIES RequestIsAnswered LinkFollows FailureIsRecovered
CHECK_DEADLOCK FALSE
