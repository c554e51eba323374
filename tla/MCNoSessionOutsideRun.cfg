SPECIFICATION Spec
CONSTANTS
  NumTid = 1
  MaxTidCount = 1
  MaxSessions = 1
  NumBaid = 1
  MqModes = {FALSE}
  Moves <- MCMoves
  AllocFails = FALSE
  Resetter = {"systq"}
INVARIANT NoSessionOutsideRun
CHECK_DEADLOCK FALSE
