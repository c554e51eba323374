SPECIFICATION Spec
CONSTANTS
  NumTid = 2
  MaxTidCount = 1
  MaxSessions = 1
  NumBaid = 1
  MqModes = {FALSE}
  Moves <- MCMoves
  AllocFails = FALSE
  Resetter = {"systq"}
INVARIANT RequestHasTask
CHECK_DEADLOCK FALSE
