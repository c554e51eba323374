SPECIFICATION Spec
CONSTANTS
  NumTid = 2
  MaxTidCount = 2
  MaxSessions = 1
  NumBaid = 1
  MqModes = {FALSE}
  Moves <- MCMovesUp
  AllocFails = FALSE
  Resetter = {"systq", "ioctl"}
INVARIANTS TypeOK SessionsBounded
PROPERTY StartBitsAreCovered
CHECK_DEADLOCK FALSE
