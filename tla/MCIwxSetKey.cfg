SPECIFICATION Spec
CONSTANTS
  Mfp = FALSE
  SecKeyCmd = FALSE
  MaxMsgs = 3
  None = None
INVARIANTS TypeOK ShortageIsAtRest RingIsQueue KeysReachFirmware PortMeansKeyed
PROPERTY KeysHaveTask
CHECK_DEADLOCK FALSE
