SPECIFICATION LinkSpec
CONSTANTS
  SeqMod = 14
  MaxWinSz = 4
  MaxWinMiss = 1
  MaxMpdu = 16
  Mpdu <- MCMpdu
  NoMpdu = NoMpdu
  BufSizes = {2}
  PbacModes = {TRUE, FALSE}
  MaxStale = 1
  MaxAhead = 3
INVARIANT BufferedAreNew
PROPERTY DeliversInOrder
CHECK_DEADLOCK FALSE
