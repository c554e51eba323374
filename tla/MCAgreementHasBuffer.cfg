SPECIFICATION AssociatedSpec
CONSTANTS
  SeqMod = 8
  MaxWinSz = 4
  MaxWinMiss = 1
  Mpdu <- MCMpdu
  NoMpdu = NoMpdu
  BufSizes = {2}
  PbacModes = {FALSE}
  MaxStale = 0
INVARIANT AgreementHasBuffer
CHECK_DEADLOCK FALSE
