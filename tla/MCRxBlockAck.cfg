SPECIFICATION FairSpec
CONSTANTS
  SeqMod = 8
  MaxWinSz = 4
  MaxWinMiss = 1
  Mpdu <- MCMpdu
  NoMpdu = NoMpdu
  BufSizes = {1, 2, 4}
  PbacModes = {TRUE, FALSE}
  MaxStale = 0
INVARIANTS TypeOK WinEndFollows SlotsMatchWindow HeadIsGap GapwaitCounts NoStrandedMpdu
PROPERTIES NoMpduLingers HandedUpInOrder BufferedIsHandedUp
CHECK_DEADLOCK FALSE
