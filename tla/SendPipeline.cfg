SPECIFICATION FairSpec
CONSTANTS
  SeqMod = 32
  TsMod = 64
  MaxPendingPackets = 2
  MaxPendingPcm = 3
  MaxLag = 2
  MaxFrames = 4
  MaxPipelines = 3
  Uses <- MCUses
INVARIANTS TypeOK NoIdIsReplayed PacketsStayInOrder PlainStopIsSpeechBoundary MediaClockMissesOnlyDiscards
PROPERTIES StopCompletes
CHECK_DEADLOCK FALSE
