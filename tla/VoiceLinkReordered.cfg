SPECIFICATION FairSpec
CONSTANTS
  SeqMod = 32
  TsMod = 32
  DtxGapFrames = 2
  ResumePrebuffer = 2
  RoundingTolerance = 2
  EstimateRounding = 1
  InsertOutcomes = {TRUE}
  None = None
  InitialSeq = 30
  MaxFrames = 4
  MaxInFlight = 3
  Ordered = FALSE
  MayLose = TRUE
INVARIANTS NewestMediaIsNotSilenced PrebufferIsHeld
PROPERTIES PendingSilenceDrains PrebufferedTalkspurtPlays
CHECK_DEADLOCK FALSE
