SPECIFICATION FairSpec
CONSTANTS
  SeqMod = 32
  TsMod = 32
  DtxGapFrames = 2
  ResumePrebuffer = 2
  RoundingTolerance = 2
  EstimateRounding = 1
  InsertOutcomes = {TRUE}
  None = None
  InitialSeq = 30
  MaxFrames = 5
  MaxInFlight = 2
  Ordered = TRUE
  MayLose = FALSE

PROPERTIES ShortTalkspurtIsNotStuck
CHECK_DEADLOCK FALSE
