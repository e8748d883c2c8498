SPECIFICATION Spec
CONSTANTS
  SeqMod = 32
  TsMod = 32
  DtxGapFrames = 2
  ResumePrebuffer = 2
  RoundingTolerance = 2
  EstimateRounding = 1
  InsertOutcomes = {TRUE, FALSE}
  None = None
  InitialSeq = 30
  MaxFrames = 6
  MaxInFlight = 2
  Ordered = TRUE
  MayLose = TRUE
INVARIANTS TypeOK SilenceFollowsNewestPacket
PROPERTIES LostMarkersAreRepaired
CHECK_DEADLOCK FALSE
