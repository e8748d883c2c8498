SPECIFICATION FairSpec
CONSTANTS
  SeqMod = 16
  TsMod = 16
  DtxGapFrames = 2
  ResumePrebuffer = 2
  RoundingTolerance = 2
  EstimateRounding = 1
  InsertOutcomes = {TRUE}
  None = None
  Producers = {"net1", "net2"}
  Voice <- MCVoice
  QueueCapacity = 2
  DrainBudget = 2
  TapCapacity = 1
  MaxPulls = 1
  MaxCalls = 2
INVARIANTS TypeOK AudibleMediaKeepsMixerAwake DeadStreamHoldsStragglersOnly RestartResetIsExact
PROPERTIES ImplementsDelivery IngressWakesMixer
CHECK_DEADLOCK FALSE
