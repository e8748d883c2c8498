SPECIFICATION FairSpec
CONSTANTS
  Participants = 4
  MayTimeOut = TRUE
  MaxCrashes = 2
INVARIANTS TypeOK MediaStartsOnWholeMesh
PROPERTIES RegisteredRunEnds
CHECK_DEADLOCK FALSE
