SPECIFICATION Spec
CONSTANTS
  Participants = 3
  Listener = 0
  InterestListeners = 1
  Rotation <- MCRotation
  Stress = {1, 2}
  MediaEnd = 2
  Horizon = 3
  Settings <- MCSettings
  MaxConcealed = 1
  None = None
INVARIANTS TypeOK OneVoicePerReceiver ReceiverOnlyWhileInterested ReportIsTrue SlotsLeadToOpenConnections
CHECK_DEADLOCK FALSE
