SPECIFICATION Spec
CONSTANTS
  c1 = c1
  c2 = c2
  c3 = c3
  p1 = p1
  p2 = p2
  Peers = {p1, p2}
  Conns = {c1, c2, c3}
  RemoteId <- MCRemoteId
  NoConn = NoConn
  EventCapacity = 3
  MaxPackets = 0
  ApiDisconnect = FALSE
  EarlyAccept = TRUE
  MaxSessions = 2
INVARIANTS TypeOK RouterDropsLeavers RouterEntryIsCorrected PeersConnectedIsAccounted SoleConnectionIsRouted
CHECK_DEADLOCK FALSE
