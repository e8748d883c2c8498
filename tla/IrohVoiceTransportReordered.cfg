SPECIFICATION Spec
CONSTANTS
  c1 = c1
  c2 = c2
  c3 = c3
  p1 = p1
  p2 = p2
  Peers = {p1}
  Conns = {c1, c2}
  RemoteId <- SamePeer
  NoConn = NoConn
  EventCapacity = 8
  MaxPackets = 0
  ApiDisconnect = FALSE
  EarlyAccept = FALSE
  MaxSessions = 1
INVARIANTS MappedPeerIsRouted
CHECK_DEADLOCK FALSE
