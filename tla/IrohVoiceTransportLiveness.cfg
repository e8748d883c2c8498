SPECIFICATION FairSpec
CONSTANTS
  c1 = c1
  c2 = c2
  c3 = c3
  p1 = p1
  p2 = p2
  Peers = {p1}
  Conns = {c1, c2}
  RemoteId <- SamePeer
  NoConn = NoConn
  EventCapacity = 3
  MaxPackets = 1
  ApiDisconnect = FALSE
  EarlyAccept = TRUE
  MaxSessions = 2
PROPERTIES RouterForgetsDeadConnection
CHECK_DEADLOCK FALSE
