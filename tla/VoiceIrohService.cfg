SPECIFICATION ServiceSpec
CONSTANTS
  c1 = c1
  c2 = c2
  c3 = c3
  p1 = p1
  p2 = p2
  Peers = {p1, p2}
  Conns = {c1, c2, c3}
  RemoteId <- MCRemoteId
  NoConn = NoConn
  EventCapacity = 2
  MaxPackets = 1
  ApiDisconnect = TRUE
INVARIANTS MappedConnectionIsServed
PROPERTIES DeadConnectionLeavesMap
CHECK_DEADLOCK FALSE
