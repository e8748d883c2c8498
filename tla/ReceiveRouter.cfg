SPECIFICATION Spec
CONSTANTS
  Peers = {"a", "b"}
  Tasks = {"old", "new", "other"}
  PeerOf <- MCPeerOf
  PacketsOf <- MCPacketsOf
  PendingCapacity = 2
  MaxStreams = 2
  MaxCalls = 3
  None = None
INVARIANTS TypeOK KnownStreamIsFed DetachedStreamGetsStragglersOnly OnlyBacklogIsOvertaken
PROPERTIES ImplementsDelivery
CHECK_DEADLOCK FALSE
