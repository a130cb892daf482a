SPECIFICATION Spec
CONSTANTS
  Address = {"b", "o"}
  Own = "o"
  Loopback = {"o"}
  Alive = {"b"}
  Connection = {"c1", "c2", "c3"}
  Seeds <- NoPeers
  Priority <- NoPeers
  ConnectionsCount = 1
  WhiteLimit = 1
  GrayLimit = 1
  Visitors = {"b"}
  MaxIncoming = 1
  MaxEvents = 1
  MaxLists = 0
  MaxFaults = 0
CHECK_DEADLOCK FALSE
PROPERTIES
  StopEndsHandlers
