SPECIFICATION Spec
CONSTANTS
  Address = {"a", "b", "o", "d"}
  Own = "o"
  Loopback = {"d", "o"}
  Alive = {"a", "b"}
  Connection = {"c1", "c2", "c3", "c4"}
  Seeds <- DeadSeedFirst
  Priority <- PriorityOwn
  ConnectionsCount = 2
  WhiteLimit = 2
  GrayLimit = 2
  Visitors = {"b"}
  MaxIncoming = 1
  MaxEvents = 1
  MaxLists = 1
  MaxFaults = 1
CHECK_DEADLOCK FALSE
INVARIANTS
  OutgoingBounded
PROPERTIES
  NothingOpensAfterStop
  EventuallyConnected
