SPECIFICATION Spec
CONSTANTS
  Item = {"x", "y", "long"}
  Size <- MCSize
  Bad = "bad"
  PoolSize = 1
  MaxItems = 2
  MaxCrashes = 2
INVARIANTS
  MemoryMatchesIndex
  IndexReadable
  CacheCoherent
PROPERTIES
  StackSpec
