CONSTANTS
  Handlers = {h1, h2}
  NoHandler = NoHandler
  Names = {a, b}
  Nodes = {n1, n2}
  Routers = {}
  NoSpace = NoSpace
  PartitionNum = 1
  ReplicaNum = 1
  MaxSpaceId = 2
  Faults = {"rpc", "ps", "crash", "contention"}
SPECIFICATION Spec
INVARIANTS TypeOK PlacementIsFree FailureIsSaved
PROPERTIES CatalogSpec
SYMMETRY Symmetric
