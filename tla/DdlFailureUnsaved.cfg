CONSTANTS
  Handlers = {h1, h2}
  NoHandler = NoHandler
  Names = {a}
  Nodes = {n1, n2}
  Routers = {}
  NoSpace = NoSpace
  PartitionNum = 2
  ReplicaNum = 1
  MaxSpaceId = 2
  Faults = {"ps"}
SPECIFICATION Spec
INVARIANT FailureIsSaved
