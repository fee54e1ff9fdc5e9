CONSTANTS
  Handlers = {h1, h2}
  NoHandler = NoHandler
  Names = {a}
  Nodes = {n1, n2}
  Routers = {r1}
  NoSpace = NoSpace
  PartitionNum = 2
  ReplicaNum = 1
  MaxSpaceId = 1
  Faults = {"rpc", "ps", "crash", "contention"}
SPECIFICATION FairSpec
PROPERTIES RequestAnswered
