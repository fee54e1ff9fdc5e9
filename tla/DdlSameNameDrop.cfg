CONSTANTS
  Handlers = {h1, h2}
  NoHandler = NoHandler
  Names = {a}
  Nodes = {n1, n2}
  Routers = {}
  NoSpace = NoSpace
  PartitionNum = 1
  ReplicaNum = 1
  MaxSpaceId = 2
  Faults = {"contention"}
SPECIFICATION Spec
PROPERTY DropIsLogged
