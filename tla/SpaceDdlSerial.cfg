CONSTANTS
  Handlers = {h1, h2}
  NoHandler = NoHandler
  Names = {a}
  Nodes = {n1, n2, n3}
  Routers = {r1}
  NoSpace = NoSpace
  PartitionNum = 2
  ReplicaNum = 1
  MaxSpaceId = 2
  Faults = {"rpc", "ps", "crash", "etcd"}
SPECIFICATION Spec
INVARIANTS  IdleIsClean CreateFailureLocksDdl RouterServesCommitted
PROPERTIES DropIsLogged
SYMMETRY Symmetric
