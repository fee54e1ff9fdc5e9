CONSTANTS
  Nodes = {n1, n2}
  Clients = {c1, c2}
  Nil = Nil
  MaxTerm = 2
  MaxLog = 2
  MaxSends = 2
  MaxFaults = 1
SPECIFICATION Spec
INVARIANTS TypeOK StoredIsCommitted ReplicaIsReplay  CommittedInTermRead
SYMMETRY Symmetric
CHECK_DEADLOCK FALSE
