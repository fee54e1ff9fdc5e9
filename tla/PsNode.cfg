CONSTANTS
  Spaces = {a, b}
  None = None
  Torn = Torn
  Base = Base
  NoBlock = NoBlock
  MaxId = 3
SPECIFICATION Spec
INVARIANTS TypeOK AckedIsKept WedgeIsVolatile RunningRaftHasDir QuietNodeAgrees
PROPERTIES RaftDirKept
SYMMETRY Symmetric
CHECK_DEADLOCK FALSE
