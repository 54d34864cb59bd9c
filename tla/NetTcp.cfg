SPECIFICATION FairSpec
CONSTANTS
  NULL = NULL
  Conns = {a, b, c}
  MaxConnections = 2
  SendOnce = {a}
  MaxUnsent = 1
INVARIANTS
  TypeOK
  DeletedUnused
  ClosedIsKnown
PROPERTIES
  ClosedReclaimed
  ForcedEndsClosed
CHECK_DEADLOCK FALSE
