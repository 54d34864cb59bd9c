SPECIFICATION Spec
CONSTANTS
  NULL = NULL
  Conns = {a, b}
  MaxConnections = 1
  SendOnce = {a}
  MaxUnsent = 1
PROPERTY RefusedOnlyWhenFull
CHECK_DEADLOCK FALSE
