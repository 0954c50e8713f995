SPECIFICATION MCFairSpec
CONSTANTS
  Parts = {"getters"}
  Callers = {c1}
  Threshold = 2
  MaxTests = 1
  InOrder = TRUE
  MayAbandon = FALSE
  Conns = {x1}
  MaxConns = 1
  MinConns = 0
  Requested = {"debug_command_router"}
  Features = {}
  None = None
PROPERTIES RouterCompletes
CHECK_DEADLOCK FALSE
