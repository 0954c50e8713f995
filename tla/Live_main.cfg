SPECIFICATION MCFairSpec
CONSTANTS
  Parts = {"breaker", "pool", "heartbeat", "resources", "letters", "logins", "batches", "getters", "queries"}
  Callers = {c1, c2}
  Threshold = 1
  MaxTests = 1
  InOrder = TRUE
  MayAbandon = FALSE
  Conns = {x1}
  MaxConns = 1
  MinConns = 0
  Requested = {"visual_overlay_processor", "debug_command_router"}
  Features = {"entity-inspection", "session-management"}
  None = None
INVARIANTS TypesOK
PROPERTIES BreakerRecovers CallsEnd OutageReported OpenCloses GetsEnd 
CHECK_DEADLOCK FALSE
