SPECIFICATION Spec
CONSTANTS
  Callers = {r1, r2, h1}
  Routers = {r1, r2}
  Names = {n1}
  Processors = {p1, p2}
  Supports <- SomeSupport
  Priority <- SomePriority
  MaxQueue = 2
  Timeout = 0
  Ttl = 1
  MaxTime = 2
  None = None
INVARIANTS AnswersOwn
