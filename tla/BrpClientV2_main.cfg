SPECIFICATION FairSpec
CONSTANTS
  Callers = {c1, c2}
  Threshold = 1
  MaxTests = 1
  MaxAttempts = 2
  Conns = {x1}
  MaxRequests = 2
INVARIANTS AnswerIsOwn ExecutedPerAttempt
PROPERTIES  RequestEnds
