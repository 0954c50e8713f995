SPECIFICATION Spec
CONSTANTS
  Tools = {t1}
  Transports = {"WebSocket"}
  MaxStreams = 1
  MaxRequests = 2
  MaxRetries = 2
  MaxOutages = 1
INVARIANTS AnswerIsOwn
