SPECIFICATION FairSpec
CONSTANTS
  Tools = {t1, t2}
  Transports = {"WebSocket", "Http"}
  MaxStreams = 2
  MaxRequests = 2
  MaxRetries = 2
  MaxOutages = 1
INVARIANTS CleanStreamHasOwnAnswer FlagMatchesStream
  
