CONSTANTS
  client = client
  raw = raw
  Peers = {client, raw}
  Pipelining = {raw}
  Scripts <- TwoScripts
  MaxConnections = 1
  ReclaimFactor = 2
  ConnectionLimit = 0
  MaxAcceptFailures = 1
  MaxReadBuffer = 2
  Backlog = 2
  PersistConfigured = TRUE
  Oversized = {}
SPECIFICATION Spec
INVARIANTS QueriesSeeAcked  AckedIsSaved
PROPERTIES PushAcknowledged ServeReturns FittingRequestsAnswered
