SPECIFICATION Spec
CONSTANTS
  Addr = {1, 2}
  MAX_ENDPOINT_CANDIDATES = 2
  AfterFailures = 1
  PreferredRound = 2
  RollbackWindow = 8
  MaxAge = 3
  ProbationTime = 1
  MaxGap = 1
  MIN_PROMOTION_DATA_PACKETS = 1
  CLIENT_HANDSHAKE_TIMEOUT = 2
  CLIENT_CONN_TIMEOUT = 0
  BackoffMin = 1
  BackoffMax = 1
  QueryTimes = {0, 2}
  bootstrap = 0
  CacheAges = {0, 3}
  hb_mode = 1
  TransportDisables = FALSE
  MaxReconnects = 1
INVARIANTS
  EndpointTypeOK
  ProbationSound
  RestartFindsCommitted
  ProbesPrecharged
  FirstRoundReturnable

  
CHECK_DEADLOCK FALSE
