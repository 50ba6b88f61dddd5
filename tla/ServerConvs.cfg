SPECIFICATION Spec
CONSTANTS
  a1 = a1
  a2 = a2
  v1 = v1
  v2 = v2
  c1 = c1
  c2 = c2
  Addr = {a1, a2}
  ConstId = {c1, c2}
  Conv = {v1, v2}
  MAX_HANDSHAKE_CONN_NUM = 2
  MAX_READY_CONN_NUM = 2
  MAX_CONV_NUM = 1
  SERVER_CONN_TIMEOUT = 1
  SERVER_HANDSHAKE_TIMEOUT = 0
  CONV_TIMEOUT = 1
  HEARTBEAT_INTERVAL = 1
  CONN_CLEAR_INTERVAL = 0
  CONN_CLEAR_RATIO = 3
  CONN_CLEAR_MIN = 1
  hb_mode = 1
  MaxTime = 2
  MaxGeneration = 5
  MaxJobs = 1
SYMMETRY Symmetry
INVARIANTS
  SocketsExact
PROPERTIES
  ConversationsOutliveReconnects
CHECK_DEADLOCK FALSE
