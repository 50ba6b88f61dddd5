SPECIFICATION Spec
CONSTANTS
  a1 = a1
  a2 = a2
  a3 = a3
  a4 = a4
  c1 = c1
  c2 = c2
  Addr = {a1, a2, a3, a4}
  ConstId = {c1, c2}
  Conv = {}
  MAX_HANDSHAKE_CONN_NUM = 3
  MAX_READY_CONN_NUM = 1
  MAX_CONV_NUM = 1
  SERVER_CONN_TIMEOUT = 1
  SERVER_HANDSHAKE_TIMEOUT = 0
  CONV_TIMEOUT = 1
  HEARTBEAT_INTERVAL = 1
  CONN_CLEAR_INTERVAL = 0
  CONN_CLEAR_RATIO = 3
  CONN_CLEAR_MIN = 1
  hb_mode = 0
  MaxTime = 3
  MaxGeneration = 6
  MaxJobs = 1
SYMMETRY Symmetry
INVARIANTS
  TypeOK
  FreeListExact
  AddrTableExact
  ConstIdTableExact
  ReadyCountExact
  JobsReachTheirSession
PROPERTIES
  NeverBackToAnOlderHandshake
CHECK_DEADLOCK FALSE
