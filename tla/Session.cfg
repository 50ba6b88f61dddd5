SPECIFICATION SessionSpec
CONSTANTS
  a1 = a1
  a2 = a2
  c1 = c1
  c2 = c2
  Addr = {a1, a2}
  ConstId = {c1, c2}
  Conv = {}
  MAX_HANDSHAKE_CONN_NUM = 2
  MAX_READY_CONN_NUM = 2
  MAX_CONV_NUM = 1
  SERVER_CONN_TIMEOUT = 1
  SERVER_HANDSHAKE_TIMEOUT = 1
  CONV_TIMEOUT = 1
  HEARTBEAT_INTERVAL = 1
  CONN_CLEAR_INTERVAL = 0
  CONN_CLEAR_RATIO = 3
  CONN_CLEAR_MIN = 1
  hb_mode = 0
  MaxTime = 2
  MaxGeneration = 4
  MaxJobs = 1
  RawModes = {"FakeTcp", "EasyFakeTcp", "Udp"}
  MaxId = 3
SYMMETRY Symmetry
INVARIANTS
  SessionTypeOK
  Agreement
PROPERTIES
  ImplementsServer
  ReadySessionKept
CHECK_DEADLOCK FALSE
