SPECIFICATION Spec
CONSTANTS
  a = a
  b = b
  Bootstrap = a
  NoRecord = NoRecord
  Addr = {a, b}
  DelAttempts = 2
  Metric = 4
  PROBES = 2
  FINAL_RETRIES = 1
  MaxFaults = 2
  MaxSwitches = 2
INVARIANTS
  ResourcesTypeOK
  SendingProtected
  Owned
PROPERTIES
  Settles
CHECK_DEADLOCK FALSE
