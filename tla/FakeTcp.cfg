SPECIFICATION Spec
CONSTANTS
  Space = 64
  MAX_DATA_LEN = 2
  Window = 4
  HandshakeLen = 2
  Lengths = {2}
  Starts <- MCStarts
  SeqModes = {2, 3}
  MaxData = 3
  MaxJobs = 1
INVARIANTS
  StreamsSound
PROPERTIES
  Established
