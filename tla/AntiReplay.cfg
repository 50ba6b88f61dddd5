SPECIFICATION WindowSpec
CONSTANTS
  ANTI_REPLAY_WINDOW_SIZE = 3
  MaxSeq = 8
INVARIANTS
  TypeOK
  WindowExact
PROPERTIES
  ImplementsReplayFilter
