SPECIFICATION FairSpec
CONSTANTS
  Sessions <- AllSessions
  MaxTasks = 2
  Timeouts = TRUE
  Faults = TRUE
INVARIANTS
  ProofCoversAllParts
  CounterexampleIsReal
  NothingLeftRunning
  ReportsAgree
PROPERTIES
  SessionEnds
CHECK_DEADLOCK FALSE
