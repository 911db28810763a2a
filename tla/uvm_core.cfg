\* three processes: time, events, spawning and objections
SPECIFICATION Spec
CONSTANTS
  test = test
  env = env
  body = body
  other = other
  clk = clk
  fifo = fifo
  v0 = v0
  v1 = v1
  None = None
  MaxProcs = 3
  Components <- OneComponent
  Names <- OneName
  Registered <- OneName
  Events <- BothEvents
  Clk = clk
  MaxTime = 3
  Delays <- TwoDelays
  MaxSteps = 4
  MaxObjections = 1
  MaxNba = 0
  Values <- OneValue
  InitialValue = v0
INVARIANTS
  SnapshotKeepsTurn
  OneLivePerTask
PROPERTIES
  ImplementsRunPhase
\* the run phase ends
CHECK_DEADLOCK FALSE
