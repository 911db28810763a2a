\* two owners, an unknown task, non-blocking stores, and wake times that wrap
\* or reach UINT64_MAX
SPECIFICATION Spec
CONSTANTS
  test = test
  env = env
  body = body
  other = other
  clk = clk
  fifo = fifo
  v0 = v0
  v1 = v1
  None = None
  MaxProcs = 2
  Components <- AllComponents
  Names <- AllNames
  Registered <- OneName
  Events <- BothEvents
  Clk = clk
  MaxTime = 3
  Delays <- WrapDelays
  MaxSteps = 4
  MaxObjections = 1
  MaxNba = 1
  Values <- TwoValues
  InitialValue = v0
INVARIANTS
  DeadlockIsReal
  DrainedLeavesNothing
\* the run phase ends
CHECK_DEADLOCK FALSE
