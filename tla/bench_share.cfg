\* two producers and two consumers on one FIFO, and the bodies of processes;
\* 7 and 8 bits stand for 32 and 64
SPECIFICATION BodiesSpec
CONSTANTS
  test = test
  drv = drv
  mon = mon
  scb = scb
  seq = seq
  seq2 = seq2
  clk = clk
  tlm_scb = tlm_scb
  seq_default = seq_default
  afterAp = afterAp
  agentAp = agentAp
  scb_fifo = scb_fifo
  sqr = sqr
  v0 = v0
  None = None
  MaxProcs = 6
  Components <- ShareComponents
  Names <- PollName
  Registered <- PollName
  Events <- AllEvents
  Clk = clk
  MaxTime = 8
  Delays <- AllDelays
  MaxSteps = 60
  MaxObjections = 1
  MaxNba = 0
  Values <- OneValue
  InitialValue = v0
  Tree <- ShareTree
  Body <- ShareBody
  Links <- AllLinks
  Fifos <- AllFifos
  Sequencer = sqr
  EventOf <- AllEventOf
  MaxItems = 12
  Horizon = 4
  Bodies <- AllBodies
  IntWidth = 7
  LongWidth = 8
INVARIANTS
  CoroutineFollows
  NoSleepOnItems
  StreamsInOrder
\* the run phase ends
CHECK_DEADLOCK FALSE
