\* the UART bench: polling test, driver, monitor and scoreboard
SPECIFICATION FairBSpec
CONSTANTS
  test = test
  drv = drv
  mon = mon
  scb = scb
  seq = seq
  seq2 = seq2
  clk = clk
  tlm_scb = tlm_scb
  seq_default = seq_default
  afterAp = afterAp
  agentAp = agentAp
  scb_fifo = scb_fifo
  sqr = sqr
  v0 = v0
  None = None
  MaxProcs = 6
  Components <- UartComponents
  Names <- BothNames
  Registered <- BothNames
  Events <- AllEvents
  Clk = clk
  MaxTime = 10
  Delays <- AllDelays
  MaxSteps = 60
  MaxObjections = 1
  MaxNba = 2
  Values <- OneValue
  InitialValue = v0
  Tree <- UartTree
  Body <- UartBody
  Links <- AllLinks
  Fifos <- AllFifos
  Sequencer = sqr
  EventOf <- AllEventOf
  MaxItems = 9
  Horizon = 8
PROPERTIES
  Drains
  StepsEnd
\* the run phase ends
CHECK_DEADLOCK FALSE
