\* programs of three threads, each about one or two primitives; scripts of the
\* thread that calls the UVM services, each about those that share state
SPECIFICATION RuntimeSpec
CONSTANTS
  Threads <- Three
  Roles <- Programs
  Types = {"packet"}
  Permits = 1
  MaxPermits = 3
  MaxSent = 5
  MaxEdges = 3
  MaxTasks = 4
  MaxTime = 2
  MaxObjects = 4
  Scripts <- CallScripts
  ClassTypes = {"packet", "long_packet", ""}
  Names = {"body", "data", "sequencer.default", ""}
  Ports = {"port", "hub", "a_fifo", "b_fifo", ""}
  FifoPorts = {"a_fifo", "b_fifo"}
  Numbers = {0, 1}
  Scopes <- Patterns
  Instances <- Paths
  Bins = {"low", "high"}
  MaxHandles = 3
  MaxLinks = 3
  MaxEntries = 2
  MaxCount = 2
  MaxWrites = 2
INVARIANTS
  NoLostWakeup
  WritesReach
  ListsWhole
PROPERTIES
  EdgeAwaited
  WaitsEnd
  ImplementsQueues
\* everybody may wait for a thread that has no more to do
CHECK_DEADLOCK FALSE
