\* a |=> b between atoms, without always
SPECIFICATION MonitorsSpec
CONSTANTS
  Letters <- Atoms
  Automata <- AllAutomata
  MaxWord = 4
  Properties <- Bare
  MaxSamples = 4
INVARIANTS
  ViolationExact
\* the samples are bounded
CHECK_DEADLOCK FALSE
