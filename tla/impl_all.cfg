\* implications that need no automaton, but the bare |=>, and automata
SPECIFICATION MonitorsSpec
CONSTANTS
  Letters <- Atoms
  Automata <- AllAutomata
  MaxWord = 4
  Properties <- AllShapes
  MaxSamples = 4
INVARIANTS
  VerdictsExact
  RunFollowed
\* the samples are bounded
CHECK_DEADLOCK FALSE
