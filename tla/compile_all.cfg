SPECIFICATION FormalSpec
CONSTANTS
  Designs <- MCDesigns
  Registers = {4, 8}
  StarLimit = 3
  Horizon = 9
  Beyond = 16
  Spot <- MCSpot
INVARIANTS
  EirMeansSource
  MachineComputes
  ModelFollows
  DirectivesFollowed
  FormulaMeans
  UnknownsStayUnknown
  EquationsDecided
CHECK_DEADLOCK FALSE
