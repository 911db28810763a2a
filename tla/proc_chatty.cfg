\* a solver that never stops writing progress lines
SPECIFICATION FairSpec
CONSTANTS
  safety = safety
  liveness = liveness
  Jobs <- OneJob
  Limited <- OneJob
  PipeSize = 1
  MaxLines <- TwoOrOne
  Chatty <- OneJob
  Errors = FALSE
  CompilerPid = 2
  Adopter = 1
PROPERTIES
  TimeoutsReturn
\* the calls end
CHECK_DEADLOCK FALSE
