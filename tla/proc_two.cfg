\* a solver that does as it likes under a timeout, beside one without a timeout
\* that writes its answer and ends, and system calls that may fail
SPECIFICATION Patient
CONSTANTS
  safety = safety
  liveness = liveness
  Jobs <- BothJobs
  Limited <- OneJob
  PipeSize = 1
  MaxLines <- TwoOrOne
  Chatty <- OneJob
  Errors = TRUE
  CompilerPid = 2
  Adopter = 1
INVARIANTS
  TimeoutsReach
  NoSolverLeftAlone
PROPERTIES
  SignalsMeetChild
  ImplementsToolCall
  CallsReturn
\* the calls end
CHECK_DEADLOCK FALSE
