SPECIFICATION FairSpec
CONSTANTS
  Inputs <- MCInputs
  Outputs <- MCOutputs
  Results <- MCResults
  Clocks = {"clk"}
  Derived <- MCDerived
  Types = {"test", "item"}
  Top = "test"
  Has <- MCHas
  Capacity = 2
  MaxRuns = 2
  MaxTicks = 2
  MaxNba = 1
  MaxNodes = 2
INVARIANTS
  OneRisingEdge
  PhasesInOrder
  StoresStayHome
PROPERTIES
  AnswersWhatIsOffered
  SynchronizeReturns
CHECK_DEADLOCK FALSE
