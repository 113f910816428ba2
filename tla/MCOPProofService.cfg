SPECIFICATION FairSpec
CONSTANTS
  States = {"s", "t", "u"}
  StateOf <- MCStateOf
  SlotsOf <- MCSlotsOf
  PasserOf <- MCPasserOf
  MaxBlocks = 4
  MaxReorgs = 2
  Delay = 2
  Lag = 1
  MaxOutputs = 4
  MaxRemoved = 2
  MaxFaults = 1
INVARIANTS
  TypeOK
  Serves
PROPERTIES
  AnswersOutput
  Settles
CHECK_DEADLOCK FALSE
