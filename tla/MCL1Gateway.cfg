SPECIFICATION FairSpec
CONSTANTS
  Requests = {"r1", "r2"}
  States = {"g", "s", "t", "u"}
  StateOf <- MCStateOf
  SlotsOf <- MCSlotsOf
  Window = 2
  Lag = 1
  MaxBlocks = 3
  MaxReorgs = 1
  MaxFaults = 1
  MaxRestarts = 1
INVARIANTS
  TypeOK
  Serves
  AppsAreFew
PROPERTIES
  AnswersRecent
  Settles
CHECK_DEADLOCK FALSE
