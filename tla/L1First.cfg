SPECIFICATION CommandSpec
CONSTANTS
  Packages = {"arb"}
  MaxEdits = 1
  MaxFaults = 0
  Order <- L1First
PROPERTY
  CommandDeploys
