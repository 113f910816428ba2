SPECIFICATION DeveloperSpec
CONSTANTS
  Workspaces <- MCWorkspaces
  Needs <- MCNeeds
  Lines <- MCLines
  MaxFailures = 1
  Packages = {"op", "arb", "resolver"}
  MaxEdits = 3
  MaxFaults = 1
INVARIANTS
  BuildsCurrent
  OneRunIsEnough
PROPERTY
  Converges
CHECK_DEADLOCK FALSE
