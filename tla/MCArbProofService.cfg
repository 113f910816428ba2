SPECIFICATION Spec
CONSTANTS
  r1 = r1
  r2 = r2
  r3 = r3
  Requests = {r1, r2, r3}
  Blocks = {"b1", "b2", "c2"}
  NumberOf <- MCNumberOf
  SendRoots = {"s1"}
  NullBlock = "null"
  EmptyBlock = "empty"
  NoRoot = "noRoot"
  MaxNodes = 2
  MaxReorgs = 1
  MaxFaults = 1
SYMMETRY MCSymmetry
INVARIANTS
  TypeOK
  OneNode
  Serves
CHECK_DEADLOCK FALSE
