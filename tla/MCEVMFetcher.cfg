SPECIFICATION Spec
CONSTANTS
  WordSize = 4
  ByteBase = 32
  OperandSpan = 4
  StateRoots = {}
  StorageRoots = {}
  NoAccount = "none"
  StorageRootOf <- MCNone
  Store <- MCNone
  MAX_COMMANDS = 2
  MAX_CONSTANTS = 4
  BaseSlots <- MCBaseSlots
  Elements <- MCElements
  MaxOverflow = 2
INVARIANTS
  TypeOK
  Faithful
CHECK_DEADLOCK FALSE
