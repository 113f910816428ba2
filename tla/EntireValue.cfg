SPECIFICATION FetchSpec
CONSTANTS
  WordSize = 5
  ByteBase = 64
  OperandSpan = 8
  StateRoots = {"s0", "s1", "s2", "s3", "s4"}
  StorageRoots = {"t1", "t2", "t3", "t4"}
  NoAccount = "none"
  StorageRootOf <- MCStorageRootOf
  Store <- MCStore
  Programs <- MCPrograms
  MaxWords = 2
  MaxFaults = 0
  MaxReorgs = 0
INVARIANT
  EntireValue
CHECK_DEADLOCK FALSE
