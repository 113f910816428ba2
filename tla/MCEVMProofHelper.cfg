SPECIFICATION Spec
CONSTANTS
  WordSize = 5
  ByteBase = 64
  OperandSpan = 8
  StateRoots = {"s0", "s1", "s2", "s3", "s4"}
  StorageRoots = {"t1", "t2", "t3", "t4"}
  NoAccount = "none"
  StorageRootOf <- MCStorageRootOf
  Store <- MCStore
  Programs <- MCPrograms
  Proofs <- MCProofs
INVARIANTS
  TypeOK
  Sound
PROPERTY
  ImplementsAuthenticRead
CHECK_DEADLOCK FALSE
