SPECIFICATION Spec
CONSTANTS
  Nibbles = {0, 1}
  Nodes <- MCNodes
  Small = {"x", "y", "x2"}
  Decoded <- MCDecoded
  NULL = NULL
  NoValue = "none"
  InTrie <- MCInTrie
  Roots = {"top", "only", "head", "odd"}
  Keys <- MCKeys
  Proofs <- MCProofs
  Holds <- MCHolds
  Height <- MCHeight
INVARIANTS
  TypeOK
  ReturnsWhatTrieHolds
  AcceptsPaths
CHECK_DEADLOCK FALSE
