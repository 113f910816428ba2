-------------------------- MODULE MerkleTrie_proofs --------------------------
(***************************************************************************)
(* Proofs about MerkleTrie, for every trie, key and proof: get returns     *)
(* what the trie holds at the key or reverts.                              *)
(*                                                                         *)
(* ReturnsWhatTrieHolds speaks of the end of the walk only.  The invariant *)
(* says what the walk keeps: the value searched for is the one below       *)
(* currentNodeID at what is left of the key.                               *)
(***************************************************************************)
EXTENDS MerkleTrie, TLAPS

Walking == mpc \in {"parse", "walk"}

Typed ==
  /\ root \in Roots /\ key \in Keys /\ proof \in Proofs
  /\ mpc \in {"parse", "walk", "get", "returned", "reverted"}
  /\ pathLength \in 0 .. Len(proof)
  /\ currentKeyIndex \in 0 .. Len(key)
  /\ currentKeyIncrement \in Nat
  /\ Walking => keyIndex <= Len(key)

\* Where the walk is: at the root, at a node of the trie or nowhere.
Located ==
  Walking /\ root \in InTrie =>
    /\ currentKeyIndex < Len(key)
    /\ keyIndex = 0 => currentNodeID = Hash(root)
    /\ keyIndex # 0 => currentNodeID = NULL \/ \E c \in InTrie : currentNodeID = NodeID(c)

\* The value searched for is below that node.
Below == Walking /\ root \in InTrie => Holds(root, key) = Under(currentNodeID, keyRemainder)

\* What the end of the walk says of the value.
Found ==
  mpc = "get" /\ root \in InTrie =>
    /\ noRemainder => /\ pathLength > 0
                      /\ Decoded[proof[pathLength]].value = Holds(root, key)
    /\ ~noRemainder /\ currentNodeID = NULL => Holds(root, key) = NoValue

TrieInv == Typed /\ Located /\ Below /\ Found /\ ReturnsWhatTrieHolds

-----------------------------------------------------------------------------
(* What is left of a key, and node IDs                                     *)

\* The rest of a key is a sequence of nibbles and the rest of its rest is a rest.
LEMMA RestOfKey ==
  ASSUME NEW k \in Keys, NEW m \in 0 .. Len(k)
  PROVE  /\ Rest(k, m) \in Rests
         /\ Rest(k, m) \in Seq(Nibbles)
         /\ Len(Rest(k, m)) = Len(k) - m
         /\ \A n \in 0 .. Len(k) - m : Rest(Rest(k, m), n) = Rest(k, m + n)
         /\ m < Len(k) => Rest(k, m)[1] = k[m + 1]
         /\ Rest(k, m) = <<>> <=> m = Len(k)
  <1>1. k \in Seq(Nibbles)
    BY NodeAssumption
  <1>2. Rest(k, m) \in Rests
    BY DEF Rests
  <1>3. Rest(k, m) \in Seq(Nibbles) /\ Len(Rest(k, m)) = Len(k) - m
    BY <1>1 DEF Rest
  <1>4. m < Len(k) => Rest(k, m)[1] = k[m + 1]
    BY <1>1 DEF Rest
  <1>5. ASSUME NEW n \in 0 .. Len(k) - m
        PROVE  Rest(Rest(k, m), n) = Rest(k, m + n)
    BY <1>1, <1>3, <1>5 DEF Rest
  <1>6. Rest(k, m) = <<>> <=> m = Len(k)
    BY <1>1, <1>3
  <1> QED
    BY <1>2, <1>3, <1>4, <1>5, <1>6

\* The rest from the first nibble on is the key, which is not empty.
LEMMA WholeKey ==
  ASSUME NEW k \in Keys
  PROVE  Len(k) \in Nat \ {0} /\ Rest(k, 0) = k
  <1>1. k \in Seq(Nibbles) /\ k # <<>>
    BY NodeAssumption
  <1> QED
    BY <1>1 DEF Rest

\* A node is told by what another node holds of it.
LEMMA NodeIDs ==
  ASSUME NEW n \in Nodes, NEW c \in Nodes
  PROVE  /\ Hash(n) = Hash(c) => n = c
         /\ NodeID(n) = NodeID(c) => n = c
         /\ NodeID(n) # NULL /\ Hash(n) # NULL
         /\ NodeID(n).node = n /\ Hash(n).node = n
  BY NodeAssumption DEF NodeID, Hash, Raw

\* A node of the proof that passes the check is the trie's, and the value is below it.
LEMMA CurrentNode ==
  ASSUME TrieInv, Visiting, IsCurrent, root \in InTrie
  PROVE  /\ currentNode \in InTrie
         /\ Holds(root, key) = Holds(currentNode, keyRemainder)
  <1>1. currentNode \in Nodes /\ root \in Nodes
    BY NodeAssumption DEF TrieInv, Typed, Visiting, currentNode
  <1>2. CASE keyIndex = 0
    <2>1. Hash(currentNode) = Hash(root)
      BY <1>2 DEF TrieInv, Located, Walking, Visiting, IsCurrent
    <2> QED
      BY <1>1, <1>2, <2>1, NodeIDs
         DEF TrieInv, Located, Below, Walking, Visiting, Under
  <1>3. CASE keyIndex # 0
    <2>1. NodeID(currentNode) # NULL /\ currentNodeID = NodeID(currentNode)
      BY <1>1, <1>3, NodeIDs DEF IsCurrent
    <2>2. PICK c \in InTrie : currentNodeID = NodeID(c)
      BY <1>3, <2>1 DEF TrieInv, Located, Walking, Visiting
    <2>3. c = currentNode
      BY <1>1, <2>1, <2>2, NodeIDs, NodeAssumption
    <2> QED
      BY <1>1, <2>1, <2>2, <2>3, NodeIDs
         DEF TrieInv, Below, Walking, Visiting, Under
  <1> QED
    BY <1>2, <1>3

-----------------------------------------------------------------------------
(* Every step keeps the invariant                                          *)

\* The walk starts at the root with the whole key.
LEMMA TrieInit == Init => TrieInv
  <1> SUFFICES ASSUME Init PROVE TrieInv
    OBVIOUS
  <1>1. root \in Nodes
    BY NodeAssumption DEF Init
  <1>2. keyIndex = 0 /\ keyRemainder = key /\ Len(key) \in Nat \ {0}
    BY WholeKey DEF Init, keyIndex, keyRemainder
  <1>3. Under(currentNodeID, key) = Holds(root, key)
    BY <1>1, NodeIDs DEF Init, Under
  <1>4. Len(proof) \in Nat
    BY NodeAssumption DEF Init
  <1> QED
    BY <1>2, <1>3, <1>4
       DEF Init, TrieInv, Typed, Located, Below, Found, Walking, ReturnsWhatTrieHolds

\* Going on to a node of the trie keeps the value below it.
LEMMA ContinueKeeps ==
  ASSUME TrieInv, Visiting, NEW id, NEW inc \in Nat, keyIndex + inc <= Len(key),
         Continue(id, inc),
         root \in InTrie =>
           /\ keyIndex < Len(key) /\ inc # 0
           /\ id = NULL \/ \E c \in InTrie : id = NodeID(c)
           /\ Holds(root, key) = Under(id, Rest(key, keyIndex + inc))
  PROVE  TrieInv'
  <1>1. keyIndex \in Nat /\ Len(key) \in Nat /\ Len(proof) \in Nat
    BY NodeAssumption, WholeKey DEF TrieInv, Typed, keyIndex
  <1>2. keyIndex' = keyIndex + inc
    BY DEF Continue, keyIndex
  <1>3. keyRemainder' = Rest(key, keyIndex + inc)
    BY <1>2 DEF Continue, keyRemainder, args
  <1>4. Typed'
    BY <1>1, <1>2 DEF TrieInv, Typed, Continue, Visiting, args
  <1>5. Located' /\ Below'
    BY <1>1, <1>2, <1>3 DEF Located, Below, Walking, Continue, Visiting, args
  <1>6. mpc' = "walk"
    BY DEF Continue, Visiting
  <1> QED
    BY <1>4, <1>5, <1>6 DEF TrieInv, Found, ReturnsWhatTrieHolds

\* Ending the walk at a node that says what the trie holds.
LEMMA BreakKeeps ==
  ASSUME TrieInv, Visiting, NEW id, NEW index \in 0 .. Len(key), Break(id, index),
         root \in InTrie =>
           /\ index = Len(key) => Decoded[currentNode].value = Holds(root, key)
           /\ index # Len(key) => Holds(root, key) = NoValue
  PROVE  TrieInv'
  <1>1. Len(key) \in Nat /\ Len(proof) \in Nat
    BY NodeAssumption, WholeKey DEF TrieInv, Typed
  <1>2. Typed'
    BY <1>1 DEF TrieInv, Typed, Walking, Break, Visiting, args
  <1>3. Found'
    BY <1>1 DEF TrieInv, Typed, Found, Break, Visiting, noRemainder, currentNode, args
  <1>4. mpc' = "get"
    BY DEF Break
  <1> QED
    BY <1>2, <1>3, <1>4 DEF TrieInv, Located, Below, Walking, ReturnsWhatTrieHolds

\* Reverting says nothing of the value.
LEMMA RevertKeeps == TrieInv /\ Revert => TrieInv'
  BY DEF TrieInv, Revert, Typed, Located, Below, Found, Walking, ReturnsWhatTrieHolds,
         args, walk

\* Parsing moves nothing.
LEMMA ParseProofKeeps == TrieInv /\ ParseProof => TrieInv'
  <1> SUFFICES ASSUME TrieInv, ParseProof,
                      mpc' = "walk" /\ UNCHANGED <<args, walk, value>>
               PROVE  TrieInv'
    BY RevertKeeps DEF ParseProof
  <1>1. keyIndex' = keyIndex /\ keyRemainder' = keyRemainder
    BY DEF keyIndex, keyRemainder, walk, args
  <1> QED
    BY <1>1 DEF ParseProof, TrieInv, Typed, Located, Below, Found, Walking,
                ReturnsWhatTrieHolds, args, walk

\* The value below a branch is below its child for the next nibble.
LEMMA BranchKeeps == TrieInv /\ Branch => TrieInv'
  <1> SUFFICES ASSUME TrieInv, Branch PROVE TrieInv'
    OBVIOUS
  <1>1. keyIndex \in 0 .. Len(key) /\ Len(key) \in Nat /\ key \in Keys
    BY WholeKey DEF TrieInv, Typed, Walking, Branch, Visiting, keyIndex
  <1>2. keyRemainder \in Rests /\ decoded.type = "branch"
    BY <1>1, RestOfKey DEF keyRemainder, Branch
  <1>3. ASSUME root \in InTrie
        PROVE  /\ currentNode \in InTrie
               /\ Holds(root, key) =
                    IF keyRemainder = <<>> THEN decoded.value
                    ELSE Under(decoded.child[keyRemainder[1]], Rest(keyRemainder, 1))
    <2>1. currentNode \in InTrie /\ Holds(root, key) = Holds(currentNode, keyRemainder)
      BY <1>3, CurrentNode DEF Branch
    <2> QED
      BY <1>2, <2>1, HoldsAssumption DEF decoded
  <1>4. CASE keyIndex = Len(key)
    <2>1. keyRemainder = <<>>
      BY <1>1, <1>4, RestOfKey DEF keyRemainder
    <2>2. Break(currentNodeID, keyIndex)
      BY <1>4 DEF Branch
    <2> QED
      BY <1>1, <1>3, <1>4, <2>1, <2>2, BreakKeeps DEF Branch, decoded
  <1>5. CASE keyIndex # Len(key)
    <2> DEFINE x == key[keyIndex + 1]
    <2>1. /\ keyRemainder # <<>> /\ keyRemainder[1] = x
          /\ Rest(keyRemainder, 1) = Rest(key, keyIndex + 1)
      BY <1>1, <1>5, RestOfKey DEF keyRemainder
    <2>2. x \in Nibbles
      BY <1>1, <1>5, NodeAssumption
    <2>3. ASSUME root \in InTrie
          PROVE  decoded.child[x] = NULL \/ \E c \in InTrie : decoded.child[x] = NodeID(c)
      BY <1>2, <1>3, <2>2, <2>3, TrieAssumption DEF decoded
    <2>4. Continue(decoded.child[x], 1)
      BY <1>5 DEF Branch
    <2>5. root \in InTrie => Holds(root, key) = Under(decoded.child[x], Rest(key, keyIndex + 1))
      BY <1>3, <2>1
    <2> HIDE DEF x
    <2> QED
      BY <1>1, <1>5, <2>3, <2>4, <2>5, ContinueKeeps DEF Branch
  <1> QED
    BY <1>4, <1>5

\* The value below a leaf is its own, for its own path only.
LEMMA LeafKeeps == TrieInv /\ Leaf => TrieInv'
  <1> SUFFICES ASSUME TrieInv, Leaf, ~PathTooLong, Break(NULL, LeafIndex) PROVE TrieInv'
    BY RevertKeeps DEF Leaf
  <1>1. keyIndex \in 0 .. Len(key) /\ Len(key) \in Nat /\ key \in Keys
    BY WholeKey DEF TrieInv, Typed, Walking, Leaf, Visiting, keyIndex
  <1>2. LeafIndex \in 0 .. Len(key)
    BY <1>1 DEF LeafIndex
  <1>3. ASSUME root \in InTrie
        PROVE  /\ LeafIndex = Len(key) => decoded.value = Holds(root, key)
               /\ LeafIndex # Len(key) => Holds(root, key) = NoValue
    <2>1. currentNode \in InTrie /\ Holds(root, key) = Holds(currentNode, keyRemainder)
      BY <1>3, CurrentNode DEF Leaf
    <2>2. keyRemainder \in Rests /\ decoded.type = "leaf" /\ decoded.path \in Seq(Nibbles)
      BY <1>1, <2>1, RestOfKey, NodeAssumption DEF keyRemainder, Leaf, decoded
    <2>3. Holds(root, key) = IF keyRemainder = decoded.path THEN decoded.value ELSE NoValue
      BY <2>1, <2>2, HoldsAssumption DEF decoded
    <2>4. keyIndex = Len(key) => keyRemainder = <<>> /\ Len(keyRemainder) = 0
      BY <1>1, RestOfKey DEF keyRemainder
    <2>5. decoded.path # keyRemainder => keyIndex # Len(key)
      BY <2>2, <2>4 DEF PathTooLong
    <2> QED
      BY <2>3, <2>5 DEF LeafIndex
  <1> QED
    BY <1>2, <1>3, BreakKeeps DEF Leaf, decoded

\* The value below an extension is below its next node, past its path only.
LEMMA ExtensionKeeps == TrieInv /\ Extension => TrieInv'
  <1> SUFFICES ASSUME TrieInv, Extension, ~PathTooLong PROVE TrieInv'
    BY RevertKeeps DEF Extension
  <1>1. keyIndex \in 0 .. Len(key) /\ Len(key) \in Nat /\ key \in Keys
    BY WholeKey DEF TrieInv, Typed, Walking, Extension, Visiting, keyIndex
  <1>2. decoded.type = "extension" /\ decoded.path \in Seq(Nibbles)
    BY NodeAssumption DEF TrieInv, Typed, Extension, Visiting, currentNode, decoded
  <1>3. /\ Len(decoded.path) \in Nat
        /\ Len(decoded.path) <= Len(key) - keyIndex
    BY <1>1, <1>2, RestOfKey DEF keyRemainder, PathTooLong
  <1>4. ASSUME root \in InTrie
        PROVE  /\ Len(decoded.path) # 0 /\ keyIndex < Len(key)
               /\ \E c \in InTrie : decoded.next = NodeID(c)
               /\ Holds(root, key) =
                    IF IsPrefix(decoded.path, keyRemainder)
                    THEN Under(decoded.next, Rest(key, keyIndex + Len(decoded.path)))
                    ELSE NoValue
    <2>1. currentNode \in InTrie /\ Holds(root, key) = Holds(currentNode, keyRemainder)
      BY <1>4, CurrentNode DEF Extension
    <2>2. decoded.path # <<>> /\ \E c \in InTrie : decoded.next = NodeID(c)
      BY <1>2, <2>1, TrieAssumption DEF decoded
    <2>3. /\ keyRemainder \in Rests
          /\ Rest(keyRemainder, Len(decoded.path)) = Rest(key, keyIndex + Len(decoded.path))
      BY <1>1, <1>3, RestOfKey DEF keyRemainder
    <2>4. Holds(root, key) = IF IsPrefix(decoded.path, keyRemainder)
                             THEN Under(decoded.next, Rest(keyRemainder, Len(decoded.path)))
                             ELSE NoValue
      BY <1>2, <2>1, <2>3, HoldsAssumption DEF decoded
    <2> QED
      BY <1>1, <1>2, <1>3, <2>2, <2>3, <2>4
  <1>5. CASE IsPrefix(decoded.path, keyRemainder)
    <2>1. Continue(decoded.next, Len(decoded.path))
      BY <1>5 DEF Extension
    <2> QED
      BY <1>1, <1>3, <1>4, <1>5, <2>1, ContinueKeeps DEF Extension
  <1>6. CASE ~IsPrefix(decoded.path, keyRemainder)
    <2>1. Break(NULL, keyIndex)
      BY <1>6 DEF Extension
    <2> QED
      BY <1>1, <1>4, <1>6, <2>1, BreakKeeps DEF Extension
  <1> QED
    BY <1>5, <1>6

\* When the nodes run out something of the key is left.
LEMMA EndOfProofKeeps == TrieInv /\ EndOfProof => TrieInv'
  <1> SUFFICES ASSUME TrieInv, EndOfProof PROVE TrieInv'
    OBVIOUS
  <1>1. root \in InTrie => currentKeyIndex < Len(key)
    BY DEF TrieInv, Located, Walking, EndOfProof
  <1>2. Found'
    BY <1>1, WholeKey DEF TrieInv, Typed, Below, Walking, Found, noRemainder, EndOfProof, Under, args, walk
  <1> QED
    BY <1>2 DEF TrieInv, Typed, Located, Below, Walking, ReturnsWhatTrieHolds, EndOfProof,
                args, walk

\* get returns what the end of the walk says.
LEMMA GetKeeps == TrieInv /\ Get => TrieInv'
  <1> SUFFICES ASSUME TrieInv, Get, Accepts,
                      value' = (IF noRemainder THEN Decoded[proof[pathLength]].value
                                               ELSE NoValue),
                      mpc' = "returned" /\ UNCHANGED <<args, walk>>
               PROVE  TrieInv'
    BY RevertKeeps DEF Get
  <1>1. root \in InTrie => value' = Holds(root, key)
    BY DEF TrieInv, Found, Get, Accepts
  <1> QED
    BY <1>1 DEF TrieInv, Typed, Located, Below, Walking, Found, ReturnsWhatTrieHolds,
                args, walk

\* Every step keeps the invariant.
LEMMA TrieNext == TrieInv /\ [Next]_vars => TrieInv'
  <1> SUFFICES ASSUME TrieInv, [Next]_vars PROVE TrieInv'
    OBVIOUS
  <1>1. CASE ParseProof
    BY <1>1, ParseProofKeeps
  <1>2. CASE InvalidHash \/ Unparseable
    BY <1>2, RevertKeeps DEF InvalidHash, Unparseable
  <1>3. CASE Branch
    BY <1>3, BranchKeeps
  <1>4. CASE Leaf
    BY <1>4, LeafKeeps
  <1>5. CASE Extension
    BY <1>5, ExtensionKeeps
  <1>6. CASE EndOfProof
    BY <1>6, EndOfProofKeeps
  <1>7. CASE Get
    BY <1>7, GetKeeps
  <1>8. CASE UNCHANGED vars
    BY <1>8 DEF vars, args, walk, TrieInv, Typed, Located, Below, Found, Walking,
                ReturnsWhatTrieHolds, keyIndex, keyRemainder, noRemainder
  <1> QED
    BY <1>1, <1>2, <1>3, <1>4, <1>5, <1>6, <1>7, <1>8 DEF Next

\* The walk is always at the node below which the value is.
THEOREM TrieInvariance == Spec => []TrieInv
  BY TrieInit, TrieNext, PTL DEF Spec

(***************************************************************************)
(* MerkleTrie.sol: get never returns another value than the one the trie   *)
(* holds at the key, nor an empty one for a key that exists, whatever      *)
(* nodes the proof consists of.                                            *)
(***************************************************************************)
THEOREM TrieSoundness == Spec => []ReturnsWhatTrieHolds
  <1>1. TrieInv => ReturnsWhatTrieHolds
    BY DEF TrieInv
  <1> QED
    BY <1>1, TrieInvariance, PTL

\* The indices into the proof and the key stay inside them.
THEOREM TrieTypeCorrect == Spec => []TypeOK
  <1>1. TrieInv => TypeOK
    <2> SUFFICES ASSUME TrieInv PROVE TypeOK
      OBVIOUS
    <2>1. Len(key) \in Nat
      BY WholeKey DEF TrieInv, Typed
    <2> QED
      BY <2>1 DEF TrieInv, Typed, Located, Walking, TypeOK, keyIndex
  <1> QED
    BY <1>1, TrieInvariance, PTL

-----------------------------------------------------------------------------
(* Completeness: the path of a key is accepted.                            *)

\* Where the walk is on the path p to which at belongs.
Following(at) ==
  /\ mpc # "reverted"
  /\ mpc = "parse" => pathLength = 0
  /\ Walking /\ pathLength < Len(proof) =>
       /\ keyIndex = at[pathLength + 1] /\ IsCurrent
       /\ currentNode \in InTrie /\ Height(currentNode) = Len(key) - keyIndex
  /\ mpc = "walk" /\ pathLength = Len(proof) => currentNodeID = NULL
  /\ mpc = "get" => Accepts

\* proof is the path of the key, as at says.
OnItsPath(at) ==
  /\ root \in InTrie /\ proof # <<>> /\ proof[1] = root
  /\ Descends(key, proof, at) /\ EndsAt(key, proof[Len(proof)], at[Len(proof)])

\* On the path of its key the walk follows it.
PathInv == TrieInv /\ \A at : OnItsPath(at) => Following(at)

\* The walk begins at the root, which is where the path begins.
LEMMA PathInit == Init => PathInv
  <1> SUFFICES ASSUME Init, NEW at, OnItsPath(at) PROVE Following(at)
    BY TrieInit DEF PathInv
  <1>1. keyIndex = 0 /\ at[1] = 0 /\ currentNode = root /\ currentNodeID = Hash(root)
    BY DEF Init, keyIndex, currentNode, OnItsPath, Descends
  <1>2. Height(root) = Len(key) /\ Len(key) \in Nat
    BY HeightAssumption, WholeKey DEF Init, OnItsPath
  <1>3. Len(proof) \in Nat \ {0}
    BY NodeAssumption DEF Init, OnItsPath
  <1> QED
    BY <1>1, <1>2, <1>3 DEF Init, Following, Walking, IsCurrent, OnItsPath

\* Every node of the path but the last leads to the next one.
LEMMA PathStep ==
  ASSUME TrieInv, NEW at, OnItsPath(at), Following(at), Visiting, pathLength + 1 < Len(proof)
  PROVE  /\ decoded.type \in {"branch", "extension"}
         /\ decoded.type = "branch" =>
              /\ keyIndex < Len(key)
              /\ decoded.child[key[keyIndex + 1]] = NodeID(proof[pathLength + 2])
              /\ at[pathLength + 2] = keyIndex + 1
         /\ decoded.type = "extension" =>
              /\ IsPrefix(decoded.path, keyRemainder)
              /\ decoded.next = NodeID(proof[pathLength + 2])
              /\ at[pathLength + 2] = keyIndex + Len(decoded.path)
  <1> DEFINE m == pathLength + 1
  <1>1. m \in 1 .. Len(proof) - 1 /\ m + 1 = pathLength + 2
    BY NodeAssumption DEF TrieInv, Typed
  <1>2. at[m] = keyIndex /\ proof[m] = currentNode
    BY DEF Following, Visiting, Walking, currentNode
  <1> HIDE DEF m
  <1> QED
    BY <1>1, <1>2 DEF OnItsPath, Descends, decoded, keyRemainder

\* The walk goes on to the next node of the path, or off it to nowhere.
LEMMA FollowOn ==
  ASSUME PathInv, NEW at, OnItsPath(at), Visiting, NEW id, NEW inc \in Nat, Continue(id, inc),
         pathLength + 1 < Len(proof) =>
           /\ inc # 0 /\ id = NodeID(proof[pathLength + 2])
           /\ at[pathLength + 2] = keyIndex + inc
           /\ Height(currentNode) = inc + Height(id.node)
           /\ \E c \in InTrie : id = NodeID(c),
         pathLength + 1 = Len(proof) => id = NULL
  PROVE  Following(at)'
  <1>1. /\ Following(at) /\ mpc' = "walk" /\ pathLength' = pathLength + 1
        /\ keyIndex' = keyIndex + inc /\ currentNodeID' = id /\ UNCHANGED args
    BY DEF PathInv, Continue, keyIndex, Visiting
  <1>2. /\ keyIndex \in 0 .. Len(key) /\ Len(key) \in Nat /\ Len(proof) \in Nat
        /\ pathLength \in 0 .. Len(proof) /\ \A m \in 1 .. Len(proof) : proof[m] \in Nodes
    BY NodeAssumption, WholeKey DEF PathInv, TrieInv, Typed, Visiting, Walking, keyIndex
  <1>3. CASE pathLength + 1 = Len(proof)
    BY <1>1, <1>2, <1>3 DEF Following, Walking, args
  <1>4. CASE pathLength + 1 < Len(proof)
    <2>1. PICK c \in InTrie : id = NodeID(c)
      BY <1>4
    <2>2. c = proof[pathLength + 2] /\ id.node = c
      BY <1>2, <1>4, <2>1, NodeIDs, NodeAssumption
    <2>3. currentNode' = c
      BY <1>1, <1>2, <2>2 DEF currentNode, args
    <2>4. IsCurrent'
      BY <1>1, <1>2, <1>4, <2>1, <2>3 DEF IsCurrent
    <2>5. Height(c) = Len(key) - keyIndex' /\ Height(c) \in Nat
      BY <1>1, <1>2, <1>4, <2>2, HeightAssumption DEF Following, Visiting, Walking
    <2> QED
      BY <1>1, <1>2, <1>4, <2>3, <2>4, <2>5 DEF Following, Walking, args
  <1> QED
    BY <1>2, <1>3, <1>4 DEF Visiting

\* The walk ends where get accepts.
LEMMA FollowEnd ==
  ASSUME NEW at, NEW id, NEW index, Break(id, index), index = Len(key) \/ id = NULL
  PROVE  Following(at)'
  BY DEF Break, Following, Walking, Accepts, noRemainder, args

\* A branch leads on, or says that there is nothing.
LEMMA PathBranch == ASSUME PathInv, NEW at, OnItsPath(at), Branch PROVE Following(at)'
  <1>1. /\ TrieInv /\ Following(at) /\ Visiting /\ currentNode \in InTrie
        /\ decoded.type = "branch" /\ Height(currentNode) = Len(key) - keyIndex
    BY DEF PathInv, Branch, Following, Visiting, Walking
  <1>2. /\ keyIndex \in 0 .. Len(key) /\ Len(key) \in Nat /\ key \in Keys /\ Len(proof) \in Nat
        /\ pathLength \in Nat
    BY <1>1, WholeKey, NodeAssumption DEF TrieInv, Typed, Visiting, Walking, keyIndex
  <1>3. CASE keyIndex = Len(key)
    BY <1>3, FollowEnd DEF Branch
  <1>4. CASE keyIndex # Len(key)
    <2> DEFINE x == key[keyIndex + 1]
    <2>1. x \in Nibbles /\ Continue(decoded.child[x], 1)
      BY <1>2, <1>4, NodeAssumption DEF Branch
    <2>2. /\ decoded.child[x] = NULL \/ \E c \in InTrie : decoded.child[x] = NodeID(c)
          /\ decoded.child[x] = NULL \/ Height(currentNode) = 1 + Height(decoded.child[x].node)
      BY <1>1, <2>1, TrieAssumption, HeightAssumption DEF decoded
    <2>3. pathLength + 1 < Len(proof) =>
            /\ decoded.child[x] = NodeID(proof[pathLength + 2])
            /\ at[pathLength + 2] = keyIndex + 1
            /\ decoded.child[x] # NULL
      <3>1. pathLength + 1 < Len(proof) => proof[pathLength + 2] \in Nodes
        BY <1>1, <1>2, NodeAssumption DEF TrieInv, Typed
      <3> QED
        BY <1>1, <3>1, PathStep, NodeIDs
    <2>4. pathLength + 1 = Len(proof) => decoded.child[x] = NULL
      <3>1. keyRemainder # <<>> /\ keyRemainder[1] = x
        BY <1>2, <1>4, RestOfKey DEF keyRemainder
      <3> QED
        BY <1>1, <3>1 DEF OnItsPath, EndsAt, Following, Visiting, Walking, decoded, currentNode,
                          keyRemainder
    <2> HIDE DEF x
    <2> QED
      BY <1>1, <2>1, <2>2, <2>3, <2>4, FollowOn
  <1> QED
    BY <1>3, <1>4

\* No path in the trie is longer than what is left of the key.
LEMMA NotTooLong ==
  ASSUME PathInv, NEW at, OnItsPath(at), Visiting, decoded.type \in {"leaf", "extension"}
  PROVE  /\ ~PathTooLong
         /\ decoded.type = "leaf" => Len(decoded.path) = Len(keyRemainder)
  <1>1. /\ currentNode \in InTrie /\ Height(currentNode) = Len(key) - keyIndex
        /\ keyIndex \in 0 .. Len(key) /\ Len(key) \in Nat /\ key \in Keys
    BY WholeKey DEF PathInv, TrieInv, Typed, Following, Visiting, Walking, keyIndex
  <1>2. Len(keyRemainder) = Len(key) - keyIndex
    BY <1>1, RestOfKey DEF keyRemainder
  <1>3. CASE decoded.type = "leaf"
    BY <1>1, <1>2, <1>3, HeightAssumption DEF PathTooLong, decoded
  <1>4. CASE decoded.type = "extension"
    <2>1. PICK c \in InTrie : decoded.next = NodeID(c)
      BY <1>1, <1>4, TrieAssumption DEF decoded
    <2>2. c \in Nodes /\ decoded.next # NULL /\ decoded.next.node = c
      BY <2>1, NodeAssumption, NodeIDs
    <2>3. Height(currentNode) = Len(decoded.path) + Height(c) /\ Height(c) \in Nat
      BY <1>1, <1>4, <2>2, HeightAssumption DEF decoded
    <2>4. decoded.path \in Seq(Nibbles)
      BY <1>1, <1>4, NodeAssumption DEF decoded
    <2> QED
      BY <1>1, <1>2, <1>4, <2>3, <2>4 DEF PathTooLong
  <1> QED
    BY <1>3, <1>4

\* So does an extension.
LEMMA PathExtension == ASSUME PathInv, NEW at, OnItsPath(at), Extension PROVE Following(at)'
  <1>1. /\ TrieInv /\ Following(at) /\ Visiting /\ currentNode \in InTrie
        /\ decoded.type = "extension" /\ ~PathTooLong
    BY NotTooLong DEF PathInv, Extension, Following, Visiting, Walking
  <1>2. CASE ~IsPrefix(decoded.path, keyRemainder)
    BY <1>1, <1>2, FollowEnd DEF Extension
  <1>3. CASE IsPrefix(decoded.path, keyRemainder)
    <2>1. Continue(decoded.next, Len(decoded.path))
      BY <1>1, <1>3 DEF Extension
    <2>2. /\ decoded.path # <<>> /\ decoded.path \in Seq(Nibbles)
          /\ \E c \in InTrie : decoded.next = NodeID(c)
      BY <1>1, TrieAssumption, NodeAssumption DEF decoded
    <2>3. Height(currentNode) = Len(decoded.path) + Height(decoded.next.node)
      <3>1. decoded.next # NULL
        BY <2>2, NodeIDs, NodeAssumption
      <3> QED
        BY <1>1, <3>1, HeightAssumption DEF decoded
    <2>4. Len(proof) \in Nat /\ pathLength \in Nat /\ pathLength + 1 # Len(proof)
      <3>1. Len(proof) \in Nat /\ pathLength \in Nat
        BY <1>1, NodeAssumption DEF TrieInv, Typed
      <3> QED
        BY <1>1, <1>3, <3>1 DEF OnItsPath, EndsAt, Following, Visiting, Walking, decoded, currentNode,
                                keyRemainder
    <2>5. pathLength + 1 < Len(proof) =>
            /\ decoded.next = NodeID(proof[pathLength + 2])
            /\ at[pathLength + 2] = keyIndex + Len(decoded.path)
      BY <1>1, PathStep
    <2>6. Len(decoded.path) \in Nat /\ Len(decoded.path) # 0
      BY <2>2
    <2> QED
      BY <1>1, <2>1, <2>2, <2>3, <2>4, <2>5, <2>6, FollowOn
  <1> QED
    BY <1>2, <1>3

\* Every node of the path is a list.
LEMMA PathParses == ASSUME PathInv, NEW at, OnItsPath(at), ParseProof PROVE Following(at)'
  <1>1. \A m \in 1 .. Len(proof) : Decoded[proof[m]].type # "string"
    <2> SUFFICES ASSUME NEW m \in 1 .. Len(proof) PROVE Decoded[proof[m]].type # "string"
      OBVIOUS
    <2>1. Len(proof) \in Nat
      BY NodeAssumption DEF PathInv, TrieInv, Typed
    <2>2. CASE m \in 1 .. Len(proof) - 1
      BY <2>2 DEF OnItsPath, Descends
    <2>3. CASE m = Len(proof)
      BY <2>3 DEF OnItsPath, EndsAt
    <2> QED
      BY <2>1, <2>2, <2>3
  <1>2. mpc' = "walk" /\ UNCHANGED <<args, walk, value>>
    BY <1>1 DEF ParseProof
  <1>3. Following(at) /\ mpc = "parse" /\ pathLength = 0 /\ Len(proof) \in Nat \ {0}
    BY NodeAssumption DEF PathInv, ParseProof, Following, TrieInv, Typed, OnItsPath
  <1>4. keyIndex' = keyIndex /\ currentNode' = currentNode /\ IsCurrent' = IsCurrent
    BY <1>2 DEF keyIndex, currentNode, IsCurrent, args, walk
  <1> QED
    BY <1>2, <1>3, <1>4 DEF Following, Walking, args, walk

\* The last node of the path is a leaf, or the walk ends before it.
LEMMA PathNext == PathInv /\ [Next]_vars => PathInv'
  <1> SUFFICES ASSUME PathInv, [Next]_vars, NEW at, OnItsPath(at)' PROVE Following(at)'
    BY TrieNext DEF PathInv
  <1>1. UNCHANGED args
    BY DEF Next, vars, ParseProof, InvalidHash, Branch, Leaf, Extension, Unparseable, EndOfProof, Get,
           Continue, Break, Revert
  <1>2. OnItsPath(at)
    BY <1>1 DEF OnItsPath, args
  <1>3. Following(at) /\ TrieInv
    BY <1>2 DEF PathInv
  <1>4. CASE ParseProof
    BY <1>2, <1>4, PathParses
  <1>5. ~InvalidHash
    BY <1>3 DEF InvalidHash, Following, Visiting, Walking
  <1>6. CASE Branch
    BY <1>2, <1>6, PathBranch
  <1>7. CASE Leaf
    <2>1. ~PathTooLong
      BY <1>2, <1>7, NotTooLong DEF Leaf
    <2> QED
      BY <1>7, <2>1, FollowEnd DEF Leaf
  <1>8. CASE Extension
    BY <1>2, <1>8, PathExtension
  <1>9. ~Unparseable
    BY <1>3, TrieAssumption DEF Unparseable, Following, Visiting, Walking, decoded
  <1>10. CASE EndOfProof
    BY <1>3, <1>10 DEF EndOfProof, Following, Walking, Accepts, args, walk
  <1>11. CASE Get
    BY <1>3, <1>11 DEF Get, Following, Walking
  <1>12. CASE UNCHANGED vars
    <2>1. keyIndex' = keyIndex /\ currentNode' = currentNode /\ IsCurrent' = IsCurrent
          /\ Accepts' = Accepts
      BY <1>12 DEF keyIndex, currentNode, IsCurrent, Accepts, noRemainder, args, walk, vars
    <2> QED
      BY <1>3, <1>12, <2>1 DEF Following, Walking, args, walk, vars
  <1> QED
    BY <1>4, <1>5, <1>6, <1>7, <1>8, <1>9, <1>10, <1>11, <1>12 DEF Next

(***************************************************************************)
(* MerkleTrie.sol: get accepts the nodes of a trie on the way of the key,  *)
(* whether the key exists or not, and whatever small nodes are embedded.   *)
(***************************************************************************)
THEOREM TrieCompleteness == Spec => []AcceptsPaths
  <1>1. PathInv => AcceptsPaths
    BY DEF PathInv, AcceptsPaths, IsPathOf, OnItsPath, Following
  <1> QED
    BY <1>1, PathInit, PathNext, PTL DEF Spec
=============================================================================
