------------------------------ MODULE MerkleTrie ------------------------------
(***************************************************************************)
(* The walk down a Merkle-Patricia trie that a storage or account proof    *)
(* stands for: get of evm-verifier/contracts/MerkleTrie.sol, which         *)
(* SecureMerkleTrie.sol calls with the hash of the key.                    *)
(*                                                                         *)
(* keccak256 is free of collisions, so a node stands for its encoding, and *)
(* [form, node] for what another node holds of it: its hash or, for an     *)
(* encoding of less than 32 bytes, the encoding itself.  The proof is any  *)
(* list of nodes, of this trie or not.                                     *)
(***************************************************************************)
EXTENDS Naturals, Sequences, SequencesExt

CONSTANTS
  Nibbles,      \* 0 .. 15
  Nodes,        \* the nodes a proof may consist of
  Small,        \* those whose encoding is shorter than 32 bytes
  Decoded,      \* Decoded[n]: what the RLP list of node n says
  NULL,         \* the empty RLP string, 0x80
  NoValue,      \* the empty byte string
  InTrie,       \* the nodes of the tries
  Roots,        \* the nodes whose hashes get is called with
  Keys,         \* hashed keys, as nibbles
  Proofs,       \* the proofs considered
  Holds(_, _),  \* Holds(n, k): the value below node n at the rest k of a key
  Height(_)     \* Height(n): nibbles of a key from node n of a trie on

\* "unknownPrefix" and "other" are lists but no trie nodes, "string" is no list.
NodeType == {"branch", "extension", "leaf", "unknownPrefix", "other", "string"}

Hash(n) == [form |-> "hash", node |-> n]
Raw(n) == [form |-> "raw", node |-> n]

\* _getNodeID of an item that refers to node n
NodeID(n) == IF n \in Small THEN Raw(n) ELSE Hash(n)

\* What is left of a key from its nibble m + 1 on.
Rest(k, m) == SubSeq(k, m + 1, Len(k))
Rests == UNION {{Rest(k, m) : m \in 0 .. Len(k)} : k \in Keys}

\* The value below what a node holds of another.
Under(id, k) == IF id = NULL THEN NoValue ELSE Holds(id.node, k)

ASSUME NodeAssumption ==
  /\ Small \subseteq Nodes /\ InTrie \subseteq Nodes /\ Roots \subseteq Nodes
  /\ \A n \in Nodes : NULL # Hash(n) /\ NULL # Raw(n)
  /\ \A n \in Nodes : Decoded[n].type \in NodeType
  /\ \A n \in Nodes : Decoded[n].type \in {"extension", "leaf"} => Decoded[n].path \in Seq(Nibbles)
  /\ Keys \subseteq Seq(Nibbles) /\ <<>> \notin Keys
  /\ Proofs \subseteq Seq(Nodes)

\* Nodes of a trie refer to nodes of the trie.
ASSUME TrieAssumption ==
  \A n \in InTrie :
    LET d == Decoded[n]
    IN  /\ d.type \in {"branch", "extension", "leaf"}
        /\ d.type = "branch" =>
             \A x \in Nibbles : d.child[x] = NULL \/ \E c \in InTrie : d.child[x] = NodeID(c)
        /\ d.type = "extension" =>
             d.path # <<>> /\ \E c \in InTrie : d.next = NodeID(c)

\* What a trie holds.
ASSUME HoldsAssumption ==
  \A n \in InTrie : \A k \in Rests :
    LET d == Decoded[n]
    IN  Holds(n, k) =
          IF d.type = "branch"
          THEN IF k = <<>> THEN d.value ELSE Under(d.child[k[1]], Rest(k, 1))
          ELSE IF d.type = "leaf"
          THEN IF k = d.path THEN d.value ELSE NoValue
          ELSE IF IsPrefix(d.path, k) THEN Under(d.next, Rest(k, Len(d.path))) ELSE NoValue

\* SecureMerkleTrie hashes the keys, so they are all of one length, and no
\* key of a trie ends before another.
ASSUME HeightAssumption ==
  /\ \A r \in Roots \cap InTrie : \A k \in Keys : Height(r) = Len(k)
  /\ \A n \in InTrie :
       LET d == Decoded[n]
           Above(id, len) == id = NULL \/ Height(n) = len + Height(id.node)
       IN  /\ Height(n) \in Nat
           /\ d.type = "branch" => \A x \in Nibbles : Above(d.child[x], 1)
           /\ d.type = "extension" => Above(d.next, Len(d.path))
           /\ d.type = "leaf" => Height(n) = Len(d.path)

VARIABLES
  root, key, proof,     \* the arguments
  mpc,                  \* "parse", "walk", "get", "returned", "reverted"
  pathLength,           \* nodes visited
  currentNodeID, currentKeyIndex, currentKeyIncrement,
  value                 \* what get returns; the key exists unless it is empty

args == <<root, key, proof>>
walk == <<pathLength, currentNodeID, currentKeyIndex, currentKeyIncrement>>
vars == <<args, mpc, walk, value>>

Init ==
  /\ root \in Roots /\ key \in Keys /\ proof \in Proofs
  /\ mpc = "parse"
  /\ pathLength = 0 /\ currentNodeID = Hash(root)
  /\ currentKeyIndex = 0 /\ currentKeyIncrement = 0
  /\ value = NoValue

Revert == mpc' = "reverted" /\ UNCHANGED <<args, walk, value>>

\* _parseProof: every element must be an RLP list, also those not needed.
ParseProof ==
  /\ mpc = "parse"
  /\ IF \A m \in 1 .. Len(proof) : Decoded[proof[m]].type # "string"
     THEN mpc' = "walk" /\ UNCHANGED <<args, walk, value>>
     ELSE Revert

-----------------------------------------------------------------------------
(* _walkNodePath: one turn of the loop                                     *)

currentNode == proof[pathLength + 1]
keyIndex == currentKeyIndex + currentKeyIncrement
keyRemainder == Rest(key, keyIndex)
decoded == Decoded[currentNode]

\* Mutant of IsCurrent: nodes shorter than 32 bytes are hashed like the others.
IsCurrent_AlwaysHash == currentNodeID = Hash(currentNode)

\* The node is the root, or the node that the last one refers to.
IsCurrent ==
  currentNodeID = IF keyIndex = 0 THEN Hash(currentNode) ELSE NodeID(currentNode)

Visiting == mpc = "walk" /\ pathLength < Len(proof)

InvalidHash == Visiting /\ ~IsCurrent /\ Revert

\* The walk goes on with node id, or ends ("break").
Continue(id, increment) ==
  /\ pathLength' = pathLength + 1 /\ currentKeyIndex' = keyIndex
  /\ currentNodeID' = id /\ currentKeyIncrement' = increment
  /\ UNCHANGED <<args, mpc, value>>

Break(id, index) ==
  /\ pathLength' = pathLength + 1 /\ currentKeyIndex' = index
  /\ currentNodeID' = id /\ mpc' = "get"
  /\ UNCHANGED <<args, currentKeyIncrement, value>>

Branch ==
  /\ Visiting /\ IsCurrent /\ decoded.type = "branch"
  /\ IF keyIndex = Len(key)
     THEN Break(currentNodeID, keyIndex)
     ELSE Continue(decoded.child[key[keyIndex + 1]], 1)

PathTooLong == Len(keyRemainder) < Len(decoded.path)

\* Mutant of LeafIndex: the nibble of the path's prefix is counted too.
LeafIndex_Offset ==
  IF decoded.path = keyRemainder THEN keyIndex + Len(decoded.path) + 1 ELSE keyIndex

\* A leaf with the very key leaves no remainder.
LeafIndex == IF decoded.path = keyRemainder THEN Len(key) ELSE keyIndex

Leaf ==
  /\ Visiting /\ IsCurrent /\ decoded.type = "leaf"
  /\ IF PathTooLong THEN Revert ELSE Break(NULL, LeafIndex)

Extension ==
  /\ Visiting /\ IsCurrent /\ decoded.type = "extension"
  /\ IF PathTooLong THEN Revert
     ELSE IF IsPrefix(decoded.path, keyRemainder)
     THEN Continue(decoded.next, Len(decoded.path))
     ELSE Break(NULL, keyIndex)

Unparseable ==
  /\ Visiting /\ IsCurrent /\ decoded.type \in {"unknownPrefix", "other"}
  /\ Revert

EndOfProof ==
  /\ mpc = "walk" /\ pathLength = Len(proof)
  /\ mpc' = "get" /\ UNCHANGED <<args, walk, value>>

-----------------------------------------------------------------------------
(* get: the rest                                                           *)

noRemainder == currentKeyIndex = Len(key)

\* Mutant of Accepts: a proof that stops half way proves that there is nothing.
Accepts_HalfWay == TRUE

\* What is left of the key must lead nowhere.
Accepts == noRemainder \/ currentNodeID = NULL

Get ==
  /\ mpc = "get"
  /\ IF Accepts
     THEN /\ value' = IF noRemainder THEN Decoded[proof[pathLength]].value ELSE NoValue
          /\ mpc' = "returned" /\ UNCHANGED <<args, walk>>
     ELSE Revert

Next ==
  \/ ParseProof \/ InvalidHash \/ Branch \/ Leaf \/ Extension \/ Unparseable
  \/ EndOfProof \/ Get

Spec == Init /\ [][Next]_vars

-----------------------------------------------------------------------------
TypeOK ==
  /\ root \in Roots /\ key \in Keys /\ proof \in Proofs
  /\ mpc \in {"parse", "walk", "get", "returned", "reverted"}
  /\ pathLength \in 0 .. Len(proof)
  /\ currentKeyIndex \in 0 .. Len(key)
  /\ mpc = "walk" => keyIndex \in 0 .. Len(key)

(***************************************************************************)
(* Whatever nodes the proof consists of, get returns only what the trie    *)
(* holds at the key: proofs for other keys, of other tries, cut short,     *)
(* continued or reordered never make it return another value, nor an empty *)
(* one for a key that exists.                                              *)
(***************************************************************************)
ReturnsWhatTrieHolds == mpc = "returned" /\ root \in InTrie => value = Holds(root, key)

(***************************************************************************)
(* The nodes of a trie from its root to where the key ends are a proof:    *)
(* get does not revert on them, whether the key exists or not.  They are   *)
(* the proof p if p[m] is at[m] nibbles below the root.                    *)
(***************************************************************************)
Descends(k, p, at) ==
  /\ at \in [1 .. Len(p) -> 0 .. Len(k)] /\ at[1] = 0
  /\ \A m \in 1 .. Len(p) - 1 :
       LET d == Decoded[p[m]] IN
       \/ /\ d.type = "branch" /\ at[m] < Len(k)
          /\ d.child[k[at[m] + 1]] = NodeID(p[m + 1]) /\ at[m + 1] = at[m] + 1
       \/ /\ d.type = "extension" /\ IsPrefix(d.path, Rest(k, at[m]))
          /\ d.next = NodeID(p[m + 1]) /\ at[m + 1] = at[m] + Len(d.path)

EndsAt(k, n, index) ==
  LET d == Decoded[n]
      rest == Rest(k, index)
  IN  \/ d.type = "leaf"
      \/ d.type = "branch" /\ (rest # <<>> => d.child[rest[1]] = NULL)
      \/ d.type = "extension" /\ ~IsPrefix(d.path, rest)

IsPathOf(k, r, p) ==
  /\ r \in InTrie /\ p # <<>> /\ p[1] = r
  /\ \E at \in [1 .. Len(p) -> 0 .. Len(k)] :
       Descends(k, p, at) /\ EndsAt(k, p[Len(p)], at[Len(p)])

AcceptsPaths == IsPathOf(key, root, proof) => mpc # "reverted"
=============================================================================
