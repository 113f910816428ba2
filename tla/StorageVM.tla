------------------------------ MODULE StorageVM ------------------------------
(***************************************************************************)
(* The vocabulary that the gateway (evm-gateway/src/EVMGateway.ts), the    *)
(* verifier (evm-verifier/contracts/EVMProofHelper.sol) and the request    *)
(* builder (evm-verifier/contracts/EVMFetcher.sol) share: storage words,   *)
(* slots, and the one-word command language.                               *)
(*                                                                         *)
(* keccak256 is free of collisions here, so the slot that a chain of       *)
(* hashes leads to is represented by the chain itself.                     *)
(***************************************************************************)
EXTENDS Naturals, Sequences, SequencesExt

CONSTANTS
  WordSize,      \* bytes in a storage word and in a command: 32
  ByteBase,      \* values of a byte: 256
  OperandSpan,   \* values of an instruction's 5-bit operand: 32
  StateRoots,    \* state roots of the target chain
  StorageRoots,  \* storage roots of the target contract
  NoAccount,     \* the target has no account in a state
  StorageRootOf, \* StorageRootOf[s]: storage root of the target in state s
  Store          \* Store[r][slot]: bytes the storage trie with root r holds

ASSUME SizeAssumption ==
  /\ WordSize \in Nat /\ WordSize >= 3
  /\ OperandSpan \in Nat \ {0}
  /\ ByteBase = 8 * OperandSpan
  /\ WordSize < ByteBase

Byte == 0 .. ByteBase - 1
Bytes == Seq(Byte)
Word == [1 .. WordSize -> Byte]
ZeroWord == [k \in 1 .. WordSize |-> 0]

(***************************************************************************)
(* Slots.  [path |-> <<b, k1, ..., kn>>, off |-> d] is the slot            *)
(* keccak(kn . keccak( ... keccak(k1 . b))) + d.  The data area of a long  *)
(* value at slot s starts at keccak(s), the hash of the empty byte string  *)
(* followed by s.                                                          *)
(***************************************************************************)
Slot == [path : Seq(Bytes), off : Nat]
BaseSlot(base) == [path |-> <<base>>, off |-> 0]
Keccak(index, slot) == [path |-> Append(slot.path, index), off |-> 0]
DataSlot(slot, n) == [path |-> Append(slot.path, <<>>), off |-> n]

(***************************************************************************)
(* A storage trie holds the RLP encoding of a word without its leading     *)
(* zero bytes, and nothing for a zero word; eth_getStorageAt returns the   *)
(* whole word.                                                             *)
(***************************************************************************)
Trie(root, slot) == IF slot \in DOMAIN Store[root] THEN Store[root][slot] ELSE <<>>

LeftPad(v) ==
  [k \in 1 .. WordSize |->
     IF k + Len(v) <= WordSize THEN 0 ELSE v[k + Len(v) - WordSize]]

Cell(root, slot) == LeftPad(Trie(root, slot))

\* MerkleTrie.get rejects the empty list of nodes, which is all that a node
\* of the chain can offer for an empty trie.
Provable(root) == DOMAIN Store[root] # {}

Num(word) ==
  LET num[k \in 0 .. Len(word)] == IF k = 0 THEN 0 ELSE num[k - 1] * ByteBase + word[k]
  IN  num[Len(word)]

ASSUME StoreAssumption ==
  /\ StorageRootOf \in [StateRoots -> StorageRoots \cup {NoAccount}]
  /\ NoAccount \notin StorageRoots
  /\ \A r \in StorageRoots : \A s \in DOMAIN Store[r] :
       /\ Store[r][s] \in Bytes
       /\ Len(Store[r][s]) \in 1 .. WordSize
       /\ Store[r][s][1] # 0

-----------------------------------------------------------------------------
(***************************************************************************)
(* Commands: a flags byte, then instruction bytes with the opcode in the   *)
(* high bits and the operand in the low ones.                              *)
(***************************************************************************)
FLAG_DYNAMIC == 1
OP_CONSTANT == 0
OP_BACKREF == OperandSpan
OP_END == ByteBase - 1

Command == [0 .. WordSize - 1 -> Byte]
Opcode(op) == op - (op % OperandSpan)
Operand(op) == op % OperandSpan

IsDynamic(command) == command[0] % 2 = FLAG_DYNAMIC

\* The loop condition: instruction j exists and does not end the command.
More(command, j) == j < WordSize /\ command[j] # OP_END

\* What an operation pushes: a constant, or the value of a command.
Argument(op, constants, vals) ==
  IF Opcode(op) = OP_CONSTANT THEN constants[Operand(op) + 1]
                              ELSE vals[Operand(op) + 1]

Program == [commands : Seq(Command), constants : Seq(Bytes)]
=============================================================================
