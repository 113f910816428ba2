---------------------------- MODULE EVMProofHelper ----------------------------
(***************************************************************************)
(* The on-chain half of a storage read: getStorageValues of                *)
(* evm-verifier/contracts/EVMProofHelper.sol, run on a state root that the *)
(* chain's verifier contract has accepted and on a state proof that may    *)
(* be anything at all.                                                     *)
(*                                                                         *)
(* One action per step of the loops.  A storage proof is represented by    *)
(* the storage root and the slot it was made for.  A proof made for        *)
(* another root never checks; one made for another slot may still decide   *)
(* this slot (the two share the nodes that matter), so it either gives     *)
(* what the trie holds or makes the call revert.                           *)
(***************************************************************************)
EXTENDS StorageRead

CONSTANTS
  Programs,   \* the requests (commands and constants) considered
  Proofs      \* the state proofs considered

Witness == [root : StorageRoots \cup {NoAccount}, slot : Slot]
StateProof == [stateTrieWitness : StateRoots, storageProofs : Seq(Witness)]

ASSUME InputAssumption ==
  /\ Programs \subseteq Program
  /\ Proofs \subseteq StateProof

VARIABLES
  commands, constants,  \* the request
  stateRoot, proof,     \* accepted state root; untrusted state proof
  vpc,                  \* where getStorageValues is
  values,               \* values[k + 1]: result of command k, "" until then
  i, j,                 \* current command and instruction
  slot,                 \* slot computed so far, or next slot to read
  value, length,        \* bytes read and bytes left of a long value
  proofIdx              \* storage proofs used

inputs == <<commands, constants, stateRoot, proof>>
locals == <<values, i, j, slot, value, length, proofIdx>>
vars == <<inputs, vpc, locals>>

storageRoot == StorageRootOf[stateRoot]
command == commands[i + 1]

\* The local variables of getStorageValues when it is called.
NewLocals ==
  /\ values = [k \in 1 .. Len(commands) |-> <<>>]
  /\ i = 0 /\ j = 1 /\ proofIdx = 0
  /\ slot = BaseSlot(ZeroWord)
  /\ value = <<>> /\ length = 0

Init ==
  /\ \E p \in Programs : commands = p.commands /\ constants = p.constants
  /\ stateRoot \in StateRoots
  /\ proof \in Proofs
  /\ vpc = "account" /\ NewLocals

Revert == vpc' = "reverted" /\ UNCHANGED <<inputs, locals>>

-----------------------------------------------------------------------------
\* Prove the account, or revert (AccountNotFound, or an invalid witness).
GetStorageRoot ==
  /\ vpc = "account"
  /\ IF proof.stateTrieWitness = stateRoot /\ storageRoot # NoAccount
     THEN vpc' = "command" /\ UNCHANGED <<inputs, locals>>
     ELSE Revert

\* Whether executeOperation returns, and what it returns.
Executes(op) ==
  \/ Opcode(op) = OP_CONSTANT /\ Operand(op) < Len(constants)
  \/ Opcode(op) = OP_BACKREF /\ Operand(op) < Len(values)

\* computeFirstSlot: the first path element must be one word.
FirstElement ==
  /\ vpc = "command"
  /\ i < Len(commands)
  /\ LET op == command[1]
     IN IF Executes(op) /\ Len(Argument(op, constants, values)) = WordSize
        THEN /\ slot' = BaseSlot(Argument(op, constants, values))
             /\ j' = 2
             /\ vpc' = "path"
             /\ UNCHANGED <<inputs, values, i, value, length, proofIdx>>
        ELSE Revert

\* computeFirstSlot: one more round of hashing.
NextElement ==
  /\ vpc = "path"
  /\ More(command, j)
  /\ LET op == command[j]
     IN IF Executes(op)
        THEN /\ slot' = Keccak(Argument(op, constants, values), slot)
             /\ j' = j + 1
             /\ UNCHANGED <<inputs, vpc, values, i, value, length, proofIdx>>
        ELSE Revert

-----------------------------------------------------------------------------
\* A storage proof is about to be consumed: by getFixedValue, for a fixed
\* value or a head word, or for the next chunk of a long value.
Reading ==
  \/ vpc = "path" /\ ~More(command, j)
  \/ vpc = "chunk" /\ length > 0

witness == proof.storageProofs[proofIdx + 1]

\* Mutant of MayDecide: the proof's nodes are not checked against the root.
MayDecide_AnyRoot ==
  /\ proofIdx < Len(proof.storageProofs)
  /\ witness.root # NoAccount
  /\ Provable(storageRoot)

\* The next storage proof may decide the slot / is the proof for the slot.
MayDecide ==
  /\ proofIdx < Len(proof.storageProofs)
  /\ witness.root = storageRoot
  /\ Provable(storageRoot)
Decides == MayDecide /\ witness.slot = slot

\* What the nodes of the proof hold at the slot: "" for a nonexistent value.
getSingleStorageProof == Trie(witness.root, slot)

\* Mutant of getFixedValue: the cast to bytes32 without the shift.
getFixedValue_NoShift ==
  LET v == getSingleStorageProof
  IN  [k \in 1 .. WordSize |-> IF k <= Len(v) THEN v[k] ELSE 0]

getFixedValue == LeftPad(getSingleStorageProof)

ProofFails == Reading /\ ~Decides /\ Revert

\* values[i] = v, and on to the next command.
Store_i(v) ==
  /\ values' = [values EXCEPT ![i + 1] = v]
  /\ i' = i + 1
  /\ vpc' = "command"

ReadFixed ==
  /\ vpc = "path" /\ ~More(command, j) /\ ~IsDynamic(command)
  /\ MayDecide
  /\ Store_i(getFixedValue)
  /\ proofIdx' = proofIdx + 1
  /\ UNCHANGED <<inputs, j, slot, value, length>>

\* getDynamicValue, short value: the data is in the head word itself.
ReadShort ==
  /\ vpc = "path" /\ ~More(command, j) /\ IsDynamic(command)
  /\ MayDecide
  /\ Num(getFixedValue) % 2 = 0
  /\ LET len == (Num(getFixedValue) % ByteBase) \div 2
     IN IF len <= WordSize
        THEN /\ Store_i(SubSeq(getFixedValue, 1, len))
             /\ proofIdx' = proofIdx + 1
             /\ UNCHANGED <<inputs, j, slot, value, length>>
        ELSE Revert

\* getDynamicValue, long value: the head word gives the length.
ReadLongHead ==
  /\ vpc = "path" /\ ~More(command, j) /\ IsDynamic(command)
  /\ MayDecide
  /\ Num(getFixedValue) % 2 = 1
  /\ length' = (Num(getFixedValue) - 1) \div 2
  /\ value' = <<>>
  /\ slot' = DataSlot(slot, 0)
  /\ proofIdx' = proofIdx + 1
  /\ vpc' = "chunk"
  /\ UNCHANGED <<inputs, values, i, j>>

\* Mutant of Left: the last chunk counts like the others.
Left_NoCut == length - WordSize

\* Bytes left when the next chunk has been read.
Left == IF length < WordSize THEN 0 ELSE length - WordSize

\* getDynamicValue, one turn of the loop: the bytes of the proof are
\* appended as they are; the last chunk is cut, and the cut must exist.
ReadChunk ==
  /\ vpc = "chunk" /\ length > 0
  /\ MayDecide
  /\ LET chunk == getSingleStorageProof
         take == IF length < WordSize THEN length ELSE Len(chunk)
     IN IF take <= Len(chunk)
        THEN /\ value' = value \o SubSeq(chunk, 1, take)
             /\ length' = Left
             /\ slot' = [slot EXCEPT !.off = @ + 1]
             /\ proofIdx' = proofIdx + 1
             /\ UNCHANGED <<inputs, vpc, values, i, j>>
        ELSE Revert

EndOfValue ==
  /\ vpc = "chunk" /\ length = 0
  /\ Store_i(value)
  /\ UNCHANGED <<inputs, j, slot, value, length, proofIdx>>

Return ==
  /\ vpc = "command" /\ i = Len(commands)
  /\ vpc' = "returned"
  /\ UNCHANGED <<inputs, locals>>

Next ==
  \/ GetStorageRoot \/ FirstElement \/ NextElement
  \/ ProofFails \/ ReadFixed \/ ReadShort \/ ReadLongHead \/ ReadChunk
  \/ EndOfValue \/ Return

Spec == Init /\ [][Next]_vars

-----------------------------------------------------------------------------
\* Types that do not depend on what the state proof is.
Typed ==
  /\ commands \in Seq(Command) /\ constants \in Seq(Bytes)
  /\ stateRoot \in StateRoots
  /\ vpc \in {"account", "command", "path", "chunk", "returned", "reverted"}
  /\ i \in 0 .. Len(commands)
  /\ j \in 1 .. WordSize
  /\ slot \in Slot
  /\ values \in Seq(Bytes) /\ Len(values) = Len(commands)
  /\ value \in Bytes /\ length \in Nat /\ proofIdx \in Nat

TypeOK == Typed /\ proof \in StateProof

(***************************************************************************)
(* Whatever state proof it was given, getStorageValues keeps as the result *)
(* of command k only the value that the accepted state holds at the slot   *)
(* the command names, computed from the results of earlier commands: no    *)
(* choice of proofs, of their order or of their number changes an answer.  *)
(* Commands that refer to themselves or to later commands are left out,    *)
(* and so are long values with a data word that starts with a zero byte.   *)
(***************************************************************************)
Sound == \A k \in 1 .. i : Authentic(commands, constants, storageRoot, values, k)

\* getStorageValues implements an authentic read of the accepted state.
AR == INSTANCE AuthenticRead WITH
        IsAnswer <- AuthenticAnswer,
        status <- IF vpc = "returned" THEN "answered"
                  ELSE IF vpc = "reverted" THEN "failed" ELSE "pending",
        answer <- IF vpc = "returned" THEN values ELSE <<>>

ImplementsAuthenticRead == AR!Spec
=============================================================================
