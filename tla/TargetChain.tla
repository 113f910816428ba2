------------------------------ MODULE TargetChain ------------------------------
(***************************************************************************)
(* The chain whose storage is proven, and what a gateway gets to know of   *)
(* it: evm-gateway/src/EVMProofHelper.ts asks a node for storage words and *)
(* for proofs, each time by block number, while the chain goes on.         *)
(*                                                                         *)
(* Only the states of blocks matter, and the slots that a request reads in *)
(* a state; how it finds them is the subject of EVMGateway.                *)
(***************************************************************************)
EXTENDS Integers, Sequences, SequencesExt

CONSTANTS
  States,
  StateOf(_),   \* the state of a block; several blocks may have the same
  SlotsOf(_),   \* the slots that the request reads in a state, in order
  MaxBlocks,    \* bound on block numbers
  MaxReorgs     \* bound on reorganisations

VARIABLES
  chain,        \* chain[n]: the fork on which the canonical block n was made
  reorgs        \* reorganisations so far; the number of the current fork

Forks == 0 .. MaxReorgs
Block == (0 .. MaxBlocks) \X Forks
Slots == {SlotsOf(s) : s \in States}

ASSUME ChainAssumption ==
  /\ MaxBlocks \in Nat /\ MaxReorgs \in Nat
  /\ \A b \in Block : StateOf(b) \in States
  /\ \A s \in States : SlotsOf(s) \in Seq(Nat)

ChainInit == chain = <<>> /\ reorgs = 0
ChainTypeOK == chain \in Seq(Forks) /\ Len(chain) <= MaxBlocks /\ reorgs \in Forks

Latest == Len(chain)
Known(n) == n \in 0 .. Latest
BlockAt(n) == <<n, IF n = 0 THEN 0 ELSE chain[n]>>
StateAt(n) == StateOf(BlockAt(n))

\* getStorageAt, as often as it takes to find the slots
getStorageAt(n) == SlotsOf(StateAt(n))

\* getProofs: accountProof and storageProofs
getProofs(n, slots) == [state |-> StateAt(n), slots |-> slots]
StateProof == [state : States, slots : Slots]

\* EVMProofHelper.sol takes the proof for a state root, finds the slots again,
\* and consumes one storage proof for each.
Verifies(proof, state) == proof.state = state /\ IsPrefix(SlotsOf(state), proof.slots)

Mine ==
  /\ Latest < MaxBlocks
  /\ chain' = Append(chain, reorgs) /\ UNCHANGED reorgs

\* Block n is replaced, and those after it are gone.
Reorganise ==
  /\ reorgs < MaxReorgs /\ reorgs' = reorgs + 1
  /\ \E n \in 1 .. Latest : chain' = Append(SubSeq(chain, 1, n - 1), reorgs + 1)
=============================================================================
