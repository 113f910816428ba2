--------------------------- MODULE MCEVMProofHelper ---------------------------
(* getStorageValues on any state proof of up to three storage proofs, each *)
(* made for one of six slots in one of two states.                         *)
EXTENDS EVMProofHelper, MCStorage

MCPrograms == {GetCA, GetD, GetDA, GetAString, GetCString, ForwardReference, MissingConstant,
               UnknownOpcode, ShortBase}

ProofSlots == {Var(0), At(2, W(2)), At(2, W(3)), At(3, W(2)),
               Data(At(3, W(2)), 0), Data(At(3, W(2)), 1)}

Witnesses == [root : {"t1", "t2"}, slot : ProofSlots]

MCProofs ==
  {[stateTrieWitness |-> s, storageProofs |-> w] :
     s \in {"s1", "s2"}, w \in UNION {[1 .. n -> Witnesses] : n \in {0, 1, 2, 3}}}
=============================================================================
