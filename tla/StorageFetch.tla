----------------------------- MODULE StorageFetch -----------------------------
(***************************************************************************)
(* A whole cross-chain read: a CCIP-Read client sends a request to the     *)
(* gateway (EVMGateway) and calls back the contract with the response;     *)
(* getStorageSlotsCallback (evm-verifier/contracts/EVMFetchTarget.sol)     *)
(* passes it to the verifier (l1-verifier/contracts/L1Verifier.sol), which *)
(* checks the block header against the block this chain is committed to    *)
(* and runs getStorageValues (EVMProofHelper) on the rest.                 *)
(***************************************************************************)
EXTENDS EVMGateway

VARIABLES
  committed,                                            \* state of the committed block
  vpc, values, i, j, slot, value, length, proofIdx      \* the verifier

verifierVars == <<vpc, values, i, j, slot, value, length, proofIdx>>
fetchVars == <<vars, committed, verifierVars>>

V == INSTANCE EVMProofHelper WITH
       stateRoot <- response.header, proof <- response.proof, Proofs <- {}

FetchInit == Init /\ committed \in StateRoots /\ vpc = "idle" /\ V!NewLocals

Gateway == Run /\ UNCHANGED <<committed, verifierVars>>

\* Mutant of Callback: any header will do.
Callback_NoCheck ==
  /\ gpc = "responded" /\ vpc = "idle"
  /\ vpc' = "account"
  /\ UNCHANGED <<vars, committed, values, i, j, slot, value, length, proofIdx>>

\* getStorageSlotsCallback and L1Verifier.getStorageValues, up to the call
\* of EVMProofHelper: reverts with BlockHeaderHashMismatch.
Callback ==
  /\ gpc = "responded" /\ vpc = "idle"
  /\ vpc' = IF response.header = committed THEN "account" ELSE "reverted"
  /\ UNCHANGED <<vars, committed, values, i, j, slot, value, length, proofIdx>>

Verifier ==
  /\ vpc # "idle"
  /\ UNCHANGED <<vars, committed>>
  /\ V!Next

\* The node's or this chain's idea of the block changes; not during the
\* callback, which is one transaction or call.
Fault == NodeFails /\ UNCHANGED <<committed, verifierVars>>
Replace == Reorg /\ UNCHANGED <<committed, verifierVars>>
Recommit ==
  /\ vpc = "idle" /\ reorgs < MaxReorgs /\ reorgs' = reorgs + 1
  /\ committed' \in StateRoots \ {committed}
  /\ UNCHANGED <<request, node, gpc, promise, response, faults, verifierVars>>

FetchRun == Gateway \/ Callback \/ Verifier

FetchNext == FetchRun \/ Fault \/ Replace \/ Recommit

\* The client follows the CCIP-Read protocol to its end, and the EVM runs
\* the callback to its end.
FetchSpec == FetchInit /\ [][FetchNext]_fetchVars /\ WF_fetchVars(FetchRun)

-----------------------------------------------------------------------------
Failed == gpc = "failed" \/ vpc = "reverted"
Undisturbed == faults = 0 /\ reorgs = 0 /\ node = committed

(***************************************************************************)
(* Every call ends, with values or with an error.                          *)
(***************************************************************************)
Ends == <>(Failed \/ vpc = "returned")

(***************************************************************************)
(* Gateway and verifier agree on slots, on their order and on how a value  *)
(* is laid out: a request that can be served in the committed state never  *)
(* fails when nothing disturbs it, and the verifier uses every storage     *)
(* proof that the gateway made.                                            *)
(***************************************************************************)
Completes ==
  /\ Undisturbed
  /\ Servable(commands, constants, committed) /\ Fits(committed)
  /\ Provable(StorageRootOf[committed])
  => /\ ~Failed
     /\ vpc = "returned" => proofIdx = Len(response.proof.storageProofs)

(***************************************************************************)
(* Under node failures, and under reorganisations at any moment of either  *)
(* chain, the call fails or answers with what the committed state holds,   *)
(* although the gateway computed the slots from words, proofs and a header *)
(* that it read one after the other.                                       *)
(***************************************************************************)
AR == INSTANCE AuthenticRead WITH
        IsAnswer <- AuthenticAnswer,
        stateRoot <- committed,
        status <- IF vpc = "returned" THEN "answered" ELSE IF Failed THEN "failed" ELSE "pending",
        answer <- IF vpc = "returned" THEN values ELSE <<>>

ImplementsAuthenticRead == AR!Spec

-----------------------------------------------------------------------------
(***************************************************************************)
(* EVMGateway.ts:65 says that proofs of several slots are returned for the *)
(* caller "to be able to reconstruct the entire value": what is returned   *)
(* for a long value would then be the entire value in storage.             *)
(***************************************************************************)
EntireValue ==
  vpc = "returned" =>
    \A k \in 1 .. Len(commands) :
      IsDynamic(commands[k]) /\ WellFormed(commands[k], constants, k - 1) =>
        values[k] = Value(StorageRootOf[committed], SlotOf(commands[k], constants, values), TRUE)
=============================================================================
