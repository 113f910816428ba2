---------------------------- MODULE OPProofService ----------------------------
(***************************************************************************)
(* How the Optimism gateway serves a request: op-gateway/src/              *)
(* OPProofService.ts, and op-verifier/contracts/OPVerifier.sol, which the  *)
(* response must pass on L1.                                               *)
(*                                                                         *)
(* On L1 an oracle keeps outputs, one L2 block each, which the proposer    *)
(* appends and the challenger deletes from the end.  The nodes that are    *)
(* asked may be some outputs behind: those of L1 show fewer outputs, the   *)
(* L2 node does not have the blocks of the last ones yet.  The service     *)
(* keeps no state, so one request is all there is to it.                   *)
(***************************************************************************)
EXTENDS TargetChain

CONSTANTS
  PasserOf(_),  \* storage root of L2ToL1MessagePasser in a block
  Delay,        \* the option --delay
  Lag,          \* outputs by which a node may be behind
  MaxOutputs,   \* bound on outputs
  MaxRemoved,   \* bound on outputs deleted
  MaxFaults     \* bound on failing calls

ASSUME OPAssumption ==
  /\ Delay \in Nat /\ Lag \in Nat
  /\ MaxOutputs \in Nat /\ MaxRemoved \in Nat /\ MaxFaults \in Nat

VARIABLES
  outputs,      \* outputs[i + 1]: the block that output i claims
  req,          \* what the gateway, and then the verifier, do for the request
  faults,
  removed       \* history: outputs deleted since the request asked for the last

vars == <<chain, reorgs, outputs, req, faults, removed>>
world == <<chain, reorgs, outputs, faults>>

NullBlock == <<-1, 0>>
NoState == "noState"
NoRequest ==
  [pc |-> "latest", index |-> -1, claim |-> NullBlock, slots |-> <<>>,
   proof |-> [state |-> NoState, slots |-> <<>>], header |-> NullBlock, passer |-> NoState]

Init ==
  /\ ChainInit /\ outputs = <<>> /\ req = NoRequest
  /\ faults = 0 /\ removed = 0

At(pc) == req.pc = pc
Running == req.pc \notin {"failed", "reverted", "returned"}
number == req.claim[1]

\* How many outputs the node of L1 that answers shows.
Views == {Len(outputs) - lag : lag \in 0 .. Lag}

\* Mutant of After: start over instead of failing.
After_Retry(ok, pc) == IF ok THEN pc ELSE "latest"

\* A rejected call ends the request.
After(ok, pc) == IF ok THEN pc ELSE "failed"

-----------------------------------------------------------------------------
(* getProvableBlock                                                        *)

\* Mutant of IndexFor: one output too late.
IndexFor_OneLess(latest) == latest - Delay + 1

IndexFor(latest) == latest - Delay

\* latestOutputIndex() fails while there is no output.
LatestOutputIndex ==
  /\ At("latest")
  /\ \E view \in Views :
       req' = [req EXCEPT !.pc = After(view > 0, "output"),
                          !.index = IF view > 0 THEN IndexFor(view - 1) ELSE @]
  /\ UNCHANGED <<world, removed>>

\* A negative index is not encoded, one beyond the last output reverts.
\* Of the claim only l2BlockNumber is used.
GetL2Output ==
  /\ At("output")
  /\ \E view \in Views :
       LET ok == req.index \in 0 .. view - 1
       IN  req' = [req EXCEPT !.pc = After(ok, "slots"),
                              !.claim = IF ok THEN outputs[req.index + 1] ELSE @]
  /\ UNCHANGED <<world, removed>>

-----------------------------------------------------------------------------
(* getStorageAt and getProofs, all of them by block number                 *)

GetStorageAt ==
  /\ At("slots")
  /\ req' = [req EXCEPT !.pc = After(Known(number), "proof"),
                        !.slots = IF Known(number) THEN getStorageAt(number) ELSE @]
  /\ UNCHANGED <<world, removed>>

GetProof ==
  /\ At("proof")
  /\ req' = [req EXCEPT !.pc = After(Known(number), "header"),
                        !.proof = IF Known(number) THEN getProofs(number, req.slots) ELSE @]
  /\ UNCHANGED <<world, removed>>

\* The answer for a block that the node does not have is null.
GetBlockByNumber ==
  /\ At("header")
  /\ req' = [req EXCEPT !.pc = "passer",
                        !.header = IF Known(number) THEN BlockAt(number) ELSE NullBlock]
  /\ UNCHANGED <<world, removed>>

\* Mutant of Encodable: null has the fields of a block.
Encodable_Null(header) == TRUE

\* null.stateRoot throws.
Encodable(header) == header # NullBlock

\* getMessagePasserStorageRoot, and the encoding of all that was read.
GetMessagePasserStorageRoot ==
  /\ At("passer")
  /\ req' = [req EXCEPT !.pc = After(Known(number) /\ Encodable(req.header), "responded"),
                        !.passer = IF Known(number) THEN PasserOf(BlockAt(number)) ELSE @]
  /\ UNCHANGED <<world, removed>>

-----------------------------------------------------------------------------
(* OPVerifier.getStorageValues                                             *)

\* Mutant of OutputRoot: only the message passer is compared.
OutputRoot_Passer(state, passer, block) == passer

\* hashOutputRootProof, free of collisions
OutputRoot(state, passer, block) == <<state, passer, block>>

Callback ==
  /\ At("responded")
  /\ \E view \in Views :
       LET expected == OutputRoot(StateOf(req.header), req.passer, req.header)
           l2out == outputs[req.index + 1]
           ok == /\ req.index < view
                 /\ OutputRoot(StateOf(l2out), PasserOf(l2out), l2out) = expected
                 /\ Verifies(req.proof, StateOf(req.header))
       IN  req' = [req EXCEPT !.pc = IF ok THEN "returned" ELSE "reverted"]
  /\ UNCHANGED <<world, removed>>

-----------------------------------------------------------------------------
(* The chains                                                              *)

CallFails ==
  /\ Running /\ ~At("responded")
  /\ faults < MaxFaults /\ faults' = faults + 1
  /\ req' = [req EXCEPT !.pc = After(FALSE, @)]
  /\ UNCHANGED <<chain, reorgs, outputs, removed>>

\* The oracle takes outputs in the order of block numbers, and any claim about
\* a block; the L2 node has the blocks of all outputs but the last few.
Propose ==
  /\ Len(outputs) < MaxOutputs
  /\ \E b \in Block :
       /\ b[1] > (IF outputs = <<>> THEN 0 ELSE Last(outputs)[1])
       /\ outputs' = Append(outputs, b)
       /\ Len(outputs') > Lag => outputs'[Len(outputs') - Lag][1] <= Latest
  /\ UNCHANGED <<chain, reorgs, req, faults, removed>>

\* deleteL2Outputs
DeleteL2Outputs ==
  /\ \E n \in 0 .. Len(outputs) - 1 :
       /\ outputs' = SubSeq(outputs, 1, n)
       /\ removed' = IF At("latest") THEN 0 ELSE removed + Len(outputs) - n
       /\ removed' <= MaxRemoved
  /\ UNCHANGED <<chain, reorgs, req, faults>>

ChainStep == (Mine \/ Reorganise) /\ UNCHANGED <<outputs, req, faults, removed>>

-----------------------------------------------------------------------------
Step ==
  \/ LatestOutputIndex \/ GetL2Output \/ GetStorageAt \/ GetProof
  \/ GetBlockByNumber \/ GetMessagePasserStorageRoot \/ Callback

\* The chains are of interest until the request ends.
Next == Step \/ CallFails \/ (Running /\ (Propose \/ DeleteL2Outputs \/ ChainStep))

Spec == Init /\ [][Next]_vars

\* Every call is answered or times out, and the client calls back.
FairSpec == Spec /\ WF_vars(Step)

-----------------------------------------------------------------------------
MaybeBlock == Block \cup {NullBlock}
Passers == {PasserOf(b) : b \in Block}

Request ==
  [pc : {"latest", "output", "slots", "proof", "header", "passer", "responded",
         "failed", "reverted", "returned"},
   index : Int, claim : MaybeBlock, slots : Slots \cup {<<>>},
   proof : StateProof \cup {NoRequest.proof}, header : MaybeBlock,
   passer : Passers \cup {NoState}]

\* What a request has found when it gets somewhere.
Complete(q) ==
  /\ q.pc \in {"slots", "proof", "header", "passer", "responded"} =>
       q.index \in Nat /\ q.claim \in Block
  /\ q.pc = "responded" => q.header \in Block

TypeOK ==
  /\ ChainTypeOK /\ outputs \in Seq(Block)
  /\ req \in Request /\ Complete(req)
  /\ faults \in 0 .. MaxFaults /\ removed \in 0 .. MaxRemoved

(***************************************************************************)
(* A request that is answered is answered with the state of the block that *)
(* the oracle's output claims at that moment, although proof, header and   *)
(* message passer were three reads by number, with reorganisations between *)
(* them, and the output may have been deleted and proposed again.          *)
(***************************************************************************)
AnswersOutput ==
  [][At("responded") /\ req'.pc = "returned" =>
       /\ req.index + 1 \in DOMAIN outputs
       /\ Verifies(req.proof, StateOf(outputs[req.index + 1]))]_vars

(***************************************************************************)
(* OPProofService.ts:52 goes "a few batches backwards to avoid errors like *)
(* delays between nodes".  It does: nodes that are behind and outputs that *)
(* are deleted make no request fail as long as the outputs lost to both    *)
(* are no more than the delay.  What is left are reorganisations of L2,    *)
(* failing calls, an oracle with too few outputs, and a wrong claim.       *)
(***************************************************************************)
Serves ==
  /\ req.pc \in {"failed", "reverted"}
  /\ reorgs = 0 /\ faults = 0 /\ removed + Lag <= Delay
  => \/ req.index < 0
     \/ req.claim # NullBlock /\ req.claim # BlockAt(number)

\* Every request ends.
Settles == <>(~Running)
=============================================================================
