---------------------------- MODULE L1ProofService ----------------------------
(***************************************************************************)
(* How the gateway for L1 itself serves requests: l1-gateway/src/          *)
(* L1ProofService.ts, and l1-verifier/contracts/L1Verifier.sol behind      *)
(* evm-verifier/contracts/EVMFetchTarget.sol.  The contract that is called *)
(* back runs on the chain whose state is proven: it knows the hashes of    *)
(* the last Window blocks before its own, and of no others.                *)
(***************************************************************************)
EXTENDS TargetChain

CONSTANTS
  Requests,
  Window,       \* 256
  Lag,          \* blocks by which the client's node may be behind
  MaxFaults     \* bound on failing calls

\* Assumed where the module is used.
L1Assumption ==
  Window \in Nat \ {0} /\ Lag \in Nat /\ MaxFaults \in Nat

VARIABLES
  req,          \* what the gateway, and then the verifier, do for a request
  faults

vars == <<chain, reorgs, req, faults>>

NoBlock == <<-1, 0>>
NoState == "noState"

\* asked and calledAt are histories: the latest block when the request
\* came, and the one it was called back at.
NoRequest ==
  [pc |-> "block", number |-> -1, slots |-> <<>>, proof |-> [state |-> NoState, slots |-> <<>>],
   header |-> NoBlock, asked |-> 0, calledAt |-> 0]

Init == ChainInit /\ req = [r \in Requests |-> NoRequest] /\ faults = 0

At(r, pc) == req[r].pc = pc
Goto(r, f) == req' = [req EXCEPT ![r] = f] /\ UNCHANGED <<chain, reorgs, faults>>

\* Mutant of After: start over instead of failing.
After_Retry(ok, pc) == IF ok THEN pc ELSE "block"

\* A rejected call ends the request.
After(ok, pc) == IF ok THEN pc ELSE "failed"

-----------------------------------------------------------------------------
\* Mutant of Provable: the latest block itself.
Provable_Latest(latest) == latest

\* The hash of the block a call runs at is not known to it.
Provable(latest) == latest - 1

\* getProvableBlock
GetBlock(r) ==
  /\ At(r, "block")
  /\ Goto(r, [req[r] EXCEPT !.pc = "slots", !.number = Provable(Latest), !.asked = Latest])

\* ethers counts a negative block number back from the latest block.
Tag(n) == IF n < 0 THEN Latest + n ELSE n

GetStorageAt(r) ==
  /\ At(r, "slots")
  /\ LET n == Tag(req[r].number)
     IN  Goto(r, [req[r] EXCEPT !.pc = After(Known(n), "proof"),
                                !.slots = IF Known(n) THEN getStorageAt(n) ELSE @])

\* eth_getProof; -1 becomes 0x-1, which no node takes.
GetProof(r) ==
  /\ At(r, "proof")
  /\ LET n == req[r].number
     IN  Goto(r, [req[r] EXCEPT !.pc = After(Known(n), "header"),
                                !.proof = IF Known(n) THEN getProofs(n, req[r].slots) ELSE @])

\* eth_getBlockByNumber; Block.fromRPC throws on null.
GetBlockByNumber(r) ==
  /\ At(r, "header")
  /\ LET n == req[r].number
     IN  Goto(r, [req[r] EXCEPT !.pc = After(Known(n), "responded"),
                                !.header = IF Known(n) THEN BlockAt(n) ELSE @])

GatewayStep(r) == GetBlock(r) \/ GetStorageAt(r) \/ GetProof(r) \/ GetBlockByNumber(r)

CallFails(r) ==
  /\ req[r].pc \in {"block", "slots", "proof", "header"}
  /\ faults < MaxFaults /\ faults' = faults + 1
  /\ req' = [req EXCEPT ![r].pc = After(FALSE, @)]
  /\ UNCHANGED <<chain, reorgs>>

-----------------------------------------------------------------------------
\* Mutant of HasHash: any block of the chain will do.
HasHash_Any(n, h) == n \in 0 .. h - 1

\* blockhash(n) in a call at block h is zero for other blocks.
HasHash(n, h) == n \in 0 .. h - 1 /\ n >= h - Window

\* getStorageSlotsCallback and L1Verifier.getStorageValues
Callback(r) ==
  /\ At(r, "responded")
  /\ \E h \in 0 .. Latest :
       /\ h >= Latest - Lag
       /\ LET q == req[r]
              ok == /\ HasHash(q.number, h) /\ q.header = BlockAt(q.number)
                    /\ Verifies(q.proof, StateOf(q.header))
          IN  Goto(r, [q EXCEPT !.pc = IF ok THEN "returned" ELSE "reverted", !.calledAt = h])

ChainStep == (Mine \/ Reorganise) /\ UNCHANGED <<req, faults>>

-----------------------------------------------------------------------------
Request ==
  [pc : {"block", "slots", "proof", "header", "responded", "returned", "reverted", "failed"},
   number : Int, slots : Slots \cup {<<>>}, proof : StateProof \cup {NoRequest.proof},
   header : Block \cup {NoBlock}, asked : Nat, calledAt : Nat]

\* What a request has found when it is called back.
Complete(q) == q.pc = "responded" => q.number \in Nat /\ q.header \in Block

TypeOK ==
  /\ ChainTypeOK
  /\ req \in [Requests -> Request] /\ \A r \in Requests : Complete(req[r])
  /\ faults \in 0 .. MaxFaults

(***************************************************************************)
(* A request that is answered is answered with the state of a block that   *)
(* is on the chain when the contract is called back, one of the last       *)
(* Window: proofs and headers of blocks that were reorganised away, a      *)
(* mixture of two forks, and stale responses all revert.                   *)
(***************************************************************************)
AnswersRecent ==
  [][\A r \in Requests : At(r, "responded") /\ req'[r].pc = "returned" =>
       /\ req'[r].calledAt >= Latest - Lag
       /\ \E n \in 0 .. Latest : /\ n >= req'[r].calledAt - Window
                              /\ Verifies(req[r].proof, StateAt(n))]_vars

(***************************************************************************)
(* Without reorganisations and failing calls a request fails for one of    *)
(* three reasons: the chain had only its genesis, the client's node was    *)
(* behind the gateway's, or the client took as long as Window blocks.      *)
(* latest - 1 is the block for which this holds from the first moment on.  *)
(***************************************************************************)
Serves ==
  \A r \in Requests :
    req[r].pc \in {"failed", "reverted"} /\ reorgs = 0 /\ faults = 0 =>
      \/ req[r].asked = 0
      \/ At(r, "reverted") /\ req[r].calledAt \notin req[r].asked .. req[r].asked + Window - 1
=============================================================================
