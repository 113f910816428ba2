---------------------------- MODULE ArbProofService ----------------------------
(***************************************************************************)
(* How the Arbitrum gateway finds the block it proves:                     *)
(* arb-gateway/src/ArbProofService.ts with its one-entry cache             *)
(* arb-gateway/src/blockCache/InMemoryBlockCache.ts, and the check of      *)
(* arb-verifier/contracts/ArbVerifier.sol that the response must pass.     *)
(*                                                                         *)
(* The rollup contract numbers its nodes; a node asserts an L2 block hash  *)
(* and a send root.  Requests run interleaved and share the cache; their   *)
(* calls are answered while both chains go on.                             *)
(***************************************************************************)
EXTENDS Naturals, Sequences, FiniteSets

CONSTANTS
  Requests,     \* the requests of clients
  Blocks,       \* L2 blocks: hash, header and state
  NumberOf,     \* NumberOf[b]: number of block b
  SendRoots,
  NullBlock,    \* the answer for a block the L2 node does not know
  EmptyBlock,   \* the {} of a new cache
  NoRoot,       \* its '' for a send root
  MaxNodes,     \* bound on nodes of the rollup
  MaxReorgs,    \* bound on reorganisations of either chain
  MaxFaults     \* bound on failing calls

ASSUME ArbAssumption ==
  /\ NumberOf \in [Blocks -> Nat]
  /\ NullBlock \notin Blocks /\ EmptyBlock \notin Blocks /\ NullBlock # EmptyBlock
  /\ NoRoot \notin SendRoots
  /\ MaxNodes \in Nat /\ MaxReorgs \in Nat /\ MaxFaults \in Nat

VARIABLES
  nodes,    \* assertions of the rollup's nodes 1, 2, ...; node 0 is the genesis
  known,    \* blocks the L2 node has
  chain,    \* those on its canonical chain
  cache,    \* the InMemoryBlockCache
  req,      \* req[r]: what the gateway, and then the verifier, do for r
  reorgs, faults,
  asserted, \* history: what nodes have ever asserted
  lost      \* history: nodes whose block the L2 node did not know when asked

vars == <<nodes, known, chain, cache, req, reorgs, faults, asserted, lost>>
world == <<nodes, known, chain, reorgs, faults, asserted>>

Assertion == [block : Blocks, sendRoot : SendRoots]
NoRequest ==
  [pc |-> "latest", nodeIndex |-> 0, block |-> EmptyBlock, sendRoot |-> NoRoot,
   proof |-> EmptyBlock]

Init ==
  /\ nodes = <<>> /\ asserted = {}
  /\ \E b \in Blocks : known = {b} /\ chain = {b}
  /\ cache = [nodeIndex |-> 0, block |-> EmptyBlock, sendRoot |-> NoRoot]
  /\ req = [r \in Requests |-> NoRequest]
  /\ reorgs = 0 /\ faults = 0 /\ lost = {}

Goto(r, f) == req' = [req EXCEPT ![r] = f]
At(r, pc) == req[r].pc = pc

-----------------------------------------------------------------------------
(* getProvableBlock, getL2BlockForNode                                     *)

\* The rollup contract answers latestNodeCreated().
LatestNodeCreated(r) ==
  /\ At(r, "latest")
  /\ Goto(r, [req[r] EXCEPT !.pc = "cache", !.nodeIndex = Len(nodes)])
  /\ UNCHANGED <<world, cache, lost>>

\* Mutant of IsHit: an entry for a later node will do.
IsHit_Later(nodeIndex) == nodeIndex <= cache.nodeIndex

\* InMemoryBlockCache.getBlock
IsHit(nodeIndex) == nodeIndex = cache.nodeIndex

GetBlock(r) ==
  /\ At(r, "cache")
  /\ Goto(r, IF IsHit(req[r].nodeIndex)
             THEN [req[r] EXCEPT !.pc = "encode", !.block = cache.block,
                                 !.sendRoot = cache.sendRoot]
             ELSE [req[r] EXCEPT !.pc = "events"])
  /\ UNCHANGED <<world, cache, lost>>

\* The NodeCreated event of the node, if the chain still has it; there is
\* none for the genesis.
QueryFilter(r) ==
  /\ At(r, "events")
  /\ LET n == req[r].nodeIndex
     IN Goto(r, IF n \in DOMAIN nodes
                THEN [req[r] EXCEPT !.pc = "fetch", !.block = nodes[n].block,
                                    !.sendRoot = nodes[n].sendRoot]
                ELSE [req[r] EXCEPT !.pc = "failed"])
  /\ UNCHANGED <<world, cache, lost>>

\* The L2 node answers eth_getBlockByHash.
GetBlockByHash(r) ==
  /\ At(r, "fetch")
  /\ LET found == req[r].block \in known
     IN  /\ Goto(r, [req[r] EXCEPT !.pc = "store",
                                   !.block = IF found THEN @ ELSE NullBlock])
         /\ lost' = IF found THEN lost ELSE lost \cup {req[r].nodeIndex}
  /\ UNCHANGED <<world, cache>>

\* Mutant of Entry: the cache is filled for the node that is latest by now.
Entry_Latest(r) ==
  [nodeIndex |-> Len(nodes), block |-> req[r].block, sendRoot |-> req[r].sendRoot]

Entry(r) ==
  [nodeIndex |-> req[r].nodeIndex, block |-> req[r].block, sendRoot |-> req[r].sendRoot]

\* The answer arrives and goes into the cache, whatever it is.
SetBlock(r) ==
  /\ At(r, "store")
  /\ cache' = Entry(r)
  /\ Goto(r, [req[r] EXCEPT !.pc = "encode"])
  /\ UNCHANGED <<world, lost>>

\* Mutant of Encodable: an unknown block has the fields of a block.
Encodable_Null(block) == block # EmptyBlock

\* toBeHex(undefined) and null.parentHash throw.
Encodable(block) == block \in Blocks

\* rlpEncodedBlock
Encode(r) ==
  /\ At(r, "encode")
  /\ Goto(r, [req[r] EXCEPT !.pc = IF Encodable(req[r].block) THEN "proofs" ELSE "failed"])
  /\ UNCHANGED <<world, cache, lost>>

\* getProofs: eth_getProof, by the number of the block.
GetProofs(r) ==
  /\ At(r, "proofs")
  /\ LET same == {b \in chain : NumberOf[b] = NumberOf[req[r].block]}
     IN  IF same = {}
         THEN Goto(r, [req[r] EXCEPT !.pc = "failed"])
         ELSE \E b \in same : Goto(r, [req[r] EXCEPT !.pc = "responded", !.proof = b])
  /\ UNCHANGED <<world, cache, lost>>

\* ArbVerifier.getStorageValues: the node must have confirmData for block and
\* send root, and the state proof must be for the block's state root.
Callback(r) ==
  /\ At(r, "responded")
  /\ LET n == req[r].nodeIndex
         confirmed == /\ n \in DOMAIN nodes
                      /\ nodes[n] = [block |-> req[r].block, sendRoot |-> req[r].sendRoot]
     IN Goto(r, [req[r] EXCEPT !.pc = IF confirmed /\ req[r].proof = req[r].block
                                      THEN "returned" ELSE "reverted"])
  /\ UNCHANGED <<world, cache, lost>>

-----------------------------------------------------------------------------
(* The chains                                                              *)

CallFails(r) ==
  /\ req[r].pc \in {"latest", "events", "fetch", "proofs"}
  /\ faults < MaxFaults /\ faults' = faults + 1
  /\ Goto(r, [req[r] EXCEPT !.pc = "failed"])
  /\ UNCHANGED <<nodes, known, chain, cache, reorgs, asserted, lost>>

CreateNode ==
  /\ Len(nodes) < MaxNodes
  /\ \E a \in Assertion :
       /\ nodes' = Append(nodes, a)
       /\ asserted' = asserted \cup {<<Len(nodes) + 1, a>>}
  /\ UNCHANGED <<known, chain, cache, req, reorgs, faults, lost>>

\* L1 is reorganised: its latest node is gone; another may be created.
DropNode ==
  /\ nodes # <<>> /\ reorgs < MaxReorgs /\ reorgs' = reorgs + 1
  /\ nodes' = SubSeq(nodes, 1, Len(nodes) - 1)
  /\ UNCHANGED <<known, chain, cache, req, faults, asserted, lost>>

\* The L2 node gets the next block, or reorganises to another one.
NewBlock ==
  \E b \in Blocks \ chain :
    LET below == {c \in chain : NumberOf[c] < NumberOf[b]}
    IN  /\ below # chain => reorgs < MaxReorgs
        /\ reorgs' = IF below = chain THEN reorgs ELSE reorgs + 1
        /\ chain' = below \cup {b} /\ known' = known \cup {b}
        /\ UNCHANGED <<nodes, cache, req, faults, asserted, lost>>

-----------------------------------------------------------------------------
Step(r) ==
  \/ LatestNodeCreated(r) \/ GetBlock(r) \/ QueryFilter(r) \/ GetBlockByHash(r)
  \/ SetBlock(r) \/ Encode(r) \/ GetProofs(r) \/ Callback(r) \/ CallFails(r)

Next == (\E r \in Requests : Step(r)) \/ CreateNode \/ DropNode \/ NewBlock

Spec == Init /\ [][Next]_vars

-----------------------------------------------------------------------------
Entries ==
  [nodeIndex : Nat, block : Blocks \cup {NullBlock, EmptyBlock},
   sendRoot : SendRoots \cup {NoRoot}]

RequestState ==
  [pc : {"latest", "cache", "events", "fetch", "store", "encode", "proofs",
         "responded", "returned", "reverted", "failed"},
   nodeIndex : Nat, block : Blocks \cup {NullBlock, EmptyBlock},
   sendRoot : SendRoots \cup {NoRoot}, proof : Blocks \cup {EmptyBlock}]

HasBlock(q) == q.pc \in {"fetch", "proofs", "responded"} => q.block \in Blocks

TypeOK ==
  /\ nodes \in Seq(Assertion) /\ chain \subseteq known /\ known \subseteq Blocks
  /\ cache \in Entries
  /\ req \in [Requests -> RequestState] /\ \A r \in Requests : HasBlock(req[r])
  /\ reorgs \in 0 .. MaxReorgs /\ faults \in 0 .. MaxFaults
  /\ asserted \subseteq Nat \X Assertion /\ lost \subseteq Nat

\* A node asserted this block with this send root.
IsAsserted(n, block, sendRoot) == <<n, [block |-> block, sendRoot |-> sendRoot]>> \in asserted

(***************************************************************************)
(* However the requests for different nodes overwrite each other's cache   *)
(* entry, the block and the send root that a request goes on with, and     *)
(* those in the cache, are what its node, and no other, once asserted.     *)
(***************************************************************************)
OneNode ==
  /\ cache.block \in Blocks => IsAsserted(cache.nodeIndex, cache.block, cache.sendRoot)
  /\ \A r \in Requests :
       req[r].block \in Blocks => IsAsserted(req[r].nodeIndex, req[r].block, req[r].sendRoot)

(***************************************************************************)
(* A request fails, in the gateway or in the verifier, only after a        *)
(* reorganisation or a failed call, for the genesis node, or for a node    *)
(* whose block the L2 node once did not have: an older node's request that *)
(* fills the cache late, or new nodes, never make one fail.                *)
(***************************************************************************)
Serves ==
  \A r \in Requests :
    req[r].pc \in {"failed", "reverted"} /\ reorgs = 0 /\ faults = 0 =>
      req[r].nodeIndex = 0 \/ req[r].nodeIndex \in lost

-----------------------------------------------------------------------------
(***************************************************************************)
(* ArbProofService.ts:154 says of the cache: "Cache the block for future   *)
(* use".  What is cached would then be a block.                            *)
(***************************************************************************)
CachesBlocks == cache.block # NullBlock
=============================================================================
