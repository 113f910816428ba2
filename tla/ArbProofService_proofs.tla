------------------------- MODULE ArbProofService_proofs -------------------------
(***************************************************************************)
(* Proofs that the Arbitrum gateway never mixes nodes, and that its cache  *)
(* makes no request fail, for any number of requests, nodes and            *)
(* reorganisations.                                                        *)
(***************************************************************************)
EXTENDS ArbProofService, TLAPS

\* The rollup's nodes are on record, which is what ties the event a request
\* reads to the index it had before.
Recorded == \A n \in DOMAIN nodes : <<n, nodes[n]>> \in asserted

\* A request has no block before it has asked for one.
Early ==
  \A r \in Requests : req[r].pc \in {"latest", "cache", "events"} => req[r].block = EmptyBlock

ArbInv == TypeOK /\ Recorded /\ Early /\ OneNode

-----------------------------------------------------------------------------
\* A new gateway has cached nothing.
LEMMA ArbInit == Init => ArbInv
BY ArbAssumption DEF Init, ArbInv, TypeOK, Recorded, Early, OneNode, Entries, NoRequest,
                        RequestState, HasBlock, Assertion

\* What requests and cache hold stays on record while the record grows.
LEMMA WorldStep ==
  ASSUME ArbInv, CreateNode \/ DropNode \/ NewBlock
  PROVE  ArbInv'
<1>1. CASE CreateNode
  <2>1. PICK a \in Assertion :
          /\ nodes' = Append(nodes, a)
          /\ asserted' = asserted \cup {<<Len(nodes) + 1, a>>}
    BY <1>1 DEF CreateNode
  <2>2. nodes \in Seq(Assertion)
    BY DEF ArbInv, TypeOK
  <2>3. TypeOK'
    <3>1. nodes' \in Seq(Assertion) /\ asserted' \subseteq Nat \X Assertion
      BY <2>1, <2>2 DEF ArbInv, TypeOK
    <3> QED BY <1>1, <3>1 DEF ArbInv, TypeOK, CreateNode
  <2>4. Recorded'
    BY <2>1, <2>2 DEF ArbInv, Recorded
  <2>5. OneNode'
    BY <1>1, <2>1 DEF ArbInv, OneNode, IsAsserted, CreateNode
  <2>6. Early'
    BY <1>1 DEF ArbInv, Early, CreateNode
  <2> QED BY <2>3, <2>4, <2>5, <2>6 DEF ArbInv
<1>2. CASE DropNode
  <2>1. /\ nodes \in Seq(Assertion) /\ nodes # <<>>
        /\ nodes' = SubSeq(nodes, 1, Len(nodes) - 1) /\ asserted' = asserted
    BY <1>2 DEF ArbInv, TypeOK, DropNode
  <2>2. TypeOK'
    BY <1>2, <2>1, ArbAssumption DEF ArbInv, TypeOK, DropNode
  <2>3. Recorded'
    BY <2>1 DEF ArbInv, Recorded
  <2>4. OneNode' /\ Early'
    BY <1>2 DEF ArbInv, OneNode, IsAsserted, Early, DropNode
  <2> QED BY <2>2, <2>3, <2>4 DEF ArbInv
<1>3. CASE NewBlock
  <2>1. TypeOK'
    BY <1>3, ArbAssumption DEF ArbInv, TypeOK, NewBlock
  <2>2. Recorded' /\ Early' /\ OneNode'
    BY <1>3 DEF ArbInv, Recorded, Early, OneNode, IsAsserted, NewBlock
  <2> QED BY <2>1, <2>2 DEF ArbInv
<1> QED BY <1>1, <1>2, <1>3

\* The state a step gives to a request is one a request can be in, and is
\* backed by the record.
LEMMA GotoInv ==
  ASSUME ArbInv, NEW r \in Requests, NEW f \in RequestState, Goto(r, f), HasBlock(f),
         f.pc \notin {"latest", "cache", "events"} \/ f.block = EmptyBlock,
         f.block \in Blocks => IsAsserted(f.nodeIndex, f.block, f.sendRoot),
         UNCHANGED <<nodes, known, chain, reorgs, asserted>>,
         faults' \in 0 .. MaxFaults, lost' \subseteq Nat, cache' \in Entries,
         cache'.block \in Blocks => IsAsserted(cache'.nodeIndex, cache'.block, cache'.sendRoot)
  PROVE  ArbInv'
<1>1. /\ req \in [Requests -> RequestState] /\ req' \in [Requests -> RequestState]
      /\ req'[r] = f /\ \A q \in Requests : q # r => req'[q] = req[q]
  BY DEF Goto, ArbInv, TypeOK
<1>2. TypeOK'
  BY <1>1 DEF ArbInv, TypeOK
<1>3. Recorded' /\ Early'
  BY <1>1 DEF ArbInv, Recorded, Early
<1>4. OneNode'
  BY <1>1 DEF ArbInv, OneNode, IsAsserted
<1> QED BY <1>2, <1>3, <1>4 DEF ArbInv

\* A request takes a block only together with its node.
LEMMA StepInv == ASSUME ArbInv, NEW r \in Requests, Step(r) PROVE ArbInv'
<1>1. /\ req[r] \in RequestState /\ HasBlock(req[r])
      /\ nodes \in Seq(Assertion) /\ cache \in Entries /\ lost \subseteq Nat
      /\ faults \in 0 .. MaxFaults /\ chain \subseteq Blocks
      /\ \A n \in DOMAIN nodes : <<n, nodes[n]>> \in asserted
      /\ req[r].pc \in {"latest", "cache", "events"} => req[r].block = EmptyBlock
      /\ req[r].block \in Blocks => IsAsserted(req[r].nodeIndex, req[r].block, req[r].sendRoot)
      /\ cache.block \in Blocks => IsAsserted(cache.nodeIndex, cache.block, cache.sendRoot)
  BY DEF ArbInv, TypeOK, Recorded, Early, OneNode
<1>2. CASE LatestNodeCreated(r)
  <2> DEFINE f == [req[r] EXCEPT !.pc = "cache", !.nodeIndex = Len(nodes)]
  <2>0. Len(nodes) \in Nat /\ req[r].pc = "latest"
    BY <1>1, <1>2 DEF LatestNodeCreated, At
  <2>1. f \in RequestState /\ f.pc = "cache" /\ f.block = EmptyBlock
    BY <1>1, <2>0 DEF RequestState
  <2>2. Goto(r, f) /\ UNCHANGED <<world, cache, lost>>
    BY <1>2 DEF LatestNodeCreated
  <2> HIDE DEF f
  <2> QED BY <1>1, <2>1, <2>2, GotoInv, ArbAssumption DEF HasBlock, world
<1>3. CASE GetBlock(r)
  <2> DEFINE h == [req[r] EXCEPT !.pc = "encode", !.block = cache.block, !.sendRoot = cache.sendRoot]
             e == [req[r] EXCEPT !.pc = "events"]
  <2>1. h \in RequestState /\ h.pc = "encode" /\ h.block = cache.block
        /\ h.sendRoot = cache.sendRoot /\ h.nodeIndex = req[r].nodeIndex
    BY <1>1 DEF RequestState, Entries
  <2>2. e \in RequestState /\ e.pc = "events" /\ e.block = EmptyBlock
    BY <1>1, <1>3 DEF RequestState, GetBlock, At
  <2>3. /\ \/ req[r].nodeIndex = cache.nodeIndex /\ Goto(r, h)
           \/ Goto(r, e)
        /\ UNCHANGED <<world, cache, lost>>
    BY <1>3 DEF GetBlock, IsHit
  <2> HIDE DEF h, e
  <2>4. CASE req[r].nodeIndex = cache.nodeIndex /\ Goto(r, h)
    BY <1>1, <2>1, <2>3, <2>4, GotoInv DEF HasBlock, world
  <2>5. CASE Goto(r, e)
    BY <1>1, <2>2, <2>3, <2>5, GotoInv, ArbAssumption DEF HasBlock, world
  <2> QED BY <2>3, <2>4, <2>5
<1>4. CASE QueryFilter(r)
  <2> DEFINE n == req[r].nodeIndex
             f == [req[r] EXCEPT !.pc = "fetch", !.block = nodes[n].block, !.sendRoot = nodes[n].sendRoot]
             e == [req[r] EXCEPT !.pc = "failed"]
  <2>1. CASE n \in DOMAIN nodes
    <3>1. /\ nodes[n] \in Assertion /\ <<n, nodes[n]>> \in asserted
          /\ nodes[n] = [block |-> nodes[n].block, sendRoot |-> nodes[n].sendRoot]
      <4>1. nodes[n] \in Assertion /\ <<n, nodes[n]>> \in asserted
        BY <1>1, <2>1
      <4>2. \A a \in Assertion : a = [block |-> a.block, sendRoot |-> a.sendRoot]
        BY DEF Assertion
      <4> QED BY <4>1, <4>2
    <3>2. f \in RequestState /\ f.pc = "fetch" /\ f.block = nodes[n].block /\ f.block \in Blocks
          /\ f.sendRoot = nodes[n].sendRoot /\ f.nodeIndex = n
      BY <1>1, <3>1 DEF RequestState, Assertion
    <3>3. Goto(r, f) /\ UNCHANGED <<world, cache, lost>>
      BY <1>4, <2>1 DEF QueryFilter
    <3>4. IsAsserted(f.nodeIndex, f.block, f.sendRoot)
      BY <3>1, <3>2 DEF IsAsserted
    <3> HIDE DEF f
    <3> QED BY <1>1, <3>2, <3>3, <3>4, GotoInv DEF HasBlock, world
  <2>2. CASE n \notin DOMAIN nodes
    <3>1. e \in RequestState /\ e.pc = "failed" /\ e.block = EmptyBlock
      BY <1>1, <1>4 DEF RequestState, QueryFilter, At
    <3>2. Goto(r, e) /\ UNCHANGED <<world, cache, lost>>
      BY <1>4, <2>2 DEF QueryFilter
    <3> HIDE DEF e
    <3> QED BY <1>1, <3>1, <3>2, GotoInv, ArbAssumption DEF HasBlock, world
  <2> QED BY <2>1, <2>2
<1>5. CASE GetBlockByHash(r)
  <2> DEFINE f == [req[r] EXCEPT !.pc = "store", !.block = IF req[r].block \in known THEN @ ELSE NullBlock]
  <2>1. f \in RequestState /\ f.pc = "store" /\ f.block \in {req[r].block, NullBlock}
        /\ f.sendRoot = req[r].sendRoot /\ f.nodeIndex = req[r].nodeIndex /\ f.nodeIndex \in Nat
    BY <1>1 DEF RequestState
  <2>2. Goto(r, f) /\ UNCHANGED <<world, cache>> /\ lost' \subseteq lost \cup {req[r].nodeIndex}
    BY <1>5 DEF GetBlockByHash
  <2> HIDE DEF f
  <2> QED BY <1>1, <2>1, <2>2, GotoInv, ArbAssumption DEF HasBlock, world
<1>6. CASE SetBlock(r)
  <2> DEFINE f == [req[r] EXCEPT !.pc = "encode"]
  <2>1. f \in RequestState /\ f.pc = "encode" /\ f.block = req[r].block
        /\ f.sendRoot = req[r].sendRoot /\ f.nodeIndex = req[r].nodeIndex
    BY <1>1 DEF RequestState
  <2>2. Goto(r, f) /\ UNCHANGED <<world, lost>> /\ cache' = Entry(r)
    BY <1>6 DEF SetBlock
  <2>3. Entry(r) \in Entries /\ Entry(r).block = req[r].block
        /\ Entry(r).sendRoot = req[r].sendRoot /\ Entry(r).nodeIndex = req[r].nodeIndex
    BY <1>1 DEF RequestState, Entry, Entries
  <2> HIDE DEF f
  <2> QED BY <1>1, <2>1, <2>2, <2>3, GotoInv DEF HasBlock, world
<1>7. CASE Encode(r)
  <2> DEFINE f == [req[r] EXCEPT !.pc = IF Encodable(req[r].block) THEN "proofs" ELSE "failed"]
  <2>1. /\ f \in RequestState /\ f.pc \in {"proofs", "failed"} /\ f.block = req[r].block
        /\ f.sendRoot = req[r].sendRoot /\ f.nodeIndex = req[r].nodeIndex
        /\ f.pc = "proofs" => f.block \in Blocks
    BY <1>1 DEF RequestState, Encodable
  <2>2. Goto(r, f) /\ UNCHANGED <<world, cache, lost>>
    BY <1>7 DEF Encode
  <2> HIDE DEF f
  <2> QED BY <1>1, <2>1, <2>2, GotoInv DEF HasBlock, world
<1>8. CASE GetProofs(r)
  <2> DEFINE e == [req[r] EXCEPT !.pc = "failed"]
             f(b) == [req[r] EXCEPT !.pc = "responded", !.proof = b]
  <2>1. UNCHANGED <<world, cache, lost>> /\ (Goto(r, e) \/ \E b \in Blocks : Goto(r, f(b)))
    BY <1>1, <1>8 DEF GetProofs
  <2>2. e \in RequestState /\ e.pc = "failed" /\ e.block = req[r].block
        /\ e.sendRoot = req[r].sendRoot /\ e.nodeIndex = req[r].nodeIndex
    BY <1>1 DEF RequestState
  <2>3. req[r].block \in Blocks
    BY <1>1, <1>8 DEF GetProofs, At, HasBlock
  <2>4. CASE Goto(r, e)
    <3> HIDE DEF e
    <3> QED BY <1>1, <2>1, <2>2, <2>4, GotoInv DEF HasBlock, world
  <2>5. CASE \E b \in Blocks : Goto(r, f(b))
    <3>1. PICK b \in Blocks : Goto(r, f(b))
      BY <2>5
    <3>2. f(b) \in RequestState /\ f(b).pc = "responded" /\ f(b).block = req[r].block
          /\ f(b).sendRoot = req[r].sendRoot /\ f(b).nodeIndex = req[r].nodeIndex
      BY <1>1 DEF RequestState
    <3> HIDE DEF f
    <3> QED BY <1>1, <2>1, <2>3, <3>1, <3>2, GotoInv DEF HasBlock, world
  <2> QED BY <2>1, <2>4, <2>5
<1>9. CASE Callback(r)
  <2> DEFINE f(pc) == [req[r] EXCEPT !.pc = pc]
  <2>1. PICK pc \in {"returned", "reverted"} : Goto(r, f(pc)) /\ UNCHANGED <<world, cache, lost>>
    BY <1>9 DEF Callback
  <2>2. f(pc) \in RequestState /\ f(pc).pc = pc /\ f(pc).block = req[r].block
        /\ f(pc).sendRoot = req[r].sendRoot /\ f(pc).nodeIndex = req[r].nodeIndex
    BY <1>1 DEF RequestState
  <2> HIDE DEF f
  <2> QED BY <1>1, <2>1, <2>2, GotoInv DEF HasBlock, world
<1>10. CASE CallFails(r)
  <2> DEFINE f == [req[r] EXCEPT !.pc = "failed"]
  <2>1. f \in RequestState /\ f.pc = "failed" /\ f.block = req[r].block
        /\ f.sendRoot = req[r].sendRoot /\ f.nodeIndex = req[r].nodeIndex
    BY <1>1 DEF RequestState
  <2>2. /\ Goto(r, f) /\ UNCHANGED <<nodes, known, chain, cache, reorgs, asserted, lost>>
        /\ faults' \in 0 .. MaxFaults
    BY <1>1, <1>10, ArbAssumption DEF CallFails
  <2> HIDE DEF f
  <2> QED BY <1>1, <2>1, <2>2, GotoInv DEF HasBlock
<1> QED BY <1>2, <1>3, <1>4, <1>5, <1>6, <1>7, <1>8, <1>9, <1>10 DEF Step

-----------------------------------------------------------------------------
\* The invariant of ArbProofService: types, and what every request and the
\* cache carry.
THEOREM ArbInvariance == Spec => []ArbInv
<1>1. ASSUME ArbInv, [Next]_vars PROVE ArbInv'
  <2>1. CASE UNCHANGED vars
    BY <1>1, <2>1 DEF ArbInv, TypeOK, Recorded, Early, OneNode, IsAsserted, vars
  <2>2. CASE \E r \in Requests : Step(r)
    BY <1>1, <2>2, StepInv
  <2> QED BY <1>1, <2>1, <2>2, WorldStep DEF Next
<1> QED BY ArbInit, <1>1, PTL DEF Spec

\* Cache, requests and nodes keep their types; in particular a request never
\* asks for the proof of a block it does not have.
THEOREM ArbTypeCorrect == Spec => []TypeOK
<1>1. ArbInv => TypeOK
  BY DEF ArbInv
<1> QED BY <1>1, ArbInvariance, PTL

(***************************************************************************)
(* The block and the send root that a request goes on with, and those in   *)
(* the cache, are those of one node of the rollup.                         *)
(***************************************************************************)
THEOREM NodesAreNotMixed == Spec => []OneNode
<1>1. ArbInv => OneNode
  BY DEF ArbInv
<1> QED BY <1>1, ArbInvariance, PTL

-----------------------------------------------------------------------------
(* Serves                                                                  *)

\* Blocks of the canonical chain are told apart by number.  While nothing is
\* reorganised the L2 node has no others, and the record is the rollup.
Canonical ==
  /\ \A b, c \in chain : NumberOf[b] = NumberOf[c] => b = c
  /\ reorgs = 0 => /\ known = chain
                   /\ \A a \in asserted : a[1] \in DOMAIN nodes /\ a[2] = nodes[a[1]]

\* The L2 node has the block, or there is the excuse that Serves allows.
Excused(n) == n = 0 \/ n \in lost
Here(block, n) == block \in known \/ Excused(n)

\* A request whose node's block is there gets through.
Good(q) ==
  /\ q.pc \in {"store", "encode", "proofs", "responded"} => Here(q.block, q.nodeIndex)
  /\ reorgs = 0 =>
       /\ q.nodeIndex \in 0 .. Len(nodes)
       /\ q.pc = "responded" => q.proof = q.block \/ Excused(q.nodeIndex)
       /\ q.pc \in {"failed", "reverted"} /\ faults = 0 => Excused(q.nodeIndex)

ServesInv ==
  /\ Canonical
  /\ Here(cache.block, cache.nodeIndex)
  /\ \A r \in Requests : Good(req[r])

LEMMA ServesInit == Init => ServesInv
<1> SUFFICES ASSUME Init
             PROVE  ServesInv
  OBVIOUS
<1>1. Canonical
  BY DEF Init, Canonical
<1>2. Here(cache.block, cache.nodeIndex)
  BY DEF Init, Here, Excused
<1>3. \A r \in Requests : Good(req[r])
  BY DEF Init, NoRequest, Good
<1> QED BY <1>1, <1>2, <1>3 DEF ServesInv

LEMMA ServesWorldStep ==
  ASSUME ArbInv, ServesInv, CreateNode \/ DropNode \/ NewBlock
  PROVE  ServesInv'
<1>1. nodes \in Seq(Assertion) /\ reorgs \in Nat /\ chain \subseteq known /\ known \subseteq Blocks
  BY ArbAssumption DEF ArbInv, TypeOK
<1>2. UNCHANGED <<cache, req, faults, lost>>
  BY DEF CreateNode, DropNode, NewBlock
<1>3. CASE CreateNode
  <2>1. PICK a \in Assertion :
          /\ nodes' = Append(nodes, a)
          /\ asserted' = asserted \cup {<<Len(nodes) + 1, a>>}
    BY <1>3 DEF CreateNode
  <2>2. UNCHANGED <<known, chain, reorgs>>
    BY <1>3 DEF CreateNode
  <2>3. /\ Len(nodes') = Len(nodes) + 1 /\ Len(nodes) \in Nat
        /\ nodes'[Len(nodes) + 1] = a /\ DOMAIN nodes' = 1 .. Len(nodes) + 1
        /\ DOMAIN nodes = 1 .. Len(nodes)
        /\ \A n \in 1 .. Len(nodes) : nodes'[n] = nodes[n]
    BY <1>1, <2>1
  <2>4. Canonical'
    BY <2>1, <2>2, <2>3 DEF ServesInv, Canonical
  <2>5. \A q : Good(q) => Good(q)'
    BY <1>2, <2>2, <2>3 DEF Good, Here, Excused
  <2> QED BY <1>2, <2>2, <2>4, <2>5 DEF ServesInv, Here, Excused
<1>4. CASE DropNode
  <2>1. reorgs' # 0 /\ UNCHANGED <<known, chain>>
    BY <1>1, <1>4 DEF DropNode
  <2>2. Canonical'
    BY <2>1 DEF ServesInv, Canonical
  <2>3. \A q : Good(q) => Good(q)'
    BY <1>2, <2>1 DEF Good, Here, Excused
  <2> QED BY <1>2, <2>1, <2>2, <2>3 DEF ServesInv, Here, Excused
<1>5. CASE NewBlock
  <2>1. PICK b \in Blocks \ chain :
          LET below == {c \in chain : NumberOf[c] < NumberOf[b]}
          IN  /\ reorgs' = IF below = chain THEN reorgs ELSE reorgs + 1
              /\ chain' = below \cup {b} /\ known' = known \cup {b}
              /\ UNCHANGED <<nodes, asserted>>
    BY <1>5 DEF NewBlock
  <2> DEFINE below == {c \in chain : NumberOf[c] < NumberOf[b]}
  <2>2. reorgs' = 0 => reorgs = 0 /\ below = chain
    BY <1>1, <2>1
  <2>3. \A c \in below : NumberOf[c] # NumberOf[b]
    BY <1>1, ArbAssumption
  <2>4. Canonical'
    BY <2>1, <2>2, <2>3 DEF ServesInv, Canonical
  <2>5. \A q : Good(q) => Good(q)'
    BY <1>2, <2>1, <2>2 DEF Good, Here, Excused
  <2> QED BY <1>2, <2>1, <2>4, <2>5 DEF ServesInv, Here, Excused
<1> QED BY <1>3, <1>4, <1>5

\* A request that becomes q, with the chains as they were.
LEMMA GoodBecomes ==
  ASSUME ArbInv, ServesInv, NEW r \in Requests, NEW q, Goto(r, q),
         UNCHANGED <<nodes, known, chain, reorgs, asserted>>,
         lost \subseteq lost', faults' = faults \/ faults' # 0,
         Good(q)', Here(cache.block, cache.nodeIndex)'
  PROVE  ServesInv'
<1>1. Canonical'
  BY DEF ServesInv, Canonical
<1>2. \A p : Good(p) => Good(p)'
  BY DEF Good, Here, Excused
<1>3. \A s \in Requests : req'[s] = IF s = r THEN q ELSE req[s]
  BY DEF Goto, ArbInv, TypeOK
<1>4. ASSUME NEW s \in Requests PROVE Good(req[s])'
  <2>1. PICK p : p = req'[s] /\ Good(p)'
    BY <1>2, <1>3 DEF ServesInv
  <2> QED BY <2>1 DEF Good, Here, Excused
<1> QED BY <1>1, <1>4 DEF ServesInv

LEMMA GoodStep ==
  ASSUME ArbInv, ServesInv, NEW r \in Requests, Step(r)
  PROVE  ServesInv'
<1> DEFINE n == req[r].nodeIndex
           block == req[r].block
<1>1. /\ req[r] \in RequestState /\ HasBlock(req[r]) /\ Good(req[r])
      /\ nodes \in Seq(Assertion) /\ Len(nodes) \in Nat /\ DOMAIN nodes = 1 .. Len(nodes)
      /\ cache \in Entries /\ faults \in Nat /\ reorgs \in Nat
      /\ chain \subseteq known /\ known \subseteq Blocks
      /\ Canonical /\ Here(cache.block, cache.nodeIndex)
      /\ block \in Blocks => IsAsserted(n, block, req[r].sendRoot)
  BY ArbAssumption DEF ArbInv, TypeOK, OneNode, ServesInv
<1>2. UNCHANGED <<nodes, known, chain, reorgs, asserted>> /\ lost \subseteq lost'
  BY DEF Step, world, LatestNodeCreated, GetBlock, QueryFilter, GetBlockByHash, SetBlock, Encode,
         GetProofs, Callback, CallFails
<1>3. CASE LatestNodeCreated(r)
  <2>1. PICK q : Goto(r, q) /\ q = [req[r] EXCEPT !.pc = "cache", !.nodeIndex = Len(nodes)]
    BY <1>3 DEF LatestNodeCreated
  <2>2. UNCHANGED <<faults, cache, lost>>
    BY <1>3 DEF LatestNodeCreated, world
  <2>3. q.pc = "cache" /\ q.nodeIndex = Len(nodes)
    BY <1>1, <2>1 DEF RequestState
  <2>4. Good(q)' /\ Here(cache.block, cache.nodeIndex)'
    BY <1>1, <1>2, <2>2, <2>3 DEF Good, Here, Excused
  <2> QED BY <1>2, <2>1, <2>2, <2>4, GoodBecomes
<1>4. CASE GetBlock(r)
  <2>1. PICK q : /\ Goto(r, q)
                 /\ q = IF IsHit(n) THEN [req[r] EXCEPT !.pc = "encode", !.block = cache.block,
                                                        !.sendRoot = cache.sendRoot]
                                    ELSE [req[r] EXCEPT !.pc = "events"]
    BY <1>4 DEF GetBlock
  <2>2. UNCHANGED <<faults, cache, lost>>
    BY <1>4 DEF GetBlock, world
  <2>3. /\ q.nodeIndex = n /\ q.pc \in {"encode", "events"}
        /\ q.pc = "encode" => q.block = cache.block /\ n = cache.nodeIndex
    BY <1>1, <2>1 DEF RequestState, IsHit
  <2>4. Good(q)' /\ Here(cache.block, cache.nodeIndex)'
    BY <1>1, <1>2, <2>2, <2>3 DEF Good, Here, Excused
  <2> QED BY <1>2, <2>1, <2>2, <2>4, GoodBecomes
<1>5. CASE QueryFilter(r)
  <2>1. PICK q : /\ Goto(r, q)
                 /\ q = IF n \in DOMAIN nodes
                        THEN [req[r] EXCEPT !.pc = "fetch", !.block = nodes[n].block,
                                            !.sendRoot = nodes[n].sendRoot]
                        ELSE [req[r] EXCEPT !.pc = "failed"]
    BY <1>5 DEF QueryFilter
  <2>2. UNCHANGED <<faults, cache, lost>>
    BY <1>5 DEF QueryFilter, world
  <2>3. /\ q.nodeIndex = n /\ q.pc \in {"fetch", "failed"}
        /\ q.pc = "failed" => n \notin DOMAIN nodes
    BY <1>1, <2>1 DEF RequestState
  <2>4. Good(q)' /\ Here(cache.block, cache.nodeIndex)'
    BY <1>1, <1>2, <2>2, <2>3 DEF Good, Here, Excused
  <2> QED BY <1>2, <2>1, <2>2, <2>4, GoodBecomes
<1>6. CASE GetBlockByHash(r)
  <2>1. PICK q : /\ Goto(r, q)
                 /\ q = [req[r] EXCEPT !.pc = "store",
                                       !.block = IF block \in known THEN @ ELSE NullBlock]
    BY <1>6 DEF GetBlockByHash
  <2>2. /\ UNCHANGED <<faults, cache>>
        /\ lost' = IF block \in known THEN lost ELSE lost \cup {n}
    BY <1>6 DEF GetBlockByHash, world
  <2>3. /\ q.nodeIndex = n /\ q.pc = "store"
        /\ block \in known => q.block = block
    BY <1>1, <2>1 DEF RequestState
  <2>4. Good(q)' /\ Here(cache.block, cache.nodeIndex)'
    BY <1>1, <1>2, <2>2, <2>3 DEF Good, Here, Excused
  <2> QED BY <1>2, <2>1, <2>2, <2>4, GoodBecomes
<1>7. CASE SetBlock(r)
  <2>1. PICK q : Goto(r, q) /\ q = [req[r] EXCEPT !.pc = "encode"]
    BY <1>7 DEF SetBlock
  <2>2. /\ UNCHANGED <<faults, lost>> /\ req[r].pc = "store"
        /\ cache'.nodeIndex = n /\ cache'.block = block
    BY <1>7 DEF SetBlock, Entry, world, At
  <2>3. q.nodeIndex = n /\ q.pc = "encode" /\ q.block = block
    BY <1>1, <2>1 DEF RequestState
  <2>4. Good(q)' /\ Here(cache.block, cache.nodeIndex)'
    BY <1>1, <1>2, <2>2, <2>3 DEF Good, Here, Excused
  <2> QED BY <1>2, <2>1, <2>2, <2>4, GoodBecomes
<1>8. CASE Encode(r)
  <2>1. PICK q : /\ Goto(r, q)
                 /\ q = [req[r] EXCEPT !.pc = IF block \in Blocks THEN "proofs" ELSE "failed"]
    BY <1>8 DEF Encode, Encodable
  <2>2. UNCHANGED <<faults, cache, lost>> /\ req[r].pc = "encode"
    BY <1>8 DEF Encode, world, At
  <2>3. /\ q.nodeIndex = n /\ q.pc \in {"proofs", "failed"} /\ q.block = block
        /\ q.pc = "failed" => block \notin Blocks
    BY <1>1, <2>1 DEF RequestState
  <2>4. Good(q)' /\ Here(cache.block, cache.nodeIndex)'
    BY <1>1, <1>2, <2>2, <2>3 DEF Good, Here, Excused
  <2> QED BY <1>2, <2>1, <2>2, <2>4, GoodBecomes
<1>9. CASE GetProofs(r)
  <2> DEFINE same == {b \in chain : NumberOf[b] = NumberOf[block]}
  <2>1. PICK q : /\ Goto(r, q)
                 /\ \/ same = {} /\ q = [req[r] EXCEPT !.pc = "failed"]
                    \/ \E b \in same : q = [req[r] EXCEPT !.pc = "responded", !.proof = b]
    BY <1>9 DEF GetProofs
  <2>2. UNCHANGED <<faults, cache, lost>> /\ req[r].pc = "proofs"
    BY <1>9 DEF GetProofs, world, At
  <2>3. reorgs = 0 /\ block \in known => same = {block}
    BY <1>1 DEF Canonical
  <2>4. /\ q.nodeIndex = n /\ q.pc \in {"responded", "failed"} /\ q.block = block
        /\ q.pc = "failed" => same = {}
        /\ q.pc = "responded" => q.proof \in same
    <3> HIDE DEF same
    <3> QED BY <1>1, <2>1 DEF RequestState
  <2> HIDE DEF same
  <2>5. Good(q)' /\ Here(cache.block, cache.nodeIndex)'
    BY <1>1, <1>2, <2>2, <2>3, <2>4 DEF Good, Here, Excused
  <2> QED BY <1>2, <2>1, <2>2, <2>5, GoodBecomes
<1>10. CASE Callback(r)
  <2> DEFINE confirmed == /\ n \in DOMAIN nodes
                          /\ nodes[n] = [block |-> block, sendRoot |-> req[r].sendRoot]
  <2>1. PICK q : /\ Goto(r, q)
                 /\ q = [req[r] EXCEPT !.pc = IF confirmed /\ req[r].proof = block
                                              THEN "returned" ELSE "reverted"]
    BY <1>10 DEF Callback
  <2>2. UNCHANGED <<faults, cache, lost>> /\ req[r].pc = "responded"
    BY <1>10 DEF Callback, world, At
  <2>3. reorgs = 0 => confirmed
    BY <1>1, <2>2 DEF Canonical, HasBlock, IsAsserted
  <2> HIDE DEF confirmed
  <2>4. /\ q.nodeIndex = n /\ q.pc \in {"returned", "reverted"}
        /\ q.pc = "reverted" => ~confirmed \/ req[r].proof # block
    BY <1>1, <2>1 DEF RequestState
  <2>5. Good(q)' /\ Here(cache.block, cache.nodeIndex)'
    BY <1>1, <1>2, <2>2, <2>3, <2>4 DEF Good, Here, Excused
  <2> QED BY <1>2, <2>1, <2>2, <2>5, GoodBecomes
<1>11. CASE CallFails(r)
  <2>1. PICK q : Goto(r, q) /\ q = [req[r] EXCEPT !.pc = "failed"]
    BY <1>11 DEF CallFails
  <2>2. UNCHANGED <<cache, lost>> /\ faults' = faults + 1
    BY <1>11 DEF CallFails
  <2>3. q.nodeIndex = n /\ q.pc = "failed" /\ faults' # 0
    BY <1>1, <2>1, <2>2 DEF RequestState
  <2>4. Good(q)' /\ Here(cache.block, cache.nodeIndex)'
    BY <1>1, <1>2, <2>2, <2>3 DEF Good, Here, Excused
  <2> QED BY <1>2, <2>1, <2>3, <2>4, GoodBecomes
<1> QED BY <1>3, <1>4, <1>5, <1>6, <1>7, <1>8, <1>9, <1>10, <1>11 DEF Step

(***************************************************************************)
(* Late fills of the cache, and new nodes, make no request fail: while     *)
(* nothing is reorganised and no call fails, a request fails only for the  *)
(* genesis node or a node whose block the L2 node did not have.            *)
(***************************************************************************)
THEOREM ArbServes == Spec => []Serves
<1>1. ASSUME ArbInv, ServesInv, [Next]_vars PROVE ServesInv'
  <2>1. CASE UNCHANGED vars
    BY <1>1, <2>1 DEF ServesInv, Canonical, Here, Excused, Good, vars
  <2>2. CASE \E r \in Requests : Step(r)
    BY <1>1, <2>2, GoodStep
  <2> QED BY <1>1, <2>1, <2>2, ServesWorldStep DEF Next
<1>2. ServesInv => Serves
  BY DEF ServesInv, Good, Excused, Serves
<1> QED BY <1>1, <1>2, ServesInit, ArbInvariance, PTL DEF Spec

=============================================================================
