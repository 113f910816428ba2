------------------------- MODULE OPProofService_proofs -------------------------
(***************************************************************************)
(* Proofs about the Optimism gateway: what it answers is the state that    *)
(* the output claims, and the delay makes up for nodes that are behind and *)
(* for outputs that are deleted, for every delay, lag and number of        *)
(* outputs.                                                                *)
(***************************************************************************)
EXTENDS OPProofService, TLAPS

\* Facts that tie requests to the phase they are in.
Phases ==
  /\ At("latest") => req = NoRequest /\ removed = 0
  /\ req.pc \in {"output", "slots", "proof", "header", "passer", "responded"} => req.index \in Int
  /\ At("proof") => req.slots \in Slots

OPType == TypeOK /\ Phases

-----------------------------------------------------------------------------
LEMMA BlocksAreBlocks ==
  ASSUME ChainTypeOK, NEW n, Known(n)
  PROVE  /\ BlockAt(n) \in Block /\ StateAt(n) \in States
         /\ getStorageAt(n) \in Slots
         /\ PasserOf(BlockAt(n)) \in Passers
         /\ \A s : getProofs(n, s) = [state |-> StateAt(n), slots |-> s]
<1>1. BlockAt(n) \in Block
  BY ChainAssumption DEF ChainTypeOK, Known, BlockAt, Block, Forks, Latest
<1>2. StateAt(n) \in States
  BY <1>1, ChainAssumption DEF StateAt
<1> QED BY <1>1, <1>2 DEF getStorageAt, Slots, Passers, getProofs

\* A request in its types, with one field changed.
LEMMA OPTypeInit == Init => OPType
BY ChainAssumption, OPAssumption
   DEF Init, OPType, TypeOK, Phases, ChainInit, ChainTypeOK, NoRequest, Request, Complete, At,
       MaybeBlock, Forks, Block

LEMMA OPTypeStep ==
  ASSUME OPType, [Next]_vars
  PROVE  OPType'
<1> USE DEF OPType
<1>1. CASE LatestOutputIndex
  <2>1. PICK view \in Views :
          req' = [req EXCEPT !.pc = After(view > 0, "output"),
                             !.index = IF view > 0 THEN IndexFor(view - 1) ELSE @]
    BY <1>1 DEF LatestOutputIndex
  <2>2. view \in Int /\ IndexFor(view - 1) \in Int
    BY OPAssumption DEF Views, IndexFor, TypeOK
  <2>3. req' \in Request /\ Complete(req')
    BY <2>1, <2>2 DEF TypeOK, Request, Complete, After
  <2>4. Phases'
    BY <1>1, <2>1, <2>2 DEF TypeOK, Request, Phases, At, After, NoRequest, LatestOutputIndex
  <2> QED BY <1>1, <2>3, <2>4 DEF TypeOK, LatestOutputIndex, world, ChainTypeOK
<1>2. CASE GetL2Output
  <2>1. PICK view \in Views :
          req' = [req EXCEPT !.pc = After(req.index \in 0 .. view - 1, "slots"),
                             !.claim = IF req.index \in 0 .. view - 1
                                       THEN outputs[req.index + 1] ELSE @]
    BY <1>2 DEF GetL2Output
  <2>2. view \in Int /\ view <= Len(outputs) /\ outputs \in Seq(Block)
    BY OPAssumption DEF Views, TypeOK
  <2>3. req.index \in 0 .. view - 1 => outputs[req.index + 1] \in Block
    BY <2>2
  <2>4. req' \in Request /\ Complete(req')
    <3>1. CASE req.index \in 0 .. view - 1
      <4>1. SUFFICES ASSUME NEW b \in Block,
                            req' = [req EXCEPT !.pc = "slots", !.claim = b]
                     PROVE  req' \in Request /\ Complete(req')
        BY <2>1, <2>3, <3>1 DEF After
      <4>2. req \in Request /\ req.index \in Nat /\ b \in MaybeBlock
        BY <2>2, <3>1 DEF TypeOK, MaybeBlock
      <4>3. req' \in Request
        BY <4>1, <4>2 DEF Request
      <4>4. req'.index = req.index /\ req'.claim = b /\ req'.pc = "slots"
        BY <4>1, <4>2 DEF Request
      <4> QED BY <4>2, <4>3, <4>4 DEF Complete
    <3>2. CASE req.index \notin 0 .. view - 1
      BY <2>1, <3>2 DEF TypeOK, Request, Complete, After
    <3> QED BY <3>1, <3>2
  <2>5. Phases'
    BY <1>2, <2>1 DEF TypeOK, Request, Phases, At, After, NoRequest, GetL2Output
  <2> QED BY <1>2, <2>4, <2>5 DEF TypeOK, GetL2Output, world, ChainTypeOK
<1>3. CASE GetStorageAt
  <2>1. req' \in Request /\ Complete(req')
    BY <1>3, BlocksAreBlocks DEF TypeOK, Request, Complete, After, GetStorageAt, At
  <2>2. Phases'
    BY <1>3, BlocksAreBlocks DEF TypeOK, Request, Phases, At, After, NoRequest, GetStorageAt
  <2> QED BY <1>3, <2>1, <2>2 DEF TypeOK, GetStorageAt, world, ChainTypeOK
<1>4. CASE GetProof
  <2>1. Known(number) => getProofs(number, req.slots) \in StateProof \cup {NoRequest.proof}
    BY <1>4, BlocksAreBlocks DEF TypeOK, Phases, GetProof, StateProof
  <2>2. req' \in Request /\ Complete(req')
    BY <1>4, <2>1 DEF TypeOK, Request, Complete, After, GetProof, At
  <2>3. Phases'
    BY <1>4 DEF TypeOK, Request, Phases, At, After, NoRequest, GetProof
  <2> QED BY <1>4, <2>2, <2>3 DEF TypeOK, GetProof, world, ChainTypeOK
<1>5. CASE GetBlockByNumber
  <2>1. req' \in Request /\ Complete(req')
    BY <1>5, BlocksAreBlocks DEF TypeOK, Request, Complete, GetBlockByNumber, At, MaybeBlock
  <2>2. Phases'
    BY <1>5 DEF TypeOK, Request, Phases, At, NoRequest, GetBlockByNumber
  <2> QED BY <1>5, <2>1, <2>2 DEF TypeOK, GetBlockByNumber, world, ChainTypeOK
<1>6. CASE GetMessagePasserStorageRoot
  <2>1. req' \in Request /\ Complete(req')
    BY <1>6, BlocksAreBlocks
       DEF TypeOK, Request, Complete, After, GetMessagePasserStorageRoot, At, MaybeBlock, Encodable
  <2>2. Phases'
    BY <1>6 DEF TypeOK, Request, Phases, At, After, NoRequest, GetMessagePasserStorageRoot
  <2> QED BY <1>6, <2>1, <2>2 DEF TypeOK, GetMessagePasserStorageRoot, world, ChainTypeOK
<1>7. CASE Callback
  <2>1. PICK pc \in {"returned", "reverted"} : req' = [req EXCEPT !.pc = pc]
    BY <1>7 DEF Callback
  <2>2. req' \in Request /\ Complete(req') /\ Phases'
    BY <1>7, <2>1 DEF TypeOK, Request, Complete, Phases, At, NoRequest, Callback
  <2> QED BY <1>7, <2>2 DEF TypeOK, Callback, world, ChainTypeOK
<1>8. CASE CallFails
  <2>1. req' \in Request /\ Complete(req') /\ Phases'
    BY <1>8 DEF TypeOK, Request, Complete, Phases, At, NoRequest, CallFails, After
  <2> QED BY <1>8, <2>1, OPAssumption DEF TypeOK, CallFails, ChainTypeOK
<1>9. CASE Propose
  <2>1. outputs' \in Seq(Block)
    BY <1>9 DEF TypeOK, Propose
  <2> QED BY <1>9, <2>1 DEF TypeOK, Phases, Propose, ChainTypeOK, At
<1>10. CASE DeleteL2Outputs
  <2>1. PICK n \in 0 .. Len(outputs) - 1 :
          /\ outputs' = SubSeq(outputs, 1, n)
          /\ removed' = IF At("latest") THEN 0 ELSE removed + Len(outputs) - n
          /\ removed' <= MaxRemoved
    BY <1>10 DEF DeleteL2Outputs
  <2>2. outputs' \in Seq(Block) /\ removed' \in 0 .. MaxRemoved
    BY <2>1, OPAssumption DEF TypeOK
  <2> QED BY <1>10, <2>1, <2>2 DEF TypeOK, Phases, DeleteL2Outputs, ChainTypeOK, At
<1>11. CASE ChainStep
  <2>1. ChainTypeOK'
    <3>1. CASE Mine
      BY <3>1, ChainAssumption DEF TypeOK, Mine, ChainTypeOK, Forks, Latest
    <3>2. CASE Reorganise
      <4>1. PICK n \in 1 .. Latest : chain' = Append(SubSeq(chain, 1, n - 1), reorgs + 1)
        BY <3>2 DEF Reorganise
      <4>2. reorgs' = reorgs + 1 /\ reorgs + 1 \in Forks
        BY <3>2, ChainAssumption DEF TypeOK, Reorganise, ChainTypeOK, Forks
      <4>3. SubSeq(chain, 1, n - 1) \in Seq(Forks) /\ Len(SubSeq(chain, 1, n - 1)) = n - 1
        BY <4>1 DEF TypeOK, ChainTypeOK, Latest
      <4> QED BY <4>1, <4>2, <4>3, ChainAssumption DEF TypeOK, ChainTypeOK, Latest
    <3> QED BY <1>11, <3>1, <3>2 DEF ChainStep
  <2> QED BY <1>11, <2>1 DEF TypeOK, Phases, ChainStep, At
<1>12. CASE UNCHANGED vars
  BY <1>12 DEF TypeOK, Phases, At, vars, ChainTypeOK
<1> QED BY <1>1, <1>2, <1>3, <1>4, <1>5, <1>6, <1>7, <1>8, <1>9, <1>10, <1>11, <1>12 DEF Next, Step

-----------------------------------------------------------------------------
\* All that the Optimism gateway keeps has its type.
THEOREM OPTypeCorrect == Spec => []TypeOK
<1>1. Spec => []OPType
  BY OPTypeInit, OPTypeStep, PTL DEF Spec
<1>2. OPType => TypeOK
  BY DEF OPType
<1> QED BY <1>1, <1>2, PTL

\* An answer is the state of the block that the output claims: the output root
\* binds the header, and the header the proof, whatever the reads before saw.
LEMMA AnswersOutputStep ==
  ASSUME OPType, Next, At("responded"), req'.pc = "returned"
  PROVE  /\ req.index + 1 \in DOMAIN outputs
         /\ Verifies(req.proof, StateOf(outputs[req.index + 1]))
<1>1. req \in Request /\ req.index \in Nat /\ outputs \in Seq(Block)
  BY DEF OPType, TypeOK, Complete, At
<1>2. Callback
  BY DEF Next, Step, At, LatestOutputIndex, GetL2Output, GetStorageAt, GetProof, GetBlockByNumber,
         GetMessagePasserStorageRoot, CallFails, Propose, DeleteL2Outputs, ChainStep
<1>3. PICK view \in Views :
        LET l2out == outputs[req.index + 1]
            ok == /\ req.index < view
                  /\ OutputRoot(StateOf(l2out), PasserOf(l2out), l2out)
                       = OutputRoot(StateOf(req.header), req.passer, req.header)
                  /\ Verifies(req.proof, StateOf(req.header))
        IN  req' = [req EXCEPT !.pc = IF ok THEN "returned" ELSE "reverted"]
  BY <1>2 DEF Callback
<1>4. /\ req.index < view
      /\ StateOf(outputs[req.index + 1]) = StateOf(req.header)
      /\ Verifies(req.proof, StateOf(req.header))
  BY <1>1, <1>3 DEF OutputRoot, Request
<1>5. view \in Int /\ view <= Len(outputs)
  BY <1>1, OPAssumption DEF Views
<1>6. req.index + 1 \in 1 .. Len(outputs)
  BY <1>1, <1>4, <1>5
<1>7. DOMAIN outputs = 1 .. Len(outputs)
  BY <1>1
<1> QED BY <1>4, <1>6, <1>7

\* A response that OPVerifier accepts shows the state that the output at its
\* index claims at that moment, whatever was deleted or proposed in between.
THEOREM AnswersTheOutput == Spec => AnswersOutput
<1>1. Spec => []OPType
  BY OPTypeInit, OPTypeStep, PTL DEF Spec
<1>2. OPType /\ [Next]_vars =>
        [At("responded") /\ req'.pc = "returned" =>
           /\ req.index + 1 \in DOMAIN outputs
           /\ Verifies(req.proof, StateOf(outputs[req.index + 1]))]_vars
  BY AnswersOutputStep
<1> QED BY <1>1, <1>2, PTL DEF Spec, AnswersOutput

-----------------------------------------------------------------------------
(* The delay makes up for nodes that are behind and for deleted outputs.   *)

\* Nothing has happened that the delay is not for.
Calm == reorgs = 0 /\ faults = 0 /\ removed + Lag <= Delay

\* Without reorganisations every block is one of the first fork, and the node
\* has the blocks of all outputs but the last few.
Original ==
  reorgs = 0 =>
    /\ \A n \in 1 .. Latest : chain[n] = 0
    /\ \A i \in 1 .. Len(outputs) - Lag : outputs[i][1] <= Latest

Asked == {"output", "slots", "proof", "header", "passer", "responded"}
Claiming == Asked \ {"output"}

\* The output asked for is as far from the last as the delay, but for those
\* that were deleted since.
Ahead == req.pc \in Asked => req.index + 1 <= Len(outputs) + removed - Delay

\* The claim stays the oracle's, and its block the node's.
Claimed ==
  req.pc \in Claiming /\ Calm => req.claim = outputs[req.index + 1] /\ Known(number)

\* All reads of a right claim are of the block claimed.
Gathered(q) ==
  /\ q.pc \in {"proof", "header", "passer", "responded"} => q.slots = SlotsOf(StateOf(q.claim))
  /\ q.pc \in {"header", "passer", "responded"} =>
       q.proof = [state |-> StateOf(q.claim), slots |-> SlotsOf(StateOf(q.claim))]
  /\ q.pc \in {"passer", "responded"} => q.header = q.claim
  /\ q.pc = "responded" => q.passer = PasserOf(q.claim)

Right == req.claim = <<number, 0>>
Read == Calm /\ Right => Gathered(req)

ServesInv == OPType /\ Original /\ Ahead /\ Claimed /\ Read /\ Serves

-----------------------------------------------------------------------------
\* While nothing is reorganised a right claim is the canonical block.
LEMMA RightIsCanonical ==
  ASSUME OPType, Original, reorgs = 0, NEW n, Known(n)
  PROVE  BlockAt(n) = <<n, 0>>
BY DEF OPType, TypeOK, ChainTypeOK, Original, Known, BlockAt, Latest

\* What the chains do leaves a request on its way as it was.
LEMMA ServesWorldStep ==
  ASSUME ServesInv, Running, Propose \/ DeleteL2Outputs \/ ChainStep
  PROVE  Original' /\ Ahead' /\ Claimed' /\ Read' /\ Serves'
<1> USE DEF ServesInv
<1>1. /\ req' = req /\ faults' = faults /\ faults \in Nat
      /\ outputs \in Seq(Block) /\ chain \in Seq(Forks) /\ reorgs \in Nat /\ removed \in Nat
      /\ Lag \in Nat /\ Delay \in Nat
  BY OPAssumption, ChainAssumption
     DEF OPType, TypeOK, ChainTypeOK, Forks, Propose, DeleteL2Outputs, ChainStep
<1>2. Serves'
  BY <1>1 DEF Running, Serves
<1>3. \A b \in Block : b[1] \in Nat
  BY ChainAssumption DEF Block
<1>4. CASE Propose
  <2>1. PICK b \in Block :
          /\ outputs' = Append(outputs, b)
          /\ Len(outputs') > Lag => outputs'[Len(outputs') - Lag][1] <= Latest
    BY <1>4 DEF Propose
  <2>2. UNCHANGED <<chain, reorgs, req, faults, removed>>
    BY <1>4 DEF Propose
  <2>3. Len(outputs') = Len(outputs) + 1 /\ \A i \in 1 .. Len(outputs) : outputs'[i] = outputs[i]
    BY <1>1, <2>1
  <2>4. Original'
    BY <1>1, <2>1, <2>2, <2>3 DEF Original, Latest
  <2>5. Ahead'
    BY <1>1, <2>2, <2>3 DEF Ahead, OPType, Phases, Asked
  <2>6. Claimed'
    <3>1. req.pc \in Claiming /\ Calm => req.index + 1 \in 1 .. Len(outputs)
      BY <1>1 DEF Claiming, Asked, Ahead, Calm, OPType, TypeOK, Complete
    <3> QED BY <2>2, <2>3, <3>1 DEF Claimed, Calm, Known, Latest, number
  <2>7. Read'
    BY <2>2 DEF Read, Calm, Right, number
  <2> QED BY <1>2, <2>4, <2>5, <2>6, <2>7
<1>5. CASE DeleteL2Outputs
  <2>1. PICK n \in 0 .. Len(outputs) - 1 :
          /\ outputs' = SubSeq(outputs, 1, n)
          /\ removed' = IF At("latest") THEN 0 ELSE removed + Len(outputs) - n
    BY <1>5 DEF DeleteL2Outputs
  <2>2. UNCHANGED <<chain, reorgs, req, faults>>
    BY <1>5 DEF DeleteL2Outputs
  <2>3. Len(outputs') = n /\ \A i \in 1 .. n : outputs'[i] = outputs[i]
    BY <1>1, <2>1
  <2>4. Original'
    BY <1>1, <2>1, <2>2, <2>3 DEF Original, Latest
  <2>5. req.pc \in Asked =>
          /\ removed' = removed + Len(outputs) - n
          /\ req.index \in Int /\ req.index + 1 <= n + removed' - Delay
    BY <1>1, <2>1 DEF At, Asked, Ahead, OPType, Phases
  <2>6. Ahead'
    BY <2>2, <2>3, <2>5 DEF Ahead
  <2>7. req.pc \in Asked /\ Calm' => Calm
    BY <1>1, <2>1, <2>2, <2>5 DEF Calm
  <2>8. Claimed'
    <3>1. req.pc \in Claiming /\ Calm' => req.index + 1 \in 1 .. n
      BY <1>1, <2>1, <2>5 DEF Claiming, Asked, Calm, OPType, TypeOK, Complete
    <3> QED BY <2>2, <2>3, <2>7, <3>1 DEF Claimed, Claiming, Known, Latest, number
  <2>9. Read'
    BY <2>2, <2>7 DEF Read, Right, Gathered, Asked, number
  <2> QED BY <1>2, <2>4, <2>6, <2>8, <2>9
<1>6. CASE ChainStep
  <2>1. UNCHANGED <<outputs, req, faults, removed>>
    BY <1>6 DEF ChainStep
  <2>2. CASE Mine
    <3>1. chain' = Append(chain, reorgs) /\ reorgs' = reorgs
      BY <2>2 DEF Mine
    <3>2. Len(chain') = Len(chain) + 1 /\ \A i \in 1 .. Len(chain) : chain'[i] = chain[i]
      BY <1>1, <3>1, ChainAssumption DEF Forks
    <3>3. chain'[Len(chain) + 1] = reorgs
      BY <1>1, <3>1
    <3>4. \A i \in 1 .. Len(outputs) - Lag : outputs[i][1] \in Nat
      BY <1>1, <1>3
    <3>5. Original'
      <4>1. reorgs = 0 => \A n \in 1 .. Len(chain) + 1 : chain'[n] = 0
        BY <1>1, <3>2, <3>3 DEF Original, Latest
      <4>2. reorgs = 0 => \A i \in 1 .. Len(outputs) - Lag : outputs[i][1] <= Len(chain) + 1
        BY <1>1, <3>4 DEF Original, Latest
      <4> QED BY <2>1, <3>1, <3>2, <4>1, <4>2 DEF Original, Latest
    <3>6. Ahead' /\ Read'
      BY <2>1, <3>1 DEF Ahead, Read, Calm, Right, number
    <3>7. Claimed'
      BY <1>1, <2>1, <3>1, <3>2 DEF Claimed, Calm, Known, Latest, number
    <3> QED BY <1>2, <3>5, <3>6, <3>7
  <2>3. CASE Reorganise
    <3>1. reorgs' = reorgs + 1
      BY <2>3 DEF Reorganise
    <3>2. reorgs' # 0
      BY <1>1, <3>1
    <3> QED BY <1>2, <2>1, <3>2 DEF Original, Ahead, Claimed, Read, Calm
  <2> QED BY <1>6, <2>2, <2>3 DEF ChainStep
<1> QED BY <1>4, <1>5, <1>6

\* The calls of a request find what they should, and so do the verifier's.
LEMMA ServesRequestStep ==
  ASSUME ServesInv, Step
  PROVE  Original' /\ Ahead' /\ Claimed' /\ Read' /\ Serves'
<1> USE DEF ServesInv
<1>1. /\ req \in Request /\ outputs \in Seq(Block) /\ chain \in Seq(Forks)
      /\ reorgs \in Nat /\ removed \in Nat /\ Lag \in Nat /\ Delay \in Nat
      /\ Len(outputs) \in Nat
      /\ \A view \in Views : view \in Int /\ Len(outputs) - Lag <= view /\ view <= Len(outputs)
  BY OPAssumption, ChainAssumption DEF OPType, TypeOK, ChainTypeOK, Forks, Views
<1>2. UNCHANGED <<world, removed>>
  BY DEF Step, LatestOutputIndex, GetL2Output, GetStorageAt, GetProof, GetBlockByNumber,
         GetMessagePasserStorageRoot, Callback
<1>3. Original'
  BY <1>2 DEF Original, world, Latest
<1>4. Calm' = Calm /\ \A n : Known(n)' = Known(n) /\ BlockAt(n)' = BlockAt(n)
  BY <1>2 DEF Calm, world, Known, Latest, BlockAt
<1>5. Claimed /\ req.pc \in Claiming /\ Calm =>
        /\ req.claim \in Block /\ req.claim # NullBlock /\ Known(number)
        /\ BlockAt(number) = <<number, 0>>
  BY RightIsCanonical, ChainAssumption
     DEF Claimed, Calm, Claiming, Asked, OPType, TypeOK, Complete, Block, NullBlock
<1>6. CASE LatestOutputIndex
  <2>1. PICK view \in Views :
          req' = [req EXCEPT !.pc = After(view > 0, "output"),
                             !.index = IF view > 0 THEN IndexFor(view - 1) ELSE @]
    BY <1>6 DEF LatestOutputIndex
  <2>2. /\ req'.pc \in {"output", "failed"}
        /\ req'.pc = "output" => req'.index = view - 1 - Delay
        /\ req'.pc = "failed" => req'.index = -1
    <3>1. req.index = -1
      BY <1>6 DEF LatestOutputIndex, OPType, Phases, NoRequest
    <3> QED BY <1>1, <2>1, <3>1 DEF After, IndexFor, Request
  <2>3. Ahead'
    BY <1>1, <1>2, <2>2 DEF Ahead, Asked, world
  <2>4. Serves'
    BY <2>2 DEF Serves
  <2> QED BY <1>3, <2>2, <2>3, <2>4 DEF Claimed, Claiming, Asked, Read, Gathered
<1>7. CASE GetL2Output
  <2>1. PICK view \in Views :
          req' = [req EXCEPT !.pc = After(req.index \in 0 .. view - 1, "slots"),
                             !.claim = IF req.index \in 0 .. view - 1
                                       THEN outputs[req.index + 1] ELSE @]
    BY <1>7 DEF GetL2Output
  <2>2. /\ req'.pc \in {"slots", "failed"} /\ req'.index = req.index
        /\ req'.pc = "slots" => /\ req.index \in 0 .. view - 1
                                /\ req'.claim = outputs[req.index + 1]
        /\ req'.pc = "failed" => req.index \notin 0 .. view - 1
    BY <1>1, <2>1 DEF After, Request
  <2>3. req.pc \in Asked /\ req.index \in Int
          /\ req.index + 1 <= Len(outputs) + removed - Delay
    BY <1>7 DEF GetL2Output, At, Asked, Ahead, OPType, Phases
  <2>4. Ahead'
    BY <1>2, <2>2, <2>3 DEF Ahead, world
  <2>5. Calm => req.index + 1 <= Len(outputs) - Lag
    BY <1>1, <2>3 DEF Calm
  <2>6. Claimed'
    <3>1. Calm /\ req'.pc = "slots" =>
            /\ outputs[req.index + 1] \in Block
            /\ outputs[req.index + 1][1] <= Latest
      BY <1>1, <2>2, <2>3, <2>5 DEF Original, Calm
    <3>2. Calm /\ req'.pc = "slots" => Known(outputs[req.index + 1][1])
      BY <3>1, ChainAssumption, <1>1 DEF Known, Block, Latest
    <3> QED BY <1>2, <1>4, <2>2, <3>2 DEF Claimed, Claiming, Asked, number, world
  <2>7. Serves'
    BY <1>1, <1>4, <2>2, <2>3, <2>5 DEF Serves, Calm
  <2> QED BY <1>3, <2>2, <2>4, <2>6, <2>7 DEF Read, Gathered
<1>8. CASE GetStorageAt
  <2>1. req.pc = "slots"
    BY <1>8 DEF GetStorageAt, At
  <2>2. /\ req'.pc \in {"proof", "failed"} /\ req'.index = req.index /\ req'.claim = req.claim
        /\ Known(number) => req'.pc = "proof" /\ req'.slots = getStorageAt(number)
    BY <1>1, <1>8 DEF GetStorageAt, After, Request
  <2>3. Read'
    BY <1>4, <1>5, <2>1, <2>2
       DEF Read, Gathered, Right, number, getStorageAt, StateAt, Claiming, Asked
  <2> QED BY <1>2, <1>3, <1>4, <1>5, <2>1, <2>2, <2>3
          DEF Ahead, Claimed, Claiming, Asked, Serves, Calm, number, world
<1>9. CASE GetProof
  <2>1. req.pc = "proof"
    BY <1>9 DEF GetProof, At
  <2>2. /\ req'.pc \in {"header", "failed"} /\ req'.index = req.index /\ req'.claim = req.claim
        /\ req'.slots = req.slots
        /\ Known(number) => req'.pc = "header" /\ req'.proof = getProofs(number, req.slots)
    BY <1>1, <1>9 DEF GetProof, After, Request
  <2>3. Read'
    BY <1>4, <1>5, <2>1, <2>2
       DEF Read, Gathered, Right, number, getProofs, StateAt, Claiming, Asked
  <2> QED BY <1>2, <1>3, <1>4, <1>5, <2>1, <2>2, <2>3
          DEF Ahead, Claimed, Claiming, Asked, Serves, Calm, number, world
<1>10. CASE GetBlockByNumber
  <2>1. req.pc = "header"
    BY <1>10 DEF GetBlockByNumber, At
  <2>2. /\ req'.pc = "passer" /\ req'.index = req.index /\ req'.claim = req.claim
        /\ req'.slots = req.slots /\ req'.proof = req.proof
        /\ Known(number) => req'.header = BlockAt(number)
    BY <1>1, <1>10 DEF GetBlockByNumber, Request
  <2>3. Read'
    BY <1>4, <1>5, <2>1, <2>2 DEF Read, Gathered, Right, number, Claiming, Asked
  <2> QED BY <1>2, <1>3, <1>4, <2>1, <2>2, <2>3
          DEF Ahead, Claimed, Claiming, Asked, Serves, number, world
<1>11. CASE GetMessagePasserStorageRoot
  <2>1. req.pc = "passer"
    BY <1>11 DEF GetMessagePasserStorageRoot, At
  <2>2. /\ req'.pc \in {"responded", "failed"} /\ req'.index = req.index
        /\ req'.claim = req.claim /\ req'.slots = req.slots /\ req'.proof = req.proof
        /\ req'.header = req.header
        /\ Known(number) => req'.passer = PasserOf(BlockAt(number))
        /\ Known(number) /\ req.header # NullBlock => req'.pc = "responded"
    BY <1>1, <1>11 DEF GetMessagePasserStorageRoot, After, Encodable, Request
  <2>3. Read'
    BY <1>4, <1>5, <2>1, <2>2 DEF Read, Gathered, Right, number, Claiming, Asked
  <2>4. Serves'
    BY <1>4, <1>5, <2>1, <2>2
       DEF Serves, Calm, Read, Gathered, Right, number, Claiming, Asked
  <2> QED BY <1>2, <1>3, <1>4, <2>1, <2>2, <2>3, <2>4
          DEF Ahead, Claimed, Claiming, Asked, number, world
<1>12. CASE Callback
  <2>1. req.pc = "responded"
    BY <1>12 DEF Callback, At
  <2>2. PICK view \in Views :
          LET l2out == outputs[req.index + 1]
              ok == /\ req.index < view
                    /\ OutputRoot(StateOf(l2out), PasserOf(l2out), l2out)
                         = OutputRoot(StateOf(req.header), req.passer, req.header)
                    /\ Verifies(req.proof, StateOf(req.header))
          IN  req' = [req EXCEPT !.pc = IF ok THEN "returned" ELSE "reverted"]
    BY <1>12 DEF Callback
  <2>3. req'.pc \in {"returned", "reverted"} /\ req'.claim = req.claim
    BY <1>1, <2>2 DEF Request
  <2>4. ASSUME Calm, Right
        PROVE  req'.pc = "returned"
    <3>1. /\ req.claim \in Block /\ req.claim = outputs[req.index + 1]
          /\ req.index + 1 <= Len(outputs) - Lag /\ req.index \in Nat
      BY <1>1, <1>5, <2>1, <2>4
         DEF Claimed, Calm, Ahead, Claiming, Asked, OPType, TypeOK, Complete
    <3>2. /\ req.header = req.claim /\ req.passer = PasserOf(req.claim)
          /\ req.proof = [state |-> StateOf(req.claim), slots |-> SlotsOf(StateOf(req.claim))]
      BY <2>1, <2>4 DEF Read, Gathered
    <3>3. SlotsOf(StateOf(req.claim)) \in Seq(Nat)
      BY <3>1, ChainAssumption
    <3>4. Verifies(req.proof, StateOf(req.header))
      BY <3>2, <3>3 DEF Verifies, IsPrefix
    <3>5. req.index < view
      BY <1>1, <3>1
    <3> QED BY <1>1, <2>2, <3>1, <3>2, <3>4, <3>5 DEF OutputRoot, Request
  <2>5. Serves'
    BY <1>4, <1>5, <2>1, <2>3, <2>4 DEF Serves, Calm, Right, number, Claiming, Asked
  <2> QED BY <1>3, <2>3, <2>5 DEF Ahead, Claimed, Claiming, Asked, Read, Gathered
<1> QED BY <1>6, <1>7, <1>8, <1>9, <1>10, <1>11, <1>12 DEF Step

\* Without reorganisations and failing calls the delay is enough for nodes that
\* are behind and outputs that are deleted to make no request fail.
THEOREM DelayServes == Spec => []Serves
<1>1. Init => ServesInv
  <2> SUFFICES ASSUME Init
               PROVE  ServesInv
    OBVIOUS
  <2>1. req.pc = "latest"
    BY DEF Init, NoRequest
  <2>2. Original
    BY OPAssumption DEF Init, ChainInit, Original, Latest
  <2> QED BY <2>1, <2>2, OPTypeInit
          DEF ServesInv, Ahead, Claimed, Read, Serves, Asked, Claiming, Gathered
<1>2. ServesInv /\ [Next]_vars => ServesInv'
  <2> SUFFICES ASSUME ServesInv, [Next]_vars
               PROVE  ServesInv'
    OBVIOUS
  <2>1. OPType'
    BY OPTypeStep DEF ServesInv
  <2>2. CASE CallFails
    <3>1. faults' # 0 /\ UNCHANGED <<chain, reorgs, outputs, removed>> /\ req'.pc = "failed"
      BY <2>2 DEF CallFails, After, ServesInv, OPType, TypeOK, Request
    <3> QED BY <2>1, <3>1
            DEF ServesInv, Original, Ahead, Claimed, Read, Serves, Calm, Latest, Asked
  <2>3. CASE UNCHANGED vars
    BY <2>1, <2>3 DEF vars, ServesInv, Original, Ahead, Claimed, Read, Serves, Calm, Latest,
                      Right, number, Known, BlockAt
  <2> QED BY <2>1, <2>2, <2>3, ServesWorldStep, ServesRequestStep DEF Next, ServesInv
<1>3. ServesInv => Serves
  BY DEF ServesInv
<1> QED BY <1>1, <1>2, <1>3, PTL DEF Spec

=============================================================================
