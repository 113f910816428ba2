--------------------------- MODULE L1Gateway_proofs ---------------------------
(***************************************************************************)
(* Proofs about the gateway for L1, for any number of requests, blocks,    *)
(* reorganisations, restarts and failing calls: its types, what it         *)
(* answers, which requests can fail, and how many apps are made.           *)
(***************************************************************************)
EXTENDS L1Gateway, FiniteSetTheorems, TLAPS

\* With slots that were found in a state, a request asks for proofs.
Phases == \A r \in Requests : req[r].pc = "proof" => req[r].slots \in L1!Slots

GatewayType == TypeOK /\ Phases

\* A step is one of the process or one of the proof service.
AppStep ==
  \/ App!Start \/ App!Restart
  \/ \E r \in Requests :
       App!Fetch(r) \/ App!Build(r) \/ App!Answer(r) \/ App!ImportFails(r)

ServiceStep ==
  \/ L1!ChainStep
  \/ \E r \in Requests :
       fetch[r] \in {"handling", "answered"} /\ (L1!GatewayStep(r) \/ L1!CallFails(r) \/ L1!Callback(r))

LEMMA StepKinds ==
  ASSUME [Next]_vars
  PROVE  \/ AppStep /\ UNCHANGED servicevars
         \/ ServiceStep /\ UNCHANGED appvars
         \/ UNCHANGED vars
BY DEF Next, Start, Restart, Mine, Step, Fails, Process, Handle, Answer, Callback, AppStep, ServiceStep

-----------------------------------------------------------------------------
LEMMA AppTypeStep ==
  ASSUME App!TypeOK, AppStep
  PROVE  App!TypeOK'
<1> USE DEF App!TypeOK
<1>1. ASSUME NEW r \in Requests, App!Fetch(r) PROVE App!TypeOK'
  BY <1>1 DEF App!Fetch, App!MustMake, App!AppWhileImporting, App!NoApp
<1>2. ASSUME NEW r \in Requests, App!Build(r) PROVE App!TypeOK'
  BY <1>2 DEF App!Build, App!MakeApp
<1>3. ASSUME NEW r \in Requests, App!Answer(r) PROVE App!TypeOK'
  BY <1>3 DEF App!Answer
<1>4. ASSUME NEW r \in Requests, App!ImportFails(r) PROVE App!TypeOK'
  BY <1>4, L1GatewayAssumption DEF App!ImportFails, App!AppAssumption
<1>5. CASE App!Start
  BY <1>5 DEF App!Start, App!MakeApp
<1>6. CASE App!Restart
  BY <1>6, L1GatewayAssumption DEF App!Restart, App!NoApp, App!AppAssumption
<1> QED BY <1>1, <1>2, <1>3, <1>4, <1>5, <1>6 DEF AppStep

LEMMA BlocksAreBlocks ==
  ASSUME L1!ChainTypeOK, NEW n, L1!Known(n)
  PROVE  /\ n \in Nat /\ L1!BlockAt(n) \in L1!Block /\ L1!StateAt(n) \in States
         /\ L1!getStorageAt(n) \in L1!Slots
<1>1. n \in Nat /\ L1!BlockAt(n) \in L1!Block
  BY L1GatewayAssumption
     DEF L1!ChainAssumption, L1!ChainTypeOK, L1!Known, L1!BlockAt, L1!Block, L1!Forks, L1!Latest
<1>2. L1!StateAt(n) \in States
  BY <1>1, L1GatewayAssumption DEF L1!StateAt, L1!ChainAssumption
<1> QED BY <1>1, <1>2 DEF L1!getStorageAt, L1!Slots

\* A request that becomes q keeps the types of all requests.
LEMMA RequestBecomes ==
  ASSUME L1!TypeOK, Phases, NEW r \in Requests, NEW q \in L1!Request,
         L1!Complete(q), q.pc = "proof" => q.slots \in L1!Slots,
         L1!Goto(r, q)
  PROVE  L1!TypeOK' /\ Phases'
<1>1. req' = [req EXCEPT ![r] = q] /\ UNCHANGED <<chain, reorgs, faults>>
  BY DEF L1!Goto
<1>2. /\ req' \in [Requests -> L1!Request]
      /\ \A s \in Requests : req'[s] = IF s = r THEN q ELSE req[s]
  BY <1>1 DEF L1!TypeOK
<1> QED BY <1>1, <1>2 DEF L1!TypeOK, L1!ChainTypeOK, L1!Latest, Phases

LEMMA ServiceTypeStep ==
  ASSUME L1!TypeOK, Phases, ServiceStep
  PROVE  L1!TypeOK' /\ Phases'
<1>1. \A r \in Requests : req[r] \in L1!Request /\ L1!Complete(req[r])
  BY DEF L1!TypeOK
<1>2. L1!ChainTypeOK /\ L1!Latest \in Nat
  BY DEF L1!TypeOK, L1!ChainTypeOK, L1!Latest
<1>3. ASSUME NEW r \in Requests, L1!GetBlock(r) PROVE L1!TypeOK' /\ Phases'
  <2> DEFINE q == [req[r] EXCEPT !.pc = "slots", !.number = L1!Provable(L1!Latest),
                                 !.asked = L1!Latest]
  <2>1. q \in L1!Request /\ L1!Complete(q) /\ q.pc = "slots"
    <3>1. ASSUME NEW o \in L1!Request, NEW m \in Int, NEW a \in Nat
          PROVE  [o EXCEPT !.pc = "slots", !.number = m, !.asked = a] \in L1!Request
      BY DEF L1!Request
    <3>2. q \in L1!Request
      <4>1. L1!Provable(L1!Latest) \in Int
        BY <1>2 DEF L1!Provable
      <4>2. req[r] \in L1!Request
        BY <1>1
      <4> QED BY <1>2, <3>1, <4>1, <4>2
    <3>3. q.pc = "slots"
      BY <1>1 DEF L1!Request
    <3> QED BY <3>2, <3>3 DEF L1!Complete
  <2>2. L1!Goto(r, q)
    BY <1>3 DEF L1!GetBlock
  <2> HIDE DEF q
  <2> QED BY <2>1, <2>2, RequestBecomes
<1>4. ASSUME NEW r \in Requests, L1!GetStorageAt(r) PROVE L1!TypeOK' /\ Phases'
  <2> DEFINE n == L1!Tag(req[r].number)
             q == [req[r] EXCEPT !.pc = L1!After(L1!Known(n), "proof"),
                                 !.slots = IF L1!Known(n) THEN L1!getStorageAt(n) ELSE @]
  <2>1. L1!Known(n) => L1!getStorageAt(n) \in L1!Slots
    BY <1>2, BlocksAreBlocks
  <2>2. L1!Goto(r, q)
    BY <1>4 DEF L1!GetStorageAt
  <2>3. q \in L1!Request /\ L1!Complete(q) /\ (q.pc = "proof" => q.slots \in L1!Slots)
    <3> HIDE DEF n
    <3> QED BY <1>1, <2>1 DEF L1!Request, L1!Complete, L1!After
  <2> HIDE DEF q
  <2> QED BY <2>2, <2>3, RequestBecomes
<1>5. ASSUME NEW r \in Requests, L1!GetProof(r) PROVE L1!TypeOK' /\ Phases'
  <2> DEFINE n == req[r].number
             q == [req[r] EXCEPT !.pc = L1!After(L1!Known(n), "header"),
                                 !.proof = IF L1!Known(n) THEN L1!getProofs(n, req[r].slots) ELSE @]
  <2>1. L1!Known(n) => L1!getProofs(n, req[r].slots) \in L1!StateProof
    BY <1>2, <1>5, BlocksAreBlocks
       DEF L1!getProofs, L1!StateProof, Phases, L1!GetProof, L1!At
  <2>2. L1!Goto(r, q)
    BY <1>5 DEF L1!GetProof
  <2>3. q \in L1!Request /\ L1!Complete(q) /\ q.pc # "proof"
    <3> HIDE DEF n
    <3> QED BY <1>1, <2>1 DEF L1!Request, L1!Complete, L1!After
  <2> HIDE DEF q
  <2> QED BY <2>2, <2>3, RequestBecomes
<1>6. ASSUME NEW r \in Requests, L1!GetBlockByNumber(r) PROVE L1!TypeOK' /\ Phases'
  <2> DEFINE n == req[r].number
             q == [req[r] EXCEPT !.pc = L1!After(L1!Known(n), "responded"),
                                 !.header = IF L1!Known(n) THEN L1!BlockAt(n) ELSE @]
  <2>1. L1!Known(n) => n \in Nat /\ L1!BlockAt(n) \in L1!Block
    BY <1>2, BlocksAreBlocks
  <2>2. L1!Goto(r, q)
    BY <1>6 DEF L1!GetBlockByNumber
  <2>3. q \in L1!Request /\ L1!Complete(q) /\ q.pc # "proof"
    BY <1>1, <2>1 DEF L1!Request, L1!Complete, L1!After
  <2> HIDE DEF q
  <2> QED BY <2>2, <2>3, RequestBecomes
<1>7. ASSUME NEW r \in Requests, L1!Callback(r) PROVE L1!TypeOK' /\ Phases'
  <2>1. PICK h \in 0 .. L1!Latest, pc \in {"returned", "reverted"} :
          L1!Goto(r, [req[r] EXCEPT !.pc = pc, !.calledAt = h])
    BY <1>7 DEF L1!Callback
  <2> DEFINE q == [req[r] EXCEPT !.pc = pc, !.calledAt = h]
  <2>2. q \in L1!Request /\ L1!Complete(q) /\ q.pc # "proof"
    <3>1. h \in Nat
      BY <1>2, <2>1
    <3> QED BY <1>1, <2>1, <3>1 DEF L1!Request, L1!Complete
  <2> HIDE DEF q
  <2> QED BY <2>1, <2>2, RequestBecomes DEF q
<1>8. ASSUME NEW r \in Requests, L1!CallFails(r) PROVE L1!TypeOK' /\ Phases'
  <2>1. /\ req' = [req EXCEPT ![r] = [req[r] EXCEPT !.pc = "failed"]]
        /\ faults' = faults + 1 /\ faults < MaxFaults /\ UNCHANGED <<chain, reorgs>>
    BY <1>8 DEF L1!CallFails, L1!After
  <2> DEFINE q == [req[r] EXCEPT !.pc = "failed"]
  <2>2. q \in L1!Request /\ L1!Complete(q) /\ q.pc # "proof"
    BY <1>1 DEF L1!Request, L1!Complete
  <2>3. req' = [req EXCEPT ![r] = q]
    BY <2>1
  <2> HIDE DEF q
  <2>4. /\ req' \in [Requests -> L1!Request]
        /\ \A s \in Requests : req'[s] = IF s = r THEN q ELSE req[s]
    BY <2>2, <2>3 DEF L1!TypeOK
  <2> QED BY <2>1, <2>2, <2>4, L1GatewayAssumption
          DEF L1!TypeOK, L1!ChainTypeOK, L1!Latest, Phases, L1!L1Assumption
<1>9. CASE L1!ChainStep
  <2>1. UNCHANGED <<req, faults>>
    BY <1>9 DEF L1!ChainStep
  <2>2. L1!ChainTypeOK'
    <3>1. CASE L1!Mine
      BY <3>1, L1GatewayAssumption
         DEF L1!TypeOK, L1!Mine, L1!ChainTypeOK, L1!Forks, L1!Latest, L1!ChainAssumption
    <3>2. CASE L1!Reorganise
      <4>1. PICK n \in 1 .. L1!Latest : chain' = Append(SubSeq(chain, 1, n - 1), reorgs + 1)
        BY <3>2 DEF L1!Reorganise
      <4>2. reorgs' = reorgs + 1 /\ reorgs + 1 \in L1!Forks
        BY <1>2, <3>2, L1GatewayAssumption
           DEF L1!Reorganise, L1!ChainTypeOK, L1!Forks, L1!ChainAssumption
      <4>3. SubSeq(chain, 1, n - 1) \in Seq(L1!Forks) /\ Len(SubSeq(chain, 1, n - 1)) = n - 1
        BY <1>2, <4>1 DEF L1!ChainTypeOK, L1!Latest
      <4> QED BY <1>2, <4>1, <4>2, <4>3, L1GatewayAssumption DEF L1!ChainTypeOK, L1!Latest
    <3> QED BY <1>9, <3>1, <3>2 DEF L1!ChainStep
  <2> QED BY <2>1, <2>2 DEF L1!TypeOK, Phases
<1> QED BY <1>3, <1>4, <1>5, <1>6, <1>7, <1>8, <1>9 DEF ServiceStep, L1!GatewayStep

LEMMA GatewayTypeInit == Init => GatewayType
<1> SUFFICES ASSUME Init
             PROVE  GatewayType
  OBVIOUS
<1>1. App!TypeOK
  BY L1GatewayAssumption
     DEF Init, App!Init, App!TypeOK, App!NoApp, App!AppAssumption
<1>2. L1!ChainTypeOK
  BY L1GatewayAssumption
     DEF Init, L1!Init, L1!ChainInit, L1!ChainTypeOK, L1!Forks, L1!Latest, L1!ChainAssumption
<1>3. L1!NoRequest \in L1!Request /\ L1!Complete(L1!NoRequest) /\ L1!NoRequest.pc = "block"
  BY DEF L1!NoRequest, L1!Request, L1!Complete, L1!NoBlock
<1>4. /\ req \in [Requests -> L1!Request]
      /\ \A r \in Requests : L1!Complete(req[r]) /\ req[r].pc = "block"
  BY <1>3 DEF Init, L1!Init
<1>5. L1!TypeOK
  BY <1>1, <1>2, <1>4, L1GatewayAssumption DEF L1!TypeOK, App!TypeOK
<1> QED BY <1>1, <1>4, <1>5 DEF GatewayType, TypeOK, Phases

LEMMA GatewayTypeStep ==
  ASSUME GatewayType, [Next]_vars
  PROVE  GatewayType'
<1>1. CASE AppStep /\ UNCHANGED servicevars
  <2>1. App!TypeOK'
    BY <1>1, AppTypeStep DEF GatewayType, TypeOK
  <2>2. L1!TypeOK' /\ Phases'
    BY <1>1, <2>1
       DEF GatewayType, TypeOK, App!TypeOK, L1!TypeOK, L1!ChainTypeOK, L1!Latest, Phases, servicevars
  <2> QED BY <2>1, <2>2 DEF GatewayType, TypeOK
<1>2. CASE ServiceStep /\ UNCHANGED appvars
  <2>1. L1!TypeOK' /\ Phases'
    BY <1>2, ServiceTypeStep DEF GatewayType, TypeOK
  <2>2. App!TypeOK'
    BY <1>2, <2>1 DEF GatewayType, TypeOK, App!TypeOK, L1!TypeOK, appvars
  <2> QED BY <2>1, <2>2 DEF GatewayType, TypeOK
<1>3. CASE UNCHANGED vars
  BY <1>3 DEF vars, appvars, servicevars, GatewayType, TypeOK, App!TypeOK, L1!TypeOK,
              L1!ChainTypeOK, L1!Latest, Phases
<1> QED BY <1>1, <1>2, <1>3, StepKinds

\* All that the process and the proof service keep has its type.
THEOREM TypeCorrect == Spec => []TypeOK
<1>1. Spec => []GatewayType
  BY GatewayTypeInit, GatewayTypeStep, PTL DEF Spec
<1>2. GatewayType => TypeOK
  BY DEF GatewayType
<1> QED BY <1>1, <1>2, PTL

-----------------------------------------------------------------------------
(* AnswersRecent                                                           *)

\* L1Verifier lets pass only what blockhash confirms, which is the block that
\* the chain has at that moment under a number within the window.
LEMMA AnswersRecentStep ==
  ASSUME GatewayType, Next, NEW r \in Requests,
         L1!At(r, "responded"), req'[r].pc = "returned"
  PROVE  /\ req'[r].calledAt >= L1!Latest - Lag
         /\ \E n \in 0 .. L1!Latest : /\ n >= req'[r].calledAt - Window
                                   /\ L1!Verifies(req[r].proof, L1!StateAt(n))
<1>1. req \in [Requests -> L1!Request] /\ req[r].number \in Nat /\ L1!Latest \in Nat
  BY DEF GatewayType, TypeOK, L1!TypeOK, L1!Complete, L1!At, L1!ChainTypeOK, L1!Latest
<1>2. req'[r] # req[r]
  BY DEF L1!At
<1>3. ~ UNCHANGED servicevars
  BY <1>2 DEF servicevars
<1>4. PICK s \in Requests : L1!GatewayStep(s) \/ L1!CallFails(s) \/ L1!Callback(s)
  BY <1>2, <1>3, StepKinds DEF ServiceStep, L1!ChainStep, vars
<1>5. PICK q : req' = [req EXCEPT ![s] = q]
  BY <1>1, <1>4 DEF L1!GatewayStep, L1!CallFails, L1!Callback, L1!GetBlock, L1!GetStorageAt,
                    L1!GetProof, L1!GetBlockByNumber, L1!Goto
<1>6. s = r
  BY <1>1, <1>2, <1>5
<1>7. L1!Callback(r)
  BY <1>4, <1>6 DEF L1!GatewayStep, L1!CallFails, L1!GetBlock, L1!GetStorageAt, L1!GetProof,
                    L1!GetBlockByNumber, L1!At
<1>8. PICK h \in 0 .. L1!Latest :
        /\ h >= L1!Latest - Lag
        /\ LET ok == /\ L1!HasHash(req[r].number, h)
                     /\ req[r].header = L1!BlockAt(req[r].number)
                     /\ L1!Verifies(req[r].proof, StateOf(req[r].header))
           IN  L1!Goto(r, [req[r] EXCEPT !.pc = IF ok THEN "returned" ELSE "reverted",
                                         !.calledAt = h])
  BY <1>7 DEF L1!Callback
<1>9. /\ req'[r].calledAt = h
      /\ L1!HasHash(req[r].number, h) /\ req[r].header = L1!BlockAt(req[r].number)
      /\ L1!Verifies(req[r].proof, StateOf(req[r].header))
  <2>1. req[r] \in L1!Request
    BY <1>1
  <2> QED BY <1>1, <1>8, <2>1 DEF L1!Goto, L1!Request
<1>10. /\ req[r].number \in 0 .. L1!Latest /\ req[r].number >= h - Window
       /\ L1!Verifies(req[r].proof, L1!StateAt(req[r].number))
  BY <1>1, <1>8, <1>9, L1GatewayAssumption DEF L1!HasHash, L1!StateAt, L1!L1Assumption
<1> QED BY <1>8, <1>9, <1>10

\* A response that L1Verifier accepts shows the state of a block that is one of
\* the last Window blocks at that moment, whatever node was asked and when.
THEOREM AnswersAreRecent == Spec => AnswersRecent
<1>1. Spec => []GatewayType
  BY GatewayTypeInit, GatewayTypeStep, PTL DEF Spec
<1>2. GatewayType /\ [Next]_vars =>
        [\A r \in Requests : L1!At(r, "responded") /\ req'[r].pc = "returned" =>
           /\ req'[r].calledAt >= L1!Latest - Lag
           /\ \E n \in 0 .. L1!Latest : /\ n >= req'[r].calledAt - Window
                                     /\ L1!Verifies(req[r].proof, L1!StateAt(n))]_(L1!vars)
  <2> SUFFICES ASSUME GatewayType, [Next]_vars, L1!vars' # L1!vars
               PROVE  \A r \in Requests : L1!At(r, "responded") /\ req'[r].pc = "returned" =>
                        /\ req'[r].calledAt >= L1!Latest - Lag
                        /\ \E n \in 0 .. L1!Latest : /\ n >= req'[r].calledAt - Window
                                                  /\ L1!Verifies(req[r].proof, L1!StateAt(n))
    OBVIOUS
  <2>1. Next
    BY DEF vars, servicevars, L1!vars
  <2> QED BY <2>1, AnswersRecentStep
<1> QED BY <1>1, <1>2, PTL DEF Spec, AnswersRecent, L1!AnswersRecent

-----------------------------------------------------------------------------
(* The apps                                                                *)

\* The requests that are going to make an app, and the apps of a server.
Making == {r \in early : fetch[r] = "importing"}
Starts == IF host.kind = "server" THEN restarts + (IF host.state = "starting" THEN 0 ELSE 1) ELSE 0

\* Every request that found no app makes at most one, and every start one.
AppsInv ==
  /\ IsFiniteSet(early)
  /\ \A r \in early : fetch[r] # "new"
  /\ \A r \in Requests : fetch[r] = "importing" => r \in early
  /\ host.kind = "worker" => host.state = "listening"
  /\ built + Cardinality(Making) <= Cardinality(early) + Starts

LEMMA MakingIsFinite ==
  ASSUME IsFiniteSet(early)
  PROVE  IsFiniteSet(Making) /\ Cardinality(Making) \in Nat /\ Cardinality(early) \in Nat
<1>1. Making \subseteq early
  BY DEF Making
<1> QED BY <1>1, FS_Subset, FS_CardinalityType

LEMMA AppsStep ==
  ASSUME App!TypeOK, AppsInv, AppStep
  PROVE  AppsInv'
<1> USE DEF App!TypeOK, AppsInv
<1>1. IsFiniteSet(Making) /\ Cardinality(Making) \in Nat /\ Cardinality(early) \in Nat
  BY MakingIsFinite
<1>2. CASE App!Start
  <2>1. /\ built' = built + 1 /\ UNCHANGED <<fetch, restarts, early>>
        /\ host.state = "starting" /\ host.kind = "server"
        /\ host'.kind = "server" /\ host'.state # "starting"
    BY <1>2 DEF App!Start, App!MakeApp
  <2>2. Making' = Making /\ Starts' = Starts + 1 /\ Starts \in Nat
    BY <2>1 DEF Making, Starts
  <2> QED BY <1>1, <2>1, <2>2
<1>3. CASE App!Restart
  <2>1. /\ UNCHANGED <<built, early>> /\ restarts' = restarts + 1
        /\ host'.kind = host.kind
        /\ host'.state = IF host.kind = "worker" THEN "listening" ELSE "starting"
        /\ fetch' = [r \in Requests |->
                       IF fetch[r] \in {"importing", "handling"} THEN "lost" ELSE fetch[r]]
    BY <1>3 DEF App!Restart
  <2>2. Making' = {}
    BY <2>1 DEF Making
  <2>3. Starts' >= Starts /\ Starts \in Nat /\ Starts' \in Nat
    BY <2>1 DEF Starts
  <2>4. Cardinality(Making') = 0
    BY <2>2, FS_EmptySet
  <2> QED BY <1>1, <2>1, <2>3, <2>4
<1>4. ASSUME NEW r \in Requests, App!Fetch(r)
      PROVE  AppsInv'
  <2>1. /\ UNCHANGED <<host, built, restarts>> /\ fetch[r] = "new" /\ r \notin early
        /\ \A s \in Requests : s # r => fetch'[s] = fetch[s]
    BY <1>4 DEF App!Fetch
  <2>2. Starts' = Starts /\ Starts \in Nat
    BY <2>1 DEF Starts
  <2>3. CASE app = 0
    <3>1. fetch'[r] = "importing" /\ early' = early \cup {r}
      BY <1>4, <2>3 DEF App!Fetch, App!MustMake, App!NoApp
    <3>2. Making' = Making \cup {r} /\ r \notin Making
      BY <2>1, <3>1 DEF Making
    <3>3. /\ IsFiniteSet(early') /\ Cardinality(early') = Cardinality(early) + 1
          /\ Cardinality(Making') = Cardinality(Making) + 1
      BY <1>1, <2>1, <3>1, <3>2, FS_AddElement
    <3> QED BY <1>1, <2>1, <2>2, <3>1, <3>3
  <2>4. CASE app # 0
    <3>1. fetch'[r] \in {"handling", "failed"} /\ early' = early
      BY <1>4, <2>4 DEF App!Fetch, App!MustMake, App!NoApp
    <3>2. Making' = Making
      BY <2>1, <3>1 DEF Making
    <3> QED BY <1>1, <2>1, <2>2, <3>1, <3>2
  <2> QED BY <2>3, <2>4
<1>5. ASSUME NEW r \in Requests, App!Build(r)
      PROVE  AppsInv'
  <2>1. /\ UNCHANGED <<host, restarts, early>> /\ built' = built + 1 /\ fetch[r] = "importing"
        /\ fetch' = [fetch EXCEPT ![r] = "handling"]
    BY <1>5 DEF App!Build, App!MakeApp
  <2>2. Making' = Making \ {r} /\ r \in Making
    BY <2>1 DEF Making
  <2>3. Cardinality(Making') = Cardinality(Making) - 1
    BY <1>1, <2>2, FS_RemoveElement
  <2>4. Starts' = Starts /\ Starts \in Nat
    BY <2>1 DEF Starts
  <2> QED BY <1>1, <2>1, <2>3, <2>4
<1>6. ASSUME NEW r \in Requests, App!Answer(r) \/ App!ImportFails(r)
      PROVE  AppsInv'
  <2>1. PICK state \in {"answered", "failed"} :
          /\ UNCHANGED <<host, built, restarts, early>> /\ fetch[r] # "new"
          /\ fetch' = [fetch EXCEPT ![r] = state]
    BY <1>6 DEF App!Answer, App!ImportFails
  <2>2. Making' = Making \ {r}
    BY <2>1 DEF Making
  <2>3. IsFiniteSet(Making') /\ Cardinality(Making') \in Nat
          /\ Cardinality(Making') <= Cardinality(Making)
    <3>1. Making' \subseteq Making
      BY <2>2
    <3> QED BY <1>1, <3>1, FS_Subset, FS_CardinalityType
  <2>4. Starts' = Starts /\ Starts \in Nat
    BY <2>1 DEF Starts
  <2> QED BY <1>1, <2>1, <2>3, <2>4
<1> QED BY <1>2, <1>3, <1>4, <1>5, <1>6 DEF AppStep

\* Apps are no more than the requests that found none and the starts.
THEOREM FewApps == Spec => []AppsAreFew
<1>1. Init => AppsInv
  <2> SUFFICES ASSUME Init
               PROVE  AppsInv
    OBVIOUS
  <2>1. early = {} /\ built = 0 /\ restarts = 0 /\ Making = {}
    BY DEF Init, App!Init, Making
  <2>2. fetch = [r \in Requests |-> "new"]
    BY DEF Init, App!Init
  <2>3. PICK kind \in {"worker", "server"}, validPort \in BOOLEAN :
          host = [kind |-> kind, validPort |-> validPort,
                  state |-> IF kind = "worker" THEN "listening" ELSE "starting"]
    BY DEF Init, App!Init
  <2>4. (host.kind = "worker" => host.state = "listening") /\ Starts = 0
    BY <2>1, <2>3 DEF Starts
  <2> QED BY <2>1, <2>2, <2>4, FS_EmptySet DEF AppsInv
<1>2. GatewayType /\ AppsInv /\ [Next]_vars => AppsInv'
  <2> SUFFICES ASSUME GatewayType, AppsInv, [Next]_vars
               PROVE  AppsInv'
    OBVIOUS
  <2>1. CASE UNCHANGED appvars
    BY <2>1 DEF AppsInv, appvars, Making, Starts
  <2>2. CASE AppStep
    BY <2>2, AppsStep DEF GatewayType, TypeOK
  <2> QED BY <2>1, <2>2, StepKinds DEF vars
<1>3. GatewayType /\ AppsInv => AppsAreFew
  <2> SUFFICES ASSUME GatewayType, AppsInv
               PROVE  AppsAreFew
    OBVIOUS
  <2>1. Cardinality(Making) \in Nat /\ Cardinality(early) \in Nat
    BY MakingIsFinite DEF AppsInv
  <2> QED BY <2>1 DEF AppsInv, AppsAreFew, Starts, GatewayType, TypeOK, App!TypeOK
<1> QED BY <1>1, <1>2, <1>3, GatewayTypeInit, GatewayTypeStep, PTL DEF Spec

-----------------------------------------------------------------------------
(* Serves                                                                  *)

\* An app that is there has its gateway, so no request fails at the router.
RoutedInv ==
  /\ app = App!NoApp \/ app \in routed
  /\ faults = 0 => \A r \in Requests : fetch[r] # "failed"

Original == reorgs = 0 => \A n \in 1 .. L1!Latest : chain[n] = 0

\* What request q has read, if nothing was reorganised and no call failed.
Fine(q) ==
  reorgs = 0 /\ faults = 0 /\ q.asked # 0 =>
    /\ q.pc \in {"slots", "proof", "header", "responded"} =>
         q.number = q.asked - 1 /\ q.asked \in 1 .. L1!Latest
    /\ q.pc \in {"proof", "header", "responded"} => q.slots = SlotsOf(StateOf(<<q.number, 0>>))
    /\ q.pc \in {"header", "responded"} =>
         q.proof = [state |-> StateOf(<<q.number, 0>>), slots |-> q.slots]
    /\ q.pc = "responded" => q.header = <<q.number, 0>>
    /\ q.pc # "failed"
    /\ q.pc = "reverted" => q.calledAt \notin q.asked .. q.asked + Window - 1

ServiceInv == Original /\ \A r \in Requests : Fine(req[r])

\* A request that becomes q, with the chain as it was.
LEMMA FineBecomes ==
  ASSUME L1!TypeOK, ServiceInv, NEW r \in Requests, NEW q, Fine(q), L1!Goto(r, q)
  PROVE  ServiceInv'
<1>1. req' = [req EXCEPT ![r] = q] /\ UNCHANGED <<chain, reorgs, faults>>
  BY DEF L1!Goto
<1>2. Original'
  BY <1>1 DEF ServiceInv, Original, L1!Latest
<1>3. \A s \in Requests : req'[s] = IF s = r THEN q ELSE req[s]
  BY <1>1 DEF L1!TypeOK
<1>4. ASSUME NEW s \in Requests PROVE Fine(req[s])'
  <2>1. PICK p : p = req'[s] /\ Fine(p)
    BY <1>3 DEF ServiceInv
  <2> QED BY <1>1, <2>1 DEF Fine, L1!Latest
<1> QED BY <1>2, <1>4 DEF ServiceInv

LEMMA CanonicalBlocks ==
  ASSUME L1!TypeOK, Original, reorgs = 0, NEW n, L1!Known(n)
  PROVE  L1!BlockAt(n) = <<n, 0>> /\ L1!StateAt(n) = StateOf(<<n, 0>>)
BY DEF L1!TypeOK, L1!ChainTypeOK, Original, L1!Known, L1!BlockAt, L1!StateAt, L1!Latest

LEMMA FineStep ==
  ASSUME GatewayType, ServiceInv, NEW r \in Requests, L1!GatewayStep(r) \/ L1!Callback(r)
  PROVE  ServiceInv'
<1>1. /\ req[r] \in L1!Request /\ Fine(req[r]) /\ L1!Latest \in Nat /\ L1!TypeOK /\ Original
      /\ Window \in Nat
  BY L1GatewayAssumption
     DEF GatewayType, TypeOK, L1!TypeOK, L1!ChainTypeOK, L1!Latest, ServiceInv, L1!L1Assumption
<1> DEFINE n == req[r].number
           Quiet == reorgs = 0 /\ faults = 0 /\ req[r].asked # 0
\* The block that was asked for is on the chain.
<1>2. ASSUME Quiet, req[r].pc \in {"slots", "proof", "header", "responded"}
      PROVE  /\ n = req[r].asked - 1 /\ req[r].asked \in 1 .. L1!Latest /\ n \in Nat
             /\ L1!Known(n) /\ L1!Tag(n) = n
             /\ L1!BlockAt(n) = <<n, 0>> /\ L1!StateAt(n) = StateOf(<<n, 0>>)
             /\ StateOf(<<n, 0>>) \in States
  <2>1. n = req[r].asked - 1 /\ req[r].asked \in 1 .. L1!Latest
    BY <1>1, <1>2 DEF Fine
  <2>2. n \in Nat /\ L1!Known(n) /\ L1!Tag(n) = n
    BY <1>1, <2>1 DEF L1!Known, L1!Tag
  <2>3. L1!BlockAt(n) = <<n, 0>> /\ L1!StateAt(n) = StateOf(<<n, 0>>) /\ L1!StateAt(n) \in States
    BY <1>1, <1>2, <2>2, CanonicalBlocks, BlocksAreBlocks DEF L1!TypeOK
  <2> QED BY <2>1, <2>2, <2>3
<1>3. CASE L1!GetBlock(r)
  <2> DEFINE q == [req[r] EXCEPT !.pc = "slots", !.number = L1!Provable(L1!Latest),
                                 !.asked = L1!Latest]
  <2>1. q.pc = "slots" /\ q.number = L1!Latest - 1 /\ q.asked = L1!Latest
    BY <1>1 DEF L1!Request, L1!Provable
  <2>2. L1!Goto(r, q)
    BY <1>3 DEF L1!GetBlock
  <2> HIDE DEF q
  <2>3. Fine(q)
    BY <1>1, <2>1 DEF Fine
  <2> QED BY <1>1, <2>2, <2>3, FineBecomes
<1>4. CASE L1!GetStorageAt(r)
  <2> DEFINE t == L1!Tag(n)
             q == [req[r] EXCEPT !.pc = L1!After(L1!Known(t), "proof"),
                                 !.slots = IF L1!Known(t) THEN L1!getStorageAt(t) ELSE @]
  <2>1. req[r].pc = "slots" /\ L1!Goto(r, q)
    BY <1>4 DEF L1!GetStorageAt, L1!At
  <2>2. q.number = n /\ q.asked = req[r].asked
    BY <1>1 DEF L1!Request
  <2>3. Quiet => q.pc = "proof" /\ q.slots = SlotsOf(StateOf(<<n, 0>>))
    BY <1>1, <1>2, <2>1 DEF L1!Request, L1!After, L1!getStorageAt
  <2> HIDE DEF q
  <2>4. Fine(q)
    BY <1>2, <2>1, <2>2, <2>3 DEF Fine
  <2> QED BY <1>1, <2>1, <2>4, FineBecomes
<1>5. CASE L1!GetProof(r)
  <2> DEFINE q == [req[r] EXCEPT !.pc = L1!After(L1!Known(n), "header"),
                                 !.proof = IF L1!Known(n)
                                           THEN L1!getProofs(n, req[r].slots) ELSE @]
  <2>1. req[r].pc = "proof" /\ L1!Goto(r, q)
    BY <1>5 DEF L1!GetProof, L1!At
  <2>2. q.number = n /\ q.asked = req[r].asked /\ q.slots = req[r].slots
    BY <1>1 DEF L1!Request
  <2>3. Quiet => /\ q.pc = "header"
                 /\ q.proof = [state |-> StateOf(<<n, 0>>), slots |-> q.slots]
                 /\ q.slots = SlotsOf(StateOf(<<n, 0>>))
    BY <1>1, <1>2, <2>1, <2>2 DEF L1!Request, L1!After, L1!getProofs, Fine
  <2> HIDE DEF q
  <2>4. Fine(q)
    BY <1>2, <2>1, <2>2, <2>3 DEF Fine
  <2> QED BY <1>1, <2>1, <2>4, FineBecomes
<1>6. CASE L1!GetBlockByNumber(r)
  <2> DEFINE q == [req[r] EXCEPT !.pc = L1!After(L1!Known(n), "responded"),
                                 !.header = IF L1!Known(n) THEN L1!BlockAt(n) ELSE @]
  <2>1. req[r].pc = "header" /\ L1!Goto(r, q)
    BY <1>6 DEF L1!GetBlockByNumber, L1!At
  <2>2. /\ q.number = n /\ q.asked = req[r].asked /\ q.slots = req[r].slots
        /\ q.proof = req[r].proof
    BY <1>1 DEF L1!Request
  <2>3. Quiet => /\ q.pc = "responded" /\ q.header = <<n, 0>>
                 /\ q.proof = [state |-> StateOf(<<n, 0>>), slots |-> q.slots]
                 /\ q.slots = SlotsOf(StateOf(<<n, 0>>))
    BY <1>1, <1>2, <2>1, <2>2 DEF L1!Request, L1!After, Fine
  <2> HIDE DEF q
  <2>4. Fine(q)
    BY <1>2, <2>1, <2>2, <2>3 DEF Fine
  <2> QED BY <1>1, <2>1, <2>4, FineBecomes
<1>7. CASE L1!Callback(r)
  <2>1. req[r].pc = "responded"
    BY <1>7 DEF L1!Callback, L1!At
  <2>2. PICK h \in 0 .. L1!Latest :
          LET ok == /\ L1!HasHash(n, h) /\ req[r].header = L1!BlockAt(n)
                    /\ L1!Verifies(req[r].proof, StateOf(req[r].header))
          IN  L1!Goto(r, [req[r] EXCEPT !.pc = IF ok THEN "returned" ELSE "reverted",
                                        !.calledAt = h])
    BY <1>7 DEF L1!Callback
  <2> DEFINE ok == /\ L1!HasHash(n, h) /\ req[r].header = L1!BlockAt(n)
                   /\ L1!Verifies(req[r].proof, StateOf(req[r].header))
             q == [req[r] EXCEPT !.pc = IF ok THEN "returned" ELSE "reverted", !.calledAt = h]
  <2>3. ASSUME Quiet, h \in req[r].asked .. req[r].asked + Window - 1
        PROVE  ok
    <3>1. L1!HasHash(n, h)
      BY <1>1, <1>2, <2>1, <2>2, <2>3 DEF L1!HasHash
    <3>2. /\ req[r].header = <<n, 0>>
          /\ req[r].proof = [state |-> StateOf(<<n, 0>>), slots |-> SlotsOf(StateOf(<<n, 0>>))]
      BY <1>1, <2>1, <2>3 DEF Fine
    <3>3. SlotsOf(StateOf(<<n, 0>>)) \in Seq(Nat)
      BY <1>2, <2>1, <2>3, L1GatewayAssumption DEF L1!ChainAssumption
    <3>4. L1!Verifies(req[r].proof, StateOf(req[r].header))
      BY <3>2, <3>3 DEF L1!Verifies, L1!IsPrefix
    <3> QED BY <1>2, <2>1, <2>3, <3>1, <3>2, <3>4
  <2>4. /\ q.pc = IF ok THEN "returned" ELSE "reverted"
        /\ q.calledAt = h /\ q.asked = req[r].asked
    <3> HIDE DEF ok
    <3> QED BY <1>1 DEF L1!Request
  <2>5. L1!Goto(r, q)
    BY <2>2
  <2> HIDE DEF ok, q
  <2>6. Fine(q)
    BY <2>3, <2>4 DEF Fine
  <2> QED BY <1>1, <2>5, <2>6, FineBecomes
<1> QED BY <1>3, <1>4, <1>5, <1>6, <1>7 DEF L1!GatewayStep

LEMMA RoutedStep ==
  ASSUME App!TypeOK, RoutedInv, AppStep
  PROVE  RoutedInv'
<1> USE DEF App!TypeOK, RoutedInv, App!NoApp
<1>1. CASE App!Start
  BY <1>1 DEF App!Start, App!MakeApp
<1>2. CASE App!Restart
  BY <1>2 DEF App!Restart
<1>3. ASSUME NEW r \in Requests, App!Fetch(r)
      PROVE  RoutedInv'
  BY <1>3 DEF App!Fetch, App!MustMake, App!AppWhileImporting
<1>4. ASSUME NEW r \in Requests, App!Build(r)
      PROVE  RoutedInv'
  BY <1>4 DEF App!Build, App!MakeApp
<1>5. ASSUME NEW r \in Requests, App!Answer(r) \/ App!ImportFails(r)
      PROVE  RoutedInv'
  BY <1>5 DEF App!Answer, App!ImportFails
<1> QED BY <1>1, <1>2, <1>3, <1>4, <1>5 DEF AppStep

LEMMA ServiceStepServes ==
  ASSUME GatewayType, ServiceInv, ServiceStep
  PROVE  ServiceInv' /\ (faults' = faults \/ faults' # 0)
<1>1. L1!TypeOK /\ faults \in Nat /\ reorgs \in Nat
  BY L1GatewayAssumption
     DEF GatewayType, TypeOK, L1!TypeOK, L1!ChainTypeOK, L1!Forks, L1!L1Assumption
<1>2. ASSUME NEW r \in Requests, L1!GatewayStep(r) \/ L1!Callback(r)
      PROVE  ServiceInv' /\ faults' = faults
  <2>1. faults' = faults
    BY <1>2 DEF L1!GatewayStep, L1!Callback, L1!GetBlock, L1!GetStorageAt, L1!GetProof,
                L1!GetBlockByNumber, L1!Goto
  <2> QED BY <1>2, <2>1, FineStep
<1>3. ASSUME NEW r \in Requests, L1!CallFails(r)
      PROVE  ServiceInv' /\ faults' # 0
  <2>1. faults' = faults + 1 /\ UNCHANGED <<chain, reorgs>>
    BY <1>3 DEF L1!CallFails
  <2>2. faults' # 0
    BY <1>1, <2>1
  <2> QED BY <2>1, <2>2 DEF ServiceInv, Original, L1!Latest, Fine
<1>4. CASE L1!ChainStep
  <2>1. req' = req /\ faults' = faults
    BY <1>4 DEF L1!ChainStep
  <2>2. CASE L1!Reorganise
    <3>1. reorgs' # 0
      BY <1>1, <2>2 DEF L1!Reorganise
    <3> QED BY <2>1, <3>1 DEF ServiceInv, Original, Fine
  <2>3. CASE L1!Mine
    <3>1. reorgs' = reorgs /\ chain' = Append(chain, reorgs)
      BY <2>3 DEF L1!Mine
    <3>2. chain \in Seq(L1!Forks) /\ reorgs \in L1!Forks
      BY <1>1 DEF L1!TypeOK, L1!ChainTypeOK
    <3>3. /\ Len(chain') = Len(chain) + 1 /\ chain'[Len(chain) + 1] = reorgs
          /\ \A i \in 1 .. Len(chain) : chain'[i] = chain[i]
      BY <3>1, <3>2
    <3>4. Original'
      BY <3>1, <3>2, <3>3 DEF ServiceInv, Original, L1!Latest
    <3>5. ASSUME NEW r \in Requests PROVE Fine(req[r])'
      <4>1. PICK q : q = req[r] /\ Fine(q)
        BY DEF ServiceInv
      <4>2. Len(chain) \in Nat /\ \A a \in 1 .. Len(chain) : a \in 1 .. Len(chain')
        BY <3>2, <3>3
      <4>3. q = req'[r] /\ faults' = faults /\ reorgs' = reorgs
        BY <2>1, <3>1, <4>1
      <4> QED BY <4>1, <4>2, <4>3 DEF Fine, L1!Latest
    <3> QED BY <2>1, <3>4, <3>5 DEF ServiceInv
  <2> QED BY <1>4, <2>1, <2>2, <2>3 DEF L1!ChainStep
<1> QED BY <1>2, <1>3, <1>4 DEF ServiceStep

LEMMA AppStepFaults ==
  ASSUME GatewayType, AppStep
  PROVE  faults' = faults \/ faults' # 0
<1>1. faults \in Nat
  BY L1GatewayAssumption DEF GatewayType, TypeOK, L1!TypeOK, L1!L1Assumption
<1> QED BY <1>1 DEF AppStep, App!Start, App!Restart, App!Fetch, App!Build, App!Answer, App!ImportFails

\* A request fails only for the reasons that Serves names, whatever other
\* requests do and however apps replace each other.
THEOREM GatewayServes == Spec => []Serves
<1>1. Init => RoutedInv /\ ServiceInv
  <2> SUFFICES ASSUME Init
               PROVE  RoutedInv /\ ServiceInv
    OBVIOUS
  <2>1. RoutedInv
    BY DEF Init, App!Init, RoutedInv
  <2>2. Original
    BY DEF Init, L1!Init, L1!ChainInit, Original, L1!Latest
  <2>3. \A r \in Requests : req[r].asked = 0
    BY DEF Init, L1!Init, L1!NoRequest
  <2> QED BY <2>1, <2>2, <2>3 DEF ServiceInv, Fine
<1>2. GatewayType /\ RoutedInv /\ ServiceInv /\ [Next]_vars => RoutedInv' /\ ServiceInv'
  <2> SUFFICES ASSUME GatewayType, RoutedInv, ServiceInv, [Next]_vars
               PROVE  RoutedInv' /\ ServiceInv'
    OBVIOUS
  <2>1. CASE AppStep /\ UNCHANGED servicevars
    <3>1. RoutedInv'
      BY <2>1, RoutedStep DEF GatewayType, TypeOK
    <3>2. faults' = faults \/ faults' # 0
      BY <2>1, AppStepFaults
    <3> QED BY <2>1, <3>1, <3>2 DEF servicevars, ServiceInv, Original, Fine, L1!Latest
  <2>2. CASE ServiceStep /\ UNCHANGED appvars
    <3>1. ServiceInv' /\ (faults' = faults \/ faults' # 0)
      BY <2>2, ServiceStepServes
    <3> QED BY <2>2, <3>1 DEF appvars, RoutedInv
  <2>3. CASE UNCHANGED vars
    BY <2>3 DEF vars, appvars, servicevars, RoutedInv, ServiceInv, Original, Fine, L1!Latest
  <2> QED BY <2>1, <2>2, <2>3, StepKinds
<1>3. RoutedInv /\ ServiceInv => Serves
  BY DEF RoutedInv, ServiceInv, Fine, Serves, L1!Serves, L1!At
<1> QED BY <1>1, <1>2, <1>3, GatewayTypeInit, GatewayTypeStep, PTL DEF Spec

=============================================================================
