------------------------------- MODULE L1Gateway -------------------------------
(***************************************************************************)
(* The gateway for L1 as it is deployed: l1-gateway/src/worker.ts or       *)
(* server.ts, with L1ProofService behind the routes of each app.  A        *)
(* request is handled once the process has an app; the client calls back   *)
(* with the answer it got.                                                 *)
(***************************************************************************)
EXTENDS Integers, FiniteSets, Sequences

CONSTANTS
  Requests, States, StateOf(_), SlotsOf(_), Window, Lag,
  MaxBlocks, MaxReorgs, MaxFaults, MaxRestarts

VARIABLES
  host, app, built, routed, fetch, restarts, early,   \* of the process
  chain, reorgs, req,                                 \* of the proof service
  faults

App == INSTANCE GatewayApp
L1 == INSTANCE L1ProofService

ASSUME L1GatewayAssumption == App!AppAssumption /\ L1!L1Assumption /\ L1!ChainAssumption

appvars == <<host, app, built, routed, fetch, restarts, early>>
servicevars == <<chain, reorgs, req>>
vars == <<appvars, servicevars, faults>>

Init == App!Init /\ L1!Init

Process(r) ==
  /\ App!Fetch(r) \/ App!Build(r)
  /\ UNCHANGED servicevars

\* app.handle: createProofs over the proof service
Handle(r) ==
  /\ fetch[r] = "handling" /\ L1!GatewayStep(r)
  /\ UNCHANGED appvars

\* The answer, proofs or an error, goes to the client.
Answer(r) ==
  /\ req[r].pc \in {"responded", "failed"} /\ App!Answer(r)
  /\ UNCHANGED servicevars

Callback(r) ==
  /\ fetch[r] = "answered" /\ L1!Callback(r)
  /\ UNCHANGED appvars

Step(r) == Process(r) \/ Handle(r) \/ Answer(r) \/ Callback(r)
Start == App!Start /\ UNCHANGED servicevars

Fails(r) ==
  \/ App!ImportFails(r) /\ UNCHANGED servicevars
  \/ fetch[r] = "handling" /\ L1!CallFails(r) /\ UNCHANGED appvars

Restart == App!Restart /\ UNCHANGED servicevars
Mine == L1!ChainStep /\ UNCHANGED appvars

Next == Start \/ Restart \/ Mine \/ \E r \in Requests : Step(r) \/ Fails(r)

Spec == Init /\ [][Next]_vars

\* The event loop serves every request, calls and imports are answered or
\* fail, the client follows CCIP-Read.
FairSpec == Spec /\ WF_vars(Start) /\ \A r \in Requests : WF_vars(Step(r))

-----------------------------------------------------------------------------
TypeOK == App!TypeOK /\ L1!TypeOK

AnswersRecent == L1!AnswersRecent

(***************************************************************************)
(* L1ProofService's Serves, for every request whichever app handles it:    *)
(* that several first requests make an app each, and replace each other's, *)
(* makes none of them fail.                                                *)
(***************************************************************************)
Serves ==
  /\ L1!Serves
  /\ faults = 0 => \A r \in Requests : fetch[r] # "failed"

(***************************************************************************)
(* Only requests that find no app make one, however their imports and the  *)
(* requests of others interleave: apps, and the caches they would have,    *)
(* are no more than these requests and the starts of a server.             *)
(***************************************************************************)
AppsAreFew == built <= Cardinality(early) + (IF host.kind = "server" THEN restarts + 1 ELSE 0)

(***************************************************************************)
(* Every request that reaches the process ends: it is refused, lost in a   *)
(* restart, or answered and, if with proofs, called back with.             *)
(***************************************************************************)
Ended(r) ==
  \/ fetch[r] \in {"failed", "lost"}
  \/ fetch[r] = "answered" /\ req[r].pc \in {"failed", "returned", "reverted"}

Settles == \A r \in Requests : fetch[r] # "new" ~> Ended(r)
=============================================================================
