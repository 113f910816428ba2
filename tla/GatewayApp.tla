------------------------------ MODULE GatewayApp ------------------------------
(***************************************************************************)
(* The process that a gateway runs in.  A Cloudflare worker (worker.ts of  *)
(* arb-gateway, op-gateway and l1-gateway) makes the app when a request    *)
(* finds none, after imports that it awaits; a server (server.ts) makes it *)
(* before it listens.  An app is a router with the gateway added to it,    *)
(* which has its own proof service, and for Arbitrum its own block cache.  *)
(***************************************************************************)
EXTENDS Naturals, FiniteSets

CONSTANTS
  Requests,
  MaxFaults,    \* bound on failing calls and imports
  MaxRestarts   \* bound on restarts

\* Assumed where the module is used.
AppAssumption == MaxFaults \in Nat /\ MaxRestarts \in Nat

VARIABLES
  host,     \* the process: worker or server, and whether it takes requests
  app,      \* the variable app
  built,    \* apps made so far: 1, 2, ...
  routed,   \* those with a gateway added
  fetch,    \* fetch[r]: what the process does with r
  faults, restarts,
  early     \* history: requests that found no app

vars == <<host, app, built, routed, fetch, faults, restarts, early>>
NoApp == 0

\* The options are read: the port is a number written as one, or not.
Init ==
  /\ \E kind \in {"worker", "server"}, validPort \in BOOLEAN :
       host = [kind |-> kind, validPort |-> validPort,
               state |-> IF kind = "worker" THEN "listening" ELSE "starting"]
  /\ app = NoApp /\ built = 0 /\ routed = {}
  /\ fetch = [r \in Requests |-> "new"]
  /\ faults = 0 /\ restarts = 0 /\ early = {}

\* new EVMGateway(new ...ProofService(...)), gateway.add(server), makeApp
MakeApp ==
  /\ built' = built + 1
  /\ routed' = routed \cup {built'}
  /\ app' = built'

\* server.ts: an invalid port throws after the app was made.
Start ==
  /\ host.state = "starting"
  /\ MakeApp
  /\ host' = [host EXCEPT !.state = IF host.validPort THEN "listening" ELSE "crashed"]
  /\ UNCHANGED <<fetch, faults, restarts, early>>

-----------------------------------------------------------------------------
\* Mutant of AppWhileImporting: app is assigned before the imports are there.
AppWhileImporting_Early == built + 1

AppWhileImporting == app

\* Mutant of MustMake: every request makes an app.
MustMake_Always == host.kind = "worker"

\* if (!app)
MustMake == app = NoApp

\* fetch finds the app, or starts to import what it takes to make one.
Fetch(r) ==
  /\ host.state = "listening" /\ fetch[r] = "new"
  /\ IF MustMake
     THEN /\ fetch' = [fetch EXCEPT ![r] = "importing"]
          /\ app' = AppWhileImporting
     ELSE /\ fetch' = [fetch EXCEPT ![r] = IF app \in routed THEN "handling" ELSE "failed"]
          /\ UNCHANGED app
  /\ early' = IF app = NoApp THEN early \cup {r} ELSE early
  /\ UNCHANGED <<host, built, routed, faults, restarts>>

\* The last import has arrived; from there to app.handle nothing is awaited.
Build(r) ==
  /\ fetch[r] = "importing"
  /\ MakeApp
  /\ fetch' = [fetch EXCEPT ![r] = "handling"]
  /\ UNCHANGED <<host, faults, restarts, early>>

ImportFails(r) ==
  /\ fetch[r] = "importing"
  /\ faults < MaxFaults /\ faults' = faults + 1
  /\ fetch' = [fetch EXCEPT ![r] = "failed"]
  /\ UNCHANGED <<host, app, built, routed, restarts, early>>

\* getStorageSlots of the gateway has returned or thrown.
Answer(r) ==
  /\ fetch[r] = "handling"
  /\ fetch' = [fetch EXCEPT ![r] = "answered"]
  /\ UNCHANGED <<host, app, built, routed, faults, restarts, early>>

\* The isolate is evicted, or the server dies and is started again.
Restart ==
  /\ restarts < MaxRestarts /\ restarts' = restarts + 1
  /\ app' = NoApp
  /\ host' = [host EXCEPT !.state = IF host.kind = "worker" THEN "listening" ELSE "starting"]
  /\ fetch' = [r \in Requests |->
                 IF fetch[r] \in {"importing", "handling"} THEN "lost" ELSE fetch[r]]
  /\ UNCHANGED <<built, routed, faults, early>>

-----------------------------------------------------------------------------
TypeOK ==
  /\ host \in [kind : {"worker", "server"}, validPort : BOOLEAN,
               state : {"starting", "listening", "crashed"}]
  /\ built \in Nat /\ app \in 0 .. built /\ routed \subseteq 1 .. built
  /\ fetch \in [Requests ->
       {"new", "importing", "handling", "answered", "failed", "lost"}]
  /\ faults \in 0 .. MaxFaults /\ restarts \in 0 .. MaxRestarts
  /\ early \subseteq Requests
=============================================================================
