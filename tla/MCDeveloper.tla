------------------------------ MODULE MCDeveloper ------------------------------
(* The workspaces of package.json with the dependencies of their own: the    *)
(* build of all, and lists of those that depend on each other and do not.    *)
(* Then the contracts of each package with three changes and a failing       *)
(* transaction.                                                              *)
EXTENDS Developer

MCWorkspaces ==
  <<"evm-gateway", "l1-gateway", "op-gateway", "arb-gateway", "evm-verifier",
    "l1-verifier", "op-verifier", "arb-verifier", "crosschain-resolver">>

MCNeeds ==
  [w \in Range(MCWorkspaces) |->
     CASE w \in {"l1-gateway", "op-gateway", "arb-gateway"} -> {"evm-gateway"}
       [] w = "l1-verifier" -> {"l1-gateway", "evm-verifier"}
       [] w = "op-verifier" -> {"op-gateway", "evm-verifier"}
       [] w = "arb-verifier" -> {"arb-gateway", "evm-verifier"}
       [] w = "crosschain-resolver" -> {"l1-gateway", "evm-verifier"}
       [] OTHER -> {}]

Several(names) == [names |-> names, awaits |-> FALSE]

MCLines ==
  {<<Several(<<"evm-gateway">>), [names |-> Tail(MCWorkspaces), awaits |-> TRUE]>>,
   <<Several(<<"evm-gateway">>), Several(<<"l1-gateway", "op-gateway", "arb-gateway">>)>>,
   <<Several(<<"evm-gateway", "l1-gateway">>)>>}

ASSUME W!WorkspaceAssumption

\* "build" of package.json is in the order of the dependencies.
ASSUME BuildInOrder == W!BuildLine \in Lines /\ W!InOrder(W!BuildLine)
=============================================================================
