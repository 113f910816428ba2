------------------------------- MODULE Developer -------------------------------
(***************************************************************************)
(* What arb-verifier/README.md:20-38 has a developer do: build the         *)
(* workspaces (Workspace), then deploy the contracts (Deployment), which   *)
(* may be changed and deployed again.                                      *)
(***************************************************************************)
EXTENDS Deployment

CONSTANTS Workspaces, Needs, Lines, MaxFailures

VARIABLES line, at, queue, running, status, current, outdated, failures

W == INSTANCE Workspace WITH faults <- failures, MaxFaults <- MaxFailures

buildVars == <<line, at, queue, running, status, current, outdated, failures>>
developerVars == <<buildVars, deployVars>>

DeveloperInit == W!Init /\ DeployInit

Build == W!Next /\ UNCHANGED deployVars

IsBuilt == status = "ended" /\ line = W!BuildLine

DeployBuilt == IsBuilt /\ DeployNext /\ UNCHANGED buildVars

DeveloperNext == Build \/ DeployBuilt

DeveloperSpec == DeveloperInit /\ [][DeveloperNext]_developerVars /\ RunsEnd

BuildsCurrent == W!BuildsCurrent
=============================================================================
