----------------------------- MODULE DeployCommand -----------------------------
(***************************************************************************)
(* A developer at the command line, who repeats the documented command:    *)
(* the runs of Deployment one after the other, each only when the one      *)
(* before it has ended well.                                               *)
(***************************************************************************)
EXTENDS Deployment

CONSTANT Order  \* the networks of the runs

VARIABLE at     \* runs of the command that were started; 0: not running

commandVars == <<at, deployVars>>

CommandInit == DeployInit /\ at = 0

Begin == at = 0 /\ at' = 1 /\ Start(Order[1])

\* "a && b"
NextRun ==
  /\ at \in 1..Len(Order) - 1 /\ run[Order[at]].pc = "done"
  /\ at' = at + 1
  /\ Start(Order[at + 1])

Working == at > 0 /\ Continue(Order[at]) /\ UNCHANGED at

\* The command ends with the run that fails, or with the last one.
Over ==
  /\ at > 0
  /\ run[Order[at]].pc = "failed" \/ (at = Len(Order) /\ run[Order[at]].pc = "done")
  /\ at' = 0
  /\ UNCHANGED deployVars

CommandStep == Begin \/ NextRun \/ Working \/ Over

Disturb == (Edit \/ (at > 0 /\ TransactionFails(Order[at]))) /\ UNCHANGED at

CommandNext == CommandStep \/ Disturb

\* A run does not hang, and who has not succeeded tries again.
CommandSpec == CommandInit /\ [][CommandNext]_commandVars /\ WF_commandVars(CommandStep)

-----------------------------------------------------------------------------
(***************************************************************************)
(* arb-verifier/README.md:35-38, "deploy the contracts to the test node",  *)
(* chains the run on L1 and the run on L2 in this order.  TestL1's script  *)
(* wants the TestL2 of the L2 run, 10_testl1.ts:12, which never begins:    *)
(* repeating the command is not Repeated.                                  *)
(***************************************************************************)
CommandDeploys == package = "arb" /\ setting # Undefined ~> Current
=============================================================================
