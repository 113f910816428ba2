------------------------------ MODULE Deployment ------------------------------
(***************************************************************************)
(* How the contracts get onto the chains: the scripts in deploy_l1 and     *)
(* deploy_l2 of op-verifier, arb-verifier and crosschain-resolver, which   *)
(* "hardhat deploy --network n" runs one after the other as                *)
(* hardhat.config.ts has them.  What was deployed is kept in a directory   *)
(* per network; a contract with the same code and arguments is reused.     *)
(* Runs on L1 and L2 may overlap, fail anywhere, and be repeated.          *)
(***************************************************************************)
EXTENDS Integers, Sequences, Functions

CONSTANTS
  Packages,
  MaxEdits,     \* bound on changes of code and of settings
  MaxFaults     \* bound on failing transactions

ASSUME DeploymentAssumption ==
  Packages \subseteq {"op", "arb", "resolver"} /\ MaxEdits \in Nat /\ MaxFaults \in Nat

VARIABLES
  package,      \* the package that is deployed
  setting,      \* an address from outside, see Setting; those are negative
  code,         \* code[c]: version of the source of contract c
  saved,        \* saved[n]: contracts deployed to network n
  deployed,     \* contracts deployed so far; the address of the last one
  run,          \* run[n]: hardhat deploy on network n
  edits, faults,
  changed       \* history: has anything changed since the run on L1 began?

deployVars == <<package, setting, code, saved, deployed, run, edits, faults, changed>>
Networks == {"l1", "l2"}

\* Arguments of constructors.
Literal == [kind |-> "literal", of |-> ""]
Setting == [kind |-> "setting", of |-> ""]  \* addresses.json, ROLLUP_ADDRESS, OP_VERIFIER_ADDRESS
Local(c) == [kind |-> "local", of |-> c]          \* deployments.get
Companion(c) == [kind |-> "companion", of |-> c]  \* companionNetworks['l2']
Deploy(c, args) == [contract |-> c, args |-> args]

\* The result of deploy has no method wait: "await factory.wait()" throws.
Wait == Deploy("wait", <<>>)

\* 00_op_verifier.ts and 00_arb_verifier.ts; the URL is in a table.
VerifierScript(verifier) == Deploy(verifier, <<Literal, Setting>>)

\* 10_testl1.ts
TestL1Script(verifier) == Deploy("TestL1", <<Local(verifier), Companion("TestL2")>>)

L1TestScripts(verifier) == <<VerifierScript(verifier), TestL1Script(verifier)>>

\* 01_testl2.ts
TestL2Scripts == <<Deploy("TestL2", <<>>)>>

\* 10_l1resolver.ts
L1ResolverScripts == <<Deploy("L1Resolver", <<Setting>>)>>

\* 01_l2resolver.ts
L2ResolverScripts ==
  <<Deploy("DelegatableResolver", <<>>),
    Deploy("DelegatableResolverFactory", <<Local("DelegatableResolver")>>), Wait>>

\* 02_l2resolver_factory.ts
FactoryScripts == <<Deploy("DelegatableResolverFactory", <<Companion("DelegatableResolver")>>)>>

\* Mutant of Scripts: the tests go first.
Scripts_Reversed(n) ==
  IF n = "l2" THEN TestL2Scripts ELSE <<TestL1Script("OPVerifier"), VerifierScript("OPVerifier")>>

\* The files of a directory in the order of their names.
Scripts(n) ==
  CASE package = "resolver" ->
         IF n = "l1" THEN L1ResolverScripts ELSE L2ResolverScripts \o FactoryScripts
    [] package = "op" -> IF n = "l1" THEN L1TestScripts("OPVerifier") ELSE TestL2Scripts
    [] package = "arb" -> IF n = "l1" THEN L1TestScripts("ArbVerifier") ELSE TestL2Scripts

\* What the constructors of the contracts take.
Arity(c) ==
  CASE c \in {"TestL2", "DelegatableResolver"} -> 0
    [] c = "DelegatableResolverFactory" -> 1
    [] c \in {"OPVerifier", "ArbVerifier", "TestL1"} -> 2
    [] c = "L1Resolver" -> 3

Contracts == UNION {{Scripts(n)[k].contract : k \in DOMAIN Scripts(n)} : n \in Networks} \ {"wait"}

-----------------------------------------------------------------------------
NoRun == [pc |-> "idle", todo |-> <<>>, args |-> <<>>]

DeployInit ==
  /\ package \in Packages /\ setting = 0
  /\ code = [c \in Contracts |-> 0]
  /\ saved = [n \in Networks |-> <<>>] /\ deployed = 0
  /\ run = [n \in Networks |-> NoRun]
  /\ edits = 0 /\ faults = 0 /\ changed = TRUE

Goto(n, r) == run' = [run EXCEPT ![n] = r]
Throw(n) == Goto(n, [NoRun EXCEPT !.pc = "failed"])
First(n) == Head(run[n].todo)
Proceed(n) == Goto(n, [pc |-> "read", todo |-> Tail(run[n].todo), args |-> <<>>])

Start(n) ==
  /\ run[n].pc \in {"idle", "failed", "done"}
  /\ Goto(n, [pc |-> "read", todo |-> Scripts(n), args |-> <<>>])
  /\ changed' = IF n = "l1" THEN FALSE ELSE changed
  /\ UNCHANGED <<package, setting, code, saved, deployed, edits, faults>>

Undefined == 0
Url == -1

\* Is a deployment that an argument refers to there?
Found(n, arg) ==
  CASE arg.kind = "local" -> arg.of \in DOMAIN saved[n]
    [] arg.kind = "companion" -> n = "l1" /\ arg.of \in DOMAIN saved["l2"]
    [] OTHER -> TRUE

Argument(n, arg) ==
  CASE arg.kind = "local" -> saved[n][arg.of].address
    [] arg.kind = "companion" -> saved["l2"][arg.of].address
    [] arg.kind = "setting" -> setting
    [] OTHER -> Url

\* Mutant of Missing: go on without the contract.
Missing_Skip(n) == Proceed(n)

\* deployments.get throws.
Missing(n) == Throw(n)

\* The script up to the call of deploy.
ReadArguments(n) ==
  /\ run[n].pc = "read" /\ run[n].todo # <<>>
  /\ LET args == First(n).args
         ok == \A k \in DOMAIN args : Found(n, args[k])
     IN  \/ First(n) = Wait /\ Throw(n)
         \/ First(n) # Wait /\ ~ok /\ Missing(n)
         \/ First(n) # Wait /\ ok
            /\ Goto(n, [run[n] EXCEPT !.pc = "deploy",
                          !.args = [k \in DOMAIN args |-> Argument(n, args[k])]])
  /\ UNCHANGED <<package, setting, code, saved, deployed, edits, faults, changed>>

\* deploy has nothing to do
Reuses(n, c) ==
  /\ c \in DOMAIN saved[n]
  /\ saved[n][c].code = code[c] /\ saved[n][c].args = run[n].args

Reuse(n) ==
  /\ run[n].pc = "deploy" /\ Reuses(n, First(n).contract)
  /\ Proceed(n)
  /\ UNCHANGED <<package, setting, code, saved, deployed, edits, faults, changed>>

\* ethers refuses an address that is undefined, and a wrong number of arguments.
Refused(n) ==
  Undefined \in Range(run[n].args) \/ Len(run[n].args) # Arity(First(n).contract)

Refuse(n) ==
  /\ run[n].pc = "deploy" /\ ~Reuses(n, First(n).contract) /\ Refused(n)
  /\ Throw(n)
  /\ UNCHANGED <<package, setting, code, saved, deployed, edits, faults, changed>>

\* A contract is saved once it is on the chain.
DeployContract(n) ==
  /\ run[n].pc = "deploy" /\ ~Reuses(n, First(n).contract) /\ ~Refused(n)
  /\ deployed' = deployed + 1
  /\ LET c == First(n).contract
         new == [address |-> deployed', code |-> code[c], args |-> run[n].args]
     IN  saved' = [saved EXCEPT ![n] =
           [d \in DOMAIN saved[n] \cup {c} |-> IF d = c THEN new ELSE saved[n][d]]]
  /\ changed' = (changed \/ n = "l2")
  /\ Proceed(n)
  /\ UNCHANGED <<package, setting, code, edits, faults>>

TransactionFails(n) ==
  /\ run[n].pc = "deploy" /\ ~Reuses(n, First(n).contract) /\ ~Refused(n)
  /\ faults < MaxFaults /\ faults' = faults + 1
  /\ Throw(n)
  /\ UNCHANGED <<package, setting, code, saved, deployed, edits, changed>>

Done(n) ==
  /\ run[n].pc = "read" /\ run[n].todo = <<>>
  /\ Goto(n, [NoRun EXCEPT !.pc = "done"])
  /\ UNCHANGED <<package, setting, code, saved, deployed, edits, faults, changed>>

\* The developer changes a contract, or the setting: another rollup, another
\* devnet.
Edit ==
  /\ edits < MaxEdits /\ edits' = edits + 1
  /\ changed' = TRUE
  /\ \/ \E c \in Contracts : code' = [code EXCEPT ![c] = @ + 1] /\ UNCHANGED setting
     \/ setting' = Url - edits' /\ UNCHANGED code
  /\ UNCHANGED <<package, saved, deployed, run, faults>>

-----------------------------------------------------------------------------
\* A run that has started, unless a transaction fails.
Continue(n) == ReadArguments(n) \/ Reuse(n) \/ Refuse(n) \/ DeployContract(n) \/ Done(n)

Step(n) == Start(n) \/ Continue(n)

DeployNext == Edit \/ \E n \in Networks : Step(n) \/ TransactionFails(n)

DeploySpec == DeployInit /\ [][DeployNext]_deployVars

\* A run that has begun does not hang.  Nobody need begin one.
RunsEnd == \A n \in Networks : WF_deployVars(Continue(n))

-----------------------------------------------------------------------------
\* Everything that the scripts for L1 deploy is there, made from the current
\* code and with the current addresses.
Current ==
  \A k \in DOMAIN Scripts("l1") :
    LET c == Scripts("l1")[k].contract
        args == Scripts("l1")[k].args
    IN  /\ c \in DOMAIN saved["l1"] /\ saved["l1"][c].code = code[c]
        /\ \A a \in DOMAIN args : /\ Found("l1", args[a])
                                  /\ saved["l1"][c].args[a] = Argument("l1", args[a])

(***************************************************************************)
(* op-verifier/README.md: "The L1 contracts contain a reference to the L2  *)
(* contract, and so will require redeploying if the L2 contract changes."  *)
(* One run on L1 is enough for that: when it has ended well, TestL1 refers *)
(* to the verifier and the TestL2 there are, if nothing changed and no run *)
(* on L2 deployed anything meanwhile; also after runs that failed halfway. *)
(***************************************************************************)
OneRunIsEnough == run["l1"].pc = "done" /\ ~changed => Current

(***************************************************************************)
(* Where the scripts can succeed at all, and if runs on both networks are  *)
(* begun again and again, they get to an end that is up to date, in any    *)
(* order, overlapping, and whatever failed before: no state of the         *)
(* directories of saved deployments is one that they do not get out of.    *)
(***************************************************************************)
Repeated == \A n \in Networks : []<><<Start(n)>>_deployVars

Converges == Repeated => (package # "resolver" /\ setting # Undefined ~> Current)
=============================================================================
