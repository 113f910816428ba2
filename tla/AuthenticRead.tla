---------------------------- MODULE AuthenticRead ----------------------------
(***************************************************************************)
(* What a caller of EVMFetcher is promised: a read of another chain's      *)
(* storage either fails or answers, once, with the values that the state   *)
(* this chain is committed to at that moment holds (README.md, "How it     *)
(* works": the values are verified on chain, whoever runs the gateway).    *)
(***************************************************************************)
CONSTANTS
  Programs,             \* the requests considered
  StateRoots,           \* the states of the target chain
  IsAnswer(_, _, _, _)  \* IsAnswer(commands, constants, s, vals): what s holds

VARIABLES
  commands, constants,  \* the request
  stateRoot,            \* the state of the target chain that is committed to
  status, answer        \* outcome of the read, and its values

vars == <<commands, constants, stateRoot, status, answer>>

Init ==
  /\ \E p \in Programs : commands = p.commands /\ constants = p.constants
  /\ stateRoot \in StateRoots
  /\ status = "pending" /\ answer = <<>>

\* The chain commits to another state of the target chain.
Commit ==
  /\ stateRoot' \in StateRoots
  /\ UNCHANGED <<commands, constants, status, answer>>

Answer ==
  /\ status = "pending" /\ status' = "answered"
  /\ IsAnswer(commands, constants, stateRoot, answer')
  /\ UNCHANGED <<commands, constants, stateRoot>>

Fail ==
  /\ status = "pending" /\ status' = "failed"
  /\ UNCHANGED <<commands, constants, stateRoot, answer>>

Next == Commit \/ Answer \/ Fail

Spec == Init /\ [][Next]_vars
=============================================================================
