---------------------------- MODULE MCDeployCommand ----------------------------
(* The order of arb-verifier/README.md:38, from an empty directory.          *)
EXTENDS DeployCommand

L1First == <<"l1", "l2">>
=============================================================================
