--------------------------- MODULE MCOPProofService ---------------------------
(* A delay of two outputs, of which one is for nodes that are behind.  The  *)
(* blocks of number 1 have one state but not one message passer; fork 1     *)
(* gives block 2 another state, in which the request reads other slots.     *)
EXTENDS OPProofService

MCStateOf(b) == IF b[1] = 1 THEN "s" ELSE IF b[2] = 1 THEN "u" ELSE "t"
MCSlotsOf(s) == IF s = "u" THEN <<1, 2>> ELSE <<1>>
MCPasserOf(b) == IF b = <<1, 1>> THEN "q" ELSE "p"
=============================================================================
