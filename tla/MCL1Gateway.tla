------------------------------ MODULE MCL1Gateway ------------------------------
(* Two requests and a window of two blocks.  The blocks of number 1 have    *)
(* one state; those of number 2 differ, and so do the slots read in them.   *)
EXTENDS L1Gateway

MCStateOf(b) == IF b[1] = 0 THEN "g" ELSE IF b[1] = 1 THEN "s" ELSE IF b[2] = 0 THEN "t" ELSE "u"
MCSlotsOf(s) == IF s = "u" THEN <<1, 2>> ELSE <<1>>
=============================================================================
