------------------------------ MODULE MCL1Resolver ------------------------------
(* Two names side by side, below one name.  Records are an address, a long    *)
(* one that is extracted as it is, and one with a zero byte that is lost.     *)
EXTENDS L1Resolver

Child == <<"b", "a">>
Sibling == <<"c", "a">>
Family == {Child, Sibling}
OneName == {Child}

MCQueries == {[kind |-> "addr", key |-> 0], [kind |-> "address", key |-> 61],
              [kind |-> "text", key |-> 61], [kind |-> "contenthash", key |-> 0],
              [kind |-> "name", key |-> 0]}
MCValues == {<<7, 8>>, <<7, 8, 0, 9>>, <<7, 8, 9, 0, 7>>}
=============================================================================
