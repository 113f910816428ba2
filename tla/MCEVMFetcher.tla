----------------------------- MODULE MCEVMFetcher -----------------------------
(* Requests of two fetches in words of 4 bytes, which hold 3 instructions. *)
(* Storage plays no part.                                                  *)
EXTENDS EVMFetcher

MCNone == [s \in {} |-> <<>>]
MCBaseSlots == {<<0, 0, 0, 7>>}
MCElements == {<<1>>, <<2>>}
=============================================================================
