------------------------------ MODULE MCStorage ------------------------------
(***************************************************************************)
(* The storage and the requests that the model-checking modules share.     *)
(* Words have 5 bytes of 6 bits, operands 3 bits: a command has at most 4  *)
(* instructions, short strings at most 4 bytes.                            *)
(***************************************************************************)
EXTENDS Sequences, Naturals, TLC

W(n) == <<0, 0, 0, 0, n>>

\* Slots: a variable, an entry of a mapping, a data word of a long value.
Var(b) == [path |-> <<W(b)>>, off |-> 0]
At(b, k) == [path |-> <<W(b), k>>, off |-> 0]
Data(s, n) == [path |-> Append(s.path, <<>>), off |-> n]

Seven == <<1, 2, 3, 4, 5, 6, 7>>

(***************************************************************************)
(* Storage of the target in two states.                                    *)
(*   uint a; string b; mapping(uint=>uint) c; mapping(uint=>string) d;     *)
(*   mapping(string=>string) e;                                            *)
(***************************************************************************)
MCStore ==
  [t1 |-> Var(0) :> <<2>>
       @@ Var(1) :> <<10, 11, 0, 0, 4>>
       @@ At(2, W(2)) :> <<7>>
       @@ At(3, W(2)) :> <<15>>                      \* length 7
       @@ Data(At(3, W(2)), 0) :> <<1, 2, 3, 4, 5>>
       @@ Data(At(3, W(2)), 1) :> <<6, 7, 0, 0, 0>>
       @@ At(4, <<10, 11>>) :> <<12, 0, 0, 0, 2>>
       @@ At(4, Seven) :> <<21>>                     \* length 10
       @@ Data(At(4, Seven), 0) :> <<9, 8, 7, 6, 5>>
       @@ Data(At(4, Seven), 1) :> <<4, 3, 2, 1, 9>>,
   t2 |-> Var(0) :> <<3>>
       @@ At(2, W(2)) :> <<8>>
       @@ At(2, W(3)) :> <<1, 14>>                   \* of a string, length 7 in 5 bytes
       @@ At(3, W(3)) :> <<13, 14, 0, 0, 4>>
       @@ At(4, <<13, 14>>) :> <<15, 0, 0, 0, 2>>,
   t3 |-> [s \in {} |-> <<>>],                               \* an account without storage
   t4 |-> Var(0) :> <<2>>                            \* a data word 0 2 3 4 5
       @@ At(3, W(2)) :> <<15>>
       @@ Data(At(3, W(2)), 0) :> <<2, 3, 4, 5>>
       @@ Data(At(3, W(2)), 1) :> <<6, 7, 0, 0, 0>>]

MCStorageRootOf == [s0 |-> "none", s1 |-> "t1", s2 |-> "t2", s3 |-> "t3", s4 |-> "t4"]

-----------------------------------------------------------------------------
\* Commands: STATIC or DYNAMIC, then constants and references to results.
STATIC == 0
DYNAMIC == 1
END == 63
Const(n) == n
Ref(n) == 8 + n
Unknown == 16

Cmd(flags, ops) ==
  [k \in 0 .. 4 |-> IF k = 0 THEN flags
                    ELSE IF k <= Len(ops) THEN ops[k]
                    ELSE IF k = Len(ops) + 1 THEN END ELSE 0]

Request(cmds, consts) == [commands |-> cmds, constants |-> consts]

GetA  == Request(<<Cmd(STATIC, <<0>>)>>, <<W(0)>>)
GetCA == Request(<<Cmd(STATIC, <<0>>), Cmd(STATIC, <<1, Ref(0)>>)>>, <<W(0), W(2)>>)
GetDA == Request(<<Cmd(STATIC, <<0>>), Cmd(DYNAMIC, <<1, Ref(0)>>)>>, <<W(0), W(3)>>)
GetD  == Request(<<Cmd(DYNAMIC, <<0, 1>>)>>, <<W(3), W(2)>>)
GetEB == Request(<<Cmd(DYNAMIC, <<0>>), Cmd(DYNAMIC, <<1, Ref(0)>>)>>, <<W(1), W(4)>>)
\* d[a], then e[d[a]] and again e[d[a]]: a chain and a fan-out of references.
GetEDA == Request(<<Cmd(STATIC, <<0>>), Cmd(DYNAMIC, <<1, Ref(0)>>),
                    Cmd(DYNAMIC, <<2, Ref(1)>>), Cmd(STATIC, <<2, Ref(1)>>)>>,
                  <<W(0), W(3), W(4)>>)
\* c[a] twice, through a command that fills its word and has no END.
GetFull == Request(<<Cmd(STATIC, <<0>>), Cmd(STATIC, <<1, Ref(0), 0, Ref(0)>>),
                     Cmd(STATIC, <<1, Ref(0)>>)>>, <<W(0), W(2)>>)
\* a read as if it were a string: its low byte says one byte.
GetAString == Request(<<Cmd(DYNAMIC, <<0>>)>>, <<W(0)>>)
\* c[3] as if it were a string, then c[c[3]].
GetCString == Request(<<Cmd(DYNAMIC, <<0, 1>>), Cmd(STATIC, <<0, Ref(0)>>)>>, <<W(2), W(3)>>)
\* the variable that a points to, and a[a].
GetAtA == Request(<<Cmd(STATIC, <<0>>), Cmd(STATIC, <<Ref(0)>>), Cmd(STATIC, <<0, Ref(0)>>)>>,
                  <<W(0)>>)

SelfReference    == Request(<<Cmd(STATIC, <<0, Ref(0)>>)>>, <<W(2)>>)
ForwardReference == Request(<<Cmd(STATIC, <<1, Ref(1)>>), Cmd(STATIC, <<0>>)>>, <<W(0), W(2)>>)
BeyondReference  == Request(<<Cmd(STATIC, <<0, Ref(3)>>)>>, <<W(2)>>)
UnknownOpcode    == Request(<<Cmd(STATIC, <<0>>), Cmd(STATIC, <<0, Unknown>>)>>, <<W(2)>>)
MissingConstant  == Request(<<Cmd(STATIC, <<0, 1>>)>>, <<W(2)>>)
ShortBase        == Request(<<Cmd(STATIC, <<0>>)>>, <<<<0>>>>)
LongBase         == Request(<<Cmd(DYNAMIC, <<0>>), Cmd(STATIC, <<Ref(0)>>)>>, <<At(3, W(2)).path[1]>>)
NoCommand        == Request(<<>>, <<>>)
=============================================================================
