--------------------------- MODULE L1Resolver_proofs ---------------------------
(***************************************************************************)
(* Proofs about L1Resolver, for any names, L2 resolvers and records, and,  *)
(* in the last section, about Deployment, for any number of edits and      *)
(* failures: the scripts that put the resolver and the verifiers on L1.    *)
(***************************************************************************)
EXTENDS L1Resolver, Deployment, FiniteSetTheorems, WellFoundedInduction, TLAPS

-----------------------------------------------------------------------------
(* getTarget                                                               *)

\* A set of numbers that is closed under successors has them all.
LEMMA SetInduction ==
  ASSUME NEW S, 0 \in S, \A n \in Nat : n \in S => n + 1 \in S
  PROVE  Nat \subseteq S
<1> SUFFICES ASSUME NEW b \in Nat \ S PROVE FALSE
  OBVIOUS
<1> DEFINE T == {0 .. k : k \in Nat \ S}
<1>1. T \subseteq FiniteSubsetsOf(Nat) /\ T # {}
  <2>1. \A k \in Nat : IsFiniteSet(0 .. k) /\ 0 .. k \in SUBSET Nat
    BY FS_Interval
  <2> QED BY <2>1 DEF FiniteSubsetsOf
<1>2. \E x \in T : \A y \in T : <<y, x>> \notin StrictSubsetOrdering(Nat)
  <2> HIDE DEF T
  <2> QED BY <1>1, FS_StrictSubsetOrderingWellFounded, WFMin
<1>3. PICK k \in Nat \ S : \A l \in Nat \ S : <<0 .. l, 0 .. k>> \notin StrictSubsetOrdering(Nat)
  BY <1>2
<1>4. k - 1 \in Nat \ S /\ 0 .. k - 1 \in SUBSET Nat /\ 0 .. k \in SUBSET Nat
  OBVIOUS
<1>5. 0 .. k - 1 \subseteq 0 .. k /\ k \in 0 .. k /\ k \notin 0 .. k - 1
  OBVIOUS
<1> QED BY <1>3, <1>4, <1>5 DEF StrictSubsetOrdering

\* found[i] is the target in effect for the name from its label i on.
Finds(found, T, name) ==
  found = [i \in 1 .. Len(name) + 1 |->
            IF i > Len(name) THEN NoTarget
            ELSE Nearest(T[SubSeq(name, i, Len(name))], found[i + 1])]

\* getTarget with the targets T
TargetIn(T, name) == (CHOOSE found : Finds(found, T, name))[1]

\* The names above a name are sequences of labels, told apart by their lengths.
LEMMA SuffixFacts ==
  ASSUME NEW name \in Names
  PROVE  /\ Len(name) \in Nat
         /\ Suffixes(name) = {SubSeq(name, i, Len(name)) : i \in 1 .. Len(name) + 1}
         /\ \A i \in 1 .. Len(name) + 1 :
              /\ SubSeq(name, i, Len(name)) \in Suffixes(name)
              /\ SubSeq(name, i, Len(name)) \in Nodes
              /\ SubSeq(name, i, Len(name)) \in Seq(Labels)
              /\ Len(SubSeq(name, i, Len(name))) = Len(name) + 1 - i
<1>1. name \in Seq(Labels) /\ Len(name) \in Nat
  BY ResolverAssumption
<1>2. SubSeq(name, Len(name) + 1, Len(name)) = <<>>
  BY <1>1
<1>3. Suffixes(name) = {SubSeq(name, i, Len(name)) : i \in 1 .. Len(name) + 1}
  <2> DEFINE L == Len(name)
             from(i) == SubSeq(name, i, L)
  <2>1. L \in Nat /\ from(L + 1) = <<>> /\ Suffixes(name) = {from(i) : i \in 1 .. L} \cup {<<>>}
    BY <1>1, <1>2 DEF Suffixes
  <2> HIDE DEF L, from
  <2>2. L + 1 \in 1 .. L + 1 /\ \A i \in 1 .. L + 1 : i \in 1 .. L \/ i = L + 1
    BY <2>1
  <2>3. Suffixes(name) = {from(i) : i \in 1 .. L + 1}
    BY <2>1, <2>2
  <2> QED BY <2>3 DEF L, from
<1>4. ASSUME NEW i \in 1 .. Len(name) + 1
      PROVE  /\ SubSeq(name, i, Len(name)) \in Suffixes(name)
             /\ SubSeq(name, i, Len(name)) \in Nodes
             /\ SubSeq(name, i, Len(name)) \in Seq(Labels)
             /\ Len(SubSeq(name, i, Len(name))) = Len(name) + 1 - i
  <2>1. SubSeq(name, i, Len(name)) \in Suffixes(name)
    BY <1>3
  <2>2. SubSeq(name, i, Len(name)) \in Nodes
    BY <2>1 DEF Nodes
  <2> QED BY <1>1, <2>1, <2>2
<1> QED BY <1>1, <1>3, <1>4

\* The recursion of getTarget has a solution.
LEMMA TargetFound ==
  ASSUME NEW name \in Names, NEW T
  PROVE  \E found : Finds(found, T, name) /\ TargetIn(T, name) = found[1]
<1> DEFINE L == Len(name)
           t(i) == T[SubSeq(name, i, L)]
           Upper(f, k) ==
             f = [i \in L + 1 - k .. L + 1 |-> IF i > L THEN NoTarget ELSE Nearest(t(i), f[i + 1])]
           K == {k \in Nat : k <= L => \E f : Upper(f, k)}
<1>1. L \in Nat
  BY SuffixFacts
<1>2. 0 \in K
  <2> DEFINE f == [i \in L + 1 .. L + 1 |-> NoTarget]
  <2>1. Upper(f, 0)
    BY <1>1
  <2> QED BY <2>1
<1>3. ASSUME NEW k \in Nat, k \in K PROVE k + 1 \in K
  <2> SUFFICES ASSUME k + 1 <= L PROVE \E f : Upper(f, k + 1)
    OBVIOUS
  <2>1. PICK f : Upper(f, k)
    BY <1>3
  <2> DEFINE h == [i \in L - k .. L + 1 |-> IF i = L - k THEN Nearest(t(L - k), f[L + 1 - k]) ELSE f[i]]
  <2>2. Upper(h, k + 1)
    <3> HIDE DEF t
    <3>1. \A i \in L + 1 - k .. L + 1 : f[i] = IF i > L THEN NoTarget ELSE Nearest(t(i), f[i + 1])
      BY <2>1
    <3>2. \A i \in L - k .. L + 1 : h[i] = IF i > L THEN NoTarget ELSE Nearest(t(i), h[i + 1])
      BY <1>1, <3>1
    <3>3. L + 1 - (k + 1) = L - k
      BY <1>1
    <3> QED BY <3>2, <3>3
  <2> QED BY <2>2
<1>4. L \in K
  <2> HIDE DEF K
  <2> QED BY <1>1, <1>2, <1>3, SetInduction
<1>5. PICK f : Upper(f, L)
  BY <1>1, <1>4
<1>6. Finds(f, T, name)
  BY <1>1, <1>5 DEF Finds
<1> QED BY <1>6 DEF TargetIn

\* getTarget is about the targets at the time.
LEMMA TargetNow ==
  ASSUME NEW name
  PROVE  getTarget(name) = TargetIn(targets, name) /\ getTarget(name)' = TargetIn(targets', name)
BY DEF getTarget, TargetIn, Finds

\* What getTarget finds is a target, or none.
LEMMA FoundType ==
  ASSUME NEW name \in Names, NEW T \in [Nodes -> Targets \cup {NoTarget}]
  PROVE  TargetIn(T, name) \in Targets \cup {NoTarget}
<1> DEFINE L == Len(name)
<1>1. PICK found : Finds(found, T, name) /\ TargetIn(T, name) = found[1]
  BY TargetFound
<1> DEFINE K == {k \in Nat : k <= L => found[L + 1 - k] \in Targets \cup {NoTarget}}
<1>2. L \in Nat /\ found[L + 1] = NoTarget
  BY <1>1, SuffixFacts DEF Finds
<1>3. ASSUME NEW k \in Nat, k \in K PROVE k + 1 \in K
  <2> SUFFICES ASSUME k + 1 <= L PROVE found[L - k] \in Targets \cup {NoTarget}
    BY <1>2
  <2>1. L - k \in 1 .. L /\ L - k + 1 = L + 1 - k
    BY <1>2
  <2>2. found[L - k] = Nearest(T[SubSeq(name, L - k, L)], found[L + 1 - k])
    BY <1>1, <1>2, <2>1 DEF Finds
  <2>3. SubSeq(name, L - k, L) \in Nodes
    BY <1>2, <2>1, SuffixFacts
  <2> QED BY <1>3, <2>2, <2>3 DEF Nearest
<1>4. L \in K
  <2>1. 0 \in K
    BY <1>2
  <2> HIDE DEF K
  <2> QED BY <1>2, <1>3, <2>1, SetInduction
<1> QED BY <1>1, <1>2, <1>4

\* If what getTarget finds changes, then because a target changes below which
\* there was none.
LEMMA FoundChanges ==
  ASSUME NEW name \in Names, NEW T, NEW U, TargetIn(T, name) # TargetIn(U, name)
  PROVE  \E i \in 1 .. Len(name) :
           /\ T[SubSeq(name, i, Len(name))] # U[SubSeq(name, i, Len(name))]
           /\ \A j \in 1 .. i - 1 : T[SubSeq(name, j, Len(name))] = NoTarget
<1> DEFINE L == Len(name)
           t(i) == T[SubSeq(name, i, L)]
           u(i) == U[SubSeq(name, i, L)]
<1>1. PICK f : Finds(f, T, name) /\ TargetIn(T, name) = f[1]
  BY TargetFound
<1>2. PICK g : Finds(g, U, name) /\ TargetIn(U, name) = g[1]
  BY TargetFound
<1>3. L \in Nat
  BY SuffixFacts
<1>4. /\ f[L + 1] = NoTarget /\ g[L + 1] = NoTarget
      /\ \A i \in 1 .. L : f[i] = Nearest(t(i), f[i + 1]) /\ g[i] = Nearest(u(i), g[i + 1])
  <2>1. /\ f = [i \in 1 .. L + 1 |-> IF i > L THEN NoTarget ELSE Nearest(t(i), f[i + 1])]
        /\ g = [i \in 1 .. L + 1 |-> IF i > L THEN NoTarget ELSE Nearest(u(i), g[i + 1])]
    BY <1>1, <1>2 DEF Finds
  <2> HIDE DEF t, u, L
  <2>2. /\ \A i \in 1 .. L + 1 : f[i] = IF i > L THEN NoTarget ELSE Nearest(t(i), f[i + 1])
        /\ \A i \in 1 .. L + 1 : g[i] = IF i > L THEN NoTarget ELSE Nearest(u(i), g[i + 1])
    BY ONLY <2>1
  <2>3. L + 1 \in 1 .. L + 1 /\ L + 1 > L /\ \A i \in 1 .. L : i \in 1 .. L + 1 /\ ~(i > L)
    BY <1>3
  <2> QED BY <2>2, <2>3
<1> HIDE DEF t, u, L
<1> DEFINE Differs(b) == \E i \in b .. L : t(i) # u(i) /\ \A j \in b .. i - 1 : t(j) = NoTarget
           K == {k \in Nat : k <= L => (f[L + 1 - k] # g[L + 1 - k] => Differs(L + 1 - k))}
<1>5. ASSUME NEW k \in Nat, k \in K PROVE k + 1 \in K
  <2>0. L + 1 - (k + 1) = L - k
    BY <1>3
  <2> SUFFICES ASSUME k + 1 <= L, f[L - k] # g[L - k] PROVE Differs(L - k)
    BY <2>0
  <2>1. L - k \in 1 .. L /\ L - k + 1 = L + 1 - k
    BY <1>3
  <2>2. CASE t(L - k) # u(L - k)
    BY <1>3, <2>1, <2>2
  <2>3. CASE t(L - k) = u(L - k)
    <3>1. t(L - k) = NoTarget /\ f[L + 1 - k] # g[L + 1 - k]
      BY <1>4, <2>1, <2>3 DEF Nearest
    <3>2. PICK i \in L + 1 - k .. L : t(i) # u(i) /\ \A j \in L + 1 - k .. i - 1 : t(j) = NoTarget
      BY <1>3, <1>5, <3>1
    <3>3. i \in L - k .. L /\ \A j \in L - k .. i - 1 : j = L - k \/ j \in L + 1 - k .. i - 1
      BY <1>3
    <3> QED BY <3>1, <3>2, <3>3
  <2> QED BY <2>2, <2>3
<1>6. L \in K
  <2>1. 0 \in K
    BY <1>3, <1>4
  <2> HIDE DEF K
  <2> QED BY <1>3, <1>5, <2>1, SetInduction
<1> QED BY <1>1, <1>2, <1>3, <1>6 DEF t, u, L

(***************************************************************************)
(* L1Resolver.sol: no change of a target but of the name's own or of one   *)
(* above it, below which there is none, changes where a name is resolved.  *)
(***************************************************************************)
THEOREM TargetsFromAbove == Spec => OnlyAbove
<1>1. ASSUME NEW name \in Names, getTarget(name)' # getTarget(name)
      PROVE  \E n \in Suffixes(name) \ {<<>>} :
               /\ targets'[n] # targets[n]
               /\ \A below \in Suffixes(name) : Len(below) > Len(n) => targets[below] = NoTarget
  <2>1. PICK i \in 1 .. Len(name) :
          /\ targets[SubSeq(name, i, Len(name))] # targets'[SubSeq(name, i, Len(name))]
          /\ \A j \in 1 .. i - 1 : targets[SubSeq(name, j, Len(name))] = NoTarget
    BY <1>1, TargetNow, FoundChanges
  <2>2. /\ Len(name) \in Nat
        /\ SubSeq(name, i, Len(name)) \in Suffixes(name)
        /\ Len(SubSeq(name, i, Len(name))) = Len(name) + 1 - i
    BY SuffixFacts
  <2>3. ASSUME NEW below \in Suffixes(name), Len(below) > Len(name) + 1 - i
        PROVE  targets[below] = NoTarget
    <3>1. PICK j \in 1 .. Len(name) + 1 : below = SubSeq(name, j, Len(name))
      BY SuffixFacts
    <3>2. Len(below) = Len(name) + 1 - j
      BY <3>1, SuffixFacts
    <3> QED BY <2>1, <2>2, <2>3, <3>1, <3>2
  <2> DEFINE n == SubSeq(name, i, Len(name))
  <2>4. n # <<>> /\ n \in Suffixes(name) /\ targets'[n] # targets[n]
    <3>1. Len(n) # 0
      BY <2>2
    <3>2. n # <<>>
      <4> HIDE DEF n
      <4> QED BY <3>1
    <3> QED BY <2>1, <2>2, <3>2
  <2>5. \A below \in Suffixes(name) : Len(below) > Len(n) => targets[below] = NoTarget
    BY <2>2, <2>3
  <2> HIDE DEF n
  <2> QED BY <2>4, <2>5
<1>2. [Next]_vars => [\A name \in Names : getTarget(name)' # getTarget(name) =>
                       \E n \in Suffixes(name) \ {<<>>} :
                         /\ targets'[n] # targets[n]
                         /\ \A below \in Suffixes(name) :
                              Len(below) > Len(n) => targets[below] = NoTarget]_vars
  BY <1>1
<1> QED BY <1>2, PTL DEF Spec, OnlyAbove

-----------------------------------------------------------------------------
(* What the verifier extracts                                              *)

\* A set of numbers that is not empty has a least element.
LEMMA LeastNumber ==
  ASSUME NEW S \in SUBSET Nat, S # {}
  PROVE  \E m \in S : \A x \in S : m <= x
<1>0. PICK b \in S : TRUE
  OBVIOUS
<1> SUFFICES ASSUME \A m \in S : \E x \in S : x < m PROVE FALSE
  OBVIOUS
<1> DEFINE T == {n \in Nat : \A x \in S : n <= x}
<1>1. 0 \in T /\ \A n \in Nat : n \in T => n + 1 \in T
  OBVIOUS
<1>2. Nat \subseteq T
  <2> HIDE DEF T
  <2> QED BY <1>1, SetInduction
<1>3. b + 1 \in T /\ b \in Nat
  <2> HIDE DEF T
  <2> QED BY <1>2
<1> QED BY <1>3

\* Stripping leaves bytes, all of them if the first is not zero.
LEMMA StripFacts ==
  ASSUME NEW w \in Seq(Nat)
  PROVE  /\ Stripped(w) \in Seq(Nat)
         /\ w # <<>> /\ w[1] # 0 => Stripped(w) = w
<1> DEFINE I == {k \in 1 .. Len(w) : w[k] # 0}
           first == SelectInSeq(w, LAMBDA byte : byte # 0)
<1>1. I = {} => first = 0
  BY DEF SelectInSeq
<1>2. I # {} => first \in I /\ \A k \in I : first <= k
  <2> SUFFICES ASSUME I # {} PROVE first \in I /\ \A k \in I : first <= k
    OBVIOUS
  <2>1. first = (CHOOSE x \in I : \A y \in I : x <= y)
    BY DEF SelectInSeq, Min
  <2>2. \E m \in I : \A x \in I : m <= x
    <3>1. I \in SUBSET Nat
      OBVIOUS
    <3> HIDE DEF I
    <3> QED BY <3>1, LeastNumber
  <2> HIDE DEF I, first
  <2> QED BY <2>1, <2>2
<1>3. Stripped(w) = IF first = 0 THEN <<>> ELSE SubSeq(w, first, Len(w))
  BY DEF Stripped
<1>4. first = 0 \/ first \in 1 .. Len(w)
  BY <1>1, <1>2
<1>5. w # <<>> /\ w[1] # 0 => first = 1
  <2> SUFFICES ASSUME w # <<>>, w[1] # 0 PROVE first = 1
    OBVIOUS
  <2>1. 1 \in I
    OBVIOUS
  <2>2. first \in 1 .. Len(w) /\ first <= 1
    BY <1>2, <2>1
  <2> HIDE DEF first
  <2> QED BY <2>2
<1> HIDE DEF first, I
<1>6. Stripped(w) \in Seq(Nat)
  BY <1>3, <1>4
<1>7. w # <<>> /\ w[1] # 0 => Stripped(w) = w
  BY <1>3, <1>5
<1> QED BY <1>6, <1>7

\* Division with a remainder.
LEMMA Division ==
  ASSUME NEW x \in Nat, NEW w \in Nat \ {0}
  PROVE  x \div w \in Nat /\ (x \div w) * w <= x /\ x < (x \div w) * w + w
<1>1. PICK q, r : q = x \div w /\ r = x % w
  OBVIOUS
<1>2. q \in Nat /\ r \in 0 .. w - 1 /\ x = w * q + r
  BY <1>1
<1>3. w * q = q * w /\ q * w \in Nat
  BY <1>2
<1> QED BY <1>1, <1>2, <1>3

\* Where the data words of a long record begin and end.
LEMMA WordBounds ==
  ASSUME NEW v \in Seq(Nat), IsLong(v)
  PROVE  /\ WordCount(v) \in Nat \ {0} /\ Len(v) \in Nat /\ WordSize \in Nat /\ WordSize >= 2
         /\ WordCount(v) * WordSize \in Nat /\ Len(v) <= WordCount(v) * WordSize
         /\ \A n \in 1 .. WordCount(v) :
              /\ (n - 1) * WordSize \in Nat /\ (n - 1) * WordSize < Len(v)
              /\ n * WordSize = (n - 1) * WordSize + WordSize
              /\ n < WordCount(v) => n * WordSize <= Len(v)
<1>1. WordSize \in Nat /\ WordSize >= 2 /\ Len(v) \in Nat /\ Len(v) >= WordSize
  BY ResolverAssumption DEF IsLong
<1>2. PICK q \in Nat, e \in Nat :
        q = WordCount(v) /\ e = q * WordSize /\ e <= Len(v) + WordSize - 1 /\ Len(v) <= e
  <2>0. Len(v) + WordSize - 1 \in Nat
    BY <1>1
  <2>1. PICK x \in Nat : x = Len(v) + WordSize - 1
    BY <2>0
  <2>2. x \div WordSize \in Nat /\ (x \div WordSize) * WordSize <= x
        /\ x < (x \div WordSize) * WordSize + WordSize
    BY <1>1, Division
  <2>3. PICK q \in Nat, e \in Nat : q = x \div WordSize /\ e = q * WordSize
    BY <1>1, <2>2
  <2>4. e <= x /\ x < e + WordSize
    BY <2>2, <2>3
  <2>5. q = WordCount(v)
    BY <2>1, <2>3 DEF WordCount
  <2>6. e <= Len(v) + WordSize - 1 /\ Len(v) <= e
    BY <1>1, <2>1, <2>4
  <2> QED BY <2>3, <2>5, <2>6
<1>3. q # 0
  BY <1>1, <1>2
<1>4. ASSUME NEW n \in 1 .. q
      PROVE  /\ (n - 1) * WordSize \in Nat /\ (n - 1) * WordSize < Len(v)
             /\ n * WordSize = (n - 1) * WordSize + WordSize
             /\ n < q => n * WordSize <= Len(v)
  <2>1. PICK d \in Nat, a \in Nat, b \in Nat, c \in Nat :
          q = n + d /\ a = (n - 1) * WordSize /\ b = n * WordSize /\ c = d * WordSize
    <3>1. q - n \in Nat /\ n - 1 \in Nat /\ n \in Nat /\ q = n + (q - n)
      BY <1>2
    <3>2. \A k \in Nat : k * WordSize \in Nat
      BY <1>1
    <3> QED BY <3>1, <3>2
  <2>2. b = a + WordSize
    BY <1>1, <1>4, <2>1
  <2>3. e = b + c
    BY <1>1, <1>2, <1>4, <2>1
  <2>4. d >= 1 => c >= WordSize
    <3> SUFFICES ASSUME d >= 1 PROVE c >= WordSize
      OBVIOUS
    <3>1. PICK k \in Nat, m \in Nat : d = k + 1 /\ m = k * WordSize
      <4>1. d - 1 \in Nat /\ d = (d - 1) + 1 /\ (d - 1) * WordSize \in Nat
        BY <1>1, <2>1
      <4> QED BY <4>1
    <3>2. c = m + WordSize
      BY <1>1, <2>1, <3>1
    <3> QED BY <1>1, <3>1, <3>2
  <2>5. a < Len(v) /\ (d >= 1 => b <= Len(v))
    BY <1>1, <1>2, <2>1, <2>2, <2>3, <2>4
  <2>6. n < q => d >= 1
    BY <1>4, <2>1
  <2> QED BY <2>1, <2>2, <2>5, <2>6
<1> QED BY <1>1, <1>2, <1>3, <1>4

\* Two sequences, one after the other.
LEMMA Concatenation ==
  ASSUME NEW S, NEW u \in Seq(S), NEW w \in Seq(S)
  PROVE  /\ u \o w \in Seq(S) /\ Len(u \o w) = Len(u) + Len(w)
         /\ \A m \in 1 .. Len(u) : (u \o w)[m] = u[m]
         /\ \A m \in 1 .. Len(u) + Len(w) : m > Len(u) => (u \o w)[m] = w[m - Len(u)]
OBVIOUS

\* The recursive function in FlattenSeq.
Flattens(f, seqs) ==
  f = [k \in 1 .. Len(seqs) |-> IF k = 1 THEN seqs[k] ELSE f[k - 1] \o seqs[k]]

\* f[k] is the concatenation of the first k sequences.
Concatenates(f, seqs, S, n) ==
  /\ f \in [1 .. n -> Seq(S)] /\ f[1] = seqs[1]
  /\ \A k \in 1 .. n - 1 : f[k + 1] = f[k] \o seqs[k + 1]

\* FlattenSeq is the concatenation of all of them.
LEMMA Flattening ==
  ASSUME NEW S, NEW seqs \in Seq(Seq(S)), Len(seqs) # 0
  PROVE  \E f : FlattenSeq(seqs) = f[Len(seqs)] /\ Concatenates(f, seqs, S, Len(seqs))
<1> DEFINE n == Len(seqs)
           K == {k \in Nat : k < n => \E f : Concatenates(f, seqs, S, k + 1)}
<1>1. n \in Nat \ {0} /\ \A k \in 1 .. n : seqs[k] \in Seq(S)
  OBVIOUS
<1> HIDE DEF n
<1>2. 0 \in K
  <2> DEFINE h == [k \in 1 .. 0 + 1 |-> seqs[1]]
  <2>1. h \in [1 .. 0 + 1 -> Seq(S)] /\ h[1] = seqs[1]
    BY <1>1
  <2>2. Concatenates(h, seqs, S, 0 + 1)
    BY <2>1 DEF Concatenates
  <2> QED BY <2>2
<1>3. ASSUME NEW k \in Nat, k \in K PROVE k + 1 \in K
  <2> SUFFICES ASSUME k + 1 < n PROVE \E f : Concatenates(f, seqs, S, k + 2)
    <3>1. (k + 1) + 1 = k + 2
      OBVIOUS
    <3> QED BY <3>1
  <2>1. PICK f : Concatenates(f, seqs, S, k + 1)
    <3>1. k < n
      BY <1>1
    <3> QED BY <1>3, <3>1
  <2> DEFINE h == [m \in 1 .. k + 2 |-> IF m = k + 2 THEN f[k + 1] \o seqs[k + 2] ELSE f[m]]
  <2>2. f[k + 1] \o seqs[k + 2] \in Seq(S)
    <3>1. f[k + 1] \in Seq(S) /\ seqs[k + 2] \in Seq(S)
      BY <1>1, <2>1 DEF Concatenates
    <3> QED BY <3>1
  <2>3. h \in [1 .. k + 2 -> Seq(S)] /\ h[1] = seqs[1]
    <3>1. \A m \in 1 .. k + 2 : h[m] \in Seq(S)
      <4>1. \A m \in 1 .. k + 2 : m = k + 2 \/ m \in 1 .. k + 1
        OBVIOUS
      <4> QED BY <2>1, <2>2, <4>1 DEF Concatenates
    <3>2. h[1] = seqs[1]
      BY <2>1 DEF Concatenates
    <3> QED BY <3>1, <3>2
  <2>4. \A m \in 1 .. k + 1 : h[m + 1] = h[m] \o seqs[m + 1]
    <3>0. (k + 1) - 1 = k /\ (k + 1) + 1 = k + 2
      OBVIOUS
    <3>1. \A m \in 1 .. k : f[m + 1] = f[m] \o seqs[m + 1]
      BY <2>1, <3>0 DEF Concatenates
    <3>2. \A m \in 1 .. k : h[m] = f[m] /\ h[m + 1] = f[m + 1]
      OBVIOUS
    <3>3. h[k + 1] = f[k + 1] /\ h[(k + 1) + 1] = f[k + 1] \o seqs[(k + 1) + 1]
      <4>1. h[k + 1] = f[k + 1] /\ h[k + 2] = f[k + 1] \o seqs[k + 2]
        <5>1. k + 1 \in 1 .. k + 2 /\ k + 2 \in 1 .. k + 2 /\ k + 1 # k + 2
          OBVIOUS
        <5> QED BY <5>1
      <4> HIDE DEF h
      <4> QED BY <3>0, <4>1
    <3> HIDE DEF h
    <3>4. \A m \in 1 .. k + 1 : m \in 1 .. k \/ m = k + 1
      OBVIOUS
    <3> QED BY <3>1, <3>2, <3>3, <3>4
  <2>5. Concatenates(h, seqs, S, k + 2)
    <3>1. (k + 2) - 1 = k + 1
      OBVIOUS
    <3> HIDE DEF h
    <3> QED BY <2>3, <2>4, <3>1 DEF Concatenates
  <2> QED BY <2>5
<1>4. n - 1 \in K
  <2> HIDE DEF K
  <2>1. n - 1 \in Nat /\ \A k \in Nat : k \in K => k + 1 \in K
    BY <1>1, <1>3
  <2>2. Nat \subseteq K
    BY <1>2, <2>1, SetInduction
  <2> QED BY <2>1, <2>2
<1>5. PICK g : Concatenates(g, seqs, S, n)
  <2>1. n - 1 < n /\ (n - 1) + 1 = n
    BY <1>1
  <2> QED BY <1>4, <2>1
<1>6. Flattens(g, seqs)
  <2>1. ASSUME NEW k \in 1 .. n PROVE g[k] = IF k = 1 THEN seqs[k] ELSE g[k - 1] \o seqs[k]
    <3>1. CASE k = 1
      BY <1>5, <3>1 DEF Concatenates
    <3>2. CASE k # 1
      <4>1. k - 1 \in 1 .. n - 1 /\ (k - 1) + 1 = k
        BY <1>1, <3>2
      <4> QED BY <1>5, <3>2, <4>1 DEF Concatenates
    <3> QED BY <3>1, <3>2
  <2>2. g = [k \in 1 .. n |-> g[k]]
    BY <1>5 DEF Concatenates
  <2> QED BY <2>1, <2>2 DEF Flattens, n
<1>7. PICK e : Flattens(e, seqs) /\ FlattenSeq(seqs) = e[n]
  <2>1. FlattenSeq(seqs) = (CHOOSE e : Flattens(e, seqs))[n]
    BY <1>1 DEF FlattenSeq, Flattens, n
  <2> QED BY <1>6, <2>1
<1>8. \A k \in 1 .. n : e[k] = IF k = 1 THEN seqs[k] ELSE e[k - 1] \o seqs[k]
  BY <1>7 DEF Flattens, n
<1> DEFINE M == {k \in Nat : k < n => e[k + 1] = g[k + 1]}
<1>9. 0 \in M
  <2>1. 0 + 1 = 1 /\ 1 \in 1 .. n
    BY <1>1
  <2>2. e[1] = seqs[1] /\ g[1] = seqs[1]
    BY <1>5, <1>8, <2>1 DEF Concatenates
  <2> QED BY <2>1, <2>2
<1>10. ASSUME NEW k \in Nat, k \in M PROVE k + 1 \in M
  <2> SUFFICES ASSUME k + 1 < n PROVE e[(k + 1) + 1] = g[(k + 1) + 1]
    OBVIOUS
  <2>1. e[k + 1] = g[k + 1]
    BY <1>1, <1>10
  <2>2. /\ k + 1 \in 1 .. n - 1 /\ (k + 1) + 1 \in 1 .. n /\ (k + 1) + 1 # 1
        /\ ((k + 1) + 1) - 1 = k + 1
    BY <1>1
  <2>3. /\ e[(k + 1) + 1] = e[k + 1] \o seqs[(k + 1) + 1]
        /\ g[(k + 1) + 1] = g[k + 1] \o seqs[(k + 1) + 1]
    BY <1>5, <1>8, <2>2 DEF Concatenates
  <2> QED BY <2>1, <2>3
<1>11. e[n] = g[n]
  <2>1. n - 1 \in M
    <3> HIDE DEF M
    <3>1. \A k \in Nat : k \in M => k + 1 \in M
      BY <1>10
    <3>2. Nat \subseteq M
      BY <1>9, <3>1, SetInduction
    <3> QED BY <1>1, <3>2
  <2>2. n - 1 < n /\ (n - 1) + 1 = n
    BY <1>1
  <2> QED BY <2>1, <2>2
<1>12. FlattenSeq(seqs) = g[n]
  BY <1>7, <1>11
<1> QED BY <1>5, <1>12 DEF n

\* The data words of a long record are bytes, and so is what is left of them.
LEMMA ChunkType ==
  ASSUME NEW v \in Seq(Nat), IsLong(v), NEW n \in 1 .. WordCount(v)
  PROVE  /\ DataWord(v, n) \in Seq(Nat) /\ Len(DataWord(v, n)) = WordSize
         /\ Stripped(DataWord(v, n)) \in Seq(Nat) /\ LeftBefore(v, n) \in Nat
         /\ Extractable(v) => Chunk(v, n) \in Seq(Nat)
<1>0. PICK a \in Nat, e \in Nat :
        /\ a = (n - 1) * WordSize /\ e = a + WordSize
        /\ a < Len(v) /\ (n < WordCount(v) => e <= Len(v))
        /\ WordSize \in Nat /\ Len(v) \in Nat /\ WordCount(v) \in Nat
  <2>1. /\ (n - 1) * WordSize \in Nat /\ (n - 1) * WordSize < Len(v)
        /\ n * WordSize = (n - 1) * WordSize + WordSize
        /\ n < WordCount(v) => n * WordSize <= Len(v)
        /\ WordSize \in Nat /\ Len(v) \in Nat /\ WordCount(v) \in Nat
    BY WordBounds
  <2>2. n * WordSize \in Nat
    BY <2>1
  <2> QED BY <2>1, <2>2
<1>1. /\ LeftBefore(v, n) = Len(v) - a /\ LeftBefore(v, n) \in Nat
      /\ n < WordCount(v) => LeftBefore(v, n) >= WordSize
  <2>1. LeftBefore(v, n) = Len(v) - a
    BY <1>0 DEF LeftBefore
  <2> QED BY <1>0, <2>1
<1>2. DataWord(v, n) = [k \in 1 .. WordSize |-> IF k <= LeftBefore(v, n) THEN v[a + k] ELSE 0]
  BY <1>0 DEF DataWord
<1>3. DataWord(v, n) \in Seq(Nat) /\ Len(DataWord(v, n)) = WordSize
  <2>1. \A k \in 1 .. WordSize : k <= LeftBefore(v, n) => v[a + k] \in Nat
    <3> SUFFICES ASSUME NEW k \in 1 .. WordSize, k <= LeftBefore(v, n) PROVE v[a + k] \in Nat
      OBVIOUS
    <3>1. a + k \in 1 .. Len(v)
      BY <1>0, <1>1
    <3> QED BY <3>1
  <2>2. DataWord(v, n) \in [1 .. WordSize -> Nat]
    BY <1>2, <2>1
  <2> QED BY <1>0, <2>2
<1>4. PICK b \in Seq(Nat) : b = Stripped(DataWord(v, n))
  BY <1>3, StripFacts
<1>5. Extractable(v) /\ LeftBefore(v, n) < WordSize => LeftBefore(v, n) <= Len(b)
  <2> SUFFICES ASSUME Extractable(v), LeftBefore(v, n) < WordSize PROVE LeftBefore(v, n) <= Len(b)
    OBVIOUS
  <2>1. n = WordCount(v)
    BY <1>1, WordBounds
  <2> QED BY <1>4, <2>1 DEF Extractable
<1>6. Chunk(v, n) = IF LeftBefore(v, n) < WordSize THEN SubSeq(b, 1, LeftBefore(v, n)) ELSE b
  BY <1>4 DEF Chunk
<1>7. Extractable(v) => Chunk(v, n) \in Seq(Nat)
  BY <1>1, <1>4, <1>5, <1>6
<1> QED BY <1>1, <1>3, <1>4, <1>7

\* What is extracted are bytes.
LEMMA ExtractedType ==
  ASSUME NEW v \in Seq(Nat), Extractable(v) PROVE Extracted(v) \in Seq(Nat)
<1>1. CASE ~IsLong(v)
  BY <1>1 DEF Extracted
<1>2. CASE IsLong(v)
  <2> DEFINE chunks == [n \in 1 .. WordCount(v) |-> Chunk(v, n)]
  <2>1. WordCount(v) \in Nat \ {0} /\ \A n \in 1 .. WordCount(v) : Chunk(v, n) \in Seq(Nat)
    BY <1>2, WordBounds, ChunkType
  <2>2. chunks \in Seq(Seq(Nat)) /\ Len(chunks) # 0 /\ Len(chunks) \in 1 .. Len(chunks)
    <3>1. chunks \in Seq(Seq(Nat)) /\ Len(chunks) = WordCount(v)
      BY <2>1
    <3> HIDE DEF chunks
    <3> QED BY <2>1, <3>1
  <2>3. Extracted(v) = FlattenSeq(chunks)
    BY <1>2 DEF Extracted
  <2> HIDE DEF chunks
  <2>4. PICK f : FlattenSeq(chunks) = f[Len(chunks)] /\ Concatenates(f, chunks, Nat, Len(chunks))
    BY <2>2, Flattening
  <2> QED BY <2>2, <2>3, <2>4 DEF Concatenates
<1> QED BY <1>1, <1>2

\* A record made of whole words is extracted as it is.
LEMMA WholeIsExtracted ==
  ASSUME NEW v \in Seq(Nat), WholeWords(v)
  PROVE  Extractable(v) /\ Extracted(v) = v
<1>1. CASE ~IsLong(v)
  BY <1>1 DEF Extracted, Extractable
<1>2. CASE IsLong(v)
  <2> DEFINE N == WordCount(v)
             L == Len(v)
             W == WordSize
             chunks == [n \in 1 .. N |-> Chunk(v, n)]
  <2>1. ASSUME NEW n \in 1 .. N PROVE Stripped(DataWord(v, n)) = DataWord(v, n)
    <3>1. DataWord(v, n) \in Seq(Nat) /\ DataWord(v, n) # <<>> /\ DataWord(v, n)[1] # 0
      BY <1>2, ChunkType, WordBounds DEF WholeWords
    <3> QED BY <3>1, StripFacts
  <2>2. Extractable(v)
    <3>1. N \in 1 .. N /\ W \in Nat
      BY <1>2, WordBounds
    <3>2. Len(Stripped(DataWord(v, N))) = W /\ LeftBefore(v, N) \in Nat
      BY <1>2, <2>1, <3>1, ChunkType
    <3> QED BY <3>1, <3>2 DEF Extractable
  <2>3. ASSUME NEW n \in 1 .. N, NEW a, a = (n - 1) * W
        PROVE  /\ Len(Chunk(v, n)) = IF n < N THEN W ELSE L - a
               /\ \A k \in 1 .. Len(Chunk(v, n)) : Chunk(v, n)[k] = v[a + k]
    <3>1. /\ a \in Nat /\ L \in Nat /\ W \in Nat /\ N \in Nat /\ a < L /\ W >= 2
          /\ LeftBefore(v, n) = L - a
          /\ n < N => L - a >= W
          /\ n = N => L - a <= W
      BY <1>2, <2>3, WordBounds DEF LeftBefore
    <3>2. /\ DataWord(v, n) \in Seq(Nat) /\ Len(DataWord(v, n)) = W
          /\ \A k \in 1 .. W : k <= L - a => DataWord(v, n)[k] = v[a + k]
      BY <1>2, <2>3, <3>1, ChunkType DEF DataWord
    <3>3. Chunk(v, n) = IF L - a < W THEN SubSeq(DataWord(v, n), 1, L - a) ELSE DataWord(v, n)
      BY <2>1, <3>1 DEF Chunk
    <3>4. PICK d : d = DataWord(v, n)
      OBVIOUS
    <3> HIDE DEF N, L, W
    <3>5. d \in Seq(Nat) /\ Len(d) = W /\ \A k \in 1 .. W : k <= L - a => d[k] = v[a + k]
      BY <3>2, <3>4
    <3>6. CASE L - a < W
      <4>1. n = N /\ Chunk(v, n) = SubSeq(d, 1, L - a)
        BY <3>1, <3>3, <3>4, <3>6
      <4>2. Len(SubSeq(d, 1, L - a)) = L - a /\ \A k \in 1 .. L - a : SubSeq(d, 1, L - a)[k] = d[k]
        BY <3>1, <3>5, <3>6
      <4> QED BY <3>1, <3>5, <3>6, <4>1, <4>2
    <3>7. CASE ~(L - a < W)
      <4>1. Chunk(v, n) = d
        BY <3>3, <3>4, <3>7
      <4>2. \A k \in 1 .. W : k <= L - a
        BY <3>1, <3>7
      <4>3. n # N \/ L - a = W
        BY <3>1, <3>7
      <4>4. Len(d) = IF n < N THEN W ELSE L - a
        BY <3>1, <3>5, <4>3
      <4>5. \A k \in 1 .. Len(d) : d[k] = v[a + k]
        BY <3>5, <4>2
      <4> QED BY <4>1, <4>4, <4>5
    <3> QED BY <3>6, <3>7
  <2>4. PICK f \in [1 .. N -> Seq(Nat)] :
          /\ Extracted(v) = f[N] /\ f[1] = Chunk(v, 1)
          /\ \A k \in 1 .. N - 1 : f[k + 1] = f[k] \o Chunk(v, k + 1)
    <3>1. N \in Nat \ {0} /\ \A n \in 1 .. N : Chunk(v, n) \in Seq(Nat)
      BY <1>2, <2>2, WordBounds, ChunkType
    <3>2. chunks \in Seq(Seq(Nat)) /\ Len(chunks) = N /\ \A n \in 1 .. N : chunks[n] = Chunk(v, n)
      BY <3>1
    <3>3. Extracted(v) = FlattenSeq(chunks)
      BY <1>2 DEF Extracted
    <3>4. 1 \in 1 .. N /\ \A k \in 1 .. N - 1 : k + 1 \in 1 .. N
      BY <3>1
    <3> HIDE DEF chunks, N
    <3>5. PICK f : FlattenSeq(chunks) = f[N] /\ Concatenates(f, chunks, Nat, N)
      BY <3>1, <3>2, Flattening
    <3>6. /\ f \in [1 .. N -> Seq(Nat)] /\ f[1] = chunks[1]
          /\ \A k \in 1 .. N - 1 : f[k + 1] = f[k] \o chunks[k + 1]
      BY <3>5 DEF Concatenates
    <3> QED BY <3>2, <3>3, <3>4, <3>5, <3>6
  \* The first n chunks are the first n words, or all of v.
  <2> DEFINE Reached(n) == IF n < N THEN n * W ELSE L
             Begins(n) == Len(f[n]) = Reached(n) /\ \A k \in 1 .. Reached(n) : f[n][k] = v[k]
             K == {n \in Nat : n + 1 <= N => Begins(n + 1)}
  <2>5. N \in Nat \ {0} /\ L \in Nat /\ W \in Nat /\ 1 * W = W /\ 0 * W = 0
    BY <1>2, WordBounds
  <2>6. 0 \in K
    <3>1. 1 \in 1 .. N /\ 0 = (1 - 1) * W
      BY <2>5
    <3>2. /\ Len(Chunk(v, 1)) = IF 1 < N THEN W ELSE L - 0
          /\ \A k \in 1 .. Len(Chunk(v, 1)) : Chunk(v, 1)[k] = v[0 + k]
      <4> HIDE DEF N, L, W
      <4> QED BY <2>3, <3>1
    <3> HIDE DEF N, L, W
    <3>3. Begins(1)
      BY <2>4, <2>5, <3>2
    <3> QED BY <3>3
  <2>7. ASSUME NEW n \in Nat, n \in K PROVE n + 1 \in K
    <3> SUFFICES ASSUME n + 2 <= N PROVE Begins(n + 2)
      OBVIOUS
    <3>1. n + 1 \in 1 .. N - 1 /\ n + 2 \in 1 .. N /\ n + 1 \in 1 .. N /\ (n + 1) + 1 = n + 2
      BY <2>5
    <3>2. PICK a \in Nat : /\ a = ((n + 2) - 1) * W /\ a = (n + 1) * W
                           /\ (n + 2) * W = a + W /\ a < L
      <4>1. (n + 2) - 1 = n + 1
        OBVIOUS
      <4> QED BY <1>2, <3>1, <4>1, WordBounds
    <3>3. PICK u, c : /\ u = f[n + 1] /\ c = Chunk(v, n + 2) /\ f[n + 2] = u \o c
                      /\ u \in Seq(Nat) /\ c \in Seq(Nat)
      <4>1. Chunk(v, n + 2) \in Seq(Nat)
        BY <1>2, <2>2, <3>1, ChunkType
      <4> HIDE DEF N
      <4> QED BY <2>4, <3>1, <4>1
    <3>4. Len(u) = a /\ \A k \in 1 .. a : u[k] = v[k]
      <4>1. n + 1 < N /\ Begins(n + 1)
        BY <2>5, <2>7, <3>1
      <4> HIDE DEF N, W, L
      <4> QED BY <3>2, <3>3, <4>1
    <3>5. /\ Len(c) = IF n + 2 < N THEN W ELSE L - a
          /\ \A k \in 1 .. Len(c) : c[k] = v[a + k]
      <4> HIDE DEF N, W, L
      <4> QED BY <2>3, <3>1, <3>2, <3>3
    <3>6. Reached(n + 2) = a + Len(c)
      <4>1. Reached(n + 2) = IF n + 2 < N THEN a + W ELSE L
        BY <3>2
      <4>2. Len(c) = IF n + 2 < N THEN W ELSE L - a
        BY <3>5
      <4>3. a \in Nat /\ L \in Nat
        BY <2>5, <3>2
      <4> HIDE DEF N, W, L, Reached
      <4> QED BY <4>1, <4>2, <4>3
    <3>7. PICK x : /\ x = u \o c /\ Len(x) = a + Len(c)
                   /\ \A k \in 1 .. a : x[k] = u[k]
                   /\ \A k \in 1 .. a + Len(c) : k > a => x[k] = c[k - a]
      <4>1. /\ Len(u \o c) = Len(u) + Len(c)
            /\ \A k \in 1 .. Len(u) : (u \o c)[k] = u[k]
            /\ \A k \in 1 .. Len(u) + Len(c) : k > Len(u) => (u \o c)[k] = c[k - Len(u)]
        <5>1. u \in Seq(Nat) /\ c \in Seq(Nat)
          BY <3>3
        <5> QED BY ONLY <5>1, Concatenation
      <4>2. Len(u) = a
        BY <3>4
      <4>3. PICK x : x = u \o c
        OBVIOUS
      <4>4. /\ Len(x) = a + Len(c) /\ \A k \in 1 .. a : x[k] = u[k]
            /\ \A k \in 1 .. a + Len(c) : k > a => x[k] = c[k - a]
        BY ONLY <4>1, <4>2, <4>3
      <4> QED BY <4>3, <4>4
    <3>8. ASSUME NEW k \in 1 .. a + Len(c) PROVE x[k] = v[k]
      <4>1. CASE k <= a
        BY <3>2, <3>4, <3>7, <4>1
      <4>2. CASE k > a
        <5>1. k - a \in 1 .. Len(c) /\ a + (k - a) = k
          BY <3>2, <3>3, <4>2
        <5>2. c[k - a] = v[a + (k - a)]
          BY <3>5, <5>1
        <5> QED BY <3>7, <4>2, <5>1, <5>2
      <4> QED BY <3>2, <3>3, <4>1, <4>2
    <3> HIDE DEF N, W, L
    <3> QED BY <3>3, <3>6, <3>7, <3>8
  <2>8. Begins(N)
    <3>1. N - 1 \in K
      <4> HIDE DEF K
      <4>1. Nat \subseteq K
        BY <2>6, <2>7, SetInduction
      <4> QED BY <2>5, <4>1
    <3>2. (N - 1) + 1 = N
      BY <2>5
    <3> HIDE DEF N, Begins
    <3> QED BY <2>5, <3>1, <3>2
  <2>9. Extracted(v) \in Seq(Nat) /\ Len(Extracted(v)) = L /\ \A k \in 1 .. L : Extracted(v)[k] = v[k]
    <3> HIDE DEF N, W, L
    <3> QED BY <2>4, <2>5, <2>8
  <2>10. Extracted(v) = v
    BY <2>9
  <2> QED BY <2>2, <2>10
<1> QED BY <1>1, <1>2

-----------------------------------------------------------------------------
(* Calls of resolve                                                        *)

Fields == {"pc", "target", "commands", "query", "node", "result"}

\* A call that is under way reads the record of its query.
Asks ==
  /\ DOMAIN call = Fields
  /\ call.pc = "idle" => call.commands = <<>>
  /\ call.pc = "pending" =>
       call.query.kind \in Kinds /\ call.commands = Commands(call.node, call.query)

\* Sequences are equal that have equal elements.
LEMMA SeqEq ==
  ASSUME NEW S, NEW s \in Seq(S), NEW t \in Seq(S), Len(s) = Len(t),
         \A k \in 1 .. Len(s) : s[k] = t[k]
  PROVE  s = t
OBVIOUS

\* What is put in front of a list is its first element.
LEMMA InFront ==
  /\ \A base, x : <<base>> \o <<x>> = <<base, x>>
  /\ \A base, x, y : <<base>> \o <<x, y>> = <<base, x, y>>
  /\ \A base, x, y, z : <<base>> \o <<x, y, z>> = <<base, x, y, z>>
<1>1. ASSUME NEW base, NEW x PROVE <<base>> \o <<x>> = <<base, x>>
  <2> DEFINE S == {base, x}
  <2>1. /\ <<base>> \in Seq(S) /\ <<x>> \in Seq(S) /\ <<base, x>> \in Seq(S) /\ Len(<<base, x>>) = 2
        /\ <<base>> \o <<x>> \in Seq(S) /\ Len(<<base>> \o <<x>>) = 2
    OBVIOUS
  <2>2. \A k \in 1 .. 2 : (<<base>> \o <<x>>)[k] = <<base, x>>[k]
    BY <2>1
  <2> QED BY <2>1, <2>2, SeqEq
<1>2. ASSUME NEW base, NEW x, NEW y PROVE <<base>> \o <<x, y>> = <<base, x, y>>
  <2> DEFINE S == {base, x, y}
  <2>1. /\ <<base>> \in Seq(S) /\ <<x, y>> \in Seq(S) /\ <<base, x, y>> \in Seq(S) /\ Len(<<base, x, y>>) = 3
        /\ <<base>> \o <<x, y>> \in Seq(S) /\ Len(<<base>> \o <<x, y>>) = 3
    OBVIOUS
  <2>2. \A k \in 1 .. 3 : (<<base>> \o <<x, y>>)[k] = <<base, x, y>>[k]
    BY <2>1
  <2> QED BY <2>1, <2>2, SeqEq
<1>3. ASSUME NEW base, NEW x, NEW y, NEW z PROVE <<base>> \o <<x, y, z>> = <<base, x, y, z>>
  <2> DEFINE S == {base, x, y, z}
  <2>1. /\ <<base>> \in Seq(S) /\ <<x, y, z>> \in Seq(S) /\ <<base, x, y, z>> \in Seq(S) /\ Len(<<base, x, y, z>>) = 4
        /\ <<base>> \o <<x, y, z>> \in Seq(S) /\ Len(<<base>> \o <<x, y, z>>) = 4
    OBVIOUS
  <2>2. \A k \in 1 .. 4 : (<<base>> \o <<x, y, z>>)[k] = <<base, x, y, z>>[k]
    BY <2>1
  <2> QED BY <2>1, <2>2, SeqEq
<1> QED BY <1>1, <1>2, <1>3

\* The commands of a query have up to three operands.
LEMMA ShortPaths ==
  /\ \A base, vals, a :
       CommandSlot([slot |-> base, path |-> <<a>>], vals) = <<base, Operand(a, vals)>>
  /\ \A base, vals, a, b :
       CommandSlot([slot |-> base, path |-> <<a, b>>], vals)
         = <<base, Operand(a, vals), Operand(b, vals)>>
  /\ \A base, vals, a, b, c :
       CommandSlot([slot |-> base, path |-> <<a, b, c>>], vals)
         = <<base, Operand(a, vals), Operand(b, vals), Operand(c, vals)>>
<1>1. ASSUME NEW a, NEW vals
      PROVE  [k \in 1 .. Len(<<a>>) |-> Operand(<<a>>[k], vals)] = <<Operand(a, vals)>>
  OBVIOUS
<1>2. ASSUME NEW a, NEW b, NEW vals
      PROVE  [k \in 1 .. Len(<<a, b>>) |-> Operand(<<a, b>>[k], vals)]
               = <<Operand(a, vals), Operand(b, vals)>>
  OBVIOUS
<1>3. ASSUME NEW a, NEW b, NEW c, NEW vals
      PROVE  [k \in 1 .. Len(<<a, b, c>>) |-> Operand(<<a, b, c>>[k], vals)]
               = <<Operand(a, vals), Operand(b, vals), Operand(c, vals)>>
  OBVIOUS
<1>4. ASSUME NEW base, NEW vals, NEW path
      PROVE  CommandSlot([slot |-> base, path |-> path], vals)
               = <<base>> \o [k \in 1 .. Len(path) |-> Operand(path[k], vals)]
  BY DEF CommandSlot
<1>5. ASSUME NEW base, NEW vals, NEW a
      PROVE  CommandSlot([slot |-> base, path |-> <<a>>], vals) = <<base, Operand(a, vals)>>
  <2>1. CommandSlot([slot |-> base, path |-> <<a>>], vals)
          = <<base>> \o [k \in 1 .. Len(<<a>>) |-> Operand(<<a>>[k], vals)]
    BY <1>4
  <2>2. [k \in 1 .. Len(<<a>>) |-> Operand(<<a>>[k], vals)] = <<Operand(a, vals)>>
    BY <1>1
  <2>3. <<base>> \o <<Operand(a, vals)>> = <<base, Operand(a, vals)>>
    BY InFront
  <2> QED BY ONLY <2>1, <2>2, <2>3
<1>6. ASSUME NEW base, NEW vals, NEW a, NEW b
      PROVE  CommandSlot([slot |-> base, path |-> <<a, b>>], vals)
               = <<base, Operand(a, vals), Operand(b, vals)>>
  <2>1. CommandSlot([slot |-> base, path |-> <<a, b>>], vals)
          = <<base>> \o [k \in 1 .. Len(<<a, b>>) |-> Operand(<<a, b>>[k], vals)]
    BY <1>4
  <2>2. [k \in 1 .. Len(<<a, b>>) |-> Operand(<<a, b>>[k], vals)] = <<Operand(a, vals), Operand(b, vals)>>
    BY <1>2
  <2>3. <<base>> \o <<Operand(a, vals), Operand(b, vals)>> = <<base, Operand(a, vals), Operand(b, vals)>>
    BY InFront
  <2> QED BY ONLY <2>1, <2>2, <2>3
<1>7. ASSUME NEW base, NEW vals, NEW a, NEW b, NEW c
      PROVE  CommandSlot([slot |-> base, path |-> <<a, b, c>>], vals)
               = <<base, Operand(a, vals), Operand(b, vals), Operand(c, vals)>>
  <2>1. CommandSlot([slot |-> base, path |-> <<a, b, c>>], vals)
          = <<base>> \o [k \in 1 .. Len(<<a, b, c>>) |-> Operand(<<a, b, c>>[k], vals)]
    BY <1>4
  <2>2. [k \in 1 .. Len(<<a, b, c>>) |-> Operand(<<a, b, c>>[k], vals)] =
         <<Operand(a, vals), Operand(b, vals), Operand(c, vals)>>
    BY <1>3
  <2>3. <<base>> \o <<Operand(a, vals), Operand(b, vals), Operand(c, vals)>> =
          <<base, Operand(a, vals), Operand(b, vals), Operand(c, vals)>>
    BY InFront
  <2> QED BY ONLY <2>1, <2>2, <2>3
<1> QED BY <1>5, <1>6, <1>7

\* Where the two commands of a query lead.
LEMMA CommandSlots ==
  ASSUME NEW state, NEW t, NEW node, NEW query, query.kind \in Kinds
  PROVE  /\ Held(state, t, Commands(node, query))[2] = Record(state, t, node, query)
         /\ \A version : RecordSlot(version, node, query)[1] \in {2, 3, 10}
<1>1. CommandSlot(Commands(node, query)[1], <<>>) = <<0, node>>
  <2>1. Commands(node, query)[1] = [slot |-> 0, path |-> <<Const(node)>>]
    BY DEF Commands
  <2>2. Operand(Const(node), <<>>) = node
    BY DEF Operand, Const
  <2>3. CommandSlot([slot |-> 0, path |-> <<Const(node)>>], <<>>) = <<0, Operand(Const(node), <<>>)>>
    BY ShortPaths
  <2> QED BY <2>1, <2>2, <2>3
<1> DEFINE first == VersionOf(state, t, node)
<1>2. CommandSlot(Commands(node, query)[2], <<first>>) = RecordSlot(first, node, query)
  <2> HIDE DEF first
  <2>1. Operand(Version, <<first>>) = first /\ \A x : Operand(Const(x), <<first>>) = x
    BY DEF Operand, Version, Const, Ref
  <2>2. ASSUME NEW base, NEW last
        PROVE  /\ CommandSlot([slot |-> base, path |-> <<Version, Const(node)>>], <<first>>)
                    = <<base, first, node>>
               /\ CommandSlot([slot |-> base, path |-> <<Version, Const(node), Const(last)>>], <<first>>)
                    = <<base, first, node, last>>
    <3>1. CommandSlot([slot |-> base, path |-> <<Version, Const(node)>>], <<first>>)
            = <<base, Operand(Version, <<first>>), Operand(Const(node), <<first>>)>>
      BY ShortPaths
    <3>2. CommandSlot([slot |-> base, path |-> <<Version, Const(node), Const(last)>>], <<first>>)
            = <<base, Operand(Version, <<first>>), Operand(Const(node), <<first>>),
                Operand(Const(last), <<first>>)>>
      BY ShortPaths
    <3> QED BY <2>1, <3>1, <3>2
  <2> DEFINE command == Commands(node, query)[2]
  <2>3. CASE query.kind = "addr"
    <3>1. command = [slot |-> 2, path |-> <<Version, Const(node), Const(60)>>]
      BY <2>3 DEF Commands
    <3>2. RecordSlot(first, node, query) = <<2, first, node, 60>>
      BY <2>3 DEF RecordSlot
    <3> QED BY <2>2, <3>1, <3>2
  <2>4. CASE query.kind = "address"
    <3>1. command = [slot |-> 2, path |-> <<Version, Const(node), Const(query.key)>>]
      BY <2>4 DEF Commands
    <3>2. RecordSlot(first, node, query) = <<2, first, node, query.key>>
      BY <2>4 DEF RecordSlot
    <3> QED BY <2>2, <3>1, <3>2
  <2>5. CASE query.kind = "text"
    <3>1. command = [slot |-> 10, path |-> <<Version, Const(node), Const(query.key)>>]
      BY <2>5 DEF Commands
    <3>2. RecordSlot(first, node, query) = <<10, first, node, query.key>>
      BY <2>5 DEF RecordSlot
    <3> QED BY <2>2, <3>1, <3>2
  <2>6. CASE query.kind = "contenthash"
    <3>1. command = [slot |-> 3, path |-> <<Version, Const(node)>>]
      BY <2>6 DEF Commands
    <3>2. RecordSlot(first, node, query) = <<3, first, node>>
      BY <2>6 DEF RecordSlot
    <3> QED BY <2>2, <3>1, <3>2
  <2> QED BY <2>3, <2>4, <2>5, <2>6 DEF Kinds
<1>4. Held(state, t, Commands(node, query))[2] = Record(state, t, node, query)
  BY <1>1, <1>2 DEF Held, Record, VersionOf
<1>5. \A version : RecordSlot(version, node, query)[1] \in {2, 3, 10}
  BY DEF RecordSlot, Kinds
<1> QED BY <1>4, <1>5

\* Every step keeps the commands of the call.
LEMMA AsksNext == Asks /\ [Next]_vars => Asks'
<1> SUFFICES ASSUME Asks, [Next]_vars PROVE Asks'
  OBVIOUS
<1>1. ASSUME NEW name \in Names, NEW node \in Names, NEW query \in Queries, Resolve(name, node, query)
      PROVE  Asks'
  BY <1>1 DEF Resolve, Asks, Fields
<1>2. CASE Callback \/ Fail
  BY <1>2 DEF Callback, Fail, Asks, Fields
<1>3. CASE UNCHANGED call
  BY <1>3 DEF Asks
<1>4. L2Step \/ Change \/ UNCHANGED vars => UNCHANGED call
  BY DEF L2Step, Change, ClearRecords, SetRecord, Write, Commit, vars
<1> QED BY <1>1, <1>2, <1>3, <1>4 DEF Next

-----------------------------------------------------------------------------
(* Types                                                                   *)

\* A slot holds a version, one for each write at most, or a record.
Stored(state) ==
  /\ DOMAIN state = Targets
  /\ \A t \in Targets : \A slot \in DOMAIN state[t] :
       state[t][slot] \in (IF slot[1] = 0 THEN 0 .. writes ELSE Values)

Registered ==
  /\ owner \in [Nodes -> Accounts] /\ ownerOf \in [Nodes -> Accounts \ {NameWrapper}]
  /\ targets \in [Nodes -> Targets \cup {NoTarget}]

Typed ==
  /\ Registered
  /\ writes \in 0 .. MaxWrites /\ changes \in 0 .. MaxChanges
  /\ Stored(l2) /\ Stored(committed)
  /\ call.pc \in {"idle", "pending", "returned", "failed"}
  /\ call.target \in Targets \cup {NoTarget} /\ call.result \in Seq(Nat)
  /\ call.pc = "returned" /\ call.commands # <<>> /\ call.query.kind = "addr"
       => Len(call.result) = AddressSize

ResolverInv == Typed /\ Asks

\* The initial states.
LEMMA ResolverInit == Init => ResolverInv
BY ResolverAssumption DEF Init, ResolverInv, Typed, Registered, Stored, Asks, NoCall, Fields

\* A call changes nothing but itself, and gets a target and a record.
LEMMA CallKeeps ==
  ASSUME ResolverInv, UNCHANGED <<registry, l2, committed, writes>>,
         call'.pc \in {"idle", "pending", "returned", "failed"},
         call'.target \in Targets \cup {NoTarget}, call'.result \in Seq(Nat),
         call'.pc = "returned" /\ call'.commands # <<>> /\ call'.query.kind = "addr"
           => Len(call'.result) = AddressSize
  PROVE  Typed'
BY DEF ResolverInv, Typed, Registered, Stored, registry

\* A slot is written with a version or a record.
LEMMA WriteKeeps ==
  ASSUME ResolverInv, NEW t \in Targets, NEW slot, NEW value, Write(t, slot, value),
         value \in IF slot[1] = 0 THEN 0 .. writes + 1 ELSE Values
  PROVE  Typed'
<1>1. /\ writes' = writes + 1 /\ writes < MaxWrites /\ writes \in Nat
      /\ UNCHANGED <<registry, committed, call>> /\ DOMAIN l2 = Targets
      /\ l2' = [l2 EXCEPT ![t] = [s \in DOMAIN l2[t] \cup {slot} |->
                                    IF s = slot THEN value ELSE l2[t][s]]]
  BY DEF Write, ResolverInv, Typed, Registered, Stored
<1>2. Stored(l2)'
  <2> SUFFICES ASSUME NEW u \in Targets, NEW s \in DOMAIN l2'[u]
               PROVE  l2'[u][s] \in (IF s[1] = 0 THEN 0 .. writes + 1 ELSE Values)
    BY <1>1 DEF Stored
  <2>1. CASE s \in DOMAIN l2[u] /\ l2'[u][s] = l2[u][s]
    <3>1. l2[u][s] \in (IF s[1] = 0 THEN 0 .. writes ELSE Values)
      BY <2>1 DEF ResolverInv, Typed, Registered, Stored
    <3> QED BY <1>1, <2>1, <3>1
  <2>2. CASE u = t /\ s = slot /\ l2'[u][s] = value
    BY <2>2
  <2> QED BY <1>1, <2>1, <2>2
<1>3. Stored(committed)'
  <2> SUFFICES ASSUME NEW u \in Targets, NEW s \in DOMAIN committed[u]
               PROVE  committed[u][s] \in (IF s[1] = 0 THEN 0 .. writes + 1 ELSE Values)
    BY <1>1 DEF Stored, ResolverInv, Typed, Registered
  <2>1. committed[u][s] \in (IF s[1] = 0 THEN 0 .. writes ELSE Values)
    BY DEF ResolverInv, Typed, Registered, Stored
  <2> QED BY <1>1, <2>1
<1> QED BY <1>1, <1>2, <1>3, ResolverAssumption DEF ResolverInv, Typed, Registered, registry

\* The version of a node is a number of at most as many writes as there were.
LEMMA VersionType ==
  ASSUME ResolverInv, NEW t \in Targets, NEW node PROVE VersionOf(l2, t, node) \in 0 .. writes
<1>1. <<0, node>>[1] = 0 /\ 0 \in 0 .. writes
  BY DEF ResolverInv, Typed, Registered
<1>2. <<0, node>> \in DOMAIN l2[t] => l2[t][<<0, node>>] \in 0 .. writes
  BY <1>1 DEF ResolverInv, Typed, Registered, Stored
<1> QED BY <1>1, <1>2 DEF VersionOf, Read, None

\* A record is a byte string.
LEMMA RecordType ==
  ASSUME ResolverInv, NEW t \in Targets, NEW node, NEW query, query.kind \in Kinds
  PROVE  Record(committed, t, node, query) \in Seq(Nat)
<1>1. PICK slot : /\ slot = RecordSlot(VersionOf(committed, t, node), node, query)
                  /\ slot[1] \in {2, 3, 10}
  BY CommandSlots
<1>2. slot \in DOMAIN committed[t] => committed[t][slot] \in Values
  BY <1>1 DEF ResolverInv, Typed, Stored
<1>3. Values \subseteq Seq(Nat) /\ <<>> \in Seq(Nat)
  BY ResolverAssumption
<1> QED BY <1>1, <1>2, <1>3 DEF Record, Read

\* Every step keeps the types.
LEMMA ResolverNext == ResolverInv /\ [Next]_vars => ResolverInv'
<1> SUFFICES ASSUME ResolverInv, [Next]_vars PROVE Typed'
  BY AsksNext DEF ResolverInv
<1>1. ASSUME NEW name \in Names, NEW node \in Names, NEW query \in Queries,
             Resolve(name, node, query)
      PROVE  Typed'
  <2>1. getTarget(name) \in Targets \cup {NoTarget}
    BY TargetNow, FoundType DEF ResolverInv, Typed, Registered
  <2>2. <<>> \in Seq(Nat)
    OBVIOUS
  <2>3. /\ call'.pc \in {"pending", "returned"} /\ call'.target \in Targets \cup {NoTarget}
        /\ call'.result \in Seq(Nat) /\ (call'.pc = "returned" => call'.commands = <<>>)
    BY <1>1, <2>1, <2>2 DEF Resolve, ResolverInv, Typed, Registered, Asks, Fields
  <2> QED BY <1>1, <2>3, CallKeeps DEF Resolve
<1>2. CASE Callback
  <2>1. PICK record \in Seq(Nat) :
          record = Held(committed, call.target, call.commands)[2] /\ Extractable(record)
    <3>1. call.target \in Targets /\ call.query.kind \in Kinds
          /\ call.commands = Commands(call.node, call.query)
      BY <1>2 DEF Callback, ResolverInv, Asks
    <3>2. Held(committed, call.target, call.commands)[2]
            = Record(committed, call.target, call.node, call.query)
      BY <3>1, CommandSlots
    <3> QED BY <1>2, <3>1, <3>2, RecordType DEF Callback
  <2>2. PICK values : values = Fetched(committed, call.target, call.commands)
    OBVIOUS
  <2>3. values[2] \in Seq(Nat)
    BY <2>1, <2>2, ExtractedType DEF Fetched
  <2>4. AddressOf(values[2]) \in Seq(Nat) /\ Len(AddressOf(values[2])) = AddressSize
    <3>1. AddressOf(values[2]) \in [1 .. AddressSize -> Nat]
      BY <2>3 DEF AddressOf
    <3> QED BY <3>1, ResolverAssumption
  <2>5. /\ call' = [call EXCEPT !.pc = "returned", !.result = RecordValue(call.query, values)]
        /\ UNCHANGED <<registry, l2, committed, writes>>
    BY <1>2, <2>2 DEF Callback
  <2>6. /\ call'.pc = "returned" /\ call'.target = call.target /\ call'.query = call.query
        /\ call'.result = RecordValue(call.query, values)
    BY <2>5 DEF ResolverInv, Asks, Fields
  <2>7. call'.result \in Seq(Nat) /\ (call.query.kind = "addr" => Len(call'.result) = AddressSize)
    BY <2>3, <2>4, <2>6 DEF RecordValue
  <2>8. call.target \in Targets \cup {NoTarget}
    BY DEF ResolverInv, Typed
  <2> QED BY <2>5, <2>6, <2>7, <2>8, CallKeeps
<1>3. CASE Fail
  BY <1>3, CallKeeps DEF Fail, ResolverInv, Typed, Registered, Asks, Fields
<1>4. ASSUME NEW t \in Targets, NEW node \in Written, ClearRecords(t, node)
      PROVE  Typed'
  <2>1. VersionOf(l2, t, node) + 1 \in 0 .. writes + 1 /\ <<0, node>>[1] = 0
    BY VersionType DEF ResolverInv, Typed, Registered
  <2> QED BY <1>4, <2>1, WriteKeeps DEF ClearRecords
<1>5. ASSUME NEW t \in Targets, NEW node \in Written, NEW q \in Queries, NEW v \in Values,
             SetRecord(t, node, q, v)
      PROVE  Typed'
  <2>1. RecordSlot(VersionOf(l2, t, node), node, q)[1] \in {2, 3, 10}
    BY <1>5, CommandSlots DEF SetRecord
  <2> QED BY <1>5, <2>1, WriteKeeps DEF SetRecord
<1>6. CASE Commit
  BY <1>6 DEF Commit, ResolverInv, Typed, Registered, Stored, registry
<1>7. CASE Change
  <2>1. UNCHANGED <<l2, committed, call, writes>> /\ changes' \in 0 .. MaxChanges
    BY <1>7, ResolverAssumption DEF Change, ResolverInv, Typed, Registered
  <2>2. PICK node \in Nodes :
          \/ \E account \in Accounts : Transfer(node, account)
          \/ \E sender \in Accounts, t \in Targets \cup {NoTarget} : SetTarget(sender, node, t)
    BY <1>7 DEF Change
  <2>3. Registered'
    <3>1. ASSUME NEW account \in Accounts, Transfer(node, account) PROVE Registered'
      BY <3>1 DEF Transfer, ResolverInv, Typed, Registered
    <3>2. ASSUME NEW sender \in Accounts, NEW t \in Targets \cup {NoTarget}, SetTarget(sender, node, t)
          PROVE  Registered'
      BY <3>2 DEF SetTarget, ResolverInv, Typed, Registered
    <3> QED BY <2>2, <3>1, <3>2
  <2> QED BY <2>1, <2>3 DEF ResolverInv, Typed, Registered, Stored
<1>8. CASE UNCHANGED vars
  BY <1>8 DEF vars, ResolverInv, Typed, Registered, Stored
<1> QED BY <1>1, <1>2, <1>3, <1>4, <1>5, <1>6, <1>7, <1>8 DEF Next, L2Step

(***************************************************************************)
(* L1Resolver.sol: calls, targets and records keep their types; no version *)
(* of a record is a record, and the other way round; and what addr returns *)
(* is an address.                                                          *)
(***************************************************************************)
THEOREM ResolverTypeCorrect == Spec => []TypeOK
<1>1. ResolverInv => TypeOK
  <2> SUFFICES ASSUME ResolverInv PROVE TypeOK
    OBVIOUS
  <2>1. writes \in 0 .. MaxWrites /\ MaxWrites \in Nat /\ 0 .. writes \subseteq 0 .. MaxWrites
    BY ResolverAssumption DEF ResolverInv, Typed, Registered
  <2>2. ASSUME NEW s \in {l2, committed}, NEW t \in Targets, NEW slot \in DOMAIN s[t]
        PROVE  s[t][slot] \in (IF slot[1] = 0 THEN 0 .. MaxWrites ELSE Values)
    BY <2>1, <2>2 DEF ResolverInv, Typed, Registered, Stored
  <2> QED BY <2>2 DEF ResolverInv, Typed, Registered, TypeOK
<1> QED BY <1>1, ResolverInit, ResolverNext, PTL DEF Spec

-----------------------------------------------------------------------------
(* What is answered                                                        *)

(***************************************************************************)
(* L1Resolver.sol: what a callback returns is what the L2 resolver that    *)
(* was in effect at the call answers itself, in the committed state: the   *)
(* record of the node and key, of the version that is current there.  That *)
(* is said of records made of whole words, which the verifier returns as   *)
(* they are, and of addr where the record is an address or empty.          *)
(***************************************************************************)
THEOREM RecordIsAnswered == Spec => AnswersRecord
<1>1. ResolverInv /\ [Next]_vars =>
        [call.pc = "pending" /\ call'.pc = "returned" =>
           LET record == Record(committed, call.target, call.node, call.query)
           IN  WholeWords(record) /\ Answerable(call.query, record)
                 => call'.result = Answered(call.query, record)]_vars
  <2> SUFFICES ASSUME ResolverInv, [Next]_vars, call.pc = "pending", call'.pc = "returned"
               PROVE  LET record == Record(committed, call.target, call.node, call.query)
                      IN  WholeWords(record) /\ Answerable(call.query, record)
                            => call'.result = Answered(call.query, record)
    OBVIOUS
  <2>1. call' # call
    OBVIOUS
  <2>2. Callback
    BY <2>1 DEF ResolverInv, Asks, Fields, Next, Resolve, Fail, L2Step, Change, ClearRecords, SetRecord, Write, Commit, vars
  <2>0. call.query.kind \in Kinds /\ call.commands = Commands(call.node, call.query)
    BY DEF ResolverInv, Asks
  <2>3. PICK record \in Seq(Nat) : record = Record(committed, call.target, call.node, call.query)
    BY <2>0, <2>2, RecordType DEF Callback
  <2> SUFFICES ASSUME WholeWords(record), Answerable(call.query, record)
               PROVE  call'.result = Answered(call.query, record)
    BY <2>3
  <2>4. call'.result = RecordValue(call.query, <<Held(committed, call.target, call.commands)[1], record>>)
    <3>1. Held(committed, call.target, call.commands)[2] = record
      BY <2>0, <2>3, CommandSlots
    <3>2. Extracted(record) = record
      BY WholeIsExtracted
    <3> QED BY <2>2, <3>1, <3>2 DEF Callback, Fetched, ResolverInv, Asks, Fields
  <2>5. CASE call.query.kind # "addr"
    BY <2>4, <2>5 DEF RecordValue, Answered
  <2>6. CASE call.query.kind = "addr"
    <3>1. call'.result = AddressOf(record) /\ Len(record) \in {0, AddressSize}
      BY <2>4, <2>6 DEF RecordValue, Answerable
    <3>2. CASE Len(record) = 0
      <4>1. record = <<>> /\ \A k \in 1 .. AddressSize : ~(k <= Len(record))
        BY <3>2
      <4> QED BY <2>6, <3>1, <4>1 DEF AddressOf, Answered
    <3>3. CASE Len(record) # 0
      <4>1. record # <<>> /\ Len(record) = AddressSize
        BY <3>1, <3>3
      <4>2. AddressOf(record) = record
        BY <4>1 DEF AddressOf
      <4> QED BY <3>1, <4>1, <4>2 DEF Answered
    <3> QED BY <3>2, <3>3
  <2> QED BY <2>5, <2>6
<1> QED BY <1>1, ResolverInit, ResolverNext, PTL DEF Spec, AnswersRecord

-----------------------------------------------------------------------------
(***************************************************************************)
(* Deployment: the scripts that put this resolver, and the verifiers, on   *)
(* L1.                                                                     *)
(***************************************************************************)

\* What Current asks of the script at position m.
IsCurrent(m) ==
  LET c == Scripts("l1")[m].contract
      args == Scripts("l1")[m].args
  IN  /\ c \in DOMAIN saved["l1"] /\ saved["l1"][c].code = code[c]
      /\ \A a \in DOMAIN args : /\ Found("l1", args[a])
                                /\ saved["l1"][c].args[a] = Argument("l1", args[a])

\* After k scripts: as long as nothing changes, what they deploy is current,
\* and so are the arguments of the one that is next.
After(k) ==
  LET L == Len(Scripts("l1"))
      args == Scripts("l1")[k + 1].args
  IN  /\ run["l1"].todo = SubSeq(Scripts("l1"), k + 1, L)
      /\ ~changed => \A m \in 1 .. k : IsCurrent(m)
      /\ run["l1"].pc = "deploy" =>
           /\ k < L
           /\ ~changed => /\ run["l1"].args = [a \in DOMAIN args |-> Argument("l1", args[a])]
                          /\ \A a \in DOMAIN args : Found("l1", args[a])

DeploymentInv ==
  /\ package \in {"op", "arb", "resolver"} /\ DOMAIN run = Networks /\ DOMAIN saved = Networks
  /\ DOMAIN run["l1"] = {"pc", "todo", "args"} /\ changed \in BOOLEAN
  /\ run["l1"].pc \in {"read", "deploy"} => \E k \in 0 .. Len(Scripts("l1")) : After(k)
  /\ OneRunIsEnough

\* The scripts for L1 deploy one contract each, and refer to earlier ones.
LEMMA ScriptFacts ==
  ASSUME package \in {"op", "arb", "resolver"}
  PROVE  /\ \E S : Scripts("l1") \in Seq(S)
         /\ \A k, m \in DOMAIN Scripts("l1") :
              Scripts("l1")[k].contract = Scripts("l1")[m].contract => k = m
         /\ \A k \in DOMAIN Scripts("l1") : \A a \in DOMAIN Scripts("l1")[k].args :
              Scripts("l1")[k].args[a].kind = "local" =>
                \E m \in 1 .. k - 1 : Scripts("l1")[k].args[a].of = Scripts("l1")[m].contract
<1> DEFINE S == Scripts("l1")
<1>1. ASSUME NEW x, NEW y PROVE <<x>> \in Seq({x}) /\ <<x, y>> \in Seq({x, y})
  OBVIOUS
<1>2. CASE package = "resolver"
  <2>1. PICK x : S = <<x>> /\ x = [contract |-> "L1Resolver", args |-> <<Setting>>]
    BY <1>2 DEF Scripts, L1ResolverScripts, Deploy
  <2>2. \E T : S \in Seq(T)
    <3> HIDE DEF S
    <3> QED BY <1>1, <2>1
  <2>3. DOMAIN S = {1} /\ S[1].args = <<Setting>>
    BY <2>1
  <2>4. \A a \in DOMAIN <<Setting>> : <<Setting>>[a].kind # "local"
    <3>1. Setting.kind # "local"
      BY DEF Setting
    <3> QED BY <3>1
  <2>5. \A k, m \in DOMAIN S : k = m
    BY <2>3
  <2>6. \A k \in DOMAIN S : \A a \in DOMAIN S[k].args : S[k].args[a].kind # "local"
    <3> HIDE DEF S
    <3> QED BY <2>3, <2>4
  <2> QED BY <2>2, <2>5, <2>6
<1>3. CASE package \in {"op", "arb"}
  <2>1. PICK v, x, y :
          /\ v \in {"OPVerifier", "ArbVerifier"} /\ S = <<x, y>>
          /\ x = [contract |-> v, args |-> <<Literal, Setting>>]
          /\ y = [contract |-> "TestL1", args |-> <<Local(v), Companion("TestL2")>>]
    BY <1>3 DEF Scripts, L1TestScripts, VerifierScript, TestL1Script, Deploy
  <2>2. \E T : S \in Seq(T)
    <3> HIDE DEF S
    <3> QED BY <1>1, <2>1
  <2>3. DOMAIN S = {1, 2} /\ S[1] = x /\ S[2] = y
    BY <2>1
  <2>4. \A k, m \in DOMAIN S : S[k].contract = S[m].contract => k = m
    <3> HIDE DEF S
    <3> QED BY <2>1, <2>3
  <2>5. ASSUME NEW k \in DOMAIN S, NEW a \in DOMAIN S[k].args, S[k].args[a].kind = "local"
        PROVE  \E m \in 1 .. k - 1 : S[k].args[a].of = S[m].contract
    <3> HIDE DEF S
    <3>1. k # 1
      <4>1. \A b \in DOMAIN x.args : x.args[b].kind # "local"
        <5>1. Literal.kind # "local" /\ Setting.kind # "local"
          BY DEF Literal, Setting
        <5>2. x.args = <<Literal, Setting>>
          BY <2>1
        <5> QED BY <5>1, <5>2
      <4> QED BY <2>3, <2>5, <4>1
    <3>2. CASE k = 2
      BY <2>1, <2>3, <2>5, <3>2 DEF Local, Companion
    <3> QED BY <2>3, <3>1, <3>2
  <2> QED BY <2>2, <2>4, <2>5
<1> QED BY <1>2, <1>3

\* What a run for L1 has, as long as it, the contracts on L2, code and setting stay.
LEMMA RunStays ==
  ASSUME DeploymentInv, UNCHANGED package, DOMAIN run' = Networks, DOMAIN saved' = Networks,
         changed' \in BOOLEAN, changed' \/ (~changed /\ UNCHANGED <<saved, code, setting>>),
         run'["l1"] = run["l1"]
  PROVE  DeploymentInv'
<1>1. UNCHANGED Scripts("l1")
  BY DEF Scripts
<1>2. ASSUME ~changed' PROVE \A arg : UNCHANGED <<Found("l1", arg), Argument("l1", arg)>>
  BY <1>2 DEF Found, Argument
<1>3. ASSUME NEW k, After(k) PROVE After(k)'
  <2>1. ASSUME ~changed' PROVE \A m : UNCHANGED IsCurrent(m)
    BY <1>1, <1>2, <2>1 DEF IsCurrent
  <2>2. ~changed' => ~changed
    OBVIOUS
  <2> QED BY <1>1, <1>2, <1>3, <2>1, <2>2 DEF After
<1>4. OneRunIsEnough'
  BY <1>1, <1>2 DEF DeploymentInv, OneRunIsEnough, Current
<1> QED BY <1>1, <1>3, <1>4 DEF DeploymentInv

\* A run for L1 that has failed has nothing to show.
LEMMA ThrowKeeps ==
  ASSUME DeploymentInv, UNCHANGED <<package, saved>>, changed' \in BOOLEAN, Throw("l1")
  PROVE  DeploymentInv'
BY DEF DeploymentInv, Throw, Goto, NoRun, OneRunIsEnough, Networks

\* Nor has one that starts.
LEMMA StartKeeps ==
  ASSUME DeploymentInv, Start("l1") PROVE DeploymentInv'
<1>1. /\ UNCHANGED <<package, saved>> /\ DOMAIN run' = Networks
      /\ run'["l1"] = [pc |-> "read", todo |-> Scripts("l1"), args |-> <<>>]
      /\ changed' = FALSE
  BY DEF Start, Goto, DeploymentInv, Networks
<1>2. UNCHANGED Scripts("l1")
  BY <1>1 DEF Scripts
<1>3. PICK S : Scripts("l1") \in Seq(S)
  BY ScriptFacts DEF DeploymentInv
<1>4. SubSeq(Scripts("l1"), 1, Len(Scripts("l1"))) = Scripts("l1") /\ Len(Scripts("l1")) \in Nat
  BY <1>3
<1>5. After(0)'
  BY <1>1, <1>2, <1>4 DEF After
<1>6. run'["l1"].pc = "read" /\ DOMAIN run'["l1"] = {"pc", "todo", "args"}
  BY <1>1
<1>7. (\E k \in 0 .. Len(Scripts("l1")) : After(k))'
  <2>1. 0 \in 0 .. Len(Scripts("l1"))'
    BY <1>2, <1>4
  <2> QED BY <1>5, <2>1
<1>8. OneRunIsEnough'
  BY <1>6 DEF OneRunIsEnough
<1> QED BY <1>1, <1>6, <1>7, <1>8 DEF DeploymentInv

\* The script that is next, and those after it.
LEMMA NextScript ==
  ASSUME DeploymentInv, run["l1"].pc \in {"read", "deploy"},
         run["l1"].pc = "read" => run["l1"].todo # <<>>
  PROVE  \E k \in 0 .. Len(Scripts("l1")) - 1 :
           /\ After(k) /\ First("l1") = Scripts("l1")[k + 1]
           /\ Tail(run["l1"].todo) = SubSeq(Scripts("l1"), k + 2, Len(Scripts("l1")))
<1> DEFINE S == Scripts("l1")
<1>1. PICK T : S \in Seq(T)
  BY ScriptFacts DEF DeploymentInv
<1>2. PICK k \in 0 .. Len(S) : After(k)
  BY DEF DeploymentInv
<1>3. run["l1"].todo = SubSeq(S, k + 1, Len(S))
  BY <1>2 DEF After
<1>4. k < Len(S)
  <2>1. k = Len(S) => run["l1"].todo = <<>>
    <3> HIDE DEF S
    <3> QED BY <1>1, <1>3
  <2> QED BY <1>1, <1>2, <2>1 DEF After
<1>5. Head(run["l1"].todo) = S[k + 1] /\ Tail(run["l1"].todo) = SubSeq(S, k + 2, Len(S))
  <2> HIDE DEF S
  <2>1. ASSUME NEW todo, todo = SubSeq(S, k + 1, Len(S))
        PROVE  Head(todo) = S[k + 1] /\ Tail(todo) = SubSeq(S, k + 2, Len(S))
    <3>1. todo \in Seq(T) /\ Len(todo) = Len(S) - k /\ Len(todo) # 0
      BY <1>1, <1>4, <2>1
    <3>0. todo # <<>>
      BY <3>1
    <3>2. /\ Tail(todo) \in Seq(T) /\ SubSeq(S, k + 2, Len(S)) \in Seq(T)
          /\ Len(Tail(todo)) = Len(S) - k - 1 /\ Len(SubSeq(S, k + 2, Len(S))) = Len(S) - k - 1
      BY <1>1, <1>4, <3>0, <3>1
    <3>3. \A m \in 1 .. Len(S) - k - 1 : Tail(todo)[m] = SubSeq(S, k + 2, Len(S))[m]
      BY <1>1, <1>4, <2>1, <3>0, <3>1
    <3>4. Head(todo) = S[k + 1]
      BY <1>1, <1>4, <2>1, <3>0, <3>1
    <3> QED BY <3>2, <3>3, <3>4, SeqEq
  <2> QED BY <1>3, <2>1
<1> QED BY <1>1, <1>2, <1>4, <1>5 DEF First

\* A script that is read gets the arguments that are current.
LEMMA ReadKeeps ==
  ASSUME DeploymentInv, ReadArguments("l1") PROVE DeploymentInv'
<1> DEFINE args == First("l1").args
<1>1. CASE Throw("l1")
  BY <1>1, ThrowKeeps DEF ReadArguments, DeploymentInv
<1>2. CASE ~Throw("l1")
  <2>1. /\ UNCHANGED <<package, setting, code, saved, changed>> /\ run["l1"].pc = "read"
        /\ run["l1"].todo # <<>> /\ \A a \in DOMAIN args : Found("l1", args[a])
        /\ run' = [run EXCEPT !["l1"] = [run["l1"] EXCEPT !.pc = "deploy",
                     !.args = [a \in DOMAIN args |-> Argument("l1", args[a])]]]
    BY <1>2 DEF ReadArguments, Missing, Goto
  <2>2. PICK k \in 0 .. Len(Scripts("l1")) - 1 :
          After(k) /\ First("l1") = Scripts("l1")[k + 1]
    BY <2>1, NextScript
  <2>3. /\ DOMAIN run' = Networks /\ DOMAIN run'["l1"] = {"pc", "todo", "args"}
        /\ run'["l1"].pc = "deploy" /\ run'["l1"].todo = run["l1"].todo
        /\ run'["l1"].args = [a \in DOMAIN args |-> Argument("l1", args[a])]
    BY <2>1 DEF DeploymentInv, Networks
  <2>4. UNCHANGED Scripts("l1") /\ \A arg : UNCHANGED <<Found("l1", arg), Argument("l1", arg)>>
    BY <2>1 DEF Scripts, Found, Argument
  <2>5. After(k)'
    BY <2>1, <2>2, <2>3, <2>4 DEF After, IsCurrent
  <2>6. OneRunIsEnough'
    BY <2>3 DEF OneRunIsEnough
  <2> QED BY <2>1, <2>2, <2>3, <2>4, <2>5, <2>6, ScriptFacts DEF DeploymentInv
<1> QED BY <1>1, <1>2

\* A script is done with, and what it deploys is current.
LEMMA ProceedKeeps ==
  ASSUME DeploymentInv, Proceed("l1"), UNCHANGED <<package, setting, code, changed>>,
         DOMAIN saved' = Networks, NEW k \in 0 .. Len(Scripts("l1")) - 1,
         Tail(run["l1"].todo) = SubSeq(Scripts("l1"), k + 2, Len(Scripts("l1"))),
         ~changed => \A m \in 1 .. k + 1 : IsCurrent(m)'
  PROVE  DeploymentInv'
<1>1. /\ DOMAIN run' = Networks
      /\ run'["l1"] = [pc |-> "read", todo |-> Tail(run["l1"].todo), args |-> <<>>]
  BY DEF Proceed, Goto, DeploymentInv, Networks
<1>2. UNCHANGED Scripts("l1") /\ Len(Scripts("l1")) \in Nat
  BY ScriptFacts DEF Scripts, DeploymentInv
<1>3. After(k + 1)'
  BY <1>1, <1>2 DEF After
<1> QED BY <1>1, <1>2, <1>3 DEF DeploymentInv, OneRunIsEnough

\* A contract that is there with the current code and arguments is current.
LEMMA ReuseKeeps ==
  ASSUME DeploymentInv, Reuse("l1") PROVE DeploymentInv'
<1>1. /\ UNCHANGED <<package, setting, code, saved, changed>> /\ run["l1"].pc = "deploy"
      /\ Proceed("l1") /\ Reuses("l1", First("l1").contract)
  BY DEF Reuse
<1>2. PICK k \in 0 .. Len(Scripts("l1")) - 1 :
        /\ After(k) /\ First("l1") = Scripts("l1")[k + 1]
        /\ Tail(run["l1"].todo) = SubSeq(Scripts("l1"), k + 2, Len(Scripts("l1")))
  BY <1>1, NextScript
<1>3. UNCHANGED Scripts("l1") /\ \A arg : UNCHANGED <<Found("l1", arg), Argument("l1", arg)>>
  BY <1>1 DEF Scripts, Found, Argument
<1>4. ASSUME ~changed, NEW m \in 1 .. k + 1 PROVE IsCurrent(m)
  <2>1. CASE m \in 1 .. k
    BY <1>2, <1>4, <2>1 DEF After
  <2>2. CASE m = k + 1
    BY <1>1, <1>2, <1>4, <2>2 DEF After, IsCurrent, Reuses
  <2> QED BY <2>1, <2>2
<1>5. ASSUME ~changed, NEW m \in 1 .. k + 1 PROVE IsCurrent(m)'
  BY <1>1, <1>3, <1>4, <1>5 DEF IsCurrent
<1> QED BY <1>1, <1>2, <1>5, ProceedKeeps DEF DeploymentInv

\* A contract that is deployed is current, and is not one that another refers to.
LEMMA DeployKeeps ==
  ASSUME DeploymentInv, DeployContract("l1") PROVE DeploymentInv'
<1> DEFINE S == Scripts("l1")
           c == First("l1").contract
           new == [address |-> deployed', code |-> code[c], args |-> run["l1"].args]
<1>1. /\ UNCHANGED <<package, setting, code, changed>>
      /\ run["l1"].pc = "deploy" /\ Proceed("l1")
      /\ DOMAIN saved' = Networks /\ saved'["l2"] = saved["l2"]
      /\ saved'["l1"] = [d \in DOMAIN saved["l1"] \cup {c} |-> IF d = c THEN new ELSE saved["l1"][d]]
  BY DEF DeployContract, DeploymentInv, Networks
<1>2. PICK k \in 0 .. Len(S) - 1 :
        /\ After(k) /\ First("l1") = S[k + 1]
        /\ Tail(run["l1"].todo) = SubSeq(S, k + 2, Len(S))
  BY <1>1, NextScript
<1>3. UNCHANGED S
  BY <1>1 DEF Scripts
<1>4. Len(S) \in Nat /\ DOMAIN S = 1 .. Len(S)
  BY ScriptFacts DEF DeploymentInv
<1>5. ASSUME NEW m \in 1 .. k + 1, NEW a \in DOMAIN S[m].args, Found("l1", S[m].args[a])
      PROVE  UNCHANGED <<Found("l1", S[m].args[a]), Argument("l1", S[m].args[a])>>
  <2>1. S[m].args[a].kind = "local" => S[m].args[a].of # c
    <3> SUFFICES ASSUME S[m].args[a].kind = "local" PROVE S[m].args[a].of # c
      OBVIOUS
    <3>1. PICK q \in 1 .. m - 1 : S[m].args[a].of = S[q].contract
      <4>1. m \in DOMAIN S /\ package \in {"op", "arb", "resolver"}
        BY <1>2, <1>4 DEF DeploymentInv
      <4> HIDE DEF c, new
      <4> QED BY <4>1, ScriptFacts
    <3>2. q \in DOMAIN S /\ k + 1 \in DOMAIN S /\ q # k + 1 /\ c = S[k + 1].contract
      BY <1>2, <1>4
    <3> QED BY <3>1, <3>2, ScriptFacts DEF DeploymentInv
  <2> QED BY <1>1, <1>3, <1>5, <2>1 DEF Found, Argument
<1>6. ASSUME ~changed, NEW m \in 1 .. k + 1 PROVE IsCurrent(m)'
  <2>1. CASE m \in 1 .. k
    <3>1. S[m].contract # c
      BY <1>2, <1>4, <2>1, ScriptFacts DEF DeploymentInv
    <3>2. IsCurrent(m)
      BY <1>2, <1>6, <2>1 DEF After
    <3> HIDE DEF c, new
    <3> QED BY <1>1, <1>3, <1>5, <3>1, <3>2 DEF IsCurrent
  <2>2. CASE m = k + 1
    <3>1. /\ c = S[m].contract
          /\ run["l1"].args = [a \in DOMAIN S[m].args |-> Argument("l1", S[m].args[a])]
          /\ \A a \in DOMAIN S[m].args : Found("l1", S[m].args[a])
      BY <1>1, <1>2, <1>6, <2>2 DEF After
    <3>2. saved'["l1"][c] = new /\ c \in DOMAIN saved'["l1"]
      BY <1>1
    <3>3. new.code = code[c] /\ new.args = run["l1"].args
      OBVIOUS
    <3> HIDE DEF c, new
    <3> QED BY <1>1, <1>3, <1>5, <3>1, <3>2, <3>3 DEF IsCurrent
  <2> QED BY <2>1, <2>2
<1> QED BY <1>1, <1>2, <1>6, ProceedKeeps DEF DeploymentInv

\* When all scripts are done with, all they deploy is current.
LEMMA DoneKeeps ==
  ASSUME DeploymentInv, Done("l1") PROVE DeploymentInv'
<1>1. /\ UNCHANGED <<package, setting, code, saved, changed>> /\ DOMAIN run' = Networks
      /\ run'["l1"] = [NoRun EXCEPT !.pc = "done"]
      /\ run["l1"].pc = "read" /\ run["l1"].todo = <<>>
  BY DEF Done, Goto, DeploymentInv, Networks
<1>2. /\ UNCHANGED Scripts("l1") /\ \A arg : UNCHANGED <<Found("l1", arg), Argument("l1", arg)>>
      /\ DOMAIN Scripts("l1") = 1 .. Len(Scripts("l1")) /\ Len(Scripts("l1")) \in Nat
  <2>1. DOMAIN Scripts("l1") = 1 .. Len(Scripts("l1")) /\ Len(Scripts("l1")) \in Nat
    BY ScriptFacts DEF DeploymentInv
  <2> QED BY <1>1, <2>1 DEF Scripts, Found, Argument
<1>3. PICK k \in 0 .. Len(Scripts("l1")) : After(k)
  BY <1>1 DEF DeploymentInv
<1>4. k = Len(Scripts("l1"))
  <2> DEFINE S == Scripts("l1")
  <2>1. PICK T : S \in Seq(T)
    BY ScriptFacts DEF DeploymentInv
  <2>2. SubSeq(S, k + 1, Len(S)) = <<>>
    BY <1>1, <1>3 DEF After
  <2>3. Len(SubSeq(S, k + 1, Len(S))) = Len(S) - k /\ Len(<<>>) = 0
    <3>1. k \in 0 .. Len(S) /\ Len(S) \in Nat
      BY <1>2
    <3> HIDE DEF S
    <3> QED BY <2>1, <3>1
  <2>4. Len(S) - k = 0 /\ Len(S) \in Nat
    <3>1. Len(S) - k = Len(<<>>)
      <4> HIDE DEF S
      <4> QED BY <2>2, <2>3
    <3> QED BY <1>2, <2>3, <3>1
  <2> QED BY <2>4
<1>5. ~changed => Current'
  <2>1. ~changed => \A m \in DOMAIN Scripts("l1") : IsCurrent(m)
    BY <1>2, <1>3, <1>4 DEF After
  <2> QED BY <1>1, <1>2, <2>1 DEF IsCurrent, Current
<1>6. run'["l1"].pc = "done" /\ DOMAIN run'["l1"] = {"pc", "todo", "args"}
  BY <1>1 DEF NoRun
<1> QED BY <1>1, <1>5, <1>6 DEF DeploymentInv, OneRunIsEnough

(***************************************************************************)
(* deploy_l1: once a run has ended well, and nothing changed meanwhile,    *)
(* every contract on L1 is of the current code and refers to the contracts *)
(* and addresses there are, after any runs and failures before.            *)
(***************************************************************************)
THEOREM RunIsEnough == DeploySpec => []OneRunIsEnough
<1>1. DeployInit => DeploymentInv
  <2> SUFFICES ASSUME DeployInit PROVE DeploymentInv
    OBVIOUS
  <2>1. run["l1"] = NoRun
    BY DEF DeployInit, Networks
  <2> QED BY <2>1, DeploymentAssumption DEF DeployInit, DeploymentInv, NoRun, OneRunIsEnough
<1>2. DeploymentInv /\ [DeployNext]_deployVars => DeploymentInv'
  <2> SUFFICES ASSUME DeploymentInv, [DeployNext]_deployVars PROVE DeploymentInv'
    OBVIOUS
  <2>1. CASE Edit \/ UNCHANGED deployVars
    <3>1. /\ UNCHANGED <<package, saved, run>> /\ changed' \in BOOLEAN
          /\ changed' \/ (~changed /\ UNCHANGED <<saved, code, setting>>)
      BY <2>1 DEF Edit, deployVars, DeploymentInv
    <3>2. DOMAIN run' = Networks /\ DOMAIN saved' = Networks /\ run'["l1"] = run["l1"]
      BY <3>1 DEF DeploymentInv
    <3> QED BY <3>1, <3>2, RunStays
  <2>2. CASE Step("l2") \/ TransactionFails("l2")
    <3>1. /\ UNCHANGED package /\ DOMAIN run' = Networks /\ run'["l1"] = run["l1"]
          /\ DOMAIN saved' = Networks /\ changed' \in BOOLEAN
          /\ changed' \/ (~changed /\ UNCHANGED <<saved, code, setting>>)
      BY <2>2 DEF Step, Continue, Start, ReadArguments, Missing, Reuse, Refuse, DeployContract, Done,
                  TransactionFails,
                  Throw, Proceed, Goto, DeploymentInv, Networks
    <3> QED BY <3>1, RunStays
  <2>3. CASE Refuse("l1") \/ TransactionFails("l1")
    BY <2>3, ThrowKeeps DEF Refuse, TransactionFails, DeploymentInv
  <2>4. CASE Step("l1")
    BY <2>3, <2>4, StartKeeps, ReadKeeps, ReuseKeeps, DeployKeeps, DoneKeeps
    DEF Step, Continue
  <2> QED BY <2>1, <2>2, <2>3, <2>4 DEF DeployNext, Networks
<1>3. DeploymentInv => OneRunIsEnough
  BY DEF DeploymentInv
<1> QED BY <1>1, <1>2, <1>3, PTL DEF DeploySpec
================================================================================
