------------------------- MODULE EVMProofHelper_proofs -------------------------
(***************************************************************************)
(* Proofs that getStorageValues is type correct and sound, whatever the    *)
(* storage, the request and the state proof are.                           *)
(***************************************************************************)
EXTENDS EVMProofHelper, FiniteSetTheorems, WellFoundedInduction, TLAPS

-----------------------------------------------------------------------------
(* Induction and recursion over numbers, with sets in the place of formulas. *)

\* A set of numbers that is closed under successors has them all.
LEMMA SetInduction ==
  ASSUME NEW S, 0 \in S, \A n \in Nat : n \in S => n + 1 \in S
  PROVE  Nat \subseteq S
<1> SUFFICES ASSUME NEW b \in Nat \ S PROVE FALSE
  OBVIOUS
<1> DEFINE T == {0 .. k : k \in Nat \ S}
<1>1. T \subseteq FiniteSubsetsOf(Nat) /\ T # {}
  <2>1. \A k \in Nat : IsFiniteSet(0 .. k) /\ 0 .. k \in SUBSET Nat
    BY FS_Interval
  <2> QED BY <2>1 DEF FiniteSubsetsOf
<1>2. \E x \in T : \A y \in T : <<y, x>> \notin StrictSubsetOrdering(Nat)
  <2> HIDE DEF T
  <2> QED BY <1>1, FS_StrictSubsetOrderingWellFounded, WFMin
<1>3. PICK k \in Nat \ S : \A l \in Nat \ S : <<0 .. l, 0 .. k>> \notin StrictSubsetOrdering(Nat)
  BY <1>2
<1>4. k - 1 \in Nat \ S /\ 0 .. k - 1 \in SUBSET Nat /\ 0 .. k \in SUBSET Nat
  OBVIOUS
<1>5. 0 .. k - 1 \subseteq 0 .. k /\ k \in 0 .. k /\ k \notin 0 .. k - 1
  OBVIOUS
<1> QED BY <1>3, <1>4, <1>5 DEF StrictSubsetOrdering

\* f[0], ..., f[n] are what the steps g[1], ..., g[n] make of a.
Iterates(f, n, S, a, g) ==
  f \in [0 .. n -> S] /\ f[0] = a /\ \A k \in 1 .. n : f[k] = g[k][f[k - 1]]

\* A recursion over 0 .. n has a solution.
LEMMA Recursion ==
  ASSUME NEW n \in Nat, NEW S, NEW a \in S, NEW g \in [1 .. n -> [S -> S]]
  PROVE  \E f : Iterates(f, n, S, a, g)
<1> DEFINE M == {m \in Nat : m <= n => \E f : Iterates(f, m, S, a, g)}
<1>1. 0 \in M
  <2>1. Iterates([k \in 0 .. 0 |-> a], 0, S, a, g)
    BY DEF Iterates
  <2> QED BY <2>1
<1>2. ASSUME NEW m \in Nat, m \in M PROVE m + 1 \in M
  <2>1. SUFFICES ASSUME m + 1 <= n PROVE \E f : Iterates(f, m + 1, S, a, g)
    OBVIOUS
  <2>2. PICK f : Iterates(f, m, S, a, g)
    BY <1>2, <2>1
  <2>3. m + 1 \in 1 .. n /\ f[m] \in S
    BY <2>1, <2>2 DEF Iterates
  <2> DEFINE h == [k \in 0 .. m + 1 |-> IF k = m + 1 THEN g[m + 1][f[m]] ELSE f[k]]
  <2>4. Iterates(h, m + 1, S, a, g)
    BY <2>1, <2>2, <2>3 DEF Iterates
  <2> QED BY <2>4
<1>3. n \in M
  <2> HIDE DEF M
  <2> QED BY <1>1, <1>2, SetInduction
<1> QED BY <1>3

-----------------------------------------------------------------------------
(* Words, slots and the command language.                                  *)

\* Sizes are numbers, and words are byte strings of WordSize bytes.
LEMMA ByteFacts ==
  /\ WordSize \in Nat /\ WordSize >= 3 /\ ByteBase \in Nat \ {0}
  /\ OperandSpan \in Nat \ {0} /\ WordSize < ByteBase
  /\ <<>> \in Bytes /\ ZeroWord \in Bytes /\ Len(ZeroWord) = WordSize
  /\ Word \subseteq Bytes /\ \A w \in Word : Len(w) = WordSize
BY SizeAssumption DEF Bytes, Byte, Word, ZeroWord

\* What a storage trie holds, and the word it stands for.
LEMMA TrieFacts ==
  ASSUME NEW root \in StorageRoots, NEW s
  PROVE  /\ Trie(root, s) \in Bytes /\ Len(Trie(root, s)) \in 0 .. WordSize
         /\ Cell(root, s) \in Word
         /\ Len(Trie(root, s)) = WordSize => Cell(root, s) = Trie(root, s)
<1>1. Trie(root, s) \in Bytes /\ Len(Trie(root, s)) \in 0 .. WordSize
  BY StoreAssumption, ByteFacts DEF Trie, Bytes
<1>2. ASSUME NEW v \in Bytes, Len(v) \in 0 .. WordSize
      PROVE  /\ LeftPad(v) \in Word
             /\ Len(v) = WordSize => LeftPad(v) = v
  BY <1>2, ByteFacts DEF LeftPad, Word, Bytes, Byte
<1> QED BY <1>1, <1>2 DEF Cell

\* The last byte of a word is its low byte, and tells whether it is odd.
LEMMA NumFacts ==
  ASSUME NEW w \in Word
  PROVE  /\ Num(w) \in Nat
         /\ w[WordSize] = Num(w) % ByteBase /\ w[WordSize] % 2 = Num(w) % 2
<1> DEFINE g == [k \in 1 .. WordSize |-> [v \in Nat |-> v * ByteBase + w[k]]]
<1>1. /\ Len(w) = WordSize /\ WordSize \in Nat \ {0} /\ ByteBase \in Nat \ {0}
      /\ \A k \in 1 .. WordSize : w[k] \in 0 .. ByteBase - 1
  BY ByteFacts DEF Word, Byte
<1>2. g \in [1 .. WordSize -> [Nat -> Nat]]
  <2>1. ASSUME NEW k \in 1 .. WordSize, NEW v \in Nat PROVE v * ByteBase + w[k] \in Nat
    BY <1>1
  <2> QED BY <2>1
<1>3. PICK f : Iterates(f, WordSize, Nat, 0, g)
  <2> HIDE DEF g
  <2> QED BY <1>1, <1>2, Recursion
<1>4. /\ f \in [0 .. WordSize -> Nat] /\ f[0] = 0
      /\ \A k \in 1 .. WordSize : f[k] = f[k - 1] * ByteBase + w[k]
  <2>1. \A k \in 1 .. WordSize : f[k - 1] \in Nat /\ f[k] = g[k][f[k - 1]]
    <3> HIDE DEF g
    <3>1. \A k \in 1 .. WordSize : k - 1 \in 0 .. WordSize
      BY <1>1
    <3> QED BY <1>3, <3>1 DEF Iterates
  <2> QED BY <1>3, <2>1 DEF Iterates
<1> DEFINE Sol(num) ==
             num = [k \in 0 .. WordSize |-> IF k = 0 THEN 0 ELSE num[k - 1] * ByteBase + w[k]]
<1>5. Sol(f)
  <2>1. \A k \in 0 .. WordSize : f[k] = IF k = 0 THEN 0 ELSE f[k - 1] * ByteBase + w[k]
    BY <1>1, <1>4
  <2> QED BY <1>4, <2>1
<1>6. PICK num : Sol(num) /\ Num(w) = num[WordSize]
  <2>1. Num(w) = (CHOOSE num : Sol(num))[WordSize]
    BY <1>1 DEF Num
  <2> QED BY <1>5, <2>1
<1> DEFINE K == {k \in Nat : k <= WordSize => num[k] \in Nat}
<1>7. 0 \in K /\ \A k \in Nat : k \in K => k + 1 \in K
  <2>1. 0 \in K
    BY <1>1, <1>6
  <2>2. ASSUME NEW k \in Nat, k + 1 <= WordSize, num[k] \in Nat PROVE num[k + 1] \in Nat
    <3>1. num[k + 1] = num[k] * ByteBase + w[k + 1] /\ k + 1 \in 1 .. WordSize
      BY <1>1, <1>6, <2>2
    <3>2. num[k] * ByteBase \in Nat /\ w[k + 1] \in Nat
      BY <1>1, <2>2, <3>1
    <3> QED BY <3>1, <3>2
  <2> QED BY <1>1, <2>1, <2>2
<1>8. num[WordSize - 1] \in Nat /\ w[WordSize] \in 0 .. ByteBase - 1
  <2>1. Nat \subseteq K
    <3> HIDE DEF K
    <3> QED BY <1>7, SetInduction
  <2> QED BY <1>1, <2>1
<1>9. num[WordSize] = num[WordSize - 1] * ByteBase + w[WordSize]
  BY <1>1, <1>6
<1>10. ASSUME NEW v \in Nat, NEW b \in 0 .. ByteBase - 1
       PROVE  /\ v * ByteBase + b \in Nat
              /\ (v * ByteBase + b) % ByteBase = b /\ (v * ByteBase + b) % 2 = b % 2
  <2>1. v * ByteBase \in Nat /\ (v * ByteBase + b) % ByteBase = b
    BY <1>1
  <2>2. v * ByteBase = 2 * (4 * (v * OperandSpan)) /\ 4 * (v * OperandSpan) \in Nat
    BY SizeAssumption
  <2> QED BY <2>1, <2>2
<1>11. PICK v \in Nat, b \in 0 .. ByteBase - 1 : Num(w) = v * ByteBase + b /\ b = w[WordSize]
  <2> HIDE DEF Sol
  <2> QED BY <1>6, <1>8, <1>9
<1> QED BY ONLY <1>10, <1>11

\* The head word of a dynamic value, read as a number and as bytes.
LEMMA HeadFacts ==
  ASSUME NEW root \in StorageRoots, NEW s
  PROVE  /\ Num(Cell(root, s)) \in Nat
         /\ Cell(root, s)[WordSize] = Num(Cell(root, s)) % ByteBase
         /\ Cell(root, s)[WordSize] % 2 = Num(Cell(root, s)) % 2
BY TrieFacts, NumFacts

\* What an instruction pushes is a byte string.
LEMMA ArgumentType ==
  ASSUME NEW op \in Byte, NEW consts \in Seq(Bytes), NEW vals \in Seq(Bytes),
         \/ Opcode(op) = OP_CONSTANT /\ Operand(op) < Len(consts)
         \/ Opcode(op) = OP_BACKREF /\ Operand(op) < Len(vals)
  PROVE  Argument(op, consts, vals) \in Bytes
<1>1. OP_BACKREF # OP_CONSTANT /\ Operand(op) \in Nat
  BY ByteFacts DEF OP_BACKREF, OP_CONSTANT, Operand, Byte
<1> QED BY <1>1 DEF Argument

\* The hashing loop stops at EndAt and nowhere else.
LEMMA EndAtUnique ==
  ASSUME NEW c, NEW n \in 2 .. WordSize, ~More(c, n), \A k \in 2 .. n - 1 : More(c, k)
  PROVE  EndAt(c) = n
<1> DEFINE P(m) == ~More(c, m) /\ \A k \in 2 .. m - 1 : More(c, k)
<1>1. EndAt(c) \in 2 .. WordSize /\ P(EndAt(c))
  <2>1. \E m \in 2 .. WordSize : P(m)
    OBVIOUS
  <2> QED BY <2>1 DEF EndAt
<1>2. ASSUME NEW a \in 2 .. WordSize, NEW b \in 2 .. WordSize, P(a), P(b)
      PROVE  ~(a < b)
  BY <1>2, ByteFacts
<1> QED BY <1>1, <1>2, ByteFacts

\* The slot of a command depends only on the values it may refer to.
LEMMA SlotStable ==
  ASSUME NEW c \in Command, EndAt(c) \in 2 .. WordSize, NEW n \in Nat,
         NEW consts, NEW vals, NEW vals2, WellFormed(c, consts, n),
         \A m \in 1 .. n : vals[m] = vals2[m]
  PROVE  SlotOf(c, consts, vals) = SlotOf(c, consts, vals2)
<1>1. ASSUME NEW k \in 1 .. EndAt(c) - 1
      PROVE  Argument(c[k], consts, vals) = Argument(c[k], consts, vals2)
  <2>1. c[k] \in Byte
    BY ByteFacts DEF Command
  <2>2. Operand(c[k]) \in Nat /\ OP_BACKREF # OP_CONSTANT
    BY <2>1, ByteFacts DEF Operand, OP_BACKREF, OP_CONSTANT, Byte
  <2> QED BY <2>2 DEF WellFormed, Argument
<1> QED BY <1>1 DEF SlotOf

\* The byte at position n of a long value is in data word q, counted from 0.
LEMMA WordOfByte ==
  ASSUME NEW n \in Nat, NEW q \in Nat, q * WordSize < n, n <= q * WordSize + WordSize
  PROVE  (n - 1) \div WordSize = q /\ 1 + ((n - 1) % WordSize) = n - q * WordSize
BY ByteFacts

-----------------------------------------------------------------------------
(* The inductive invariant.                                                *)

InAccount == vpc \in {"command", "path", "chunk", "returned"} => storageRoot \in StorageRoots

\* In the hashing loop, slot is the hash of the instructions before j.
OnPath ==
  vpc = "path" =>
    /\ i < Len(commands) /\ j >= 2
    /\ slot = [path |-> [k \in 1 .. j - 1 |-> Argument(command[k], constants, values)],
               off |-> 0]
    /\ \A k \in 2 .. j - 1 : More(command, k)

\* In the loop over a long value, with s the slot of the head word: value
\* holds the first bytes of the data and slot is where the next ones are.
InChunk ==
  vpc = "chunk" =>
    LET s == SlotOf(command, constants, values)
        total == LongLength(Cell(storageRoot, s))
    IN  /\ i < Len(commands) /\ EndAt(command) \in 2 .. WordSize
        /\ IsDynamic(command) /\ IsLong(Cell(storageRoot, s))
        /\ slot.path = Append(s.path, <<>>)
        /\ WholeWords(storageRoot, s) =>
             /\ Len(value) + length = total
             /\ length > 0 => Len(value) = slot.off * WordSize
             /\ \A n \in 1 .. Len(value) :
                  value[n] = Cell(storageRoot, DataSlot(s, (n - 1) \div WordSize))
                               [1 + ((n - 1) % WordSize)]

\* The hashing loop ended within the word of every command done with.
Ended == \A k \in 1 .. i : EndAt(commands[k]) \in 2 .. WordSize

IInv == Typed /\ InAccount /\ OnPath /\ InChunk /\ Ended /\ Sound

-----------------------------------------------------------------------------
(* The initial states.                                                     *)

\* The invariant holds when getStorageValues is called, whatever the proof is.
LEMMA CallInv ==
  ASSUME commands \in Seq(Command), constants \in Seq(Bytes), stateRoot \in StateRoots,
         vpc = "account", NewLocals
  PROVE  IInv
<1>1. slot \in Slot
  BY ByteFacts DEF NewLocals, BaseSlot, Slot
<1>2. values \in Seq(Bytes) /\ Len(values) = Len(commands)
  BY ByteFacts DEF NewLocals
<1>3. Typed
  BY <1>1, <1>2, ByteFacts DEF NewLocals, Typed
<1> QED BY <1>3 DEF NewLocals, IInv, InAccount, OnPath, InChunk, Ended, Sound

\* The initial states satisfy the invariant.
LEMMA InitInv == Init => IInv /\ proof \in StateProof
<1> SUFFICES ASSUME Init PROVE IInv /\ proof \in StateProof
  OBVIOUS
<1>1. \E p \in Program : commands = p.commands /\ constants = p.constants
  BY InputAssumption DEF Init
<1>2. commands \in Seq(Command) /\ constants \in Seq(Bytes)
  BY <1>1 DEF Program
<1> QED BY <1>2, CallInv, InputAssumption DEF Init

-----------------------------------------------------------------------------
(* The steps, grouped by what they do to the results.                      *)

\* The account stays proven.
LEMMA Opened ==
  ASSUME IInv, UNCHANGED inputs, vpc \notin {"account", "reverted"}
  PROVE  InAccount'
BY DEF IInv, Typed, InAccount, inputs, storageRoot

\* A step that keeps the request, the results and the position.
LEMMA SameResults ==
  ASSUME IInv, UNCHANGED <<inputs, values, i>>
  PROVE  Ended' /\ Sound'
BY DEF IInv, Ended, Sound, Authentic, inputs, storageRoot

\* A revert keeps the invariant.
LEMMA RevertInv == ASSUME IInv, Revert PROVE IInv'
<1>1. UNCHANGED <<inputs, locals>> /\ vpc' = "reverted"
  BY DEF Revert
<1>2. Typed'
  BY <1>1 DEF IInv, Typed, inputs, locals
<1>3. InAccount' /\ OnPath' /\ InChunk'
  BY <1>1 DEF InAccount, OnPath, InChunk
<1> QED BY <1>1, <1>2, <1>3, SameResults DEF IInv, locals

\* A command is done: its result is what the state holds at its slot.
LEMMA StoreInv ==
  ASSUME IInv, i < Len(commands), vpc \in {"path", "chunk"}, UNCHANGED <<inputs, j>>,
         NEW v \in Bytes, Store_i(v),
         slot' \in Slot, value' \in Bytes, length' \in Nat, proofIdx' \in Nat,
         EndAt(command) \in 2 .. WordSize,
         LET s == SlotOf(command, constants, values)
         IN  /\ WellFormed(command, constants, i)
             /\ IsDynamic(command) => WholeWords(storageRoot, s)
             => v = Value(storageRoot, s, IsDynamic(command))
  PROVE  IInv'
<1> USE DEF Store_i, inputs
<1>1. Typed'
  BY DEF IInv, Typed
<1>2. OnPath' /\ InChunk'
  BY DEF OnPath, InChunk
<1>3. InAccount'
  BY Opened
<1>4. Ended'
  BY DEF IInv, Ended, Typed, command
<1>5. ASSUME NEW k \in 1 .. i + 1
      PROVE  /\ WellFormed(commands[k], constants, k - 1) =>
                  SlotOf(commands[k], constants, values') = SlotOf(commands[k], constants, values)
             /\ k # i + 1 => values'[k] = values[k]
  <2>1. commands[k] \in Command /\ EndAt(commands[k]) \in 2 .. WordSize
    BY DEF IInv, Ended, Typed, command
  <2>2. \A m \in 1 .. Len(commands) : m # i + 1 => values'[m] = values[m]
    BY DEF IInv, Typed
  <2>3. \A m \in 1 .. k - 1 : values'[m] = values[m]
    BY <2>2 DEF IInv, Typed
  <2>4. k - 1 \in Nat /\ (k # i + 1 => values'[k] = values[k])
    BY <2>2 DEF IInv, Typed
  <2>5. WellFormed(commands[k], constants, k - 1) =>
          SlotOf(commands[k], constants, values) = SlotOf(commands[k], constants, values')
    <3> SUFFICES ASSUME NEW c, c = commands[k], NEW n, n = k - 1, NEW vals2, vals2 = values',
                        WellFormed(c, constants, n)
                 PROVE  SlotOf(c, constants, values) = SlotOf(c, constants, vals2)
      OBVIOUS
    <3>1. \A m \in 1 .. n : values[m] = vals2[m]
      BY <2>3
    <3>2. c \in Command /\ EndAt(c) \in 2 .. WordSize /\ n \in Nat
      BY <2>1, <2>4
    <3> HIDE DEF Store_i
    <3> QED BY ONLY <3>1, <3>2, WellFormed(c, constants, n), SlotStable
  <2> QED BY <2>4, <2>5
<1>6. Sound'
  <2> SUFFICES ASSUME NEW k \in 1 .. i + 1,
                      WellFormed(commands[k], constants, k - 1),
                      IsDynamic(commands[k]) =>
                        WholeWords(storageRoot, SlotOf(commands[k], constants, values))
               PROVE  values'[k] = Value(storageRoot, SlotOf(commands[k], constants, values),
                                         IsDynamic(commands[k]))
    BY <1>5 DEF Sound, Authentic, storageRoot, IInv, Typed
  <2>1. CASE k = i + 1
    <3>1. values'[k] = v
      BY <2>1 DEF IInv, Typed
    <3> QED BY <2>1, <3>1 DEF command, IInv, Typed
  <2>2. CASE k # i + 1
    <3>1. k \in 1 .. i
      BY <2>2 DEF IInv, Typed
    <3> QED BY <1>5, <2>2, <3>1 DEF IInv, Sound, Authentic
  <2> QED BY <2>1, <2>2
<1> QED BY <1>1, <1>2, <1>3, <1>4, <1>6 DEF IInv

-----------------------------------------------------------------------------
(* One lemma per action.                                                   *)

\* Proving the account keeps the invariant.
LEMMA GetStorageRootInv == ASSUME IInv, GetStorageRoot PROVE IInv'
<1>1. CASE Revert
  BY <1>1, RevertInv
<1>2. CASE /\ vpc' = "command" /\ UNCHANGED <<inputs, locals>>
           /\ storageRoot # NoAccount
  <2>1. Typed' /\ InAccount'
    BY <1>2, StoreAssumption DEF IInv, Typed, InAccount, inputs, locals, storageRoot
  <2> QED BY <1>2, <2>1, SameResults DEF IInv, OnPath, InChunk, locals
<1> QED BY <1>1, <1>2 DEF GetStorageRoot

\* What an instruction pushes is a byte string.
LEMMA ArgumentBytes ==
  ASSUME Typed, i < Len(commands), NEW k \in 1 .. WordSize - 1, Executes(command[k])
  PROVE  Argument(command[k], constants, values) \in Bytes
<1>1. command[k] \in Byte
  BY ByteFacts DEF Typed, command, Command
<1> QED BY <1>1, ArgumentType DEF Executes, Typed

\* Taking the base slot keeps the invariant.
LEMMA FirstElementInv == ASSUME IInv, FirstElement PROVE IInv'
<1>1. CASE Revert
  BY <1>1, RevertInv
<1>2. CASE ~Revert
  <2> DEFINE arg == Argument(command[1], constants, values)
  <2>1. /\ i < Len(commands) /\ vpc = "command" /\ Executes(command[1])
        /\ slot' = BaseSlot(arg) /\ j' = 2 /\ vpc' = "path"
        /\ UNCHANGED <<inputs, values, i, value, length, proofIdx>>
    BY <1>2 DEF FirstElement
  <2>2. arg \in Bytes
    BY <2>1, ArgumentBytes, ByteFacts DEF IInv
  <2>3. Typed'
    BY <2>1, <2>2, ByteFacts DEF IInv, Typed, inputs, BaseSlot, Slot
  <2>4. OnPath'
    <3>1. <<arg>> = [k \in 1 .. 1 |-> Argument(command[k], constants, values)]
      OBVIOUS
    <3> QED BY <2>1, <3>1 DEF OnPath, BaseSlot, inputs, command
  <2>5. InChunk' /\ InAccount'
    BY <2>1, Opened DEF InChunk
  <2> QED BY <2>1, <2>3, <2>4, <2>5, SameResults DEF IInv
<1> QED BY <1>1, <1>2

\* One more round of hashing keeps the invariant.
LEMMA NextElementInv == ASSUME IInv, NextElement PROVE IInv'
<1>1. CASE Revert
  BY <1>1, RevertInv
<1>2. CASE ~Revert
  <2> DEFINE Arg(k) == Argument(command[k], constants, values)
  <2>1. /\ vpc = "path" /\ vpc' = "path" /\ More(command, j) /\ Executes(command[j])
        /\ slot' = Keccak(Arg(j), slot) /\ j' = j + 1
        /\ UNCHANGED <<inputs, values, i, value, length, proofIdx>>
    BY <1>2 DEF NextElement
  <2>2. i < Len(commands) /\ j \in 2 .. WordSize - 1 /\ j + 1 \in 1 .. WordSize
    BY <2>1, ByteFacts DEF IInv, Typed, OnPath, More
  <2>3. Arg(j) \in Bytes
    BY <2>1, <2>2, ArgumentBytes, ByteFacts DEF IInv
  <2>4. Typed'
    BY <2>1, <2>2, <2>3 DEF IInv, Typed, inputs, Keccak, Slot
  <2>5. OnPath'
    <3>1. slot.path = [k \in 1 .. j - 1 |-> Arg(k)] /\ slot.path \in Seq(Bytes)
      BY <2>1 DEF IInv, Typed, OnPath, Slot
    <3>2. Append(slot.path, Arg(j)) = [k \in 1 .. j |-> Arg(k)]
      BY <2>2, <2>3, <3>1
    <3>3. \A k \in 2 .. j : More(command, k)
      BY <2>1, <2>2 DEF IInv, OnPath
    <3> QED BY <2>1, <2>2, <3>2, <3>3 DEF OnPath, Keccak, inputs, command
  <2>6. InChunk' /\ InAccount'
    BY <2>1, Opened DEF InChunk
  <2> QED BY <2>1, <2>4, <2>5, <2>6, SameResults DEF IInv
<1> QED BY <1>1, <1>2

\* A storage proof that fails keeps the invariant.
LEMMA ProofFailsInv == ASSUME IInv, ProofFails PROVE IInv'
BY RevertInv DEF ProofFails

\* The slot that the hashing loop ends with is the one the command names.
LEMMA PathDone ==
  ASSUME IInv, vpc = "path", ~More(command, j)
  PROVE  /\ i < Len(commands) /\ command \in Command /\ EndAt(command) \in 2 .. WordSize
         /\ slot = SlotOf(command, constants, values)
         /\ storageRoot \in StorageRoots
<1>1. i < Len(commands) /\ command \in Command
  BY DEF IInv, OnPath, Typed, command
<1>2. j \in 2 .. WordSize /\ \A k \in 2 .. j - 1 : More(command, k)
  BY DEF IInv, OnPath, Typed
<1>3. EndAt(command) = j
  BY <1>2, EndAtUnique
<1> QED BY <1>1, <1>2, <1>3 DEF IInv, OnPath, SlotOf, InAccount

\* A storage proof that is accepted yields what the accepted state holds.
LEMMA ProofSound ==
  ASSUME storageRoot \in StorageRoots, MayDecide
  PROVE  /\ getSingleStorageProof = Trie(storageRoot, slot)
         /\ getFixedValue = Cell(storageRoot, slot)
         /\ getFixedValue \in Word /\ getFixedValue \in Bytes /\ Len(getFixedValue) = WordSize
         /\ Num(getFixedValue) \in Nat
<1>1. getSingleStorageProof = Trie(storageRoot, slot)
  BY DEF MayDecide, getSingleStorageProof
<1>2. getFixedValue = Cell(storageRoot, slot)
  BY <1>1 DEF getFixedValue, Cell
<1> QED BY <1>1, <1>2, TrieFacts, HeadFacts, ByteFacts
\* Reading a fixed value keeps the invariant.
LEMMA ReadFixedInv == ASSUME IInv, ReadFixed PROVE IInv'
<1>1. PICK v \in Bytes : /\ v = Cell(storageRoot, slot) /\ Store_i(v)
                         /\ vpc = "path" /\ ~More(command, j) /\ ~IsDynamic(command)
  BY PathDone, ProofSound DEF ReadFixed
<1>2. /\ UNCHANGED <<inputs, j>>
      /\ slot' \in Slot /\ value' \in Bytes /\ length' \in Nat /\ proofIdx' \in Nat
  BY DEF ReadFixed, IInv, Typed
<1>3. v = Value(storageRoot, SlotOf(command, constants, values), IsDynamic(command))
  BY <1>1, PathDone DEF Value
<1> QED BY <1>1, <1>2, <1>3, PathDone, StoreInv

\* Reading a short value keeps the invariant.
LEMMA ReadShortInv == ASSUME IInv, ReadShort PROVE IInv'
<1> DEFINE len == (Num(getFixedValue) % ByteBase) \div 2
           v == SubSeq(getFixedValue, 1, len)
<1>1. CASE Revert
  BY <1>1, RevertInv
<1>2. CASE ~Revert
  <2>1. /\ vpc = "path" /\ ~More(command, j) /\ IsDynamic(command) /\ MayDecide
        /\ Num(getFixedValue) % 2 = 0 /\ len <= WordSize
        /\ Store_i(v) /\ UNCHANGED <<inputs, j>>
    BY <1>2 DEF ReadShort
  <2>2. slot' \in Slot /\ value' \in Bytes /\ length' \in Nat /\ proofIdx' \in Nat
    BY <1>2 DEF ReadShort, IInv, Typed
  <2>3. /\ getFixedValue = Cell(storageRoot, slot) /\ getFixedValue \in Bytes
        /\ Len(getFixedValue) = WordSize /\ Num(getFixedValue) \in Nat
    BY <2>1, PathDone, ProofSound
  <2>4. v \in Bytes
    <3>1. len \in 0 .. WordSize
      BY <2>1, <2>3, ByteFacts
    <3> QED BY <2>3, <3>1 DEF Bytes
  <2>5. v = Value(storageRoot, SlotOf(command, constants, values), IsDynamic(command))
    <3>1. ShortLength(getFixedValue) = len /\ ~IsLong(getFixedValue)
      BY <2>1, <2>3, PathDone, HeadFacts DEF ShortLength, IsLong
    <3> QED BY <2>1, <2>3, <3>1, PathDone DEF Value
  <2> QED BY <2>1, <2>2, <2>4, <2>5, PathDone, StoreInv
<1> QED BY <1>1, <1>2

\* Reading the head word of a long value keeps the invariant.
LEMMA ReadLongHeadInv == ASSUME IInv, ReadLongHead PROVE IInv'
<1> DEFINE s == SlotOf(command, constants, values)
<1>1. /\ vpc = "path" /\ ~More(command, j) /\ IsDynamic(command) /\ MayDecide
      /\ Num(getFixedValue) % 2 = 1 /\ length' = (Num(getFixedValue) - 1) \div 2
      /\ value' = <<>> /\ slot' = DataSlot(slot, 0) /\ proofIdx' = proofIdx + 1
      /\ vpc' = "chunk" /\ UNCHANGED <<inputs, values, i, j>>
  BY DEF ReadLongHead
<1>2. /\ slot = s /\ getFixedValue = Cell(storageRoot, s) /\ Num(getFixedValue) \in Nat
      /\ IsLong(Cell(storageRoot, s))
  BY <1>1, PathDone, ProofSound, HeadFacts DEF IsLong
<1>3. length' \in Nat /\ length' = LongLength(Cell(storageRoot, s))
  BY <1>1, <1>2 DEF LongLength
<1>4. Typed'
  BY <1>1, <1>3, ByteFacts DEF IInv, Typed, inputs, DataSlot, Slot
<1>5. InChunk'
  <2>1. i < Len(commands) /\ EndAt(command) \in 2 .. WordSize
    BY <1>1, PathDone
  <2>2. slot'.path = Append(s.path, <<>>) /\ slot'.off * WordSize = Len(value')
    BY <1>1, <1>2, ByteFacts DEF DataSlot
  <2>3. /\ command' = command /\ storageRoot' = storageRoot
        /\ SlotOf(command, constants, values)' = s
    BY <1>1 DEF inputs, command, storageRoot
  <2>4. Len(value') = 0 /\ Len(value') + length' = LongLength(Cell(storageRoot, s))
    BY <1>1, <1>3
  <2> QED BY <1>1, <1>2, <2>1, <2>2, <2>3, <2>4 DEF InChunk, inputs
<1>6. OnPath' /\ InAccount'
  BY <1>1, Opened DEF OnPath
<1> QED BY <1>1, <1>4, <1>5, <1>6, SameResults DEF IInv

\* Appending a data word of a long value keeps the invariant.
LEMMA ReadChunkInv == ASSUME IInv, ReadChunk PROVE IInv'
<1> DEFINE s == SlotOf(command, constants, values)
           total == LongLength(Cell(storageRoot, s))
           chunk == Trie(storageRoot, slot)
           take == IF length < WordSize THEN length ELSE Len(chunk)
           Byte_n(n) == Cell(storageRoot, DataSlot(s, (n - 1) \div WordSize))
                          [1 + ((n - 1) % WordSize)]
<1>1. CASE Revert
  BY <1>1, RevertInv
<1>2. CASE ~Revert
  <2>1. storageRoot \in StorageRoots /\ vpc = "chunk" /\ MayDecide /\ length > 0
    BY DEF IInv, InAccount, ReadChunk, Left
  <2>2. /\ take <= Len(chunk)
        /\ value' = value \o SubSeq(chunk, 1, take)
        /\ length' = IF length < WordSize THEN 0 ELSE length - WordSize
        /\ slot' = [slot EXCEPT !.off = @ + 1] /\ proofIdx' = proofIdx + 1
        /\ UNCHANGED <<inputs, vpc, values, i, j>>
    BY <1>2, <2>1, ProofSound DEF ReadChunk, Left
  <2>3. chunk \in Bytes /\ Len(chunk) \in 0 .. WordSize /\ length \in Nat /\ value \in Bytes
    BY <2>1, TrieFacts DEF IInv, Typed
  <2>4. take \in 0 .. Len(chunk) /\ SubSeq(chunk, 1, take) \in Bytes
    BY <2>2, <2>3 DEF Bytes
  <2>5. Typed'
    <3>1. value' \in Bytes /\ length' \in Nat
      BY <2>2, <2>3, <2>4, ByteFacts DEF Bytes
    <3>2. slot' \in Slot
      <4>1. slot \in [path : Seq(Bytes), off : Nat] /\ slot.off + 1 \in Nat
        BY DEF IInv, Typed, Slot
      <4> QED BY <2>2, <4>1 DEF Slot
    <3> QED BY <2>2, <3>1, <3>2 DEF IInv, Typed, inputs
  <2>6. InChunk'
    <3>1. /\ i < Len(commands) /\ EndAt(command) \in 2 .. WordSize
          /\ IsDynamic(command) /\ IsLong(Cell(storageRoot, s))
          /\ slot.path = Append(s.path, <<>>)
      BY <2>1 DEF IInv, InChunk
    <3>2. ASSUME WholeWords(storageRoot, s)
          PROVE  /\ Len(value') + length' = total
                 /\ length' > 0 => Len(value') = slot'.off * WordSize
                 /\ \A n \in 1 .. Len(value') : value'[n] = Byte_n(n)
      <4> DEFINE d == slot.off
      <4>1. /\ Len(value) + length = total /\ Len(value) = d * WordSize
            /\ \A n \in 1 .. Len(value) : value[n] = Byte_n(n)
        BY <2>1, <3>2 DEF IInv, InChunk
      <4>2. d \in Nat /\ slot = DataSlot(s, d) /\ slot'.off = d + 1
        BY <2>2, <3>1 DEF IInv, Typed, Slot, DataSlot
      <4>3. Len(chunk) = WordSize
        <5>1. d * WordSize < total /\ d <= total
          <6>1. d <= d * WordSize
            BY <4>2, ByteFacts
          <6>2. d * WordSize \in Nat
            BY <4>2, ByteFacts
          <6> QED BY <2>1, <2>3, <4>1, <4>2, <6>1, <6>2
        <5>2. total \in Nat
          BY <2>3, <4>1, <4>2 DEF Bytes
        <5> QED BY <3>1, <3>2, <4>2, <5>1, <5>2 DEF WholeWords
      <4>4. chunk = Cell(storageRoot, DataSlot(s, d))
        BY <2>1, <4>2, <4>3, TrieFacts
      <4>5. Len(value') = d * WordSize + take /\ take <= WordSize
        BY <2>2, <2>3, <2>4, <4>1, <4>3 DEF Bytes
      <4>6. ASSUME NEW n \in 1 .. Len(value')
            PROVE  value'[n] = Byte_n(n)
        <5>1. CASE n <= Len(value)
          BY <2>2, <2>3, <2>4, <4>1, <5>1 DEF Bytes
        <5>2. CASE n > Len(value)
          <6>1. /\ n \in Nat /\ d * WordSize < n /\ n <= d * WordSize + WordSize
                /\ n - d * WordSize \in 1 .. take
            BY <2>4, <4>1, <4>2, <4>5, <4>6, <5>2, ByteFacts
          <6>2. value'[n] = chunk[n - d * WordSize]
            BY <2>2, <2>3, <2>4, <4>1, <4>6, <5>2, <6>1 DEF Bytes
          <6>3. (n - 1) \div WordSize = d /\ 1 + ((n - 1) % WordSize) = n - d * WordSize
            BY <4>2, <6>1, WordOfByte
          <6> QED BY <4>4, <6>2, <6>3
        <5> QED BY <5>1, <5>2, <2>3, <4>6 DEF Bytes
      <4>7. CASE length < WordSize
        <5>1. take = length /\ length' = 0
          BY <2>2, <4>7
        <5>2. Len(value') = total
          BY <2>3, <4>1, <4>5, <5>1
        <5> QED BY <2>3, <4>1, <4>6, <5>1, <5>2
      <4>8. CASE length >= WordSize
        <5>1. take = WordSize /\ length' = length - WordSize
          BY <2>2, <2>3, <4>3, <4>8, ByteFacts
        <5>2. slot'.off * WordSize = d * WordSize + WordSize
          BY <4>2, ByteFacts
        <5>3. Len(value') = Len(value) + WordSize /\ Len(value) \in Nat /\ WordSize \in Nat
          BY <2>3, <4>1, <4>5, <5>1, ByteFacts DEF Bytes
        <5>4. Len(value') + length' = total
          BY <2>3, <4>1, <5>1, <5>3
        <5>5. Len(value') = slot'.off * WordSize
          BY <4>1, <5>2, <5>3
        <5> QED BY <4>6, <5>4, <5>5
      <4> QED BY <2>3, <4>7, <4>8, ByteFacts
    <3>3. /\ command' = command /\ storageRoot' = storageRoot
          /\ SlotOf(command, constants, values)' = s
      BY <2>2 DEF inputs, command, storageRoot
    <3>4. slot'.path = Append(s.path, <<>>)
      BY <2>2, <3>1 DEF IInv, Typed, Slot
    <3> QED BY <2>2, <3>1, <3>2, <3>3, <3>4 DEF InChunk, inputs
  <2>7. OnPath' /\ InAccount'
    BY <2>1, <2>2, Opened DEF OnPath
  <2> QED BY <2>2, <2>5, <2>6, <2>7, SameResults DEF IInv
<1> QED BY <1>1, <1>2

\* Ending a long value keeps the invariant.
LEMMA EndOfValueInv == ASSUME IInv, EndOfValue PROVE IInv'
<1> DEFINE s == SlotOf(command, constants, values)
<1>1. /\ vpc = "chunk" /\ length = 0 /\ Store_i(value)
      /\ UNCHANGED <<inputs, j, slot, value, length, proofIdx>>
  BY DEF EndOfValue
<1>2. /\ i < Len(commands) /\ EndAt(command) \in 2 .. WordSize
      /\ IsDynamic(command) /\ IsLong(Cell(storageRoot, s))
  BY <1>1 DEF IInv, InChunk
<1>3. ASSUME WholeWords(storageRoot, s)
      PROVE  value = Value(storageRoot, s, IsDynamic(command))
  <2>1. /\ Len(value) = LongLength(Cell(storageRoot, s))
        /\ \A n \in 1 .. Len(value) :
             value[n] = Cell(storageRoot, DataSlot(s, (n - 1) \div WordSize))
                          [1 + ((n - 1) % WordSize)]
    BY <1>1, <1>3 DEF IInv, Typed, InChunk, Bytes
  <2>2. value = [n \in 1 .. Len(value) |-> value[n]]
    BY DEF IInv, Typed, Bytes
  <2> QED BY <1>2, <2>1, <2>2 DEF Value
<1>4. /\ value \in Bytes /\ slot' \in Slot /\ value' \in Bytes
      /\ length' \in Nat /\ proofIdx' \in Nat
  BY <1>1 DEF IInv, Typed
<1> QED BY <1>1, <1>2, <1>3, <1>4, StoreInv

\* Returning keeps the invariant.
LEMMA ReturnInv == ASSUME IInv, Return PROVE IInv'
<1>1. Typed'
  BY DEF Return, IInv, Typed, inputs, locals
<1> QED BY <1>1, Opened, SameResults DEF Return, IInv, OnPath, InChunk, locals

-----------------------------------------------------------------------------
\* Every step keeps the invariant.
LEMMA StepInv == ASSUME IInv, [Next]_vars PROVE IInv'
<1>1. CASE UNCHANGED vars
  <2>1. UNCHANGED <<inputs, vpc, locals>>
    BY <1>1 DEF vars
  <2>2. Typed' /\ InAccount' /\ OnPath' /\ InChunk'
    BY <2>1 DEF IInv, Typed, InAccount, OnPath, InChunk, inputs, locals, command, storageRoot
  <2> QED BY <2>1, <2>2, SameResults DEF IInv, locals
<1> QED BY <1>1, GetStorageRootInv, FirstElementInv, NextElementInv,
           ProofFailsInv, ReadFixedInv, ReadShortInv, ReadLongHeadInv,
           ReadChunkInv, EndOfValueInv, ReturnInv DEF Next

(***************************************************************************)
(* getStorageValues never leaves the types its variables are meant to have *)
(* and never keeps a result that the accepted state does not hold, for     *)
(* every storage, request and state proof.                                 *)
(***************************************************************************)
THEOREM Invariance == Spec => []IInv
BY InitInv, StepInv, PTL DEF Spec

\* What a step does to the outcome: it is not undone, and when the call
\* returns, the results are what the accepted state holds.
LEMMA Outcome ==
  ASSUME IInv, Next
  PROVE  /\ UNCHANGED inputs /\ vpc \notin {"returned", "reverted"}
         /\ vpc' = "returned" =>
              UNCHANGED locals /\ AuthenticAnswer(commands, constants, stateRoot, values)
<1>1. UNCHANGED inputs /\ vpc \notin {"returned", "reverted"}
  BY DEF Next, GetStorageRoot, FirstElement, NextElement, ProofFails, Reading,
     ReadFixed, ReadShort, ReadLongHead, ReadChunk, EndOfValue, Return, Revert
<1>2. ASSUME vpc' = "returned"
      PROVE  UNCHANGED locals /\ AuthenticAnswer(commands, constants, stateRoot, values)
  <2>1. Return /\ vpc = "command" /\ i = Len(commands)
    BY <1>2 DEF Next, GetStorageRoot, FirstElement, NextElement, ProofFails,
       ReadFixed, ReadShort, ReadLongHead, ReadChunk, EndOfValue, Return, Revert, Store_i
  <2>2. storageRoot # NoAccount /\ Len(values) = Len(commands)
    BY <2>1, StoreAssumption DEF IInv, Typed, InAccount
  <2> QED BY <2>1, <2>2 DEF Return, IInv, Sound, AuthenticAnswer, storageRoot
<1> QED BY <1>1, <1>2

\* The variables of getStorageValues keep their types.
THEOREM TypeCorrect == Spec => []TypeOK
<1>1. proof \in StateProof /\ IInv /\ [Next]_vars => (proof \in StateProof)'
  BY Outcome DEF inputs, vars
<1> QED BY InitInv, Invariance, <1>1, PTL DEF Spec, IInv, TypeOK

\* No state proof makes getStorageValues keep a result that the accepted
\* state does not hold at the slot the command names.
THEOREM Soundness == Spec => []Sound
BY Invariance, PTL DEF IInv

-----------------------------------------------------------------------------
(***************************************************************************)
(* getStorageValues, run on any state proof, implements an authentic read: *)
(* it fails or answers once, with the values the accepted state holds.     *)
(***************************************************************************)
THEOREM Refinement == Spec => ImplementsAuthenticRead
<1>1. Init => AR!Init
  BY DEF Init, NewLocals, AR!Init
<1>2. ASSUME IInv, [Next]_vars PROVE [AR!Next]_(AR!vars)
  <2>1. CASE Next /\ vpc' = "returned"
    <3>1. AR!Answer
      BY <1>2, <2>1, Outcome DEF AR!Answer, inputs, locals
    <3> QED BY <3>1 DEF AR!Next
  <2>2. CASE Next /\ vpc' = "reverted"
    <3>1. AR!Fail
      BY <1>2, <2>2, Outcome DEF AR!Fail, inputs
    <3> QED BY <3>1 DEF AR!Next
  <2>3. CASE Next /\ vpc' \notin {"returned", "reverted"}
    BY <1>2, <2>3, Outcome DEF AR!vars, inputs
  <2>4. CASE UNCHANGED vars
    BY <2>4 DEF AR!vars, vars, inputs, locals
  <2> QED BY <1>2, <2>1, <2>2, <2>3, <2>4
<1> QED BY Invariance, <1>1, <1>2, PTL DEF Spec, AR!Spec, ImplementsAuthenticRead
=============================================================================
