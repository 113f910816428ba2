--------------------------- MODULE EVMFetcher_proofs ---------------------------
(***************************************************************************)
(* Proofs that the request builder is type correct and that the requests   *)
(* it sends say what the caller described, for every size of words and of  *)
(* arrays and for every sequence of calls.                                 *)
(***************************************************************************)
EXTENDS EVMFetcher, TLAPS

\* Sizes are numbers, and words are byte strings of WordSize bytes.
LEMMA ByteFacts ==
  /\ WordSize \in Nat /\ WordSize >= 3 /\ ByteBase \in Nat \ {0}
  /\ OperandSpan \in Nat \ {0} /\ WordSize < ByteBase
  /\ <<>> \in Bytes /\ ZeroWord \in Bytes /\ Len(ZeroWord) = WordSize
  /\ Word \subseteq Bytes /\ \A w \in Word : Len(w) = WordSize
BY SizeAssumption DEF Bytes, Byte, Word, ZeroWord

\* The hashing loop stops at EndAt and nowhere else.
LEMMA EndAtUnique ==
  ASSUME NEW c, NEW n \in 2 .. WordSize, ~More(c, n), \A k \in 2 .. n - 1 : More(c, k)
  PROVE  EndAt(c) = n
<1> DEFINE P(m) == ~More(c, m) /\ \A k \in 2 .. m - 1 : More(c, k)
<1>1. EndAt(c) \in 2 .. WordSize /\ P(EndAt(c))
  <2>1. \E m \in 2 .. WordSize : P(m)
    OBVIOUS
  <2> QED BY <2>1 DEF EndAt
<1>2. ASSUME NEW a \in 2 .. WordSize, NEW b \in 2 .. WordSize, P(a), P(b)
      PROVE  ~(a < b)
  BY <1>2, ByteFacts
<1> QED BY <1>1, <1>2, ByteFacts

-----------------------------------------------------------------------------
(* The inductive invariant.                                                *)

\* Constants are lost, if at all, from the request structure on.
Capacity ==
  /\ Len(constants) <= MAX_CONSTANTS + 2
  /\ overwritten = 0 => Len(constants) <= MAX_CONSTANTS

\* No instruction of the path ends the command.
NoEnd(command, n) == \A k \in 1 .. n : command[k] # OP_END

\* Commands but the one that is being built are ended.
Shape ==
  /\ Len(commands) = Len(intent)
  /\ \A c \in 1 .. Len(intent) :
       LET n == Len(intent[c].path)
       IN  /\ n \in 1 .. WordSize - 1
           /\ IsDynamic(commands[c]) = intent[c].dynamic
           /\ NoEnd(commands[c], n)
           /\ c < Len(intent) \/ fpc = "sent" =>
                n + 1 = WordSize \/ commands[c][n + 1] = OP_END
           /\ c = Len(intent) /\ fpc = "building" => operationIdx = n + 1

Meaning ==
  overwritten = 0 =>
    \A c \in 1 .. Len(intent) : \A k \in 1 .. Len(intent[c].path) :
      Means(commands[c][k], intent[c].path[k], constants)

Sent == fpc = "sent" => overwritten = 0

FInv == TypeOK /\ Capacity /\ Shape /\ Meaning /\ Sent

-----------------------------------------------------------------------------
(* Instructions and command words.                                         *)

\* An index of a constant, read as an instruction, pushes that constant; it
\* is a byte, and not OP_END, even for an index past the array.
LEMMA ConstantOp ==
  ASSUME NEW n \in 0 .. MAX_CONSTANTS + 1
  PROVE  /\ n \in Byte /\ n # OP_END
         /\ n < MAX_CONSTANTS => Opcode(n) = OP_CONSTANT /\ Operand(n) = n
BY ByteFacts, SizeAssumption, FetcherAssumption
   DEF Byte, OP_END, Opcode, Operand, OP_CONSTANT

\* A reference, read as an instruction, refers to its operand.
LEMMA RefOp ==
  ASSUME NEW n \in 0 .. OperandSpan - 1
  PROVE  /\ OP_BACKREF + n \in Byte /\ OP_BACKREF + n # OP_END
         /\ Opcode(OP_BACKREF + n) = OP_BACKREF /\ Operand(OP_BACKREF + n) = n
<1>1. (OperandSpan + n) % OperandSpan = n
  BY ByteFacts
<1> QED BY <1>1, ByteFacts, SizeAssumption DEF Byte, OP_END, Opcode, Operand, OP_BACKREF

\* WithOperation writes one byte of the last command.
LEMMA WithOperationFacts ==
  ASSUME NEW cmds \in Seq(Command), NEW n, n = Len(cmds), cmds # <<>>,
         NEW idx \in 0 .. WordSize - 1, NEW op \in Byte
  PROVE  LET r == WithOperation(cmds, idx, op)
         IN  /\ r \in Seq(Command) /\ Len(r) = n /\ r # <<>>
             /\ \A c \in 1 .. n : c # n => r[c] = cmds[c]
             /\ \A k \in 0 .. WordSize - 1 : r[n][k] = IF k = idx THEN op ELSE cmds[n][k]
<1>1. idx < WordSize /\ n \in 1 .. n /\ cmds[n] \in Command
  BY ByteFacts
<1>2. [cmds[n] EXCEPT ![idx] = op] \in Command
  BY <1>1, ByteFacts DEF Command
<1>3. WithOperation(cmds, idx, op) = [cmds EXCEPT ![n] = [@ EXCEPT ![idx] = op]]
  BY <1>1 DEF WithOperation
<1>4. \A k \in 0 .. WordSize - 1 :
        [cmds[n] EXCEPT ![idx] = op][k] = IF k = idx THEN op ELSE cmds[n][k]
  BY <1>1 DEF Command
<1> QED BY <1>1, <1>2, <1>3, <1>4

\* Ending the current command ends every command and changes no path.
LEMMA TerminatedFacts ==
  ASSUME FInv, fpc = "building"
  PROVE  /\ Terminated \in Seq(Command) /\ Len(Terminated) = Len(commands)
         /\ \A c \in 1 .. Len(intent) :
              LET n == Len(intent[c].path)
              IN  /\ \A k \in 0 .. n : Terminated[c][k] = commands[c][k]
                  /\ n + 1 = WordSize \/ Terminated[c][n + 1] = OP_END
<1>0. OP_END \in Byte
  BY ByteFacts DEF OP_END, Byte
<1>1. CASE commands # <<>> /\ operationIdx < WordSize
  <2>1. Terminated = WithOperation(commands, operationIdx, OP_END)
    BY <1>1 DEF Terminated
  <2>2. operationIdx \in 0 .. WordSize - 1 /\ commands \in Seq(Command)
    BY <1>1, ByteFacts DEF FInv, TypeOK
  <2>3. /\ Terminated \in Seq(Command) /\ Len(Terminated) = Len(commands)
        /\ \A c \in 1 .. Len(commands) : c # Len(commands) => Terminated[c] = commands[c]
        /\ \A k \in 0 .. WordSize - 1 :
             Terminated[Len(commands)][k]
               = IF k = operationIdx THEN OP_END ELSE commands[Len(commands)][k]
    BY <1>0, <1>1, <2>1, <2>2, WithOperationFacts
  <2>4. ASSUME NEW c \in 1 .. Len(intent), NEW n, n = Len(intent[c].path)
        PROVE  /\ \A k \in 0 .. n : Terminated[c][k] = commands[c][k]
               /\ n + 1 = WordSize \/ Terminated[c][n + 1] = OP_END
    <3>1. n \in 1 .. WordSize - 1 /\ Len(commands) = Len(intent)
      BY <2>4 DEF FInv, Shape
    <3>2. CASE c = Len(intent)
      <4>1. operationIdx = n + 1
        BY <2>4, <3>2 DEF FInv, Shape
      <4> QED BY <2>2, <2>3, <3>1, <3>2, <4>1, ByteFacts
    <3>3. CASE c # Len(intent)
      <4>1. c < Len(intent)
        BY <3>3 DEF FInv, TypeOK
      <4> QED BY <2>3, <2>4, <3>1, <4>1 DEF FInv, Shape
    <3> QED BY <3>2, <3>3
  <2> QED BY <2>3, <2>4
<1>2. CASE ~(commands # <<>> /\ operationIdx < WordSize)
  <2>1. Terminated = commands /\ commands \in Seq(Command)
    BY <1>2 DEF Terminated, FInv, TypeOK
  <2>2. ASSUME NEW c \in 1 .. Len(intent)
        PROVE  Len(intent[c].path) + 1 = WordSize \/ commands[c][Len(intent[c].path) + 1] = OP_END
    <3>1. CASE c = Len(intent)
      <4>1. operationIdx = Len(intent[c].path) + 1 /\ Len(intent[c].path) \in 1 .. WordSize - 1
        BY <3>1 DEF FInv, Shape
      <4>2. operationIdx >= WordSize /\ operationIdx \in Nat
        <5>1. Len(commands) = Len(intent) /\ Len(intent) \in Nat /\ commands # <<>>
          BY DEF FInv, Shape, TypeOK
        <5> QED BY <1>2, <5>1, ByteFacts DEF FInv, TypeOK
      <4> QED BY <4>1, <4>2, ByteFacts
    <3>2. CASE c # Len(intent)
      <4>1. c < Len(intent)
        BY <3>2 DEF FInv, TypeOK
      <4> QED BY <4>1 DEF FInv, Shape
    <3> QED BY <3>1, <3>2
  <2> QED BY <2>1, <2>2
<1> QED BY <1>1, <1>2

\* Adding a constant keeps what instructions mean.
LEMMA MeansStable ==
  ASSUME NEW consts \in Seq(Bytes), NEW v \in Bytes, NEW op \in Byte, NEW item,
         Means(op, item, consts)
  PROVE  Means(op, item, Append(consts, v))
<1>1. Operand(op) \in Nat
  BY ByteFacts DEF Operand, Byte
<1> QED BY <1>1 DEF Means

-----------------------------------------------------------------------------
(* The steps.                                                              *)

\* No fetch has been described yet.
LEMMA InitFInv == Init => FInv
BY FetcherAssumption, ByteFacts DEF Init, FInv, TypeOK, Capacity, Shape, Meaning, Sent

\* A revert keeps the invariant.
LEMMA RevertFInv == ASSUME FInv, Revert PROVE FInv'
<1>1. TypeOK' /\ Capacity' /\ Sent'
  BY DEF Revert, FInv, TypeOK, Capacity, Sent
<1>2. Shape'
  BY DEF Revert, FInv, Shape
<1>3. Meaning'
  BY DEF Revert, FInv, Meaning
<1> QED BY <1>1, <1>2, <1>3 DEF FInv

\* Beginning a fetch keeps the invariant.
LEMMA GetFInv ==
  ASSUME FInv, NEW flags \in {0, FLAG_DYNAMIC}, NEW base \in BaseSlots, get(flags, base)
  PROVE  FInv'
<1>1. CASE Revert
  BY <1>1, RevertFInv
<1>2. CASE ~Revert
  <2> DEFINE L == Len(intent)
             op == Len(constants)
             empty == Append(Terminated, EmptyCommand)
             begun == WithOperation(empty, 0, flags)
             item == [dynamic |-> flags = FLAG_DYNAMIC, path |-> <<ElementItem(base)>>]
  <2>1. /\ fpc = "building" /\ fpc' = fpc /\ Len(commands) + 1 <= MAX_COMMANDS
        /\ Len(constants) < MAX_CONSTANTS + MaxOverflow
        /\ constants' = Append(constants, base)
        /\ overwritten' = IF Len(constants) < MAX_CONSTANTS THEN overwritten ELSE overwritten + 1
        /\ commands' = WithOperation(begun, 1, op)
        /\ operationIdx' = 2
        /\ intent' = Append(intent, item)
    BY <1>2, FetcherAssumption DEF get, addConstant, AddedConstant, FInv, TypeOK
  <2>2. /\ L \in Nat /\ Len(commands) = L /\ base \in Bytes /\ op \in 0 .. MAX_CONSTANTS + 1
        /\ op \in Byte /\ op # OP_END /\ flags \in Byte
    BY <2>1, FetcherAssumption, ConstantOp, ByteFacts, SizeAssumption
       DEF FInv, TypeOK, Shape, FLAG_DYNAMIC, Byte
  <2>3. /\ Terminated \in Seq(Command) /\ Len(Terminated) = L
        /\ \A c \in 1 .. L :
             LET n == Len(intent[c].path)
             IN  /\ \A k \in 0 .. n : Terminated[c][k] = commands[c][k]
                 /\ n + 1 = WordSize \/ Terminated[c][n + 1] = OP_END
    BY <2>1, <2>2, TerminatedFacts
  <2>4. EmptyCommand \in Command /\ \A k \in 0 .. WordSize - 1 : EmptyCommand[k] = 0
    BY ByteFacts DEF EmptyCommand, Command, Byte
  <2>5. /\ empty \in Seq(Command) /\ Len(empty) = L + 1 /\ empty # <<>>
        /\ \A c \in 1 .. L : empty[c] = Terminated[c]
        /\ empty[L + 1] = EmptyCommand
    <3> SUFFICES ASSUME NEW t, t = Terminated, t \in Seq(Command), Len(t) = L
                 PROVE  LET e == Append(t, EmptyCommand)
                        IN  /\ e \in Seq(Command) /\ Len(e) = L + 1 /\ e # <<>>
                            /\ \A c \in 1 .. L : e[c] = t[c]
                            /\ e[L + 1] = EmptyCommand
      BY <2>3
    <3> QED BY <2>2, <2>4
  <2>6. /\ begun \in Seq(Command) /\ Len(begun) = L + 1 /\ begun # <<>>
        /\ \A c \in 1 .. L + 1 : c # L + 1 => begun[c] = empty[c]
        /\ \A k \in 0 .. WordSize - 1 : begun[L + 1][k] = IF k = 0 THEN flags ELSE empty[L + 1][k]
    <3>1. 0 \in 0 .. WordSize - 1
      BY ByteFacts
    <3> HIDE DEF empty
    <3> QED BY <2>2, <2>5, <3>1, WithOperationFacts
  <2>7. /\ commands' \in Seq(Command) /\ Len(commands') = L + 1
        /\ \A c \in 1 .. L + 1 : c # L + 1 => commands'[c] = begun[c]
        /\ \A k \in 0 .. WordSize - 1 : commands'[L + 1][k] = IF k = 1 THEN op ELSE begun[L + 1][k]
    <3>1. 1 \in 0 .. WordSize - 1
      BY ByteFacts
    <3> HIDE DEF begun, empty, item, op, L
    <3>2. ASSUME NEW b \in Seq(Command), Len(b) = L + 1, b # <<>>
          PROVE  LET r == WithOperation(b, 1, op)
                 IN  /\ r \in Seq(Command) /\ Len(r) = L + 1
                     /\ \A c \in 1 .. L + 1 : c # L + 1 => r[c] = b[c]
                     /\ \A k \in 0 .. WordSize - 1 :
                          r[L + 1][k] = IF k = 1 THEN op ELSE b[L + 1][k]
      BY <2>2, <3>1, <3>2, WithOperationFacts
    <3> QED BY <2>1, <2>6, <3>2
  <2>8. /\ \A c \in 1 .. L : commands'[c] = Terminated[c]
        /\ commands'[L + 1][0] = flags /\ commands'[L + 1][1] = op
    <3> HIDE DEF begun, empty, item, op
    <3>1. \A c \in 1 .. L : c \in 1 .. L + 1 /\ c # L + 1
      BY <2>2
    <3>2. 0 \in 0 .. WordSize - 1 /\ 1 \in 0 .. WordSize - 1
      BY ByteFacts
    <3> QED BY <2>5, <2>6, <2>7, <3>1, <3>2
  <2>9. /\ intent' \in Seq(Fetch) /\ Len(intent') = L + 1
        /\ \A c \in 1 .. L : intent'[c] = intent[c]
        /\ intent'[L + 1] = item /\ Len(item.path) = 1
    <3>1. item \in Fetch
      BY <2>2, ByteFacts DEF Fetch, Item, ElementItem, NoRef
    <3> QED BY <2>1, <2>2, <3>1 DEF FInv, TypeOK
  <2>10. TypeOK' /\ Capacity' /\ Sent'
    <3> HIDE DEF item, op, begun, empty, L
    <3>1. operationIdx' \in 0 .. WordSize /\ Len(commands') <= MAX_COMMANDS
      BY <2>1, <2>2, <2>7, ByteFacts
    <3>2. constants' \in Seq(Bytes) /\ Len(constants') = Len(constants) + 1
      BY <2>1, <2>2 DEF FInv, TypeOK
    <3>3. Len(constants) \in Nat /\ Len(constants) + 1 <= MAX_CONSTANTS + 2
      BY <2>1, FetcherAssumption DEF FInv, TypeOK
    <3>4. overwritten' \in Nat /\ (overwritten' = 0 => Len(constants) < MAX_CONSTANTS)
      BY <2>1, <3>3, FetcherAssumption DEF FInv, TypeOK
    <3>5. TypeOK'
      BY <2>1, <2>7, <2>9, <3>1, <3>2, <3>4 DEF TypeOK
    <3>6. Capacity' /\ Sent'
      BY <2>1, <3>2, <3>3, <3>4, FetcherAssumption DEF Capacity, Sent
    <3> QED BY <3>5, <3>6
  <2>11. Shape'
    <3>1. ASSUME NEW c \in 1 .. L
          PROVE  LET n == Len(intent'[c].path)
                 IN  /\ n \in 1 .. WordSize - 1
                     /\ IsDynamic(commands'[c]) = intent'[c].dynamic
                     /\ NoEnd(commands'[c], n)
                     /\ n + 1 = WordSize \/ commands'[c][n + 1] = OP_END
      <4>1. intent'[c] = intent[c] /\ commands'[c] = Terminated[c]
        BY <2>8, <2>9
      <4> HIDE DEF item, op, begun, empty
      <4> SUFFICES ASSUME NEW t, t = Terminated[c], NEW n, n = Len(intent[c].path)
                   PROVE  /\ n \in 1 .. WordSize - 1
                          /\ IsDynamic(t) = intent[c].dynamic
                          /\ NoEnd(t, n)
                          /\ n + 1 = WordSize \/ t[n + 1] = OP_END
        BY <4>1
      <4>2. /\ n \in 1 .. WordSize - 1
            /\ IsDynamic(commands[c]) = intent[c].dynamic
            /\ NoEnd(commands[c], n)
        BY DEF FInv, Shape
      <4>3. /\ \A k \in 0 .. n : t[k] = commands[c][k]
            /\ n + 1 = WordSize \/ t[n + 1] = OP_END
        BY <2>3
      <4>4. t[0] = commands[c][0] /\ \A k \in 1 .. n : t[k] = commands[c][k]
        BY <4>2, <4>3
      <4> QED BY <4>2, <4>3, <4>4 DEF NoEnd, IsDynamic
    <3>2. /\ IsDynamic(commands'[L + 1]) = item.dynamic
          /\ NoEnd(commands'[L + 1], 1)
      BY <2>2, <2>8 DEF IsDynamic, NoEnd, FLAG_DYNAMIC
    <3>3. 1 \in 1 .. WordSize - 1 /\ fpc' # "sent"
      BY <2>1, ByteFacts
    <3>4. ASSUME NEW c \in 1 .. Len(intent')
          PROVE  c \in 1 .. L \/ (c = L + 1 /\ Len(intent'[c].path) = 1 /\ intent'[c] = item)
      BY <2>2, <2>9
    <3>5. Len(commands') = Len(intent') /\ Len(intent') = L + 1 /\ operationIdx' = 2 /\ 1 + 1 = 2
      BY <2>1, <2>7, <2>9
    <3> SUFFICES ASSUME NEW c \in 1 .. Len(intent'), NEW n, n = Len(intent'[c].path)
                 PROVE  /\ n \in 1 .. WordSize - 1
                        /\ IsDynamic(commands'[c]) = intent'[c].dynamic
                        /\ NoEnd(commands'[c], n)
                        /\ c < Len(intent') =>
                             n + 1 = WordSize \/ commands'[c][n + 1] = OP_END
                        /\ c = Len(intent') => operationIdx' = n + 1
      BY <3>3, <3>5 DEF Shape
    <3> HIDE DEF item, begun
    <3>6. CASE c \in 1 .. L
      <4>1. c # Len(intent')
        BY <2>2, <3>5, <3>6
      <4> QED BY <3>1, <3>6, <4>1
    <3>7. CASE c = L + 1
      <4>1. n = 1 /\ intent'[c] = item /\ ~(c < Len(intent'))
        BY <2>2, <2>9, <3>5, <3>7
      <4> QED BY <3>2, <3>3, <3>5, <3>7, <4>1
    <3> QED BY <3>4, <3>6, <3>7
  <2>12. Meaning'
    <3> SUFFICES ASSUME overwritten' = 0,
                        NEW c \in 1 .. L + 1, NEW k \in 1 .. Len(intent'[c].path)
                 PROVE  Means(commands'[c][k], intent'[c].path[k], constants')
      BY <2>9 DEF Meaning
    <3>1. overwritten = 0 /\ Len(constants) < MAX_CONSTANTS
      BY <2>1 DEF FInv, TypeOK
    <3>2. CASE c \in 1 .. L
      <4>1. k \in 1 .. Len(intent[c].path) /\ intent'[c] = intent[c]
        BY <2>9, <3>2
      <4>2. Means(commands[c][k], intent[c].path[k], constants)
        BY <3>1, <3>2, <4>1 DEF FInv, Meaning
      <4>3. commands[c][k] \in Byte /\ Len(intent[c].path) \in 1 .. WordSize - 1
        <5>1. Len(intent[c].path) \in 1 .. WordSize - 1
          BY <3>2 DEF FInv, Shape
        <5>2. commands[c] \in Command
          BY <2>2, <3>2 DEF FInv, TypeOK
        <5> QED BY <4>1, <5>1, <5>2, ByteFacts DEF Command
      <4>4. commands'[c][k] = commands[c][k]
        BY <2>3, <2>8, <3>2, <4>1, <4>3
      <4> QED BY <2>1, <2>2, <4>1, <4>2, <4>3, <4>4, MeansStable DEF FInv, TypeOK
    <3>3. CASE c = L + 1
      <4>1. k = 1 /\ commands'[c][k] = op /\ intent'[c].path[k] = ElementItem(base)
        <5>1. intent'[c].path = <<ElementItem(base)>>
          BY <2>9, <3>3
        <5> QED BY <2>8, <3>3, <5>1
      <4>2. constants \in Seq(Bytes) /\ op \in 0 .. MAX_CONSTANTS + 1
        BY <2>2 DEF FInv, TypeOK
      <4>3. Means(op, ElementItem(base), Append(constants, base))
        BY <2>2, <3>1, <4>2, ConstantOp DEF Means, ElementItem
      <4> QED BY <2>1, <4>1, <4>3
    <3> QED BY <2>2, <3>2, <3>3
  <2> QED BY <2>10, <2>11, <2>12 DEF FInv
<1> QED BY <1>1, <1>2

\* Adding an instruction to the current command keeps the invariant, if it is
\* a byte that does not end the command and means the item.
LEMMA AddOperationFInv ==
  ASSUME FInv, fpc = "building", ~CannotAdd,
         NEW op \in Byte, op # OP_END, NEW item \in Item, addOperation(op, item),
         NEW v \in Bytes,
         \/ constants' = constants /\ overwritten' = overwritten
         \/ /\ constants' = Append(constants, v) /\ Len(constants) < MAX_CONSTANTS + 2
            /\ overwritten' = IF Len(constants) < MAX_CONSTANTS THEN overwritten ELSE overwritten + 1,
         overwritten' = 0 => Means(op, item, constants')
  PROVE  FInv'
<1> DEFINE L == Len(intent)
           m == Len(intent[L].path)
           f == [intent[L] EXCEPT !.path = Append(@, item)]
<1>1. /\ commands' = WithOperation(commands, operationIdx, op)
      /\ operationIdx' = operationIdx + 1 /\ fpc' = "building"
      /\ intent' = [intent EXCEPT ![Len(intent)].path = Append(@, item)]
  BY DEF addOperation
<1>2. /\ commands # <<>> /\ operationIdx \in 0 .. WordSize - 1
      /\ L \in Nat /\ Len(commands) = L /\ L \in 1 .. L
      /\ m \in 1 .. WordSize - 1 /\ operationIdx = m + 1
  <2>1. commands # <<>> /\ operationIdx \in 0 .. WordSize - 1 /\ L \in Nat /\ Len(commands) = L
    BY ByteFacts DEF CannotAdd, FInv, TypeOK, Shape
  <2>2. L \in 1 .. L
    BY <2>1 DEF FInv, TypeOK
  <2> QED BY <2>1, <2>2 DEF FInv, Shape
<1>3. /\ commands' \in Seq(Command) /\ Len(commands') = L
      /\ \A c \in 1 .. L : c # L => commands'[c] = commands[c]
      /\ \A k \in 0 .. WordSize - 1 :
           commands'[L][k] = IF k = m + 1 THEN op ELSE commands[L][k]
  <2>1. commands \in Seq(Command)
    BY DEF FInv, TypeOK
  <2>2. /\ commands' \in Seq(Command) /\ Len(commands') = L
        /\ \A c \in 1 .. L : c # L => commands'[c] = commands[c]
        /\ \A k \in 0 .. WordSize - 1 :
             commands'[L][k] = IF k = operationIdx THEN op ELSE commands[L][k]
    <3> SUFFICES ASSUME NEW n, n = L
                 PROVE  LET r == WithOperation(commands, operationIdx, op)
                        IN  /\ r \in Seq(Command) /\ Len(r) = n
                            /\ \A c \in 1 .. n : c # n => r[c] = commands[c]
                            /\ \A k \in 0 .. WordSize - 1 :
                                 r[n][k] = IF k = operationIdx THEN op ELSE commands[n][k]
      BY <1>1
    <3>1. n = Len(commands)
      BY <1>2
    <3> QED BY <1>2, <2>1, <3>1, WithOperationFacts
  <2> QED BY <1>2, <2>2
<1>4. /\ f \in Fetch /\ Len(f.path) = m + 1 /\ f.dynamic = intent[L].dynamic
      /\ f.path[m + 1] = item /\ \A k \in 1 .. m : f.path[k] = intent[L].path[k]
  <2>1. intent[L] \in Fetch
    BY <1>2 DEF FInv, TypeOK
  <2>2. \A r \in Fetch :
          [r EXCEPT !.path = Append(@, item)] = [dynamic |-> r.dynamic, path |-> Append(r.path, item)]
    BY DEF Fetch
  <2>3. f = [dynamic |-> intent[L].dynamic, path |-> Append(intent[L].path, item)]
    BY <2>1, <2>2
  <2>4. ASSUME NEW p, p \in Seq(Item), m = Len(p)
        PROVE  /\ Append(p, item) \in Seq(Item) /\ Len(Append(p, item)) = m + 1
               /\ Append(p, item)[m + 1] = item /\ \A k \in 1 .. m : Append(p, item)[k] = p[k]
    BY <2>4
  <2>5. intent[L].path \in Seq(Item) /\ intent[L].dynamic \in BOOLEAN /\ m = Len(intent[L].path)
    BY <2>1 DEF Fetch
  <2>6. /\ Append(intent[L].path, item) \in Seq(Item) /\ Len(Append(intent[L].path, item)) = m + 1
        /\ Append(intent[L].path, item)[m + 1] = item
        /\ \A k \in 1 .. m : Append(intent[L].path, item)[k] = intent[L].path[k]
    BY <2>4, <2>5
  <2> HIDE DEF f
  <2> QED BY <2>3, <2>5, <2>6 DEF Fetch
<1>5. /\ intent' \in Seq(Fetch) /\ Len(intent') = L /\ intent'[L] = f
      /\ \A c \in 1 .. L : c # L => intent'[c] = intent[c]
  <2>1. intent' = [intent EXCEPT ![L] = f]
    BY <1>1
  <2>2. intent \in Seq(Fetch)
    BY DEF FInv, TypeOK
  <2> HIDE DEF f
  <2> QED BY <1>2, <1>4, <2>1, <2>2
<1>6. TypeOK'
  <2>1. constants' \in Seq(Bytes) /\ overwritten' \in Nat
    <3>1. constants \in Seq(Bytes) /\ overwritten \in Nat /\ Append(constants, v) \in Seq(Bytes)
      BY DEF FInv, TypeOK
    <3> QED BY <3>1
  <2>2. operationIdx' \in 0 .. WordSize
    BY <1>1, <1>2, ByteFacts
  <2>3. Len(commands') <= MAX_COMMANDS
    BY <1>2, <1>3 DEF FInv, TypeOK
  <2> QED BY <1>1, <1>3, <1>5, <2>1, <2>2, <2>3 DEF FInv, TypeOK
<1>7. Capacity' /\ Sent'
  BY <1>1, FetcherAssumption DEF FInv, TypeOK, Capacity, Sent
<1>8. Shape'
  <2>0. Len(commands') = Len(intent') /\ Len(intent') = L /\ fpc' # "sent"
    BY <1>1, <1>3, <1>5
  <2> SUFFICES ASSUME NEW c \in 1 .. L, NEW n, n = Len(intent'[c].path)
               PROVE  /\ n \in 1 .. WordSize - 1
                      /\ IsDynamic(commands'[c]) = intent'[c].dynamic
                      /\ NoEnd(commands'[c], n)
                      /\ c < L => n + 1 = WordSize \/ commands'[c][n + 1] = OP_END
                      /\ c = L => operationIdx' = n + 1
    BY <2>0 DEF Shape
  <2>1. CASE c # L
    <3>1. c < L /\ commands'[c] = commands[c] /\ intent'[c] = intent[c]
      BY <1>2, <1>3, <1>5, <2>1
    <3> QED BY <3>1 DEF FInv, Shape
  <2>2. CASE c = L
    <3>1. n = m + 1 /\ intent'[c].dynamic = intent[c].dynamic
      BY <1>4, <1>5, <2>2
    <3>2. commands'[c][0] = commands[c][0]
      BY <1>2, <1>3, <2>2, ByteFacts
    <3>3. \A k \in 1 .. m + 1 : commands'[c][k] = IF k = m + 1 THEN op ELSE commands[c][k]
      BY <1>2, <1>3, <2>2, ByteFacts
    <3>4. IsDynamic(commands[c]) = intent[c].dynamic /\ NoEnd(commands[c], m)
      BY <2>2 DEF FInv, Shape
    <3>5. IsDynamic(commands'[c]) = intent'[c].dynamic
      BY <3>1, <3>2, <3>4 DEF IsDynamic
    <3>6. NoEnd(commands'[c], n)
      BY <1>2, <3>1, <3>3, <3>4 DEF NoEnd
    <3> QED BY <1>1, <1>2, <2>2, <3>1, <3>5, <3>6, ByteFacts
  <2> QED BY <2>1, <2>2
<1>9. Meaning'
  <2> SUFFICES ASSUME overwritten' = 0, NEW c \in 1 .. L, NEW k \in 1 .. Len(intent'[c].path)
               PROVE  Means(commands'[c][k], intent'[c].path[k], constants')
    BY <1>5 DEF Meaning
  <2>1. CASE c = L /\ k = m + 1
    BY <1>2, <1>3, <1>4, <1>5, <2>1, ByteFacts
  <2>2. CASE ~(c = L /\ k = m + 1)
    <3>1. k \in 1 .. Len(intent[c].path) /\ intent'[c].path[k] = intent[c].path[k]
      <4>1. CASE c = L
        <5>1. k \in 1 .. m + 1 /\ k # m + 1
          BY <1>4, <1>5, <2>2, <4>1
        <5>2. k \in 1 .. m
          BY <1>2, <5>1
        <5> QED BY <1>4, <1>5, <4>1, <5>2
      <4>2. CASE c # L
        BY <1>5, <4>2
      <4> QED BY <4>1, <4>2
    <3>2. Len(intent[c].path) \in 1 .. WordSize - 1 /\ commands[c] \in Command
      BY <1>2 DEF FInv, Shape, TypeOK
    <3>3. commands'[c][k] = commands[c][k] /\ commands[c][k] \in Byte
      BY <1>2, <1>3, <2>2, <3>1, <3>2, ByteFacts DEF Command
    <3>4. overwritten = 0
      BY DEF FInv, TypeOK
    <3>5. Means(commands[c][k], intent[c].path[k], constants)
      BY <3>1, <3>4 DEF FInv, Meaning
    <3> QED BY <3>1, <3>3, <3>5, MeansStable DEF FInv, TypeOK
  <2> QED BY <2>1, <2>2
<1> QED BY <1>6, <1>7, <1>8, <1>9 DEF FInv

\* Adding an element keeps the invariant.
LEMMA ElementFInv == ASSUME FInv, element PROVE FInv'
<1>1. CASE Revert
  BY <1>1, RevertFInv
<1>2. CASE ~Revert
  <2>1. PICK el \in Elements : ~CannotAdd /\ addConstant(el) /\ addOperation(AddedConstant, ElementItem(el))
    BY <1>2 DEF element
  <2>2. /\ constants' = Append(constants, el) /\ Len(constants) < MAX_CONSTANTS + 2
        /\ overwritten' = IF Len(constants) < MAX_CONSTANTS THEN overwritten ELSE overwritten + 1
        /\ Len(constants) \in 0 .. MAX_CONSTANTS + 1 /\ constants \in Seq(Bytes)
    BY <2>1, FetcherAssumption DEF addConstant, FInv, TypeOK
  <2>3. el \in Bytes /\ ElementItem(el) \in Item /\ AddedConstant \in Byte /\ AddedConstant # OP_END
    BY <2>2, FetcherAssumption, ConstantOp, ByteFacts DEF Item, ElementItem, NoRef, AddedConstant
  <2>4. ASSUME overwritten' = 0
        PROVE  Means(AddedConstant, ElementItem(el), Append(constants, el))
    <3>1. Len(constants) < MAX_CONSTANTS
      BY <2>2, <2>4 DEF FInv, TypeOK
    <3> QED BY <2>2, <2>3, <3>1, ConstantOp DEF Means, ElementItem, AddedConstant
  <2>5. fpc = "building"
    BY DEF element
  <2> QED BY <2>1, <2>2, <2>3, <2>4, <2>5, AddOperationFInv
<1> QED BY <1>1, <1>2

\* Adding a reference keeps the invariant.
LEMMA RefFInv == ASSUME FInv, ref PROVE FInv'
<1>1. CASE Revert
  BY <1>1, RevertFInv
<1>2. CASE ~Revert
  <2>1. PICK idx \in 0 .. OperandSpan :
          /\ ~CannotAdd /\ ~(idx > OperandSpan - 1)
          /\ addOperation(OP_BACKREF + idx, RefItem(idx)) /\ UNCHANGED <<constants, overwritten>>
    BY <1>2 DEF ref
  <2>2. idx \in 0 .. OperandSpan - 1
    BY <2>1, ByteFacts
  <2>3. RefItem(idx) \in Item /\ OP_BACKREF + idx \in Byte /\ OP_BACKREF + idx # OP_END
    BY <2>1, <2>2, RefOp, ByteFacts DEF Item, RefItem
  <2>4. Means(OP_BACKREF + idx, RefItem(idx), constants')
    BY <2>2, RefOp, ByteFacts DEF Means, RefItem, NoRef
  <2>5. fpc = "building" /\ <<>> \in Bytes
    BY ByteFacts DEF ref
  <2> QED BY <2>1, <2>3, <2>4, <2>5, AddOperationFInv
<1> QED BY <1>1, <1>2

\* Sending the request keeps the invariant.
LEMMA FetchFInv == ASSUME FInv, fetch PROVE FInv'
<1>1. CASE Revert
  BY <1>1, RevertFInv
<1>2. CASE ~Revert
  <2>1. /\ fpc = "building" /\ ~(overwritten > 0) /\ commands' = Terminated /\ fpc' = "sent"
        /\ operationIdx' = IF commands # <<>> /\ operationIdx < WordSize
                           THEN operationIdx + 1 ELSE operationIdx
        /\ UNCHANGED <<constants, overwritten, intent>>
    BY <1>2 DEF fetch
  <2>2. /\ commands' \in Seq(Command) /\ Len(commands') = Len(commands)
        /\ \A c \in 1 .. Len(intent) :
             LET n == Len(intent[c].path)
             IN  /\ \A k \in 0 .. n : commands'[c][k] = commands[c][k]
                 /\ n + 1 = WordSize \/ commands'[c][n + 1] = OP_END
    BY <2>1, TerminatedFacts
  <2>3. TypeOK' /\ Capacity' /\ Sent'
    BY <2>1, <2>2, ByteFacts DEF FInv, TypeOK, Capacity, Sent
  <2>4. Shape'
    BY <2>1, <2>2 DEF FInv, Shape, NoEnd, IsDynamic
  <2>5. Meaning'
    BY <2>1, <2>2 DEF FInv, Shape, Meaning
  <2> QED BY <2>3, <2>4, <2>5 DEF FInv
<1> QED BY <1>1, <1>2

-----------------------------------------------------------------------------
(***************************************************************************)
(* The invariant of the builder holds whatever calls are made, in whatever *)
(* order.                                                                  *)
(***************************************************************************)
THEOREM FetcherInvariance == Spec => []FInv
<1>1. ASSUME FInv, [Next]_vars PROVE FInv'
  <2>1. CASE UNCHANGED vars
    <3>1. TypeOK' /\ Capacity' /\ Sent'
      BY <1>1, <2>1 DEF vars, FInv, TypeOK, Capacity, Sent
    <3>2. Shape' /\ Meaning'
      BY <1>1, <2>1 DEF vars, FInv, Shape, Meaning
    <3> QED BY <3>1, <3>2 DEF FInv
  <2> QED BY <1>1, <2>1, GetFInv, ElementFInv, RefFInv, FetchFInv
          DEF Next, getStatic, getDynamic
<1> QED BY InitFInv, <1>1, PTL DEF Spec

\* The builder's variables keep their types: command words stay words.
THEOREM FetcherTypeCorrect == Spec => []TypeOK
BY FetcherInvariance, PTL DEF FInv

(***************************************************************************)
(* A request that is sent says, command by command and instruction by      *)
(* instruction, what the caller described.                                 *)
(***************************************************************************)
THEOREM FetcherFaithful == Spec => []Faithful
<1>1. ASSUME FInv, fpc = "sent", NEW c \in 1 .. Len(intent)
      PROVE  Encodes(commands[c], intent[c])
  <2> DEFINE n == Len(intent[c].path)
  <2>1. /\ n + 1 \in 2 .. WordSize /\ IsDynamic(commands[c]) = intent[c].dynamic
        /\ n + 1 = WordSize \/ commands[c][n + 1] = OP_END
        /\ \A k \in 1 .. n : commands[c][k] # OP_END
    BY <1>1, ByteFacts DEF FInv, Shape, NoEnd
  <2>2. EndAt(commands[c]) = n + 1
    <3>1. ~More(commands[c], n + 1) /\ \A k \in 2 .. (n + 1) - 1 : More(commands[c], k)
      BY <2>1, ByteFacts DEF More
    <3> HIDE DEF n
    <3> QED BY <2>1, <3>1, EndAtUnique
  <2>3. \A k \in 1 .. n : Means(commands[c][k], intent[c].path[k], constants)
    BY <1>1 DEF FInv, Sent, Meaning
  <2> QED BY <2>1, <2>2, <2>3 DEF Encodes
<1>2. FInv => Faithful
  BY <1>1 DEF Faithful, FInv, Shape
<1> QED BY FetcherInvariance, <1>2, PTL
=============================================================================
