----------------------------- MODULE StorageRead -----------------------------
(***************************************************************************)
(* What a request for storage values means, apart from how the gateway and *)
(* the verifier go about it: the slot each command names, and the value    *)
(* that Solidity keeps at a slot.                                          *)
(***************************************************************************)
EXTENDS StorageVM

\* The first position after the instructions of a command.
EndAt(command) ==
  CHOOSE n \in 2 .. WordSize :
    ~More(command, n) /\ \A k \in 2 .. n - 1 : More(command, k)

\* The instructions are hashed from the first one on.
SlotOf(command, constants, vals) ==
  [path |-> [k \in 1 .. EndAt(command) - 1 |-> Argument(command[k], constants, vals)],
   off |-> 0]

\* Every instruction pushes a constant or one of the first n values.
WellFormed(command, constants, n) ==
  \A k \in 1 .. EndAt(command) - 1 :
    \/ Opcode(command[k]) = OP_CONSTANT /\ Operand(command[k]) < Len(constants)
    \/ Opcode(command[k]) = OP_BACKREF /\ Operand(command[k]) < n

(***************************************************************************)
(* bytes, strings: a head word whose low byte is 2 * length holds the data *)
(* itself; a head word 2 * length + 1 says that the data area follows.     *)
(***************************************************************************)
IsLong(head) == head[WordSize] % 2 = 1
ShortLength(head) == head[WordSize] \div 2
LongLength(head) == (Num(head) - 1) \div 2

Value(root, slot, dynamic) ==
  LET head == Cell(root, slot)
  IN  IF ~dynamic THEN head
      ELSE IF IsLong(head)
      THEN [n \in 1 .. LongLength(head) |->
              Cell(root, DataSlot(slot, (n - 1) \div WordSize))[1 + ((n - 1) % WordSize)]]
      ELSE SubSeq(head, 1, ShortLength(head))

\* No data word of the long value at slot starts with a zero byte.
WholeWords(root, slot) ==
  LET head == Cell(root, slot)
  IN  IsLong(head) =>
        \A n \in 0 .. LongLength(head) :
          n * WordSize < LongLength(head) => Len(Trie(root, DataSlot(slot, n))) = WordSize

-----------------------------------------------------------------------------
(***************************************************************************)
(* vals[k] is the value that the target's storage trie with this root      *)
(* holds at the slot command k names.  The slot is computed from vals, so  *)
(* for commands that refer backwards only this determines vals.  Nothing   *)
(* is asked of other commands, and of long values with a data word that    *)
(* starts with a zero byte.                                                *)
(***************************************************************************)
Authentic(commands, constants, root, vals, k) ==
  LET s == SlotOf(commands[k], constants, vals)
      dynamic == IsDynamic(commands[k])
  IN  /\ WellFormed(commands[k], constants, k - 1)
      /\ dynamic => WholeWords(root, s)
      => vals[k] = Value(root, s, dynamic)

\* vals answers the request in this state of the target chain.
AuthenticAnswer(commands, constants, state, vals) ==
  /\ StorageRootOf[state] # NoAccount
  /\ Len(vals) = Len(commands)
  /\ \A k \in 1 .. Len(commands) :
       Authentic(commands, constants, StorageRootOf[state], vals, k)

-----------------------------------------------------------------------------
(***************************************************************************)
(* Which requests both sides can serve in a state, and with what.          *)
(***************************************************************************)
\* The slots that are read for the value at a slot, in order.
SlotsRead(root, slot, dynamic) ==
  LET words == (LongLength(Cell(root, slot)) + WordSize - 1) \div WordSize
  IN  IF dynamic /\ IsLong(Cell(root, slot))
      THEN <<slot>> \o [n \in 1 .. words |-> DataSlot(slot, n - 1)]
      ELSE <<slot>>

Readable(command, constants, root, vals) ==
  /\ WellFormed(command, constants, Len(vals))
  /\ Len(Argument(command[1], constants, vals)) = WordSize
  /\ LET s == SlotOf(command, constants, vals)
     IN  IsDynamic(command) => /\ WholeWords(root, s)
                               /\ ~IsLong(Cell(root, s)) => ShortLength(Cell(root, s)) <= WordSize

\* The values of the commands up to the first one that is not readable.
Results(commands, constants, root) ==
  LET vals[k \in 0 .. Len(commands)] ==
        IF k = 0 THEN <<>>
        ELSE LET v == vals[k - 1] IN
             IF Len(v) = k - 1 /\ Readable(commands[k], constants, root, v)
             THEN Append(v, Value(root, SlotOf(commands[k], constants, v), IsDynamic(commands[k])))
             ELSE v
  IN  vals[Len(commands)]

Servable(commands, constants, state) ==
  /\ StorageRootOf[state] # NoAccount
  /\ Len(Results(commands, constants, StorageRootOf[state])) = Len(commands)

\* The slots of all commands, in the order of the commands.
SlotList(commands, constants, root) ==
  LET vals == Results(commands, constants, root)
  IN  FlattenSeq([k \in 1 .. Len(commands) |->
        SlotsRead(root, SlotOf(commands[k], constants, vals), IsDynamic(commands[k]))])
=============================================================================
