------------------------------ MODULE EVMFetcher ------------------------------
(***************************************************************************)
(* The request builder, evm-verifier/contracts/EVMFetcher.sol: a contract  *)
(* calls getStatic, getDynamic, element and ref in any order and ends with *)
(* fetch.  Each call packs one-byte instructions into the current command  *)
(* word.  The two arrays are allocated once, for MAX_COMMANDS words and    *)
(* MAX_CONSTANTS pointers, and their lengths are set by assembly; what is  *)
(* written after the last constant lands in the request structure itself.  *)
(***************************************************************************)
EXTENDS StorageRead

CONSTANTS
  MAX_COMMANDS, MAX_CONSTANTS,
  BaseSlots,    \* the base slots callers use, as words
  Elements,     \* the path elements callers use
  MaxOverflow   \* bound on constants written past the array

ASSUME FetcherAssumption ==
  /\ MAX_COMMANDS \in Nat /\ MAX_CONSTANTS \in Nat
  /\ MAX_CONSTANTS <= OperandSpan      \* "Must not be greater than 32"
  /\ BaseSlots \subseteq Bytes /\ Elements \subseteq Bytes
  /\ MaxOverflow \in 0 .. 2

VARIABLES
  commands, constants,  \* the arrays of the request
  operationIdx,         \* where the next instruction goes
  overwritten,          \* how many of its fields verifier, target are lost
  fpc,                  \* "building", "sent" or "reverted"
  intent                \* history: the fetches that were described

vars == <<commands, constants, operationIdx, overwritten, fpc, intent>>

(***************************************************************************)
(* What the caller described: per fetch, whether it is dynamic, and its    *)
(* path.  An item is an element (with ref = NoRef) or a reference.         *)
(***************************************************************************)
NoRef == OperandSpan
ElementItem(v) == [el |-> v, ref |-> NoRef]
RefItem(idx) == [el |-> <<>>, ref |-> idx]
Item == [el : Bytes, ref : 0 .. OperandSpan]
Fetch == [dynamic : BOOLEAN, path : Seq(Item)]

\* newFetchRequest
Init ==
  /\ commands = <<>> /\ constants = <<>> /\ operationIdx = 0
  /\ overwritten = 0 /\ fpc = "building" /\ intent = <<>>

EmptyCommand == [k \in 0 .. WordSize - 1 |-> 0]

\* A byte that is OR-ed in past the end of the word is lost.
WithOperation(cmds, idx, op) ==
  IF idx < WordSize THEN [cmds EXCEPT ![Len(cmds)][idx] = op] ELSE cmds

\* Mutant of Terminated: the previous command is not ended.
Terminated_Never == commands

\* The previous command is ended unless it fills its word.
Terminated ==
  IF commands # <<>> /\ operationIdx < WordSize
  THEN WithOperation(commands, operationIdx, OP_END)
  ELSE commands

\* _addConstant: an index of the array is an operation; the array may be full.
AddedConstant == Len(constants)
addConstant(v) ==
  /\ Len(constants) < MAX_CONSTANTS + MaxOverflow
  /\ constants' = Append(constants, v)
  /\ overwritten' = IF Len(constants) < MAX_CONSTANTS THEN overwritten ELSE overwritten + 1

Revert ==
  /\ fpc' = "reverted"
  /\ UNCHANGED <<commands, constants, operationIdx, overwritten, intent>>

\* getStatic, getDynamic: they differ in the flags byte.
get(flags, base) ==
  /\ fpc = "building"
  /\ IF Len(commands) + 1 > MAX_COMMANDS
     THEN Revert   \* TooManyCommands
     ELSE /\ addConstant(base)
          /\ LET begun == WithOperation(Append(Terminated, EmptyCommand), 0, flags)
             IN  commands' = WithOperation(begun, 1, AddedConstant)
          /\ operationIdx' = 2
          /\ intent' = Append(intent, [dynamic |-> flags = FLAG_DYNAMIC, path |-> <<ElementItem(base)>>])
          /\ UNCHANGED fpc

getStatic == \E base \in BaseSlots : get(0, base)
getDynamic == \E base \in BaseSlots : get(FLAG_DYNAMIC, base)

\* Mutant of CannotAdd: one instruction too many.
CannotAdd_OneMore == operationIdx > WordSize \/ commands = <<>>

\* _addOperation has no command to add to before the first fetch.
CannotAdd == operationIdx >= WordSize \/ commands = <<>>

addOperation(op, item) ==
  /\ commands' = WithOperation(commands, operationIdx, op)
  /\ operationIdx' = operationIdx + 1
  /\ intent' = [intent EXCEPT ![Len(intent)].path = Append(@, item)]
  /\ UNCHANGED fpc

element ==
  /\ fpc = "building"
  /\ \E el \in Elements :
       IF CannotAdd
       THEN Revert   \* CommandTooLong
       ELSE addConstant(el) /\ addOperation(AddedConstant, ElementItem(el))

ref ==
  /\ fpc = "building"
  /\ \E idx \in 0 .. OperandSpan :
       IF CannotAdd \/ idx > Len(commands) \/ idx > OperandSpan - 1
       THEN Revert   \* CommandTooLong, InvalidReference
       ELSE addOperation(OP_BACKREF + idx, RefItem(idx)) /\ UNCHANGED <<constants, overwritten>>

\* The verifier that was written over has no gateway URLs.
fetch ==
  /\ fpc = "building"
  /\ IF overwritten > 0
     THEN Revert
     ELSE /\ commands' = Terminated
          /\ operationIdx' = IF commands # <<>> /\ operationIdx < WordSize
                             THEN operationIdx + 1 ELSE operationIdx
          /\ fpc' = "sent"
          /\ UNCHANGED <<constants, overwritten, intent>>

Next == getStatic \/ getDynamic \/ element \/ ref \/ fetch

Spec == Init /\ [][Next]_vars

-----------------------------------------------------------------------------
TypeOK ==
  /\ commands \in Seq(Command) /\ Len(commands) <= MAX_COMMANDS
  /\ constants \in Seq(Bytes) /\ operationIdx \in 0 .. WordSize
  /\ overwritten \in Nat /\ fpc \in {"building", "sent", "reverted"}
  /\ intent \in Seq(Fetch)

\* The instruction means the item.
Means(op, item, consts) ==
  IF item.ref = NoRef
  THEN /\ Opcode(op) = OP_CONSTANT /\ Operand(op) < Len(consts)
       /\ consts[Operand(op) + 1] = item.el
  ELSE Opcode(op) = OP_BACKREF /\ Operand(op) = item.ref

\* The command ends where the path does, and every instruction means the item
\* in its place.
Encodes(command, f) ==
  /\ IsDynamic(command) = f.dynamic
  /\ EndAt(command) = Len(f.path) + 1
  /\ \A k \in 1 .. Len(f.path) : Means(command[k], f.path[k], constants)

(***************************************************************************)
(* A request that is sent says what the caller described, in the language  *)
(* that gateway and verifier read, fetches that fill their command word    *)
(* exactly included: as many commands as fetches, each ending where its    *)
(* path ends.                                                              *)
(***************************************************************************)
Faithful ==
  fpc = "sent" =>
    /\ Len(commands) = Len(intent)
    /\ \A c \in 1 .. Len(intent) : Encodes(commands[c], intent[c])
=============================================================================
