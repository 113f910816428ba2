-------------------------- MODULE StorageFetch_proofs --------------------------
(***************************************************************************)
(* Proofs about a cross-chain read.  About the gateway on its own:         *)
(*   ValuesAreOne        a command's value is the same for all that use it *)
(*   GatewayTypeCorrect  what its variables hold                           *)
(*   CreateProofsServes  a request that can be served is, undisturbed      *)
(* About the gateway, the callback and the verifier together:              *)
(*   WholeRead           a read implements an authentic read               *)
(*   ReadCompletes       gateway and verifier agree on slots and layout    *)
(***************************************************************************)
EXTENDS StorageFetch, TLAPS

-----------------------------------------------------------------------------
(***************************************************************************)
(* The gateway.  All commands of a request that refer to one command use   *)
(* the same value of it, for any request, however its promises interleave  *)
(* and however often the chain is reorganised while they run.              *)
(*                                                                         *)
(* A value, once it is ready, stays what it is: that is the memo in        *)
(* getValueFromPath.  A path holds, at every reference, the value as it    *)
(* was when it was pushed, and so as it is.                                *)
(***************************************************************************)

\* Sizes are numbers, and words are byte strings of WordSize bytes.
LEMMA ByteFacts ==
  /\ WordSize \in Nat /\ WordSize >= 3 /\ ByteBase \in Nat \ {0}
  /\ OperandSpan \in Nat \ {0} /\ WordSize < ByteBase
  /\ <<>> \in Bytes /\ ZeroWord \in Bytes /\ Len(ZeroWord) = WordSize
  /\ Word \subseteq Bytes /\ \A w \in Word : Len(w) = WordSize
BY SizeAssumption DEF Bytes, Byte, Word, ZeroWord

\* A promise has the fields it is made with.
Fields == {"pc", "j", "slot", "slots", "head", "dataSlots", "len", "value", "words"}
HasFields(p) == p = [x \in Fields |-> p[x]]

\* As long as instructions were executed, and no longer, is the path.
PathLength(p) ==
  /\ p.j \in Nat \ {0}
  /\ \E S : p.slot.path \in Seq(S)
  /\ p.j > 1 => Len(p.slot.path) = p.j - 1

\* Only a value that takes more than the head word is read by value().
Called(p) == p.value # "idle" => p.pc = "resolved" /\ ~IsShort(p)

\* What was pushed for a reference is ready, and is what was pushed.
Reference(c, k) == Operand(commands[c][k]) + 1
AsPushed(k, v) == IF k = 1 THEN AsBase(v) ELSE v
Hashed(c) ==
  \A k \in 1 .. promise[c].j - 1 :
    Opcode(commands[c][k]) = OP_BACKREF =>
      /\ Reference(c, k) \in DOMAIN promise
      /\ Ready(promise[Reference(c, k)])
      /\ promise[c].slot.path[k] = AsPushed(k, valueOf(promise[Reference(c, k)]))

Formed(p) == HasFields(p) /\ PathLength(p) /\ Called(p)

MemoInv ==
  /\ gpc = "block" => promise = <<>>
  /\ gpc = "slots" => DOMAIN promise = Commands
  /\ \A c \in DOMAIN promise : Formed(promise[c]) /\ Hashed(c)

-----------------------------------------------------------------------------
\* Promise d becomes q, which keeps its path, and its value if it had one.
LEMMA PromiseChanges ==
  ASSUME MemoInv, gpc = "slots", gpc' = "slots", UNCHANGED commands, NEW d \in Commands, NEW q,
         promise' = [promise EXCEPT ![d] = q], Formed(q),
         Ready(promise[d]) => Ready(q) /\ valueOf(q) = valueOf(promise[d]),
         q.j = promise[d].j, q.slot = promise[d].slot
  PROVE  MemoInv'
<1>1. /\ DOMAIN promise = Commands /\ DOMAIN promise' = Commands /\ Commands' = Commands
      /\ \A c \in Commands : promise'[c] = IF c = d THEN q ELSE promise[c]
  BY DEF MemoInv, Commands
<1>2. \A c \in Commands : /\ promise'[c].j = promise[c].j /\ promise'[c].slot = promise[c].slot
                          /\ Ready(promise[c]) => /\ Ready(promise'[c])
                                                  /\ valueOf(promise'[c]) = valueOf(promise[c])
  BY <1>1
<1>3. ASSUME NEW c \in Commands PROVE Hashed(c)'
  BY <1>1, <1>2 DEF MemoInv, Hashed, Reference
<1> QED BY <1>1, <1>3 DEF MemoInv

\* Promise c, still on its path, is pushed one more element.
LEMMA PathGrows ==
  ASSUME MemoInv, gpc = "slots", gpc' = "slots", UNCHANGED commands, NEW c \in Commands, NEW q,
         promise' = [promise EXCEPT ![c] = q], Formed(q), promise[c].pc = "path",
         q.j = promise[c].j + 1,
         \A k \in 1 .. promise[c].j - 1 : q.slot.path[k] = promise[c].slot.path[k],
         Opcode(commands[c][promise[c].j]) = OP_BACKREF =>
           /\ Referent(c) \in Visible(c) /\ Ready(promise[Referent(c)])
           /\ q.slot.path[promise[c].j] = AsPushed(promise[c].j, valueOf(promise[Referent(c)]))
  PROVE  MemoInv'
<1>1. /\ DOMAIN promise = Commands /\ DOMAIN promise' = Commands /\ Commands' = Commands
      /\ \A d \in Commands : promise'[d] = IF d = c THEN q ELSE promise[d]
  BY DEF MemoInv, Commands
<1>2. ~Ready(promise[c])
  BY DEF Ready
<1>3. ASSUME NEW d \in Commands, d # c PROVE Hashed(d)'
  BY <1>1, <1>2, <1>3 DEF MemoInv, Hashed, Reference
<1>4. Visible(c) \subseteq Commands
  BY DEF Visible, Commands
<1>5. promise[c].j \in Nat \ {0}
  BY <1>1 DEF MemoInv, Formed, PathLength
<1>6. Hashed(c)'
  <2> SUFFICES ASSUME NEW k \in 1 .. promise[c].j, Opcode(commands[c][k]) = OP_BACKREF
               PROVE  /\ Reference(c, k) \in Commands
                      /\ Ready(promise'[Reference(c, k)])
                      /\ q.slot.path[k] = AsPushed(k, valueOf(promise'[Reference(c, k)]))
    BY <1>1, <1>5 DEF Hashed, Reference
  <2>1. /\ Reference(c, k) \in Commands
        /\ Ready(promise[Reference(c, k)])
        /\ q.slot.path[k] = AsPushed(k, valueOf(promise[Reference(c, k)]))
    <3>1. CASE k = promise[c].j
      BY <1>4, <3>1 DEF Reference, Referent, Operation
    <3>2. CASE k # promise[c].j
      BY <1>1, <1>5, <3>2 DEF MemoInv, Hashed
    <3> QED BY <3>1, <3>2
  <2> QED BY <1>1, <1>2, <2>1
<1> QED BY <1>1, <1>3, <1>6 DEF MemoInv

\* A step of the promise of a command.
LEMMA MemoStep == ASSUME MemoInv, NEW c \in Commands, Step(c) PROVE MemoInv'
<1>1. gpc = "slots" /\ gpc' = "slots" /\ UNCHANGED commands
  BY DEF Step, ExecuteThrows, CallValue, FirstElement, NextElement, EndOfPath, ReadHead, ReadWord,
         ValueSettles, OnPath, Reject, SetPromise, request
<1>2. \A d \in Commands : Formed(promise[d])
  BY <1>1 DEF MemoInv
<1>3. CASE ExecuteThrows(c)
  <2>1. PICK q : q = [promise[c] EXCEPT !.pc = "rejected"] /\ promise' = [promise EXCEPT ![c] = q]
    BY <1>3 DEF ExecuteThrows, Reject, SetPromise
  <2>2. promise[c].pc = "path" /\ Formed(promise[c])
    BY <1>2, <1>3 DEF ExecuteThrows, OnPath
  <2>3. Formed(q) /\ q.j = promise[c].j /\ q.slot = promise[c].slot
    BY <2>1, <2>2 DEF Formed, HasFields, Fields, PathLength, Called, IsShort
  <2> QED BY <1>1, <2>1, <2>2, <2>3, PromiseChanges DEF Ready
<1>4. CASE CallValue(c)
  <2> DEFINE d == Referent(c)
  <2>1. PICK q : /\ q = [promise[d] EXCEPT !.value = "reading",
                                    !.words = [n \in 1 .. Len(promise[d].dataSlots) |-> Unread]]
                 /\ promise' = [promise EXCEPT ![d] = q]
    BY <1>4 DEF CallValue, SetPromise
  <2>2. d \in Commands
    BY <1>4 DEF CallValue, Visible, Commands
  <2>3. Uncalled(promise[d])
    BY <1>4 DEF CallValue
  <2>4. Formed(q) /\ q.j = promise[d].j /\ q.slot = promise[d].slot
    BY <1>2, <2>1, <2>2, <2>3
       DEF Formed, HasFields, Fields, PathLength, Called, IsShort, Uncalled
  <2>5. ~Ready(promise[d])
    BY <2>3 DEF Uncalled, Ready
  <2> HIDE DEF d
  <2> QED BY <1>1, <2>1, <2>2, <2>4, <2>5, PromiseChanges
<1>5. CASE FirstElement(c)
  <2>1. promise[c].pc = "path" /\ promise[c].j = 1 /\ Formed(promise[c])
    BY <1>2, <1>5 DEF FirstElement, OnPath
  <2>2. CASE Reject(c)
    <3>1. PICK q : q = [promise[c] EXCEPT !.pc = "rejected"] /\ promise' = [promise EXCEPT ![c] = q]
      BY <2>2 DEF Reject, SetPromise
    <3>2. Formed(q) /\ q.j = promise[c].j /\ q.slot = promise[c].slot
      BY <2>1, <3>1 DEF Formed, HasFields, Fields, PathLength, Called, IsShort
    <3> QED BY <1>1, <2>1, <3>1, <3>2, PromiseChanges DEF Ready
  <2>3. CASE ~Reject(c)
    <3> DEFINE b == AsBase(Pushed(c))
    <3>1. PICK q : /\ q = [promise[c] EXCEPT !.j = 2, !.slot = BaseSlot(b)]
                   /\ promise' = [promise EXCEPT ![c] = q]
      BY <1>5, <2>3 DEF FirstElement, SetPromise, AsBase
    <3> HIDE DEF b
    <3>2. q.j = 2 /\ q.slot = BaseSlot(b) /\ HasFields(q) /\ q.pc = "path" /\ q.value = "idle"
      BY <2>1, <3>1 DEF Formed, HasFields, Fields, Called
    <3>3. <<b>> \in Seq({b}) /\ Len(<<b>>) = 1
      OBVIOUS
    <3>4. q.slot.path = <<b>>
      BY <3>2 DEF BaseSlot
    <3>5. Formed(q)
      <4>1. \E S : q.slot.path \in Seq(S)
        BY <3>3, <3>4
      <4> QED BY <3>2, <3>3, <3>4, <4>1 DEF Formed, PathLength, Called
    <3>6. q.j = promise[c].j + 1 /\ promise[c].j = 1 /\ 1 .. promise[c].j - 1 = {}
      BY <2>1, <3>2
    <3>7. Opcode(commands[c][promise[c].j]) = OP_BACKREF =>
            /\ Referent(c) \in Visible(c) /\ Ready(promise[Referent(c)])
            /\ q.slot.path[promise[c].j] = AsPushed(promise[c].j, valueOf(promise[Referent(c)]))
      <4> SUFFICES ASSUME Opcode(commands[c][promise[c].j]) = OP_BACKREF
                   PROVE  /\ Referent(c) \in Visible(c) /\ Ready(promise[Referent(c)])
                          /\ q.slot.path[promise[c].j]
                               = AsPushed(promise[c].j, valueOf(promise[Referent(c)]))
        OBVIOUS
      <4>1. /\ Referent(c) \in Visible(c) /\ Ready(promise[Referent(c)])
            /\ Pushed(c) = valueOf(promise[Referent(c)])
        BY <1>5, ByteFacts DEF FirstElement, Pushes, Pushed, Operation, OP_BACKREF, OP_CONSTANT
      <4> QED BY <3>4, <3>6, <4>1 DEF AsPushed, b
    <3> QED BY <1>1, <2>1, <3>1, <3>5, <3>6, <3>7, PathGrows
  <2> QED BY <2>2, <2>3
<1>6. CASE NextElement(c)
  <2>1. promise[c].pc = "path" /\ promise[c].j > 1 /\ Formed(promise[c]) /\ Pushes(c)
    BY <1>2, <1>6 DEF NextElement, OnPath
  <2>2. PICK q : /\ q = [promise[c] EXCEPT !.j = @ + 1, !.slot = Keccak(Pushed(c), @)]
                 /\ promise' = [promise EXCEPT ![c] = q]
    BY <1>6 DEF NextElement, SetPromise
  <2>3. /\ q.j = promise[c].j + 1 /\ HasFields(q) /\ q.pc = "path" /\ q.value = "idle"
        /\ q.slot.path = Append(promise[c].slot.path, Pushed(c))
    BY <2>1, <2>2 DEF Formed, HasFields, Fields, Called, Keccak
  <2>4. PICK S : promise[c].slot.path \in Seq(S)
    BY <2>1 DEF Formed, PathLength
  <2>5. Len(promise[c].slot.path) = promise[c].j - 1 /\ promise[c].j \in Nat
    BY <2>1 DEF Formed, PathLength
  <2>6. q.slot.path \in Seq(S \cup {Pushed(c)}) /\ Len(q.slot.path) = promise[c].j
    <3>1. promise[c].slot.path \in Seq(S \cup {Pushed(c)})
      BY <2>4
    <3> QED BY <2>3, <2>5, <3>1
  <2>7. /\ q.slot.path[promise[c].j] = Pushed(c)
        /\ \A k \in 1 .. promise[c].j - 1 : q.slot.path[k] = promise[c].slot.path[k]
    BY <2>3, <2>4, <2>5
  <2>8. Formed(q)
    BY <2>3, <2>5, <2>6 DEF Formed, PathLength, Called
  <2>9. Opcode(commands[c][promise[c].j]) = OP_BACKREF =>
          /\ Referent(c) \in Visible(c) /\ Ready(promise[Referent(c)])
          /\ Pushed(c) = valueOf(promise[Referent(c)])
    BY <2>1, ByteFacts DEF Pushes, Pushed, Operation, OP_BACKREF, OP_CONSTANT
  <2>10. AsPushed(promise[c].j, Pushed(c)) = Pushed(c)
    BY <2>1, <2>5 DEF AsPushed
  <2> QED BY <1>1, <2>1, <2>2, <2>3, <2>7, <2>8, <2>9, <2>10, PathGrows
<1>7. CASE EndOfPath(c)
  <2>1. PICK q : /\ \/ q = [promise[c] EXCEPT !.pc = "head"]
                    \/ q = [promise[c] EXCEPT !.pc = "resolved", !.slots = <<promise[c].slot>>,
                                           !.dataSlots = <<promise[c].slot>>, !.len = WordSize]
                 /\ promise' = [promise EXCEPT ![c] = q]
    BY <1>7 DEF EndOfPath, SetPromise
  <2>2. promise[c].pc = "path" /\ Formed(promise[c])
    BY <1>2, <1>7 DEF EndOfPath
  <2>3. Formed(q) /\ q.j = promise[c].j /\ q.slot = promise[c].slot
    BY <2>1, <2>2 DEF Formed, HasFields, Fields, PathLength, Called
  <2> QED BY <1>1, <2>1, <2>2, <2>3, PromiseChanges DEF Ready
<1>8. CASE ReadHead(c)
  <2>1. PICK q, pc, head, sl, data, len :
          /\ \/ q = [promise[c] EXCEPT !.pc = "rejected"]
             \/ q = [promise[c] EXCEPT !.pc = "resolved", !.head = head, !.slots = sl, !.len = len]
             \/ q = [promise[c] EXCEPT !.pc = "resolved", !.head = head, !.slots = sl,
                                       !.dataSlots = data, !.len = len]
          /\ promise' = [promise EXCEPT ![c] = q]
    BY <1>8 DEF ReadHead, SetPromise, Reject
  <2>2. promise[c].pc = "head" /\ Formed(promise[c])
    BY <1>2, <1>8 DEF ReadHead
  <2>3. Formed(q) /\ q.j = promise[c].j /\ q.slot = promise[c].slot
    BY <2>1, <2>2 DEF Formed, HasFields, Fields, PathLength, Called
  <2> QED BY <1>1, <2>1, <2>2, <2>3, PromiseChanges DEF Ready
<1>9. CASE ReadWord(c) \/ ValueSettles(c)
  <2>1. PICK q, words :
          /\ \/ q = [promise[c] EXCEPT !.words = words]
             \/ q = [promise[c] EXCEPT !.value = "ready"]
          /\ promise' = [promise EXCEPT ![c] = q]
    BY <1>9 DEF ReadWord, ValueSettles, SetPromise
  <2>2. promise[c].value = "reading" /\ Formed(promise[c])
    BY <1>2, <1>9 DEF ReadWord, ValueSettles
  <2>3. Formed(q) /\ q.j = promise[c].j /\ q.slot = promise[c].slot
    BY <2>1, <2>2 DEF Formed, HasFields, Fields, PathLength, Called, IsShort
  <2>4. ~Ready(promise[c])
    BY <2>2 DEF Formed, Called, Ready
  <2> QED BY <1>1, <2>1, <2>3, <2>4, PromiseChanges
<1> QED BY <1>3, <1>4, <1>5, <1>6, <1>7, <1>8, <1>9 DEF Step

\* What the node does to a promise takes no value away.
LEMMA NodeFailsStep == ASSUME MemoInv, NodeFails PROVE MemoInv'
<1>1. UNCHANGED commands
  BY DEF NodeFails, request
<1>2. CASE gpc' = "failed" /\ UNCHANGED promise
  BY <1>1, <1>2 DEF MemoInv, Hashed, Reference
<1>3. CASE gpc = "slots" /\ gpc' = "slots"
  <2>1. PICK c \in Commands :
          \/ promise[c].pc = "head" /\ promise' = [promise EXCEPT ![c].pc = "rejected"]
          \/ promise[c].value = "reading" /\ promise' = [promise EXCEPT ![c].value = "failed"]
    BY <1>3 DEF NodeFails
  <2>2. PICK q : /\ \/ promise[c].pc = "head" /\ q = [promise[c] EXCEPT !.pc = "rejected"]
                    \/ promise[c].value = "reading" /\ q = [promise[c] EXCEPT !.value = "failed"]
                 /\ promise' = [promise EXCEPT ![c] = q]
    BY <2>1
  <2>3. Formed(promise[c])
    BY <1>3 DEF MemoInv
  <2>4. Formed(q) /\ q.j = promise[c].j /\ q.slot = promise[c].slot
    BY <2>2, <2>3 DEF Formed, HasFields, Fields, PathLength, Called, IsShort
  <2>5. ~Ready(promise[c])
    BY <2>2, <2>3 DEF Formed, Called, Ready
  <2> QED BY <1>1, <1>3, <2>2, <2>4, <2>5, PromiseChanges
<1> QED BY <1>2, <1>3 DEF NodeFails

\* Every step of the gateway keeps the memo.
LEMMA MemoNext == ASSUME MemoInv, [Next]_vars PROVE MemoInv'
<1>1. CASE GetProvableBlock
  <2>1. promise' = [c \in Commands |-> NewPromise] /\ gpc' = "slots" /\ UNCHANGED commands
    BY <1>1 DEF GetProvableBlock, request
  <2>2. Formed(NewPromise) /\ NewPromise.j = 1
    <3>1. HasFields(NewPromise) /\ NewPromise.j = 1 /\ NewPromise.value = "idle"
      BY DEF HasFields, Fields, NewPromise
    <3>2. NewPromise.slot.path = <<ZeroWord>>
      BY DEF NewPromise, BaseSlot
    <3>3. <<ZeroWord>> \in Seq({ZeroWord})
      OBVIOUS
    <3>4. \E S : NewPromise.slot.path \in Seq(S)
      BY <3>2, <3>3
    <3> QED BY <3>1, <3>4 DEF Formed, PathLength, Called
  <2>3. /\ DOMAIN promise' = Commands'
        /\ \A c \in Commands : promise'[c].j = 1 /\ Formed(promise'[c])
    BY <2>1, <2>2 DEF Commands
  <2> HIDE DEF Formed
  <2>4. \A c \in Commands : Hashed(c)'
    BY <2>3 DEF Hashed
  <2> QED BY <2>1, <2>3, <2>4 DEF MemoInv, Commands
<1>2. CASE \E c \in Commands : Step(c)
  BY <1>2, MemoStep
<1>3. CASE AllResolved \/ SomeRejected \/ GetProof \/ GetHeader \/ Reorg
  <2>1. UNCHANGED <<commands, promise>> /\ (gpc' = gpc \/ gpc' \notin {"block", "slots"})
    BY <1>3 DEF AllResolved, SomeRejected, GetProof, GetHeader, Reorg, Stay, request
  <2> QED BY <2>1 DEF MemoInv, Commands, Hashed, Reference
<1>4. CASE NodeFails
  BY <1>4, NodeFailsStep
<1>5. CASE UNCHANGED vars
  BY <1>5 DEF vars, request, MemoInv, Commands, Hashed, Reference
<1> QED BY <1>1, <1>2, <1>3, <1>4, <1>5 DEF Next, Run

(***************************************************************************)
(* Commands that refer to the same command hash the same value of it, even *)
(* if the chain is reorganised between the instructions that do.           *)
(***************************************************************************)
THEOREM ValuesAreOne == Spec => []OneValue
<1>1. Init => MemoInv
  BY DEF Init, MemoInv
<1>2. MemoInv => OneValue
  <2> SUFFICES ASSUME MemoInv, NEW c1 \in DOMAIN promise, NEW c2 \in DOMAIN promise,
                      NEW k1 \in 1 .. WordSize - 1, NEW k2 \in 1 .. WordSize - 1,
                      NEW d \in DOMAIN promise,
                      Refers(c1, k1, d), Refers(c2, k2, d), k2 = 1 => k1 = 1
               PROVE  promise[c1].slot.path[k1] =
                        IF k1 = 1 /\ k2 > 1 THEN AsBase(promise[c2].slot.path[k2])
                                            ELSE promise[c2].slot.path[k2]
    BY DEF OneValue
  <2>1. ASSUME NEW c \in DOMAIN promise, NEW k \in 1 .. WordSize - 1, Refers(c, k, d)
        PROVE  promise[c].slot.path[k] = AsPushed(k, valueOf(promise[d]))
    <3>1. promise[c].j \in Nat
      BY DEF MemoInv, Formed, PathLength
    <3>2. k \in 1 .. promise[c].j - 1
      BY <2>1, <3>1, ByteFacts DEF Refers
    <3> QED BY <2>1, <3>2 DEF MemoInv, Hashed, Refers, Reference
  <2>2. /\ promise[c1].slot.path[k1] = AsPushed(k1, valueOf(promise[d]))
        /\ promise[c2].slot.path[k2] = AsPushed(k2, valueOf(promise[d]))
    BY <2>1
  <2>3. k1 > 1 => k2 > 1
    BY ByteFacts
  <2> QED BY <2>2, <2>3, ByteFacts DEF AsPushed
<1> QED BY <1>1, <1>2, MemoNext, PTL DEF Spec

-----------------------------------------------------------------------------
(* The verifier as P has it                                                *)

\* getStorageValues, with what is proved about it in a state that it accepts.
P == INSTANCE EVMProofHelper_proofs WITH
       stateRoot <- response.header, proof <- response.proof, Proofs <- {}

\* Words and requests are the same for both.
LEMMA SameWords ==
  /\ P!Bytes = Bytes /\ P!ZeroWord = ZeroWord
  /\ P!Command = Command /\ P!Program = Program
  /\ \A v : P!LeftPad(v) = LeftPad(v)
BY DEF P!Byte, Byte, P!Bytes, Bytes, P!ZeroWord, ZeroWord, P!LeftPad, LeftPad,
       P!Program, Program, P!Command, Command

\* What the theorems of P assume of the constants.
LEMMA Premises == P!InputAssumption /\ P!SizeAssumption /\ P!StoreAssumption
<1>1. P!InputAssumption /\ P!SizeAssumption
  BY BoundAssumption, SizeAssumption, SameWords DEF P!InputAssumption, P!SizeAssumption
<1>2. P!StoreAssumption
  BY StoreAssumption, SameWords DEF P!StoreAssumption
<1> QED BY <1>1, <1>2

\* The answers are judged alike.
LEMMA SameAnswers ==
  ASSUME NEW cmds, NEW consts, NEW s, NEW vals
  PROVE  P!AuthenticAnswer(cmds, consts, s, vals) = AuthenticAnswer(cmds, consts, s, vals)
BY DEF P!AuthenticAnswer, AuthenticAnswer, P!Authentic, Authentic, P!WellFormed, WellFormed,
       P!SlotOf, SlotOf, P!EndAt, EndAt, P!More, More, P!OP_END, OP_END, P!Argument, Argument,
       P!Opcode, Opcode, P!Operand, Operand, P!OP_CONSTANT, OP_CONSTANT, P!OP_BACKREF, OP_BACKREF,
       P!IsDynamic, IsDynamic, P!FLAG_DYNAMIC, FLAG_DYNAMIC, P!WholeWords, WholeWords,
       P!Value, Value, P!IsLong, IsLong, P!LongLength, LongLength, P!ShortLength, ShortLength,
       P!DataSlot, DataSlot, P!Cell, Cell, P!Trie, Trie, P!LeftPad, LeftPad, P!Num, Num

\* A step of the verifier is a step of P.
LEMMA SameNext == V!Next => P!Next
<1> USE DEF V!GetStorageRoot, P!GetStorageRoot, V!FirstElement, P!FirstElement,
       V!NextElement, P!NextElement, V!ProofFails, P!ProofFails, V!ReadFixed, P!ReadFixed,
       V!ReadShort, P!ReadShort, V!ReadLongHead, P!ReadLongHead, V!ReadChunk, P!ReadChunk,
       V!EndOfValue, P!EndOfValue, V!Return, P!Return, V!Revert, P!Revert, V!Store_i, P!Store_i,
       V!inputs, P!inputs, V!locals, P!locals, V!storageRoot, P!storageRoot, V!command, P!command,
       V!Executes, P!Executes, V!Reading, P!Reading, V!witness, P!witness,
       V!MayDecide, P!MayDecide, V!Decides, P!Decides, V!Left, P!Left, V!Provable, P!Provable,
       V!getSingleStorageProof, P!getSingleStorageProof, V!getFixedValue, P!getFixedValue,
       V!More, P!More, V!OP_END, P!OP_END, V!Argument, P!Argument,
       V!Opcode, P!Opcode, V!Operand, P!Operand, V!OP_CONSTANT, P!OP_CONSTANT,
       V!OP_BACKREF, P!OP_BACKREF, V!IsDynamic, P!IsDynamic, V!FLAG_DYNAMIC, P!FLAG_DYNAMIC,
       V!BaseSlot, P!BaseSlot, V!Keccak, P!Keccak, V!DataSlot, P!DataSlot,
       V!Trie, P!Trie, V!LeftPad, P!LeftPad, V!Num, P!Num
<1>1. V!GetStorageRoot => P!GetStorageRoot
  OBVIOUS
<1>2. V!FirstElement => P!FirstElement
  OBVIOUS
<1>3. V!NextElement => P!NextElement
  OBVIOUS
<1>4. V!ProofFails => P!ProofFails
  OBVIOUS
<1>5. V!ReadFixed => P!ReadFixed
  OBVIOUS
<1>6. V!ReadShort => P!ReadShort
  OBVIOUS
<1>7. V!ReadLongHead => P!ReadLongHead
  OBVIOUS
<1>8. V!ReadChunk => P!ReadChunk
  OBVIOUS
<1>9. V!EndOfValue => P!EndOfValue
  OBVIOUS
<1>10. V!Return => P!Return
  OBVIOUS
<1> QED BY <1>1, <1>2, <1>3, <1>4, <1>5, <1>6, <1>7, <1>8, <1>9, <1>10 DEF V!Next, P!Next

-----------------------------------------------------------------------------
(* Words, lengths and concatenations.                                      *)

\* The cells are the same for both, and what P proves of them.
LEMMA SameCells ==
  /\ \A r, s : P!Trie(r, s) = Trie(r, s) /\ P!Cell(r, s) = Cell(r, s)
  /\ \A w : P!Num(w) = Num(w)
  /\ P!Word = Word
BY DEF P!Trie, Trie, P!Cell, Cell, P!LeftPad, LeftPad, P!Num, Num, P!Word, Word, P!Byte, Byte

\* A storage trie holds at most a word, and its cells are words.
LEMMA CellFacts ==
  ASSUME NEW r \in StorageRoots, NEW s
  PROVE  /\ Trie(r, s) \in Bytes /\ Len(Trie(r, s)) \in 0 .. WordSize /\ Cell(r, s) \in Word
BY P!TrieFacts, Premises, SameCells, SameWords
   DEF P!InputAssumption, P!SizeAssumption, P!StoreAssumption

\* What the low byte of a head word says of the length of the value.
LEMMA LengthFacts ==
  ASSUME NEW w \in Word
  PROVE  /\ IsLong(w) => LongLength(w) \in Nat
         /\ ShortLength(w) \in Nat
<1>1. Num(w) \in Nat /\ w[WordSize] % 2 = Num(w) % 2
  BY P!NumFacts, Premises, SameCells DEF P!InputAssumption, P!SizeAssumption, P!StoreAssumption
<1>2. w[WordSize] \in Nat
  BY ByteFacts DEF Word, Byte
<1> QED BY <1>1, <1>2 DEF IsLong, LongLength, ShortLength

\* Words that take len bytes.
LEMMA WordCount ==
  ASSUME NEW len \in Nat
  PROVE  /\ DataWords(len) \in Nat /\ len <= DataWords(len) * WordSize
         /\ DataWords(len) = 0 => len = 0
         /\ \A n \in Nat : n < DataWords(len) => n * WordSize < len
BY ByteFacts DEF DataWords

\* Induction, over the members of a set.
LEMMA SetInduction ==
  ASSUME NEW S, 0 \in S, \A n \in Nat : n \in S => n + 1 \in S
  PROVE  Nat \subseteq S
BY P!SetInduction, Premises DEF P!InputAssumption, P!SizeAssumption, P!StoreAssumption

\* A set of numbers that is not empty has a least one.
LEMMA LeastNumber ==
  ASSUME NEW S \in SUBSET Nat, S # {}
  PROVE  \E m \in S : \A x \in S : m <= x
<1>0. PICK b \in S : TRUE
  OBVIOUS
<1> SUFFICES ASSUME \A m \in S : \E x \in S : x < m PROVE FALSE
  OBVIOUS
<1> DEFINE T == {n \in Nat : \A x \in S : n <= x}
<1>1. 0 \in T /\ \A n \in Nat : n \in T => n + 1 \in T
  OBVIOUS
<1>2. Nat \subseteq T
  <2> HIDE DEF T
  <2> QED BY <1>1, SetInduction
<1>3. b + 1 \in T /\ b \in Nat
  <2> HIDE DEF T
  <2> QED BY <1>2
<1> QED BY <1>3

\* The hashing loop ends within the command.
LEMMA EndAtFacts ==
  ASSUME NEW c
  PROVE  /\ EndAt(c) \in 2 .. WordSize /\ ~More(c, EndAt(c))
         /\ \A k \in 2 .. EndAt(c) - 1 : More(c, k)
<1> DEFINE S == {n \in 2 .. WordSize : ~More(c, n)}
<1>1. WordSize \in S
  BY ByteFacts DEF More
<1>2. PICK m \in S : \A x \in S : m <= x
  <2>1. S \in SUBSET Nat /\ S # {}
    BY <1>1
  <2> HIDE DEF S
  <2> QED BY <2>1, LeastNumber
<1>3. m \in 2 .. WordSize /\ ~More(c, m) /\ \A k \in 2 .. m - 1 : More(c, k)
  BY <1>2, ByteFacts
<1> QED BY <1>3 DEF EndAt

\* Without its leading zero bytes a word is padded to what it was.
LEMMA StripFacts ==
  ASSUME NEW v \in Bytes
  PROVE  /\ Stripped(v) \in Bytes /\ Len(Stripped(v)) <= Len(v)
         /\ Len(v) = WordSize => LeftPad(Stripped(v)) = v
<1> DEFINE S == {n \in 1 .. Len(v) : v[n] # 0}
<1>1. CASE S = {}
  <2>1. Significant(v) = 0
    BY <1>1 DEF Significant, SelectInSeq
  <2>2. Stripped(v) = <<>>
    BY <2>1 DEF Stripped
  <2>3. \A k \in 1 .. Len(v) : v[k] = 0
    BY <1>1
  <2> QED BY <2>2, <2>3, ByteFacts DEF LeftPad, Bytes, Byte
<1>2. CASE S # {}
  <2>1. PICK m \in S : \A x \in S : m <= x
    <3>1. S \in SUBSET Nat
      OBVIOUS
    <3> HIDE DEF S
    <3> QED BY <1>2, <3>1, LeastNumber
  <2>2. Significant(v) = m
    <3>1. Significant(v) = (CHOOSE x \in S : \A y \in S : x <= y)
      BY <1>2 DEF Significant, SelectInSeq, Min
    <3> QED BY <2>1, <3>1
  <2>3. Stripped(v) = SubSeq(v, m, Len(v)) /\ m \in 1 .. Len(v)
    BY <2>1, <2>2 DEF Stripped
  <2>4. \A k \in 1 .. m - 1 : v[k] = 0
    BY <2>1 DEF Bytes, Byte
  <2> HIDE DEF S
  <2>5. Stripped(v) \in Bytes /\ Len(Stripped(v)) = Len(v) - m + 1
    BY <2>3 DEF Bytes
  <2>6. \A k \in 1 .. Len(v) - m + 1 : Stripped(v)[k] = v[k + m - 1]
    BY <2>3 DEF Bytes
  <2>7. ASSUME Len(v) = WordSize PROVE LeftPad(Stripped(v)) = v
    <3>1. \A k \in 1 .. WordSize : LeftPad(Stripped(v))[k] = v[k]
      BY <2>3, <2>4, <2>5, <2>6, <2>7, ByteFacts DEF LeftPad
    <3> QED BY <2>7, <3>1, ByteFacts DEF LeftPad, Bytes
  <2> QED BY <2>3, <2>5, <2>7
<1> QED BY <1>1, <1>2

-----------------------------------------------------------------------------
\* f[k] is the concatenation of the first k sequences.
Concatenates(f, seqs, S) ==
  /\ f \in [0 .. Len(seqs) -> Seq(S)] /\ f[0] = <<>>
  /\ \A k \in 1 .. Len(seqs) : f[k] = f[k - 1] \o seqs[k]

\* The recursive function in FlattenSeq.
Flattens(f, seqs) ==
  f = [k \in 1 .. Len(seqs) |-> IF k = 1 THEN seqs[k] ELSE f[k - 1] \o seqs[k]]

\* Two sequences, one after the other.
LEMMA Concatenation ==
  ASSUME NEW S, NEW u \in Seq(S), NEW w \in Seq(S), NEW c, c = u \o w
  PROVE  /\ c \in Seq(S) /\ Len(c) = Len(u) + Len(w)
         /\ \A m \in 1 .. Len(u) : c[m] = u[m]
         /\ \A m \in 1 .. Len(u) + Len(w) : m > Len(u) => c[m] = w[m - Len(u)]
         /\ <<>> \o w = w
OBVIOUS

\* FlattenSeq is the last concatenation of the first k sequences.
LEMMA Flattening ==
  ASSUME NEW S, NEW seqs \in Seq(Seq(S))
  PROVE  \E f : Concatenates(f, seqs, S) /\ FlattenSeq(seqs) = f[Len(seqs)]
<1> DEFINE n == Len(seqs)
<1>0. n \in Nat /\ \A k \in 1 .. n : seqs[k] \in Seq(S)
  OBVIOUS
<1>1. CASE n = 0
  <2>1. FlattenSeq(seqs) = <<>>
    BY <1>1 DEF FlattenSeq
  <2>2. Concatenates([k \in 0 .. 0 |-> <<>>], seqs, S)
    BY <1>1 DEF Concatenates
  <2> QED BY <1>1, <2>1, <2>2
<1>2. CASE n # 0
  <2> DEFINE g == [k \in 1 .. n |-> [v \in Seq(S) |-> v \o seqs[k]]]
  <2>1. g \in [1 .. n -> [Seq(S) -> Seq(S)]]
    <3>1. ASSUME NEW k \in 1 .. n, NEW v \in Seq(S) PROVE v \o seqs[k] \in Seq(S)
      BY <1>0
    <3> QED BY <3>1
  <2>2. PICK h : P!Iterates(h, n, Seq(S), <<>>, g)
    <3> HIDE DEF g, n
    <3>1. <<>> \in Seq(S)
      OBVIOUS
    <3> QED BY <1>0, <2>1, <3>1, P!Recursion, Premises
          DEF P!InputAssumption, P!SizeAssumption, P!StoreAssumption
  <2>3. /\ h \in [0 .. n -> Seq(S)] /\ h[0] = <<>>
        /\ \A k \in 1 .. n : h[k] = h[k - 1] \o seqs[k]
    <3>1. \A k \in 1 .. n : h[k - 1] \in Seq(S) /\ h[k] = g[k][h[k - 1]]
      <4> HIDE DEF g, n
      <4>1. \A k \in 1 .. n : k - 1 \in 0 .. n
        BY <1>0
      <4> QED BY <2>2, <4>1 DEF P!Iterates
    <3>2. h \in [0 .. n -> Seq(S)] /\ h[0] = <<>>
      BY <2>2 DEF P!Iterates
    <3> QED BY <3>1, <3>2
  <2>4. Flattens([k \in 1 .. n |-> h[k]], seqs)
    <3> DEFINE e == [k \in 1 .. n |-> h[k]]
    <3>1. ASSUME NEW k \in 1 .. n
          PROVE  e[k] = IF k = 1 THEN seqs[k] ELSE e[k - 1] \o seqs[k]
      <4>1. CASE k = 1
        <5>1. 1 \in 1 .. n /\ 1 - 1 = 0
          BY <4>1
        <5>2. h[1] = <<>> \o seqs[1]
          <6> HIDE DEF n
          <6> QED BY <2>3, <5>1
        <5>3. <<>> \o seqs[1] = seqs[1]
          BY <1>0, <5>1, Concatenation
        <5> QED BY <4>1, <5>1, <5>2, <5>3
      <4>2. CASE k # 1
        <5>1. k - 1 \in 1 .. n
          BY <4>2
        <5> QED BY <2>3, <4>2, <5>1
      <4> QED BY <4>1, <4>2
    <3> HIDE DEF n
    <3> QED BY <3>1 DEF Flattens, n
  <2>5. PICK e : Flattens(e, seqs) /\ FlattenSeq(seqs) = e[n]
    <3>1. FlattenSeq(seqs) = (CHOOSE e : Flattens(e, seqs))[n]
      BY <1>2 DEF FlattenSeq, Flattens
    <3> QED BY <2>4, <3>1
  <2>6. \A k \in 1 .. n : e[k] = IF k = 1 THEN seqs[k] ELSE e[k - 1] \o seqs[k]
    BY <2>5 DEF Flattens
  <2> DEFINE K == {k \in Nat : k + 1 <= n => e[k + 1] \in Seq(S)}
  <2>7. 0 \in K /\ \A k \in Nat : k \in K => k + 1 \in K
    <3>1. 0 \in K
      BY <1>0, <1>2, <2>6
    <3>2. ASSUME NEW k \in Nat, k + 2 <= n, e[k + 1] \in Seq(S) PROVE e[k + 2] \in Seq(S)
      <4>1. k + 2 \in 1 .. n /\ k + 2 # 1 /\ (k + 2) - 1 = k + 1
        BY <1>0, <3>2
      <4>2. e[k + 2] = e[k + 1] \o seqs[k + 2] /\ seqs[k + 2] \in Seq(S)
        <5> HIDE DEF n
        <5> QED BY <1>0, <2>6, <4>1
      <4> QED BY <3>2, <4>2, Concatenation
    <3> HIDE DEF n
    <3> QED BY <1>0, <3>1, <3>2
  <2>8. \A k \in 1 .. n : e[k] \in Seq(S)
    <3>1. Nat \subseteq K
      <4> HIDE DEF K
      <4> QED BY <2>7, SetInduction
    <3>2. ASSUME NEW k \in 1 .. n PROVE e[k] \in Seq(S)
      <4>1. k - 1 \in Nat /\ (k - 1) + 1 = k /\ k <= n
        BY <1>0
      <4>2. k - 1 \in K
        <5> HIDE DEF K
        <5> QED BY <3>1, <4>1
      <4> QED BY <4>1, <4>2
    <3> QED BY <3>2
  <2> DEFINE f == [k \in 0 .. n |-> IF k = 0 THEN <<>> ELSE e[k]]
  <2>9. /\ f \in [0 .. n -> Seq(S)] /\ f[0] = <<>> /\ FlattenSeq(seqs) = f[n]
        /\ \A k \in 1 .. n : f[k] = f[k - 1] \o seqs[k]
    <3>1. ASSUME NEW k \in 1 .. n PROVE f[k] = f[k - 1] \o seqs[k]
      <4>1. CASE k = 1
        <5>1. 1 \in 1 .. n /\ 1 \in 0 .. n /\ 0 \in 0 .. n /\ k - 1 = 0
          BY <1>0, <4>1
        <5>2. <<>> \o seqs[1] = seqs[1] /\ e[1] = seqs[1]
          BY <1>0, <2>6, <5>1, Concatenation
        <5>3. f[1] = e[1] /\ f[0] = <<>>
          BY <5>1
        <5> HIDE DEF f, n
        <5> QED BY <4>1, <5>1, <5>2, <5>3
      <4>2. CASE k # 1
        <5>1. k - 1 \in 1 .. n /\ k - 1 # 0 /\ k # 0
          BY <1>0, <4>2
        <5>2. f[k] = e[k] /\ f[k - 1] = e[k - 1]
          BY <1>0, <5>1
        <5> HIDE DEF f, n
        <5> QED BY <2>6, <4>2, <5>2
      <4> QED BY <4>1, <4>2
    <3>2. f \in [0 .. n -> Seq(S)]
      BY <2>8
    <3>3. f[0] = <<>> /\ f[n] = e[n]
      BY <1>0, <1>2
    <3> HIDE DEF f
    <3> QED BY <2>5, <3>1, <3>2, <3>3
  <2> HIDE DEF f
  <2> QED BY <2>9 DEF Concatenates
<1> QED BY <1>1, <1>2

\* The elements of sequences are those of their concatenation.
LEMMA FlattenType ==
  ASSUME NEW S, NEW seqs \in Seq(Seq(S)) PROVE FlattenSeq(seqs) \in Seq(S)
<1>1. PICK f : Concatenates(f, seqs, S) /\ FlattenSeq(seqs) = f[Len(seqs)]
  BY Flattening
<1>2. f \in [0 .. Len(seqs) -> Seq(S)] /\ Len(seqs) \in 0 .. Len(seqs)
  BY <1>1 DEF Concatenates
<1> QED BY <1>1, <1>2

\* Words one after the other: the byte at position m is in word (m - 1) \div WordSize.
LEMMA FlattenWords ==
  ASSUME NEW words \in Seq(Word)
  PROVE  /\ FlattenSeq(words) \in Bytes /\ Len(FlattenSeq(words)) = Len(words) * WordSize
         /\ \A m \in 1 .. Len(words) * WordSize :
              FlattenSeq(words)[m] = words[1 + ((m - 1) \div WordSize)][1 + ((m - 1) % WordSize)]
<1> DEFINE n == Len(words)
           Byte_(m) == words[1 + ((m - 1) \div WordSize)][1 + ((m - 1) % WordSize)]
<1>1. words \in Seq(Seq(Byte)) /\ n \in Nat /\ \A k \in 1 .. n : words[k] \in Word
  BY ByteFacts DEF Bytes
<1>2. PICK f : Concatenates(f, words, Byte) /\ FlattenSeq(words) = f[n]
  BY <1>1, Flattening
<1>3. f \in [0 .. n -> Seq(Byte)] /\ f[0] = <<>> /\ \A k \in 1 .. n : f[k] = f[k - 1] \o words[k]
  BY <1>2 DEF Concatenates
<1> DEFINE K == {k \in Nat : k <= n => /\ Len(f[k]) = k * WordSize
                                       /\ \A m \in 1 .. k * WordSize : f[k][m] = Byte_(m)}
<1>4. 0 \in K
  BY <1>3, ByteFacts
<1>5. ASSUME NEW k \in Nat, k \in K PROVE k + 1 \in K
  <2> SUFFICES ASSUME k + 1 <= n
               PROVE  /\ Len(f[k + 1]) = (k + 1) * WordSize
                      /\ \A m \in 1 .. (k + 1) * WordSize : f[k + 1][m] = Byte_(m)
    OBVIOUS
  <2>1. PICK u, w, c : /\ u = f[k] /\ w = words[k + 1] /\ c = f[k + 1] /\ c = u \o w
                       /\ u \in Seq(Byte) /\ w \in Word
    <3>1. k + 1 \in 1 .. n /\ k \in 0 .. n /\ (k + 1) - 1 = k
      BY <1>1
    <3>2. f[k + 1] = f[k] \o words[k + 1] /\ f[k] \in Seq(Byte) /\ words[k + 1] \in Word
      <4> HIDE DEF n, K
      <4> QED BY <1>1, <1>3, <3>1
    <3> QED BY <3>2
  <2>2. PICK a \in Nat : a = k * WordSize
    BY ByteFacts
  <2>3. Len(u) = a /\ \A m \in 1 .. a : u[m] = Byte_(m)
    BY <1>1, <1>5, <2>1, <2>2
  <2>4. u \in Seq(Byte) /\ w \in Seq(Byte) /\ Len(w) = WordSize
    BY <2>1, ByteFacts DEF Bytes
  <2> HIDE DEF K, n, Byte_
  <2>5. (k + 1) * WordSize = a + WordSize
    BY <2>2, ByteFacts
  <2>0. WordSize \in Nat \ {0}
    BY ByteFacts
  <2>6. /\ Len(c) = a + WordSize
        /\ \A m \in 1 .. a : c[m] = u[m]
        /\ \A m \in 1 .. a + WordSize : m > a => c[m] = w[m - a]
    <3>1. c = u \o w /\ u \in Seq(Byte) /\ w \in Seq(Byte)
      BY <2>1, <2>4
    <3>2. /\ Len(c) = Len(u) + Len(w) /\ \A m \in 1 .. Len(u) : c[m] = u[m]
          /\ \A m \in 1 .. Len(u) + Len(w) : m > Len(u) => c[m] = w[m - Len(u)]
      BY ONLY <3>1, Concatenation
    <3>3. Len(u) = a /\ Len(w) = WordSize
      BY <2>3, <2>4
    <3> QED BY ONLY <3>2, <3>3
  <2>7. ASSUME NEW m \in 1 .. a + WordSize PROVE c[m] = Byte_(m)
    <3>1. CASE m <= a
      BY <2>3, <2>6, <3>1
    <3>2. CASE a < m
      <4>1. (m - 1) \div WordSize = k /\ 1 + ((m - 1) % WordSize) = m - a
        BY <2>2, <3>2, ByteFacts
      <4>2. c[m] = w[m - a]
        BY <2>6, <3>2
      <4>3. 1 + ((m - 1) \div WordSize) = k + 1
        BY <4>1
      <4> QED BY <2>1, <4>1, <4>2, <4>3 DEF Byte_
    <3> QED BY <2>0, <3>1, <3>2
  <2> QED BY <2>1, <2>5, <2>6, <2>7
<1>6. n \in K
  <2> HIDE DEF K
  <2> QED BY <1>1, <1>4, <1>5, SetInduction
<1>7. FlattenSeq(words) \in Bytes
  BY <1>1, FlattenType DEF Bytes
<1> QED BY <1>1, <1>2, <1>6, <1>7

-----------------------------------------------------------------------------
(* Types of the gateway.                                                   *)

\* The words that value() reads are as many as its result needs.
Sized(p) ==
  /\ p.pc = "resolved" /\ ~IsShort(p) => p.len <= Len(p.dataSlots) * WordSize
  /\ p.value # "idle" => /\ p.pc = "resolved" /\ ~IsShort(p)
                         /\ Len(p.words) = Len(p.dataSlots)
  /\ p.value = "ready" => \A n \in 1 .. Len(p.words) : p.words[n] # Unread
  /\ p.pc # "resolved" => IsShort(p)

TypeInv ==
  /\ TypeOK /\ (gpc = "block" => promise = <<>>) /\ DOMAIN response = {"header", "proof"}
  /\ \A c \in DOMAIN promise : Sized(promise[c])

\* Words of a node are words.
LEMMA NodeWord == ASSUME node \in StateRoots PROVE \A s : getStorageAt(s) \in Word
<1>1. root = NoAccount \/ root \in StorageRoots
  BY StoreAssumption DEF root
<1>2. ZeroWord \in Word
  BY ByteFacts DEF ZeroWord, Word, Byte
<1> QED BY <1>1, <1>2, CellFacts DEF getStorageAt

\* What value() yields.
LEMMA ValueType ==
  ASSUME NEW p \in Promise, Sized(p), Ready(p) PROVE valueOf(p) \in Bytes
<1>1. p.head \in Bytes /\ Len(p.head) = WordSize /\ p.len \in Nat
  BY ByteFacts DEF Promise
<1>2. CASE IsShort(p)
  <2>1. p.len \in 0 .. Len(p.head)
    BY <1>1, <1>2, ByteFacts DEF Ready
  <2> QED BY <1>1, <1>2, <2>1 DEF valueOf, Bytes
<1>3. CASE ~IsShort(p)
  <2>1. /\ p.words \in Seq(Word \cup {Unread}) /\ \A n \in 1 .. Len(p.words) : p.words[n] # Unread
        /\ Len(p.words) = Len(p.dataSlots) /\ p.len <= Len(p.dataSlots) * WordSize
    BY <1>3 DEF Promise, Sized, Ready
  <2>2. p.words \in Seq(Word)
    BY <2>1
  <2>3. PICK v : v = FlattenSeq(p.words) /\ v \in Bytes /\ p.len \in 0 .. Len(v)
    BY <1>1, <2>1, <2>2, FlattenWords
  <2> QED BY <1>3, <2>3 DEF valueOf, Bytes
<1> QED BY <1>2, <1>3

\* An operation is a byte of the command.
LEMMA OperationType ==
  ASSUME TypeInv, NEW c \in Commands, OnPath(c)
  PROVE  /\ promise[c] \in Promise /\ Sized(promise[c])
         /\ promise[c].j \in 1 .. WordSize - 1 /\ Operation(c) \in Byte
<1>1. gpc = "slots" /\ promise[c] \in Promise /\ Sized(promise[c])
  BY DEF OnPath, TypeInv, TypeOK
<1>2. promise[c].j \in 1 .. WordSize - 1
  BY <1>1, ByteFacts DEF OnPath, More, Promise
<1>3. commands[c] \in Command
  BY DEF TypeInv, TypeOK, Commands
<1> QED BY <1>1, <1>2, <1>3, ByteFacts DEF Operation, Command

\* What is pushed is a byte string.
LEMMA PushedType ==
  ASSUME TypeInv, NEW c \in Commands, OnPath(c), Pushes(c)
  PROVE  Pushed(c) \in Bytes
<1>1. Operand(Operation(c)) \in Nat /\ OP_BACKREF # OP_CONSTANT
  BY OperationType, ByteFacts DEF Operand, OP_BACKREF, OP_CONSTANT, Byte
<1>2. CASE Opcode(Operation(c)) = OP_CONSTANT
  BY <1>1, <1>2 DEF Pushes, Pushed, TypeInv, TypeOK
<1>3. CASE Opcode(Operation(c)) # OP_CONSTANT
  <2>1. Referent(c) \in Commands /\ Ready(promise[Referent(c)])
    BY <1>3 DEF Pushes, Visible, Commands
  <2>2. promise[Referent(c)] \in Promise /\ Sized(promise[Referent(c)])
    BY <2>1 DEF OnPath, TypeInv, TypeOK
  <2> QED BY <1>3, <2>1, <2>2, ValueType DEF Pushed
<1> QED BY <1>2, <1>3

\* A promise changes.
LEMMA PromiseTyped ==
  ASSUME TypeInv, gpc = "slots", NEW d \in Commands, NEW q \in Promise, Sized(q), SetPromise(d, q)
  PROVE  TypeInv'
<1>1. /\ DOMAIN promise = Commands /\ promise \in Seq(Promise)
      /\ UNCHANGED <<commands, constants, node, gpc, response, faults, reorgs>>
      /\ promise' = [promise EXCEPT ![d] = q]
  BY DEF TypeInv, TypeOK, SetPromise, request
<1>2. promise' \in Seq(Promise) /\ DOMAIN promise' = Commands
  BY <1>1
<1>3. \A c \in Commands : promise'[c] = IF c = d THEN q ELSE promise[c]
  BY <1>1
<1>4. \A c \in DOMAIN promise' : Sized(promise'[c])
  BY <1>1, <1>2, <1>3 DEF TypeInv
<1>5. Commands' = Commands
  BY <1>1 DEF Commands
<1> QED BY <1>1, <1>2, <1>4, <1>5 DEF TypeInv, TypeOK

\* Padding makes a word.
LEMMA PadType == ASSUME NEW v \in Bytes, Len(v) <= WordSize PROVE LeftPad(v) \in Word
BY ByteFacts DEF LeftPad, Word, Bytes, Byte

\* A step of a promise keeps the types.
LEMMA TypeStep == ASSUME TypeInv, NEW c \in Commands, Step(c) PROVE TypeInv'
<1>0. gpc = "slots" /\ \A d \in Commands : promise[d] \in Promise /\ Sized(promise[d])
  <2>1. gpc = "slots"
    BY DEF Step, ExecuteThrows, CallValue, FirstElement, NextElement, EndOfPath, ReadHead, ReadWord,
           ValueSettles, OnPath
  <2> QED BY <2>1 DEF TypeInv, TypeOK
<1>1. ASSUME promise[c].pc # "resolved", promise[c].value = "idle", Reject(c) PROVE TypeInv'
  <2>1. PICK q : q = [promise[c] EXCEPT !.pc = "rejected"]
    OBVIOUS
  <2>2. /\ q \in Promise /\ q.pc = "rejected" /\ q.value = "idle"
        /\ q.dataSlots = promise[c].dataSlots
    BY <1>0, <1>1, <2>1 DEF Promise
  <2>3. Sized(q)
    BY <1>0, <1>1, <2>2 DEF Sized, IsShort
  <2> QED BY <1>0, <1>1, <2>1, <2>2, <2>3, PromiseTyped DEF Reject
<1>2. promise[c].pc # "resolved" => promise[c].value = "idle"
  BY <1>0 DEF Sized
<1>3. CASE ExecuteThrows(c)
  BY <1>1, <1>2, <1>3 DEF ExecuteThrows, OnPath
<1>4. CASE CallValue(c)
  <2>1. PICK d, p, q : /\ d \in Commands /\ p = promise[d] /\ Uncalled(p) /\ SetPromise(d, q)
                       /\ q = [p EXCEPT !.value = "reading",
                                        !.words = [n \in 1 .. Len(p.dataSlots) |-> Unread]]
    <3>1. PICK d : d = Referent(c) /\ d \in Commands
      BY <1>4 DEF CallValue, Visible, Commands
    <3>2. PICK p : p = promise[d]
      OBVIOUS
    <3>3. PICK q : q = [p EXCEPT !.value = "reading",
                                 !.words = [n \in 1 .. Len(p.dataSlots) |-> Unread]]
      OBVIOUS
    <3>4. Uncalled(p) /\ SetPromise(d, q)
      BY <1>4, <3>1, <3>2, <3>3 DEF CallValue
    <3> QED BY <3>1, <3>2, <3>3, <3>4
  <2>2. p \in Promise /\ Sized(p)
    BY <1>0, <2>1
  <2>3. /\ [n \in 1 .. Len(p.dataSlots) |-> Unread] \in Seq(Word \cup {Unread})
        /\ Len([n \in 1 .. Len(p.dataSlots) |-> Unread]) = Len(p.dataSlots)
    BY <2>2 DEF Promise
  <2>4. /\ q \in Promise /\ q.pc = p.pc /\ q.dataSlots = p.dataSlots /\ q.len = p.len
        /\ Len(q.words) = Len(q.dataSlots) /\ q.value = "reading"
    BY <2>1, <2>2, <2>3 DEF Promise
  <2>5. Sized(q)
    BY <2>1, <2>2, <2>4 DEF Sized, Uncalled, IsShort
  <2> QED BY <1>0, <2>1, <2>4, <2>5, PromiseTyped
<1>5. CASE FirstElement(c)
  <2>1. OnPath(c) /\ Pushes(c) /\ promise[c].pc = "path" /\ promise[c].value = "idle"
    BY <1>2, <1>5 DEF FirstElement, OnPath
  <2>2. CASE Reject(c)
    BY <1>1, <2>1, <2>2
  <2>3. CASE ~Reject(c)
    <3>1. PICK b, s, q : /\ b = LeftPad(Stripped(Pushed(c))) /\ IsWord(Pushed(c))
                         /\ s = BaseSlot(b) /\ SetPromise(c, q)
                         /\ q = [promise[c] EXCEPT !.j = 2, !.slot = s]
      BY <1>5, <2>3 DEF FirstElement
    <3>2. b \in Bytes
      BY <2>1, <3>1, PushedType, StripFacts, PadType, ByteFacts DEF IsWord
    <3>3. s \in Slot /\ 2 \in 1 .. WordSize
      BY <3>1, <3>2, ByteFacts DEF BaseSlot, Slot
    <3>4. /\ q \in Promise /\ q.pc = "path" /\ q.value = "idle"
          /\ q.dataSlots = promise[c].dataSlots
      BY <1>0, <2>1, <3>1, <3>3 DEF Promise
    <3>5. Sized(q)
      BY <1>0, <2>1, <3>4 DEF Sized, IsShort
    <3> QED BY <1>0, <3>1, <3>4, <3>5, PromiseTyped
  <2> QED BY <2>2, <2>3
<1>6. CASE NextElement(c)
  <2>1. OnPath(c) /\ Pushes(c) /\ promise[c].pc = "path" /\ promise[c].value = "idle"
    BY <1>2, <1>6 DEF NextElement, OnPath
  <2>2. PICK v, s, q : /\ v = Pushed(c) /\ s = Keccak(v, promise[c].slot) /\ SetPromise(c, q)
                       /\ q = [promise[c] EXCEPT !.j = @ + 1, !.slot = s]
    BY <1>6 DEF NextElement
  <2>3. v \in Bytes
    BY <2>1, <2>2, PushedType
  <2>4. s \in Slot
    BY <1>0, <2>2, <2>3 DEF Keccak, Slot, Promise
  <2>5. promise[c].j + 1 \in 1 .. WordSize
    BY <2>1, OperationType, ByteFacts
  <2>6. /\ q \in Promise /\ q.pc = "path" /\ q.value = "idle"
        /\ q.dataSlots = promise[c].dataSlots
    BY <1>0, <2>1, <2>2, <2>4, <2>5 DEF Promise
  <2>7. Sized(q)
    BY <1>0, <2>1, <2>6 DEF Sized, IsShort
  <2> QED BY <1>0, <2>2, <2>6, <2>7, PromiseTyped
<1>7. CASE EndOfPath(c)
  <2>1. promise[c].pc = "path" /\ promise[c].value = "idle" /\ promise[c].slot \in Slot
    BY <1>0, <1>2, <1>7 DEF EndOfPath, Promise
  <2>2. CASE IsDynamic(commands[c])
    <3>1. PICK q : q = [promise[c] EXCEPT !.pc = "head"] /\ SetPromise(c, q)
      BY <1>7, <2>2 DEF EndOfPath
    <3>2. /\ q \in Promise /\ q.pc = "head" /\ q.value = "idle"
          /\ q.dataSlots = promise[c].dataSlots
      BY <1>0, <2>1, <3>1 DEF Promise
    <3>3. Sized(q)
      BY <1>0, <2>1, <3>2 DEF Sized, IsShort
    <3> QED BY <1>0, <3>1, <3>2, <3>3, PromiseTyped
  <2>3. CASE ~IsDynamic(commands[c])
    <3>1. PICK S, q : /\ S = <<promise[c].slot>> /\ SetPromise(c, q)
                      /\ q = [promise[c] EXCEPT !.pc = "resolved", !.slots = S,
                                                !.dataSlots = S, !.len = WordSize]
      BY <1>7, <2>3 DEF EndOfPath
    <3>2. S \in Seq(Slot) /\ Len(S) = 1
      BY <2>1, <3>1
    <3>3. /\ q \in Promise /\ q.value = "idle" /\ q.pc = "resolved"
          /\ Len(q.dataSlots) = 1 /\ q.len = WordSize
      BY <1>0, <2>1, <3>1, <3>2, ByteFacts DEF Promise
    <3>4. Sized(q)
      BY <3>3, ByteFacts DEF Sized
    <3> QED BY <1>0, <3>1, <3>3, <3>4, PromiseTyped
  <2> QED BY <2>2, <2>3
<1>8. CASE ReadHead(c)
  <2>1. promise[c].pc = "head" /\ promise[c].value = "idle" /\ promise[c].slot \in Slot
    BY <1>0, <1>2, <1>8 DEF ReadHead, Promise
  <2>2. CASE Reject(c)
    BY <1>1, <2>1, <2>2
  <2>3. CASE ~Reject(c)
    <3>1. PICK s, head, words, data :
            /\ s = promise[c].slot /\ head = getStorageAt(s)
            /\ words = DataWords(LongLength(head)) /\ data = DataSlots(s, words)
      OBVIOUS
    <3>2. s \in Slot /\ head \in Word /\ <<s>> \in Seq(Slot)
      BY <2>1, <3>1, NodeWord DEF TypeInv, TypeOK
    <3>3. CASE ~IsLong(head)
      <4>1. PICK q : /\ q = [promise[c] EXCEPT !.pc = "resolved", !.head = head, !.slots = <<s>>,
                                              !.len = ShortLength(head)]
                     /\ SetPromise(c, q)
        BY <1>8, <3>1, <3>3 DEF ReadHead
      <4>2. /\ q \in Promise /\ q.value = "idle" /\ q.len = ShortLength(head)
            /\ q.dataSlots = promise[c].dataSlots /\ q.pc = "resolved"
        BY <1>0, <2>1, <3>2, <4>1, LengthFacts DEF Promise
      <4>3. Sized(q)
        BY <1>0, <2>1, <4>2 DEF Sized, IsShort
      <4> QED BY <1>0, <4>1, <4>2, <4>3, PromiseTyped
    <3>4. CASE IsLong(head)
      <4>1. PICK q : /\ q = [promise[c] EXCEPT !.pc = "resolved", !.head = head,
                                   !.slots = <<s>> \o data, !.dataSlots = data, !.len = LongLength(head)]
                     /\ SetPromise(c, q)
        BY <1>8, <2>3, <3>1, <3>4 DEF ReadHead
      <4>2. LongLength(head) \in Nat /\ words \in Nat /\ LongLength(head) <= words * WordSize
        BY <3>1, <3>2, <3>4, LengthFacts, WordCount
      <4>3. data \in Seq(Slot) /\ Len(data) = words
        <5>1. \A n \in 1 .. words : DataSlot(s, n - 1) \in Slot
          BY <3>2, <4>2, ByteFacts DEF DataSlot, Slot
        <5> QED BY <3>1, <4>2, <5>1 DEF DataSlots
      <4>4. <<s>> \o data \in Seq(Slot)
        BY <3>2, <4>3
      <4>5. /\ q \in Promise /\ q.value = "idle" /\ q.pc = "resolved" /\ q.len <= Len(q.dataSlots) * WordSize
        BY <1>0, <2>1, <3>2, <4>1, <4>2, <4>3, <4>4 DEF Promise
      <4>6. Sized(q)
        BY <4>5 DEF Sized
      <4> QED BY <1>0, <4>1, <4>5, <4>6, PromiseTyped
    <3> QED BY <3>3, <3>4
  <2> QED BY <2>2, <2>3
<1>9. CASE ReadWord(c)
  <2>1. PICK n, w, q : /\ n \in 1 .. Len(promise[c].words) /\ w \in Word /\ SetPromise(c, q)
                       /\ q = [promise[c] EXCEPT !.words[n] = w]
    BY <1>9, NodeWord DEF ReadWord, TypeInv, TypeOK
  <2>2. promise[c].value = "reading" /\ promise[c] \in Promise /\ Sized(promise[c])
    BY <1>0, <1>9 DEF ReadWord
  <2>3. PICK W : W = [promise[c].words EXCEPT ![n] = w] /\ q = [promise[c] EXCEPT !.words = W]
    BY <2>1, <2>2
  <2>4. W \in Seq(Word \cup {Unread}) /\ Len(W) = Len(promise[c].words)
    BY <2>1, <2>2, <2>3 DEF Promise
  <2>5. /\ q \in Promise /\ q.value = "reading" /\ Len(q.words) = Len(promise[c].words)
        /\ q.pc = promise[c].pc /\ q.dataSlots = promise[c].dataSlots /\ q.len = promise[c].len
    BY <2>2, <2>3, <2>4 DEF Promise
  <2>6. Sized(q)
    BY <2>2, <2>5 DEF Sized, IsShort
  <2> QED BY <1>0, <2>1, <2>5, <2>6, PromiseTyped
<1>10. CASE ValueSettles(c)
  <2>1. PICK q : q = [promise[c] EXCEPT !.value = "ready"] /\ SetPromise(c, q)
    BY <1>10 DEF ValueSettles
  <2>2. /\ promise[c].value = "reading" /\ promise[c] \in Promise /\ Sized(promise[c])
        /\ \A n \in 1 .. Len(promise[c].words) : promise[c].words[n] # Unread
    BY <1>0, <1>10 DEF ValueSettles
  <2>3. /\ q \in Promise /\ q.value = "ready" /\ q.words = promise[c].words
        /\ q.pc = promise[c].pc /\ q.dataSlots = promise[c].dataSlots /\ q.len = promise[c].len
    BY <2>1, <2>2 DEF Promise
  <2>4. Sized(q)
    BY <2>2, <2>3 DEF Sized, IsShort
  <2> QED BY <1>0, <2>1, <2>3, <2>4, PromiseTyped
<1> QED BY <1>3, <1>4, <1>5, <1>6, <1>7, <1>8, <1>9, <1>10 DEF Step

\* Every step of the gateway keeps the types.
LEMMA TypeNext == ASSUME TypeInv, [Next]_vars PROVE TypeInv'
<1>1. CASE GetProvableBlock
  <2>1. /\ promise' = [c \in Commands |-> NewPromise] /\ gpc' = "slots"
        /\ UNCHANGED <<commands, constants, node, response, faults, reorgs>>
    BY <1>1 DEF GetProvableBlock, request
  <2>2. PICK p : p = NewPromise
    OBVIOUS
  <2>3. p \in Promise /\ p.pc = "path" /\ p.value = "idle"
    <3>1. BaseSlot(ZeroWord) \in Slot
      BY ByteFacts DEF BaseSlot, Slot
    <3>2. ZeroWord \in Word /\ 1 \in 1 .. WordSize
      BY ByteFacts DEF ZeroWord, Word, Byte
    <3> QED BY <2>2, <3>1, <3>2 DEF NewPromise, Promise
  <2>4. Sized(p)
    BY <2>2, <2>3 DEF Sized, IsShort, NewPromise
  <2>5. Commands' = Commands /\ Commands = 1 .. Len(commands) /\ Len(commands) \in Nat
    BY <2>1 DEF Commands, TypeInv, TypeOK
  <2>6. promise' \in Seq(Promise) /\ DOMAIN promise' = Commands /\ \A c \in Commands : promise'[c] = p
    BY <2>1, <2>2, <2>3, <2>5
  <2> QED BY <2>1, <2>4, <2>5, <2>6 DEF TypeInv, TypeOK
<1>2. CASE \E c \in Commands : Step(c)
  BY <1>2, TypeStep
<1>3. CASE AllResolved \/ SomeRejected \/ GetProof
  <2>1. /\ UNCHANGED <<commands, constants, node, promise, faults, reorgs>>
        /\ gpc' \in {"proof", "failed", "header"} /\ (gpc' = "proof" => gpc = "slots")
        /\ response'.header = response.header /\ DOMAIN response' = DOMAIN response
    BY <1>3 DEF AllResolved, SomeRejected, GetProof, Stay, request, TypeInv, TypeOK
  <2> QED BY <2>1 DEF TypeInv, TypeOK, Commands
<1>4. CASE GetHeader
  BY <1>4 DEF GetHeader, Stay, request, TypeInv, TypeOK, Commands
<1>5. CASE Reorg
  BY <1>5, BoundAssumption DEF Reorg, request, TypeInv, TypeOK, Commands
<1>6. CASE NodeFails
  <2>1. UNCHANGED <<commands, constants, node, response, reorgs>> /\ faults' \in 0 .. MaxFaults
    BY <1>6, BoundAssumption DEF NodeFails, request, TypeInv, TypeOK
  <2>2. CASE gpc' = "failed" /\ UNCHANGED promise
    BY <2>1, <2>2 DEF TypeInv, TypeOK
  <2>3. CASE gpc = "slots" /\ gpc' = "slots"
    <3>1. PICK c, q :
            /\ c \in Commands
            /\ \/ promise[c].pc = "head" /\ q = [promise[c] EXCEPT !.pc = "rejected"]
               \/ promise[c].value = "reading" /\ q = [promise[c] EXCEPT !.value = "failed"]
            /\ promise' = [promise EXCEPT ![c] = q]
      BY <1>6, <2>3 DEF NodeFails
    <3>2. promise[c] \in Promise /\ Sized(promise[c])
      BY <2>3, <3>1 DEF TypeInv, TypeOK
    <3>3. /\ q \in Promise /\ q.words = promise[c].words /\ q.dataSlots = promise[c].dataSlots
          /\ q.len = promise[c].len
          /\ \/ q.pc = "rejected" /\ q.value = "idle"
                /\ promise[c].pc # "resolved"
             \/ q.pc = promise[c].pc /\ q.value = "failed" /\ promise[c].value = "reading"
      BY <3>1, <3>2 DEF Promise, Sized
    <3>4. Sized(q)
      BY <3>2, <3>3 DEF Sized, IsShort
    <3>5. /\ DOMAIN promise = Commands /\ promise \in Seq(Promise) /\ Commands' = Commands
      BY <2>1, <2>3 DEF TypeInv, TypeOK, Commands
    <3>6. promise' \in Seq(Promise) /\ DOMAIN promise' = Commands
      BY <3>1, <3>3, <3>5
    <3>7. \A d \in Commands : promise'[d] = IF d = c THEN q ELSE promise[d]
      BY <3>1, <3>5
    <3>8. \A d \in DOMAIN promise' : Sized(promise'[d])
      BY <3>4, <3>5, <3>6, <3>7 DEF TypeInv
    <3> QED BY <2>1, <2>3, <3>5, <3>6, <3>8 DEF TypeInv, TypeOK
  <2> QED BY <1>6, <2>2, <2>3 DEF NodeFails
<1>7. CASE UNCHANGED vars
  BY <1>7 DEF vars, request, TypeInv, TypeOK, Commands
<1> QED BY <1>1, <1>2, <1>3, <1>4, <1>5, <1>6, <1>7 DEF Next, Run

\* The types hold initially.
LEMMA GatewayInit == Init => TypeInv
<1> SUFFICES ASSUME Init PROVE TypeInv
  OBVIOUS
<1>1. commands \in Seq(Command) /\ constants \in Seq(Bytes)
  BY BoundAssumption DEF Init, Program
<1>2. /\ promise = <<>> /\ promise \in Seq(Promise)
      /\ response.header = NoAccount /\ DOMAIN response = {"header", "proof"}
  BY DEF Init, NoResponse
<1>3. faults \in 0 .. MaxFaults /\ reorgs \in 0 .. MaxReorgs
  BY BoundAssumption DEF Init
<1> QED BY <1>1, <1>2, <1>3 DEF Init, TypeInv, TypeOK

(***************************************************************************)
(* The variables of the gateway have their types, whatever the request and *)
(* however often the node fails or the chain is reorganised.  A value of   *)
(* getValueFromPath is a byte string only because the words that value()   *)
(* reads are enough to be cut at its length, and a path a list of byte     *)
(* strings only because no command runs beyond its last byte.              *)
(***************************************************************************)
THEOREM GatewayTypeCorrect == Spec => []TypeOK
<1>1. TypeInv => TypeOK
  BY DEF TypeInv
<1> QED BY <1>1, GatewayInit, TypeNext, PTL DEF Spec

-----------------------------------------------------------------------------
(* What a request that can be served is answered with.                     *)

Agree(n, vals, vals2) == \A m \in 1 .. n : vals[m] = vals2[m]

\* The slot of a command depends only on the values it may refer to.
LEMMA SlotStable ==
  ASSUME NEW c \in Command, NEW n \in Nat, NEW consts, NEW vals, NEW vals2, WellFormed(c, consts, n),
         Agree(n, vals, vals2)
  PROVE  /\ SlotOf(c, consts, vals) = SlotOf(c, consts, vals2)
         /\ \A k \in 1 .. EndAt(c) - 1 : Argument(c[k], consts, vals) = Argument(c[k], consts, vals2)
<1>0. EndAt(c) \in 2 .. WordSize
  BY EndAtFacts
<1>1. ASSUME NEW k \in 1 .. EndAt(c) - 1
      PROVE  Argument(c[k], consts, vals) = Argument(c[k], consts, vals2)
  <2>1. c[k] \in Byte
    BY <1>0, ByteFacts DEF Command
  <2>2. Operand(c[k]) \in Nat /\ OP_BACKREF # OP_CONSTANT
    BY <2>1, ByteFacts DEF Operand, OP_BACKREF, OP_CONSTANT, Byte
  <2> QED BY <2>2 DEF WellFormed, Argument, Agree
<1> QED BY <1>1 DEF SlotOf

\* What a storage trie holds at a slot, as a value.
LEMMA HeldType ==
  ASSUME NEW r \in StorageRoots, NEW s, NEW dynamic \in BOOLEAN,
         dynamic /\ ~IsLong(Cell(r, s)) => ShortLength(Cell(r, s)) <= WordSize
  PROVE  Value(r, s, dynamic) \in Bytes
<1>1. Cell(r, s) \in Word /\ Cell(r, s) \in Bytes /\ Len(Cell(r, s)) = WordSize
  BY CellFacts, ByteFacts
<1>2. CASE ~dynamic
  BY <1>1, <1>2 DEF Value
<1>3. CASE dynamic /\ IsLong(Cell(r, s))
  <2>1. LongLength(Cell(r, s)) \in Nat
    BY <1>1, <1>3, LengthFacts
  <2>2. ASSUME NEW n \in 1 .. LongLength(Cell(r, s))
        PROVE  Cell(r, DataSlot(s, (n - 1) \div WordSize))[1 + ((n - 1) % WordSize)] \in Byte
    <3>1. 1 + ((n - 1) % WordSize) \in 1 .. WordSize
      BY <2>1, ByteFacts
    <3> QED BY <3>1, CellFacts DEF Word
  <2>3. Value(r, s, dynamic) =
          [n \in 1 .. LongLength(Cell(r, s)) |->
            Cell(r, DataSlot(s, (n - 1) \div WordSize))[1 + ((n - 1) % WordSize)]]
    BY <1>3 DEF Value
  <2> QED BY <2>1, <2>2, <2>3 DEF Bytes
<1>4. CASE dynamic /\ ~IsLong(Cell(r, s))
  <2>1. Value(r, s, dynamic) = SubSeq(Cell(r, s), 1, ShortLength(Cell(r, s)))
    BY <1>4 DEF Value
  <2>2. ShortLength(Cell(r, s)) \in 0 .. Len(Cell(r, s))
    BY <1>1, <1>4, LengthFacts, ByteFacts
  <2> QED BY <1>1, <2>1, <2>2 DEF Bytes
<1> QED BY <1>2, <1>3, <1>4

\* vals answers command k, from the values before it.
Answers(cmds, consts, r, vals, k) ==
  LET s == SlotOf(cmds[k], consts, vals)
      head == Cell(r, s)
  IN  /\ WellFormed(cmds[k], consts, k - 1)
      /\ Len(Argument(cmds[k][1], consts, vals)) = WordSize
      /\ IsDynamic(cmds[k]) => WholeWords(r, s) /\ (~IsLong(head) => ShortLength(head) <= WordSize)
      /\ vals[k] = Value(r, s, IsDynamic(cmds[k]))

\* The next value.
Extended(cmds, consts, r, v, k) ==
  IF Len(v) = k - 1 /\ Readable(cmds[k], consts, r, v)
  THEN Append(v, Value(r, SlotOf(cmds[k], consts, v), IsDynamic(cmds[k])))
  ELSE v

\* The next list of values is a list of values.
LEMMA ExtendedType ==
  ASSUME NEW cmds, NEW consts, NEW r \in StorageRoots, NEW v \in Seq(Bytes), NEW k \in Nat
  PROVE  Extended(cmds, consts, r, v, k) \in Seq(Bytes)
<1>1. CASE Readable(cmds[k], consts, r, v)
  <2>1. PICK x : x = Value(r, SlotOf(cmds[k], consts, v), IsDynamic(cmds[k]))
    OBVIOUS
  <2>2. IsDynamic(cmds[k]) \in BOOLEAN
    BY DEF IsDynamic
  <2>3. x \in Bytes
    BY <1>1, <2>1, <2>2, HeldType DEF Readable
  <2>4. Append(v, x) \in Seq(Bytes)
    BY <2>3
  <2> QED BY <2>1, <2>4 DEF Extended
<1>2. CASE ~Readable(cmds[k], consts, r, v)
  BY <1>2 DEF Extended
<1> QED BY <1>1, <1>2

\* Results is the last of these lists of values.
Lists(e, cmds, consts, r) ==
  /\ e \in [0 .. Len(cmds) -> Seq(Bytes)] /\ e[0] = <<>>
  /\ \A k \in 1 .. Len(cmds) : e[k] = Extended(cmds, consts, r, e[k - 1], k)

\* Results goes through such lists.
LEMMA ResultLists ==
  ASSUME NEW cmds \in Seq(Command), NEW consts, NEW r \in StorageRoots
  PROVE  \E e : Lists(e, cmds, consts, r) /\ Results(cmds, consts, r) = e[Len(cmds)]
<1> DEFINE n == Len(cmds)
           Next_(k, v) == Extended(cmds, consts, r, v, k)
           Sol(e) == e = [k \in 0 .. n |-> IF k = 0 THEN <<>> ELSE Next_(k, e[k - 1])]
           g == [k \in 1 .. n |-> [v \in Seq(Bytes) |-> Next_(k, v)]]
<1>0. n \in Nat /\ <<>> \in Seq(Bytes)
  OBVIOUS
<1>1. \A k \in Nat : \A v \in Seq(Bytes) : Next_(k, v) \in Seq(Bytes)
  BY ExtendedType
<1>2. g \in [1 .. n -> [Seq(Bytes) -> Seq(Bytes)]]
  <2> HIDE DEF Next_, n
  <2> QED BY <1>0, <1>1
<1>3. PICK h : P!Iterates(h, n, Seq(Bytes), <<>>, g)
  <2> HIDE DEF g, n
  <2> QED BY <1>0, <1>2, P!Recursion, Premises
        DEF P!InputAssumption, P!SizeAssumption, P!StoreAssumption
<1>4. /\ h \in [0 .. n -> Seq(Bytes)] /\ h[0] = <<>>
      /\ \A k \in 1 .. n : h[k] = Next_(k, h[k - 1])
  <2>1. \A k \in 1 .. n : h[k - 1] \in Seq(Bytes) /\ h[k] = g[k][h[k - 1]]
    <3> HIDE DEF g, n
    <3>1. \A k \in 1 .. n : k - 1 \in 0 .. n
      BY <1>0
    <3> QED BY <1>3, <3>1 DEF P!Iterates
  <2>2. h \in [0 .. n -> Seq(Bytes)] /\ h[0] = <<>>
    BY <1>3 DEF P!Iterates
  <2> HIDE DEF Next_, n
  <2> QED BY <2>1, <2>2
<1>5. Sol(h)
  <2> HIDE DEF Next_, n
  <2>1. \A k \in 0 .. n : h[k] = IF k = 0 THEN <<>> ELSE Next_(k, h[k - 1])
    BY <1>0, <1>4
  <2> QED BY <1>4, <2>1
<1>6. PICK e : Sol(e) /\ Results(cmds, consts, r) = e[n]
  <2>1. Results(cmds, consts, r) = (CHOOSE e : Sol(e))[n]
    BY DEF Results, Extended
  <2> QED BY <1>5, <2>1
<1> HIDE DEF Next_, n
<1>7. e[0] = <<>> /\ \A k \in 1 .. n : e[k] = Next_(k, e[k - 1])
  BY <1>0, <1>6
<1> DEFINE K == {k \in Nat : k <= n => e[k] \in Seq(Bytes)}
<1>8. 0 \in K /\ \A k \in Nat : k \in K => k + 1 \in K
  <2>1. ASSUME NEW k \in Nat, k + 1 <= n, e[k] \in Seq(Bytes) PROVE e[k + 1] \in Seq(Bytes)
    <3>1. k + 1 \in 1 .. n /\ (k + 1) - 1 = k
      BY <1>0, <2>1
    <3> QED BY <1>1, <1>7, <2>1, <3>1
  <2>2. ASSUME NEW k \in Nat, k \in K PROVE k + 1 \in K
    <3>1. k + 1 <= n => e[k] \in Seq(Bytes)
      BY <1>0, <2>2
    <3> QED BY <2>1, <3>1
  <2>3. 0 \in K
    BY <1>0, <1>7
  <2> QED BY <2>2, <2>3
<1>9. \A k \in 0 .. n : e[k] \in Seq(Bytes)
  <2>1. Nat \subseteq K
    <3> HIDE DEF K
    <3> QED BY <1>8, SetInduction
  <2> QED BY <1>0, <2>1
<1>10. e \in [0 .. n -> Seq(Bytes)]
  BY <1>6, <1>9
<1> QED BY <1>6, <1>7, <1>10 DEF Lists, Next_, n

\* If there is a value for every command, each answers its command.
LEMMA ResultsFacts ==
  ASSUME NEW cmds \in Seq(Command), NEW consts, NEW r \in StorageRoots,
         NEW vals, vals = Results(cmds, consts, r), Len(vals) = Len(cmds)
  PROVE  vals \in Seq(Bytes) /\ \A k \in 1 .. Len(cmds) : Answers(cmds, consts, r, vals, k)
<1>1. PICK n, e : /\ n = Len(cmds) /\ n \in Nat /\ Lists(e, cmds, consts, r) /\ vals = e[n]
  BY ResultLists
<1>2. /\ e \in [0 .. n -> Seq(Bytes)] /\ e[0] = <<>>
      /\ \A k \in 1 .. n : e[k] = Extended(cmds, consts, r, e[k - 1], k)
  BY <1>1 DEF Lists
<1>3. ASSUME NEW v \in Seq(Bytes), NEW k \in 1 .. n, NEW w, w = Extended(cmds, consts, r, v, k)
      PROVE  \/ w = v
             \/ /\ Len(v) = k - 1 /\ Len(w) = k /\ Readable(cmds[k], consts, r, v)
                /\ \A m \in 1 .. k - 1 : w[m] = v[m]
                /\ w[k] = Value(r, SlotOf(cmds[k], consts, v), IsDynamic(cmds[k]))
  <2>1. PICK x : x = Value(r, SlotOf(cmds[k], consts, v), IsDynamic(cmds[k]))
    OBVIOUS
  <2>2. w = v \/ (w = Append(v, x) /\ Len(v) = k - 1 /\ Readable(cmds[k], consts, r, v))
    BY <1>3, <2>1 DEF Extended
  <2> QED BY <2>1, <2>2
<1>4. ASSUME NEW k \in 1 .. n
      PROVE  /\ Len(e[k]) \in Nat /\ Len(e[k - 1]) \in Nat
             /\ e[k] = e[k - 1] \/ (Len(e[k - 1]) = k - 1 /\ Len(e[k]) = k)
  <2>1. k - 1 \in 0 .. n /\ k \in 0 .. n
    BY <1>1
  <2>2. PICK v, w : v = e[k - 1] /\ w = e[k] /\ v \in Seq(Bytes) /\ w \in Seq(Bytes)
    BY <1>2, <2>1
  <2>3. w = Extended(cmds, consts, r, v, k)
    BY <1>2, <2>2
  <2>4. w = v \/ (Len(v) = k - 1 /\ Len(w) = k)
    BY <1>3, <2>2, <2>3
  <2> QED BY <2>2, <2>4
\* No list is longer than its position, and so none is shorter.
<1> DEFINE K == {k \in Nat : k <= n => Len(e[k]) <= k}
           D == {k \in Nat : k <= n => Len(e[n - k]) = n - k}
<1>5. \A k \in 0 .. n : Len(e[k]) <= k
  <2>1. 0 \in K
    BY <1>2
  <2>2. ASSUME NEW k \in Nat, k \in K PROVE k + 1 \in K
    <3>1. SUFFICES ASSUME k + 1 <= n PROVE Len(e[k + 1]) <= k + 1
      OBVIOUS
    <3>2. k + 1 \in 1 .. n /\ (k + 1) - 1 = k /\ Len(e[k]) <= k
      BY <1>1, <2>2, <3>1
    <3> QED BY <1>4, <3>2
  <2>3. Nat \subseteq K
    <3> HIDE DEF K
    <3> QED BY <2>1, <2>2, SetInduction
  <2> QED BY <1>1, <2>3
<1>6. \A k \in 0 .. n : Len(e[k]) = k
  <2>1. 0 \in D
    BY <1>1
  <2>2. ASSUME NEW k \in Nat, k \in D PROVE k + 1 \in D
    <3>1. SUFFICES ASSUME k + 1 <= n PROVE Len(e[n - (k + 1)]) = n - (k + 1)
      OBVIOUS
    <3>2. PICK m : m = n - k /\ m \in 1 .. n /\ n - (k + 1) = m - 1 /\ m - 1 \in 0 .. n
      BY <1>1, <3>1
    <3>3. Len(e[m]) = m
      <4>1. Len(e[n - k]) = n - k
        <5>1. k <= n
          BY <1>1, <3>1
        <5> QED BY <2>2, <5>1
      <4> QED BY <3>2, <4>1
    <3>4. e[m] # e[m - 1]
      BY <1>5, <3>2, <3>3
    <3> QED BY <1>4, <3>2, <3>4
  <2>3. Nat \subseteq D
    <3> HIDE DEF D
    <3> QED BY <2>1, <2>2, SetInduction
  <2>4. ASSUME NEW k \in 0 .. n PROVE Len(e[k]) = k
    <3>1. n - k \in Nat /\ n - k <= n /\ n - (n - k) = k
      BY <1>1
    <3> QED BY <2>3, <3>1
  <2> QED BY <2>4
<1>7. ASSUME NEW k \in 1 .. n
      PROVE  /\ Readable(cmds[k], consts, r, e[k - 1])
             /\ \A m \in 1 .. k - 1 : e[k][m] = e[k - 1][m]
             /\ e[k][k] = Value(r, SlotOf(cmds[k], consts, e[k - 1]), IsDynamic(cmds[k]))
  <2>1. k - 1 \in 0 .. n /\ k \in 0 .. n /\ k # k - 1
    BY <1>1
  <2>2. PICK v, w : v = e[k - 1] /\ w = e[k] /\ v \in Seq(Bytes)
    BY <1>2, <2>1
  <2>3. w = Extended(cmds, consts, r, v, k) /\ w # v
    BY <1>2, <1>6, <2>1, <2>2
  <2>4. /\ Readable(cmds[k], consts, r, v)
        /\ \A m \in 1 .. k - 1 : w[m] = v[m]
        /\ w[k] = Value(r, SlotOf(cmds[k], consts, v), IsDynamic(cmds[k]))
    BY <1>3, <2>2, <2>3
  <2> QED BY <2>2, <2>4
\* What is in a list stays there.
<1> DEFINE L == {k \in Nat : k <= n => \A m \in 1 .. k : \A q \in m .. k : e[k][m] = e[q][m]}
<1>8. \A q \in 0 .. n : \A m \in 1 .. q : vals[m] = e[q][m]
  <2>1. 0 \in L
    OBVIOUS
  <2>2. ASSUME NEW k \in Nat, k \in L PROVE k + 1 \in L
    <3>1. SUFFICES ASSUME k + 1 <= n, NEW m \in 1 .. k + 1, NEW q \in m .. k + 1
                   PROVE  e[k + 1][m] = e[q][m]
      OBVIOUS
    <3>2. CASE q = k + 1
      BY <3>2
    <3>3. CASE q # k + 1
      <4>1. m \in 1 .. k /\ q \in m .. k /\ k + 1 \in 1 .. n /\ (k + 1) - 1 = k
        BY <1>1, <3>1, <3>3
      <4>2. e[k][m] = e[q][m]
        <5>1. k <= n
          BY <1>1, <3>1
        <5>2. \A y \in 1 .. k : \A x \in y .. k : e[k][y] = e[x][y]
          BY <2>2, <5>1
        <5> HIDE DEF L
        <5> QED BY <4>1, <5>2
      <4>3. e[k + 1][m] = e[k][m]
        BY <1>7, <4>1
      <4> QED BY <4>2, <4>3
    <3> QED BY <3>2, <3>3
  <2>3. n \in L
    <3> HIDE DEF L
    <3> QED BY <1>1, <2>1, <2>2, SetInduction
  <2> QED BY <1>1, <2>3
<1>9. ASSUME NEW k \in 1 .. n PROVE Answers(cmds, consts, r, vals, k)
  <2>1. k - 1 \in 0 .. n /\ k \in 0 .. n /\ k \in 1 .. k
    BY <1>1
  <2>2. PICK c, v : c = cmds[k] /\ v = e[k - 1] /\ c \in Command /\ v \in Seq(Bytes)
    <3>1. cmds[k] \in Command
      BY <1>1
    <3>2. e[k - 1] \in Seq(Bytes)
      BY <1>2, <2>1
    <3> QED BY <3>1, <3>2
  <2>3. Readable(c, consts, r, v) /\ vals[k] = Value(r, SlotOf(c, consts, v), IsDynamic(c))
    BY <1>7, <1>8, <2>1, <2>2
  <2>7. Len(v) = k - 1
    BY <1>6, <2>1, <2>2
  <2>4. WellFormed(c, consts, k - 1) /\ \A m \in 1 .. k - 1 : v[m] = vals[m]
    BY <1>8, <2>1, <2>2, <2>3, <2>7 DEF Readable
  <2>5. /\ SlotOf(c, consts, v) = SlotOf(c, consts, vals)
        /\ \A m \in 1 .. EndAt(c) - 1 : Argument(c[m], consts, v) = Argument(c[m], consts, vals)
    <3>1. PICK b \in Nat : b = k - 1
      BY <2>1
    <3>2. WellFormed(c, consts, b) /\ Agree(b, v, vals)
      BY <2>4, <3>1 DEF Agree
    <3>3. c \in Command
      BY <2>2
    <3>4. SlotOf(c, consts, v) = SlotOf(c, consts, vals)
      BY ONLY <3>1, <3>2, <3>3, SlotStable
    <3>5. ASSUME NEW m \in 1 .. EndAt(c) - 1
          PROVE  Argument(c[m], consts, v) = Argument(c[m], consts, vals)
      BY ONLY <3>1, <3>2, <3>3, SlotStable
    <3> QED BY ONLY <3>4, <3>5
  <2>6. Argument(c[1], consts, v) = Argument(c[1], consts, vals)
    <3>1. 1 \in 1 .. EndAt(c) - 1
      BY EndAtFacts, ByteFacts
    <3> QED BY <2>5, <3>1
  <2> QED BY <2>2, <2>3, <2>4, <2>5, <2>6 DEF Answers, Readable
<1>10. vals \in Seq(Bytes)
  BY <1>1, <1>2
<1> QED BY <1>1, <1>9, <1>10

-----------------------------------------------------------------------------
(* A request that can be served: what holds as long as nothing disturbs it *)

\* Nothing disturbed the request so far, and it can be served.
Calm ==
  faults = 0 /\ reorgs = 0 /\ Servable(commands, constants, node) /\ Fits(node)

answers == Results(commands, constants, root)
SlotAt(c) == SlotOf(commands[c], constants, answers)
Element(c, k) == Argument(commands[c][k], constants, answers)

\* Promise p of command c has hashed the first instructions of the command.
HashedTo(p, c) ==
  /\ p.j \in 1 .. EndAt(commands[c])
  /\ p.pc # "path" => p.j = EndAt(commands[c])
  /\ p.j > 1 => p.slot = [path |-> [k \in 1 .. p.j - 1 |-> Element(c, k)], off |-> 0]

\* It resolves to the slots of the value, and knows what to make of them.
Located(p, c) ==
  LET s == SlotAt(c)
      head == Cell(root, s)
  IN  /\ p.pc = "head" => IsDynamic(commands[c])
      /\ p.pc # "resolved" => IsShort(p)
      /\ p.pc = "resolved" =>
           /\ p.slots = SlotsRead(root, s, IsDynamic(commands[c]))
           /\ ~IsDynamic(commands[c]) => p.dataSlots = <<s>> /\ p.len = WordSize
           /\ IsDynamic(commands[c]) =>
                /\ p.head = head
                /\ IsLong(head) => /\ p.len = LongLength(head)
                                   /\ p.dataSlots = DataSlots(s, DataWords(p.len))
                /\ ~IsLong(head) => p.len = ShortLength(head) /\ IsShort(p)

\* The words of its value are those of the storage.
Fetched(p) ==
  /\ p.value # "idle" =>
       \A n \in 1 .. Len(p.dataSlots) : p.words[n] \in {Unread, Cell(root, p.dataSlots[n])}
  /\ p.pc # "rejected" /\ p.value # "failed"

Good(p, c) == HashedTo(p, c) /\ Located(p, c) /\ Fetched(p)

\* A state proof for these slots.
ProofsOf(r, list) == [n \in 1 .. Len(list) |-> [root |-> r, slot |-> list[n]]]

ServesInv ==
  Calm =>
    /\ gpc # "failed" /\ \A c \in DOMAIN promise : Good(promise[c], c)
    /\ gpc = "proof" => \A c \in Commands : promise[c].pc = "resolved"
    /\ gpc \in {"header", "responded"} =>
         /\ response.proof.stateTrieWitness = node
         /\ response.proof.storageProofs = ProofsOf(root, SlotList(commands, constants, root))
    /\ gpc = "responded" => response.header = node

-----------------------------------------------------------------------------
\* A request that can be served has an answer to every command.
LEMMA CalmFacts ==
  ASSUME TypeInv, Calm
  PROVE  /\ root \in StorageRoots /\ answers \in Seq(Bytes) /\ Len(answers) = Len(commands)
         /\ \A c \in Commands : /\ Answers(commands, constants, root, answers, c)
                                /\ Len(answers[c]) <= MaxWords * WordSize
                                /\ commands[c] \in Command
<1>1. commands \in Seq(Command) /\ node \in StateRoots
  BY DEF TypeInv, TypeOK
<1>2. root \in StorageRoots
  BY <1>1, StoreAssumption DEF Calm, Servable, root
<1>3. Len(answers) = Len(commands)
  BY DEF Calm, Servable, answers, root
<1>4. answers \in Seq(Bytes) /\ \A c \in 1 .. Len(commands) : Answers(commands, constants, root, answers, c)
  BY <1>1, <1>2, <1>3, ResultsFacts DEF answers
<1>5. \A c \in 1 .. Len(commands) : Len(answers[c]) <= MaxWords * WordSize
  BY <1>3 DEF Calm, Fits, answers, root
<1> QED BY <1>1, <1>2, <1>3, <1>4, <1>5 DEF Commands

\* The elements of a path are byte strings.
LEMMA ElementType ==
  ASSUME TypeInv, Calm, NEW c \in Commands, NEW k \in 1 .. EndAt(commands[c]) - 1
  PROVE  /\ Element(c, k) \in Bytes /\ commands[c][k] \in Byte
         /\ \/ Opcode(commands[c][k]) = OP_CONSTANT /\ Operand(commands[c][k]) < Len(constants)
            \/ Opcode(commands[c][k]) = OP_BACKREF /\ Operand(commands[c][k]) + 1 \in Visible(c)
<1>1. commands[c][k] \in Byte /\ OP_BACKREF # OP_CONSTANT
  BY CalmFacts, EndAtFacts, ByteFacts DEF Command, OP_BACKREF, OP_CONSTANT
<1>2. Operand(commands[c][k]) \in Nat /\ c \in 1 .. Len(commands) /\ Len(commands) \in Nat
  BY <1>1, ByteFacts DEF Operand, Byte, Commands, TypeInv, TypeOK
<1>3. \/ Opcode(commands[c][k]) = OP_CONSTANT /\ Operand(commands[c][k]) < Len(constants)
      \/ Opcode(commands[c][k]) = OP_BACKREF /\ Operand(commands[c][k]) < c - 1
  BY CalmFacts DEF Answers, WellFormed
<1>4. constants \in Seq(Bytes) /\ answers \in Seq(Bytes) /\ Len(answers) = Len(commands)
  BY CalmFacts DEF TypeInv, TypeOK
<1>5. Element(c, k) \in Bytes
  <2>1. CASE Opcode(commands[c][k]) = OP_CONSTANT
    BY <1>1, <1>2, <1>3, <1>4, <2>1 DEF Element, Argument
  <2>2. CASE Opcode(commands[c][k]) # OP_CONSTANT
    <3>1. Operand(commands[c][k]) + 1 \in 1 .. Len(answers)
      BY <1>2, <1>3, <1>4, <2>2
    <3> QED BY <1>4, <2>2, <3>1 DEF Element, Argument
  <2> QED BY <2>1, <2>2
<1> QED BY <1>1, <1>2, <1>3, <1>5 DEF Visible

\* The slot that a command names hashes the elements of its path.
LEMMA SlotAtFacts ==
  ASSUME TypeInv, Calm, NEW c \in Commands
  PROVE  /\ SlotAt(c) \in Slot
         /\ SlotAt(c) = [path |-> [k \in 1 .. EndAt(commands[c]) - 1 |-> Element(c, k)], off |-> 0]
<1>1. SlotAt(c) = [path |-> [k \in 1 .. EndAt(commands[c]) - 1 |-> Element(c, k)], off |-> 0]
  BY DEF SlotAt, SlotOf, Element
<1>2. EndAt(commands[c]) - 1 \in Nat
  BY EndAtFacts, ByteFacts
<1>3. [k \in 1 .. EndAt(commands[c]) - 1 |-> Element(c, k)] \in Seq(Bytes)
  BY <1>2, ElementType
<1> QED BY <1>1, <1>3 DEF Slot

\* A byte below n words is in one of the first n words.
LEMMA QuotientBound ==
  ASSUME NEW x \in Nat, NEW n \in Nat, x < n * WordSize
  PROVE  x \div WordSize \in 0 .. n - 1
<1>1. PICK q \in Nat : q = x \div WordSize /\ q * WordSize <= x
  BY ByteFacts
<1>2. ASSUME q >= n PROVE FALSE
  <2>1. PICK d \in Nat : q = n + d
    BY <1>2
  <2>2. q * WordSize = n * WordSize + d * WordSize /\ d * WordSize \in Nat
    BY <2>1, ByteFacts
  <2>3. n * WordSize \in Nat
    BY ByteFacts
  <2> QED BY <1>1, <2>2, <2>3
<1> QED BY <1>1, <1>2

\* A value that is ready is the answer.
LEMMA ReadyValue ==
  ASSUME TypeInv, Calm, ServesInv, gpc = "slots", NEW c \in Commands, Ready(promise[c])
  PROVE  valueOf(promise[c]) = answers[c]
<1>1. PICK p, s, w : /\ p = promise[c] /\ s = SlotAt(c) /\ w = Cell(root, s)
  OBVIOUS
<1>2. /\ p \in Promise /\ Sized(p) /\ Good(p, c) /\ Ready(p) /\ p.pc = "resolved"
  BY <1>1 DEF TypeInv, TypeOK, ServesInv, Ready
<1>3. /\ root \in StorageRoots /\ answers[c] = Value(root, s, IsDynamic(commands[c]))
      /\ IsDynamic(commands[c]) /\ ~IsLong(w) => ShortLength(w) <= WordSize
  BY <1>1, CalmFacts DEF Answers, SlotAt
<1>4. w \in Word /\ w \in Bytes /\ Len(w) = WordSize
  BY <1>1, <1>3, CellFacts, ByteFacts
<1>5. ASSUME ~IsShort(p)
      PROVE  /\ p.words \in Seq(Word) /\ Len(p.words) = Len(p.dataSlots)
             /\ \A n \in 1 .. Len(p.dataSlots) : p.words[n] = Cell(root, p.dataSlots[n])
             /\ p.len \in 0 .. Len(p.words) * WordSize
  <2>1. p.value = "ready" /\ p.words \in Seq(Word \cup {Unread}) /\ Len(p.words) = Len(p.dataSlots)
    BY <1>2, <1>5 DEF Ready, Sized, Promise
  <2>2. \A n \in 1 .. Len(p.words) : p.words[n] # Unread
    BY <1>2, <2>1 DEF Sized
  <2>3. \A n \in 1 .. Len(p.dataSlots) : p.words[n] \in {Unread, Cell(root, p.dataSlots[n])}
    BY <1>2, <2>1 DEF Good, Fetched
  <2>4. p.len \in Nat /\ p.len <= Len(p.words) * WordSize
    BY <1>2, <1>5, <2>1 DEF Sized, Promise
  <2>5. p.words \in Seq(Word)
    BY <2>1, <2>2
  <2>6. p.len \in 0 .. Len(p.words) * WordSize
    <3>1. Len(p.words) * WordSize \in Nat
      BY <2>1, ByteFacts
    <3> QED BY <2>4, <3>1
  <2> QED BY <2>1, <2>2, <2>3, <2>5, <2>6
<1>6. CASE ~IsDynamic(commands[c])
  <2>1. p.dataSlots = <<s>> /\ p.len = WordSize
    BY <1>1, <1>2, <1>6 DEF Good, Located
  <2>2. ~IsShort(p) /\ Len(p.dataSlots) = 1
    BY <2>1 DEF IsShort
  <2>3. p.words \in Seq(Word) /\ Len(p.words) = 1 /\ p.words[1] = w
    BY <1>1, <1>5, <2>1, <2>2
  <2>4. PICK v : v = FlattenSeq(p.words)
    OBVIOUS
  <2>5. v \in Bytes /\ Len(v) = WordSize /\ \A m \in 1 .. WordSize : v[m] = w[m]
    <3>1. v \in Bytes /\ Len(v) = 1 * WordSize
      BY <2>3, <2>4, FlattenWords
    <3>2. ASSUME NEW m \in 1 .. WordSize PROVE v[m] = w[m]
      <4>1. (m - 1) \div WordSize = 0 /\ (m - 1) % WordSize = m - 1 /\ m \in 1 .. 1 * WordSize
        BY ByteFacts
      <4>2. v[m] = p.words[1 + ((m - 1) \div WordSize)][1 + ((m - 1) % WordSize)]
        BY <2>3, <2>4, <4>1, FlattenWords
      <4> QED BY <2>3, <4>1, <4>2, ByteFacts
    <3> QED BY <3>1, <3>2, ByteFacts
  <2>6. SubSeq(v, 1, WordSize) = w
    BY <1>4, <2>5, ByteFacts DEF Bytes
  <2>7. valueOf(p) = w
    BY <2>1, <2>2, <2>4, <2>6 DEF valueOf
  <2> QED BY <1>1, <1>3, <1>6, <2>7 DEF Value
<1>7. CASE IsDynamic(commands[c]) /\ ~IsLong(w)
  <2>1. IsShort(p) /\ p.head = w /\ p.len = ShortLength(w)
    BY <1>1, <1>2, <1>7 DEF Good, Located
  <2> QED BY <1>1, <1>3, <1>7, <2>1 DEF valueOf, Value
<1>8. CASE IsDynamic(commands[c]) /\ IsLong(w)
  <2>1. PICK len, n : len = LongLength(w) /\ n = DataWords(len)
    OBVIOUS
  <2>2. p.len = len /\ p.dataSlots = [k \in 1 .. n |-> DataSlot(s, k - 1)] /\ p.head = w
    BY <1>1, <1>2, <1>8, <2>1 DEF Good, Located, DataSlots
  <2>3. len \in Nat /\ n \in Nat /\ (n = 0 => len = 0)
    BY <1>4, <1>8, <2>1, LengthFacts, WordCount
  <2>4. answers[c] = [m \in 1 .. len |->
                       Cell(root, DataSlot(s, (m - 1) \div WordSize))[1 + ((m - 1) % WordSize)]]
    BY <1>1, <1>3, <1>8, <2>1 DEF Value
  <2>5. CASE IsShort(p)
    <3>1. n = 0
      <4>1. n # 0 => 1 \in DOMAIN p.dataSlots
        BY <2>2, <2>3
      <4> QED BY <2>5, <4>1 DEF IsShort
    <3>2. valueOf(p) = SubSeq(w, 1, 0)
      BY <2>2, <2>3, <2>5, <3>1 DEF valueOf
    <3>3. answers[c] = <<>>
      BY <2>3, <2>4, <3>1
    <3> QED BY <1>1, <1>4, <3>2, <3>3 DEF Bytes
  <2>6. CASE ~IsShort(p)
    <3>1. /\ p.words \in Seq(Word) /\ Len(p.words) = n /\ len \in 0 .. n * WordSize
          /\ \A k \in 1 .. n : p.words[k] = Cell(root, DataSlot(s, k - 1))
      <4>1. Len(p.dataSlots) = n /\ \A k \in 1 .. n : p.dataSlots[k] = DataSlot(s, k - 1)
        BY <2>2, <2>3
      <4> QED BY <1>5, <2>2, <2>6, <4>1
    <3>2. PICK v : v = FlattenSeq(p.words) /\ v \in Bytes /\ Len(v) = n * WordSize
      BY <3>1, FlattenWords
    <3>3. ASSUME NEW m \in 1 .. len
          PROVE  v[m] = Cell(root, DataSlot(s, (m - 1) \div WordSize))[1 + ((m - 1) % WordSize)]
      <4>1. PICK q \in Nat : q = (m - 1) \div WordSize
        BY <2>3, ByteFacts
      <4>2. m \in 1 .. n * WordSize /\ 1 + q \in 1 .. n
        <5>1. m - 1 \in Nat /\ m - 1 < n * WordSize /\ n * WordSize \in Nat
          BY <2>3, <3>1, ByteFacts
        <5>2. q \in 0 .. n - 1
          BY <2>3, <4>1, <5>1, QuotientBound
        <5> QED BY <2>3, <5>1, <5>2
      <4>3. v[m] = p.words[1 + q][1 + ((m - 1) % WordSize)]
        BY <3>1, <3>2, <4>1, <4>2, FlattenWords
      <4>4. (1 + q) - 1 = q
        OBVIOUS
      <4> QED BY <3>1, <4>1, <4>2, <4>3, <4>4
    <3>4. SubSeq(v, 1, len) = [m \in 1 .. len |-> v[m]]
      BY <2>3, <3>1, <3>2, ByteFacts DEF Bytes
    <3>5. valueOf(p) = SubSeq(v, 1, len)
      BY <2>2, <2>6, <3>2 DEF valueOf
    <3> QED BY <1>1, <2>4, <3>3, <3>4, <3>5
  <2> QED BY <2>5, <2>6
<1> QED BY <1>6, <1>7, <1>8

\* On its path, a command executes the next of its instructions.
LEMMA ServePath ==
  ASSUME TypeInv, Calm, ServesInv, NEW c \in Commands, OnPath(c)
  PROVE  /\ gpc = "slots" /\ promise[c] \in Promise /\ promise[c].pc = "path"
         /\ promise[c].value = "idle" /\ Sized(promise[c]) /\ Good(promise[c], c)
         /\ promise[c].j \in 1 .. EndAt(commands[c]) - 1
<1>1. gpc = "slots" /\ promise[c] \in Promise /\ Sized(promise[c]) /\ promise[c].pc = "path"
  BY OperationType DEF OnPath
<1>2. Good(promise[c], c) /\ promise[c].value = "idle"
  BY <1>1 DEF ServesInv, TypeInv, TypeOK, Sized
<1>3. promise[c].j \in 1 .. EndAt(commands[c])
  BY <1>2 DEF Good, HashedTo
<1>4. promise[c].j # EndAt(commands[c])
  BY EndAtFacts, ByteFacts DEF OnPath
<1> QED BY <1>1, <1>2, <1>3, <1>4, EndAtFacts, ByteFacts

\* An instruction never throws, and pushes the element of the path.
LEMMA ServePushes ==
  ASSUME TypeInv, Calm, ServesInv, NEW c \in Commands, OnPath(c)
  PROVE  /\ ~Throws(c)
         /\ Pushes(c) => Pushed(c) = Element(c, promise[c].j)
<1>1. PICK op : op = Operation(c) /\ op = commands[c][promise[c].j]
  BY DEF Operation
<1>2. /\ op \in Byte /\ OP_BACKREF # OP_CONSTANT
      /\ \/ Opcode(op) = OP_CONSTANT /\ Operand(op) < Len(constants)
         \/ Opcode(op) = OP_BACKREF /\ Operand(op) + 1 \in Visible(c)
  BY <1>1, ServePath, ElementType, ByteFacts DEF OP_BACKREF, OP_CONSTANT
<1>3. CASE Opcode(op) = OP_CONSTANT
  <2>1. Operand(op) \in Nat /\ Len(constants) \in Nat
    BY <1>2, ByteFacts DEF Operand, Byte, TypeInv, TypeOK
  <2>2. ~Throws(c)
    BY <1>1, <1>2, <1>3, <2>1 DEF Throws
  <2>3. Pushed(c) = Element(c, promise[c].j)
    BY <1>1, <1>3 DEF Pushed, Element, Argument
  <2> QED BY <2>2, <2>3
<1>4. CASE Opcode(op) = OP_BACKREF
  <2>1. PICK d, p, s, w : /\ d = Referent(c) /\ d = Operand(op) + 1 /\ p = promise[d]
                          /\ s = SlotAt(d) /\ w = Cell(root, s)
    BY <1>1 DEF Referent
  <2>2. d \in Visible(c) /\ d \in Commands
    BY <1>2, <1>4, <2>1 DEF Visible, Commands
  <2>3. Good(p, d) /\ p \in Promise
    BY <2>1, <2>2, ServePath DEF ServesInv, TypeInv, TypeOK
  <2>4. p.pc = "resolved" /\ IsShort(p) => p.len <= WordSize
    <3> SUFFICES ASSUME p.pc = "resolved", IsShort(p) PROVE p.len <= WordSize
      OBVIOUS
    <3>1. CASE ~IsDynamic(commands[d])
      BY <2>1, <2>3, <3>1, ByteFacts DEF Good, Located
    <3>2. CASE IsDynamic(commands[d]) /\ ~IsLong(w)
      BY <2>1, <2>2, <2>3, <3>2, CalmFacts DEF Good, Located, Answers, SlotAt
    <3>3. CASE IsDynamic(commands[d]) /\ IsLong(w)
      <4>1. PICK n : n = DataWords(p.len) /\ p.len = LongLength(w)
        BY <2>1, <2>3, <3>3 DEF Good, Located
      <4>2. w \in Word
        BY <2>1, CalmFacts, CellFacts
      <4>3. p.len \in Nat /\ n \in Nat /\ (n = 0 => p.len = 0)
        BY <3>3, <4>1, <4>2, LengthFacts, WordCount
      <4>4. p.dataSlots = [k \in 1 .. n |-> DataSlot(s, k - 1)]
        BY <2>1, <2>3, <3>3, <4>1 DEF Good, Located, DataSlots
      <4>5. n # 0 => 1 \in DOMAIN p.dataSlots
        BY <4>3, <4>4
      <4> QED BY <4>3, <4>5, ByteFacts DEF IsShort
    <3> QED BY <3>1, <3>2, <3>3
  <2>5. p.pc # "rejected" /\ p.value # "failed"
    BY <2>3 DEF Good, Fetched
  <2>6. ~Throws(c)
    <3>1. p.len \in Nat
      BY <2>3 DEF Promise
    <3> QED BY <1>1, <1>2, <1>4, <2>1, <2>2, <2>4, <2>5, <3>1, ByteFacts DEF Throws
  <2>7. ASSUME Pushes(c) PROVE Pushed(c) = Element(c, promise[c].j)
    <3>1. Ready(promise[d])
      BY <1>1, <1>2, <1>4, <2>1, <2>7 DEF Pushes
    <3>2. valueOf(promise[d]) = answers[d]
      BY <2>2, <3>1, ServePath, ReadyValue
    <3> QED BY <1>1, <1>2, <1>4, <2>1, <3>2 DEF Pushed, Element, Argument
  <2> QED BY <2>6, <2>7
<1> QED BY <1>2, <1>3, <1>4

\* A promise changes.
LEMMA PromiseServes ==
  ASSUME TypeInv, Calm, ServesInv, gpc = "slots", NEW d \in Commands, NEW q, Good(q, d),
         SetPromise(d, q)
  PROVE  ServesInv'
<1>1. /\ DOMAIN promise = Commands /\ promise' = [promise EXCEPT ![d] = q]
      /\ UNCHANGED <<commands, constants, node, gpc, response, faults, reorgs>>
  BY DEF TypeInv, TypeOK, SetPromise, request
<1>2. DOMAIN promise' = Commands /\ \A c \in Commands : promise'[c] = IF c = d THEN q ELSE promise[c]
  BY <1>1
<1>3. ASSUME NEW p, NEW c PROVE Good(p, c)' = Good(p, c)
  BY <1>1 DEF Good, HashedTo, Located, Fetched, SlotAt, Element, answers, root
<1>4. \A c \in DOMAIN promise' : Good(promise'[c], c)
  BY <1>1, <1>2 DEF ServesInv
<1> QED BY <1>1, <1>3, <1>4 DEF ServesInv

\* A path grows by an element.
LEMMA PathElement ==
  ASSUME NEW S, NEW u \in Seq(S), NEW x, NEW w, w = Append(u, x), NEW n \in Nat, Len(u) = n
  PROVE  /\ w = [k \in 1 .. n + 1 |-> w[k]] /\ w[n + 1] = x
         /\ \A k \in 1 .. n : w[k] = u[k]
<1>1. PICK T : T = S \cup {x}
  OBVIOUS
<1>2. u \in Seq(T) /\ x \in T
  BY <1>1
<1>3. w \in Seq(T) /\ Len(w) = n + 1 /\ w[n + 1] = x /\ \A k \in 1 .. n : w[k] = u[k]
  BY <1>2
<1>4. w = [k \in 1 .. n + 1 |-> w[k]]
  <2>1. PICK N \in Nat : N = n + 1
    OBVIOUS
  <2>2. w \in [1 .. N -> T]
    BY ONLY <1>3, <2>1
  <2> QED BY <2>1, <2>2
<1> QED BY <1>3, <1>4

\* As many words as bytes allow.
LEMMA FewWords ==
  ASSUME NEW len \in Nat, len <= MaxWords * WordSize
  PROVE  DataWords(len) \in Nat /\ DataWords(len) <= MaxWords
<1>1. len + WordSize - 1 \in Nat /\ MaxWords + 1 \in Nat /\ MaxWords \in Nat
  BY ByteFacts, BoundAssumption
<1>2. len + WordSize - 1 < (MaxWords + 1) * WordSize
  <2>1. (MaxWords + 1) * WordSize = MaxWords * WordSize + WordSize /\ MaxWords * WordSize \in Nat
    BY <1>1, ByteFacts
  <2> QED BY <2>1, ByteFacts
<1>3. (len + WordSize - 1) \div WordSize \in 0 .. (MaxWords + 1) - 1
  BY <1>1, <1>2, QuotientBound
<1> QED BY <1>1, <1>3 DEF DataWords

\* A step of a promise leaves every promise good.
LEMMA ServeStep ==
  ASSUME TypeInv, Calm, ServesInv, NEW c \in Commands, Step(c)
  PROVE  ServesInv'
<1>0. /\ gpc = "slots"
      /\ \A d \in Commands : promise[d] \in Promise /\ Sized(promise[d]) /\ Good(promise[d], d)
  <2>1. gpc = "slots"
    BY DEF Step, ExecuteThrows, CallValue, FirstElement, NextElement, EndOfPath, ReadHead, ReadWord,
           ValueSettles, OnPath
  <2> QED BY <2>1 DEF TypeInv, TypeOK, ServesInv
<1>3. CASE ExecuteThrows(c)
  BY <1>3, ServePushes DEF ExecuteThrows
<1>4. CASE CallValue(c)
  <2>1. PICK d, p, q : /\ d \in Commands /\ p = promise[d] /\ Uncalled(p) /\ SetPromise(d, q)
                       /\ q = [p EXCEPT !.value = "reading",
                                        !.words = [n \in 1 .. Len(p.dataSlots) |-> Unread]]
    <3>1. PICK d : d = Referent(c) /\ d \in Commands
      BY <1>4 DEF CallValue, Visible, Commands
    <3>2. PICK p : p = promise[d]
      OBVIOUS
    <3>3. PICK q : q = [p EXCEPT !.value = "reading",
                                 !.words = [n \in 1 .. Len(p.dataSlots) |-> Unread]]
      OBVIOUS
    <3>4. Uncalled(p) /\ SetPromise(d, q)
      BY <1>4, <3>1, <3>2, <3>3 DEF CallValue
    <3> QED BY <3>1, <3>2, <3>3, <3>4
  <2>2. p \in Promise /\ Good(p, d)
    BY <1>0, <2>1
  <2>3. /\ q.pc = p.pc /\ q.j = p.j /\ q.slot = p.slot /\ q.slots = p.slots /\ q.head = p.head
        /\ q.dataSlots = p.dataSlots /\ q.len = p.len /\ q.value = "reading"
        /\ \A n \in 1 .. Len(q.dataSlots) : q.words[n] = Unread
    BY <2>1, <2>2 DEF Promise
  <2>4. Good(q, d)
    BY <2>2, <2>3 DEF Good, HashedTo, Located, Fetched, IsShort
  <2> QED BY <1>0, <2>1, <2>4, PromiseServes
<1>5. CASE FirstElement(c)
  <2>1. /\ OnPath(c) /\ Pushes(c) /\ promise[c].j = 1
    BY <1>5 DEF FirstElement
  <2>2. PICK v : v = Pushed(c) /\ v = Element(c, 1) /\ v \in Bytes /\ Len(v) = WordSize
    <3>1. 1 \in 1 .. EndAt(commands[c]) - 1
      BY EndAtFacts, ByteFacts
    <3>2. Len(Element(c, 1)) = WordSize
      BY CalmFacts DEF Answers, Element
    <3> QED BY <2>1, <3>1, <3>2, ServePushes, ElementType
  <2>3. IsWord(v) /\ LeftPad(Stripped(v)) = v
    BY <2>2, StripFacts, ByteFacts DEF IsWord
  <2>4. PICK s, q : /\ s = BaseSlot(v) /\ SetPromise(c, q)
                    /\ q = [promise[c] EXCEPT !.j = 2, !.slot = s]
    BY <1>5, <2>2, <2>3 DEF FirstElement
  <2>5. s = [path |-> [k \in 1 .. 1 |-> Element(c, k)], off |-> 0]
    <3>1. <<v>> = [k \in 1 .. 1 |-> Element(c, k)]
      BY <2>2
    <3> QED BY <2>4, <3>1 DEF BaseSlot
  <2>6. /\ promise[c] \in Promise /\ promise[c].pc = "path" /\ promise[c].value = "idle"
        /\ Good(promise[c], c)
    BY <2>1, ServePath
  <2>7. /\ q.pc = "path" /\ q.j = 2 /\ q.slot = s /\ q.dataSlots = promise[c].dataSlots
        /\ q.value = "idle"
    BY <2>4, <2>6 DEF Promise
  <2>8. HashedTo(q, c)
    <3>1. 2 \in 1 .. EndAt(commands[c]) /\ 2 - 1 = 1
      BY EndAtFacts, ByteFacts
    <3> QED BY <2>5, <2>7, <3>1 DEF HashedTo
  <2>9. Good(q, c)
    BY <2>6, <2>7, <2>8 DEF Good, Located, Fetched, IsShort
  <2> QED BY <1>0, <2>4, <2>9, PromiseServes
<1>6. CASE NextElement(c)
  <2>1. OnPath(c) /\ Pushes(c) /\ promise[c].j > 1
    BY <1>6 DEF NextElement
  <2>2. PICK n, u : n = promise[c].j /\ u = promise[c].slot.path
    OBVIOUS
  <2>3. /\ promise[c] \in Promise /\ promise[c].pc = "path" /\ promise[c].value = "idle"
        /\ Good(promise[c], c) /\ n \in 1 .. EndAt(commands[c]) - 1 /\ n > 1 /\ n \in Nat
    BY <2>1, <2>2, ServePath, EndAtFacts, ByteFacts
  <2>4. u \in Seq(Bytes) /\ u = [k \in 1 .. n - 1 |-> Element(c, k)]
    <3>1. promise[c].slot \in Slot
      BY <2>3 DEF Promise
    <3>2. promise[c].slot = [path |-> [k \in 1 .. n - 1 |-> Element(c, k)], off |-> 0]
      BY <2>2, <2>3 DEF Good, HashedTo
    <3>3. u = [k \in 1 .. n - 1 |-> Element(c, k)]
      BY <2>2, <3>2
    <3>4. u \in Seq(Bytes)
      BY <2>2, <3>1 DEF Slot
    <3> QED BY <3>3, <3>4
  <2>5. PICK w, s, q : /\ w = Append(u, Element(c, n)) /\ s = [path |-> w, off |-> 0]
                       /\ SetPromise(c, q)
                       /\ q = [promise[c] EXCEPT !.j = @ + 1, !.slot = s]
    BY <1>6, <2>1, <2>2, ServePushes DEF NextElement, Keccak
  <2>6. w = [k \in 1 .. n |-> Element(c, k)]
    <3>1. Len(u) = n - 1 /\ n - 1 \in Nat /\ (n - 1) + 1 = n
      BY <2>3, <2>4
    <3>2. /\ w = [k \in 1 .. n |-> w[k]] /\ w[n] = Element(c, n)
          /\ \A k \in 1 .. n - 1 : w[k] = u[k]
      BY <2>4, <2>5, <3>1, PathElement
    <3>3. ASSUME NEW k \in 1 .. n PROVE w[k] = Element(c, k)
      <4>1. CASE k = n
        BY <3>2, <4>1
      <4>2. CASE k # n
        <5>1. k \in 1 .. n - 1
          BY <2>3, <4>2
        <5>2. u[k] = Element(c, k)
          BY <2>4, <5>1
        <5> QED BY <3>2, <5>1, <5>2
      <4> QED BY <4>1, <4>2
    <3> QED BY <3>2, <3>3
  <2>7. /\ q.pc = "path" /\ q.j = n + 1 /\ q.slot = s /\ q.dataSlots = promise[c].dataSlots
        /\ q.value = "idle"
    BY <2>2, <2>3, <2>5 DEF Promise
  <2>8. HashedTo(q, c)
    <3>1. n + 1 \in 1 .. EndAt(commands[c]) /\ (n + 1) - 1 = n
      BY <2>3, EndAtFacts, ByteFacts
    <3> QED BY <2>5, <2>6, <2>7, <3>1 DEF HashedTo
  <2>9. Good(q, c)
    BY <2>3, <2>7, <2>8 DEF Good, Located, Fetched, IsShort
  <2> QED BY <1>0, <2>5, <2>9, PromiseServes
<1>7. CASE EndOfPath(c)
  <2>1. PICK p, s : p = promise[c] /\ s = SlotAt(c)
    OBVIOUS
  <2>2. /\ p \in Promise /\ p.pc = "path" /\ p.value = "idle" /\ Good(p, c) /\ p.j > 1
        /\ ~More(commands[c], p.j)
    BY <1>0, <1>7, <2>1 DEF EndOfPath, Sized
  <2>3. p.j = EndAt(commands[c])
    <3>1. p.j \in 2 .. EndAt(commands[c])
      BY <2>2, EndAtFacts, ByteFacts DEF Good, HashedTo
    <3>2. ~(p.j \in 2 .. EndAt(commands[c]) - 1)
      BY <2>2, EndAtFacts
    <3> QED BY <3>1, <3>2, EndAtFacts, ByteFacts
  <2>4. p.slot = s
    BY <2>1, <2>2, <2>3, SlotAtFacts DEF Good, HashedTo
  <2>5. CASE IsDynamic(commands[c])
    <3>1. PICK q : q = [p EXCEPT !.pc = "head"] /\ SetPromise(c, q)
      BY <1>7, <2>1, <2>5 DEF EndOfPath
    <3>2. /\ q.pc = "head" /\ q.j = p.j /\ q.slot = p.slot /\ q.dataSlots = p.dataSlots
          /\ q.value = "idle"
      BY <2>2, <3>1 DEF Promise
    <3>3. Good(q, c)
      BY <2>2, <2>3, <2>5, <3>2 DEF Good, HashedTo, Located, Fetched, IsShort
    <3> QED BY <1>0, <3>1, <3>3, PromiseServes
  <2>6. CASE ~IsDynamic(commands[c])
    <3>1. PICK q, S : /\ S = <<s>> /\ SetPromise(c, q)
                      /\ q = [p EXCEPT !.pc = "resolved", !.slots = S,
                                       !.dataSlots = S, !.len = WordSize]
      BY <1>7, <2>1, <2>4, <2>6 DEF EndOfPath
    <3>2. /\ q.pc = "resolved" /\ q.j = p.j /\ q.slot = p.slot /\ q.slots = <<s>>
          /\ q.dataSlots = <<s>> /\ q.len = WordSize /\ q.value = "idle"
      BY <2>2, <3>1 DEF Promise
    <3>3. SlotsRead(root, s, IsDynamic(commands[c])) = <<s>>
      BY <2>6 DEF SlotsRead
    <3>4. Located(q, c)
      BY <2>1, <2>6, <3>2, <3>3 DEF Located
    <3>5. Good(q, c)
      BY <2>2, <2>3, <3>2, <3>4 DEF Good, HashedTo, Fetched
    <3> QED BY <1>0, <3>1, <3>5, PromiseServes
  <2> QED BY <2>5, <2>6
<1>8. CASE ReadHead(c)
  <2>1. PICK p, s, head, words, data :
          /\ p = promise[c] /\ s = SlotAt(c) /\ head = Cell(root, s)
          /\ words = DataWords(LongLength(head)) /\ data = DataSlots(s, words)
    OBVIOUS
  <2>2. p \in Promise /\ p.pc = "head" /\ p.value = "idle" /\ Good(p, c)
    BY <1>0, <1>8, <2>1 DEF ReadHead, Sized
  <2>3. IsDynamic(commands[c]) /\ IsShort(p) /\ p.j = EndAt(commands[c])
    BY <2>2 DEF Good, HashedTo, Located
  <2>4. p.slot = s
    <3>1. p.j > 1
      BY <2>3, EndAtFacts, ByteFacts
    <3> QED BY <2>1, <2>2, <2>3, <3>1, SlotAtFacts DEF Good, HashedTo
  <2>5. getStorageAt(s) = head /\ head \in Word
    <3>1. root \in StorageRoots /\ root # NoAccount
      BY CalmFacts, StoreAssumption
    <3> QED BY <2>1, <3>1, CellFacts DEF getStorageAt
  <2>6. CASE ~IsLong(head)
    <3>1. PICK q : /\ q = [p EXCEPT !.pc = "resolved", !.head = head, !.slots = <<s>>,
                                    !.len = ShortLength(head)]
                   /\ SetPromise(c, q)
      BY <1>8, <2>1, <2>4, <2>5, <2>6 DEF ReadHead
    <3>2. /\ q.pc = "resolved" /\ q.j = p.j /\ q.slot = p.slot /\ q.slots = <<s>> /\ q.head = head
          /\ q.dataSlots = p.dataSlots /\ q.len = ShortLength(head) /\ q.value = "idle"
      BY <2>2, <3>1 DEF Promise
    <3>3. SlotsRead(root, s, IsDynamic(commands[c])) = <<s>>
      BY <2>1, <2>6 DEF SlotsRead
    <3>4. Located(q, c)
      BY <2>1, <2>3, <2>6, <3>2, <3>3 DEF Located, IsShort
    <3>5. Good(q, c)
      BY <2>2, <2>3, <3>2, <3>4 DEF Good, HashedTo, Fetched
    <3> QED BY <1>0, <3>1, <3>5, PromiseServes
  <2>7. CASE IsLong(head)
    <3>1. words <= MaxWords /\ words \in Nat
      <4>1. PICK len \in Nat : len = LongLength(head)
        BY <2>5, <2>7, LengthFacts
      <4>2. len <= MaxWords * WordSize
        <5>1. /\ answers[c] = Value(root, s, IsDynamic(commands[c]))
              /\ Len(answers[c]) <= MaxWords * WordSize
          BY <2>1, CalmFacts DEF Answers, SlotAt
        <5>2. Len(answers[c]) = len
          BY <2>1, <2>3, <2>7, <4>1, <5>1 DEF Value
        <5> QED BY <5>1, <5>2
      <4> QED BY <2>1, <4>1, <4>2, FewWords
    <3>2. PICK q : /\ q = [p EXCEPT !.pc = "resolved", !.head = head, !.slots = <<s>> \o data,
                                    !.dataSlots = data, !.len = LongLength(head)]
                   /\ SetPromise(c, q)
      <4>1. ~(words > MaxWords)
        BY <3>1, BoundAssumption
      <4> QED BY <1>8, <2>1, <2>4, <2>5, <2>7, <4>1 DEF ReadHead
    <3>3. /\ q.pc = "resolved" /\ q.j = p.j /\ q.slot = p.slot /\ q.slots = <<s>> \o data
          /\ q.head = head /\ q.dataSlots = data /\ q.len = LongLength(head) /\ q.value = "idle"
      BY <2>2, <3>2 DEF Promise
    <3>4. SlotsRead(root, s, IsDynamic(commands[c])) = <<s>> \o data
      BY <2>1, <2>3, <2>7 DEF SlotsRead, DataSlots, DataWords
    <3>5. Located(q, c)
      BY <2>1, <2>3, <2>7, <3>3, <3>4 DEF Located
    <3>6. Good(q, c)
      BY <2>2, <2>3, <3>3, <3>5 DEF Good, HashedTo, Fetched
    <3> QED BY <1>0, <3>2, <3>6, PromiseServes
  <2> QED BY <2>6, <2>7
<1>9. CASE ReadWord(c)
  <2>1. PICK p, n, w, W, q :
          /\ p = promise[c] /\ n \in 1 .. Len(p.words) /\ w = getStorageAt(p.dataSlots[n])
          /\ W = [p.words EXCEPT ![n] = w] /\ q = [p EXCEPT !.words = W] /\ SetPromise(c, q)
    BY <1>9 DEF ReadWord
  <2>2. p.value = "reading" /\ p \in Promise /\ Sized(p) /\ Good(p, c)
    BY <1>0, <1>9, <2>1 DEF ReadWord
  <2>3. w = Cell(root, p.dataSlots[n])
    BY <2>1, CalmFacts, StoreAssumption DEF getStorageAt
  <2>4. \A k \in 1 .. Len(p.dataSlots) : W[k] \in {Unread, Cell(root, p.dataSlots[k])}
    <3>1. Len(p.words) = Len(p.dataSlots) /\ DOMAIN p.words = 1 .. Len(p.words)
      BY <2>2 DEF Sized, Promise
    <3>2. \A k \in 1 .. Len(p.dataSlots) : p.words[k] \in {Unread, Cell(root, p.dataSlots[k])}
      BY <2>2 DEF Good, Fetched
    <3> QED BY <2>1, <2>3, <3>1, <3>2
  <2>5. /\ q.pc = p.pc /\ q.j = p.j /\ q.slot = p.slot /\ q.slots = p.slots /\ q.head = p.head
        /\ q.dataSlots = p.dataSlots /\ q.len = p.len /\ q.value = p.value /\ q.words = W
    BY <2>1, <2>2 DEF Promise
  <2>6. Good(q, c)
    BY <2>2, <2>4, <2>5 DEF Good, HashedTo, Located, Fetched, IsShort
  <2> QED BY <1>0, <2>1, <2>6, PromiseServes
<1>10. CASE ValueSettles(c)
  <2>1. PICK p, q : p = promise[c] /\ q = [p EXCEPT !.value = "ready"] /\ SetPromise(c, q)
    BY <1>10 DEF ValueSettles
  <2>2. p.value = "reading" /\ p \in Promise /\ Good(p, c)
    BY <1>0, <1>10, <2>1 DEF ValueSettles
  <2>3. /\ q.pc = p.pc /\ q.j = p.j /\ q.slot = p.slot /\ q.slots = p.slots /\ q.head = p.head
        /\ q.dataSlots = p.dataSlots /\ q.len = p.len /\ q.value = "ready" /\ q.words = p.words
    BY <2>1, <2>2 DEF Promise
  <2>4. Good(q, c)
    BY <2>2, <2>3 DEF Good, HashedTo, Located, Fetched, IsShort
  <2> QED BY <1>0, <2>1, <2>4, PromiseServes
<1> QED BY <1>3, <1>4, <1>5, <1>6, <1>7, <1>8, <1>9, <1>10 DEF Step

\* The slots of a value are slots.
LEMMA SlotsReadType ==
  ASSUME TypeInv, Calm, NEW c \in Commands
  PROVE  SlotsRead(root, SlotAt(c), IsDynamic(commands[c])) \in Seq(Slot)
<1>1. PICK s, head : s = SlotAt(c) /\ s \in Slot /\ head = Cell(root, s) /\ head \in Word
  BY SlotAtFacts, CalmFacts, CellFacts
<1>2. CASE IsDynamic(commands[c]) /\ IsLong(head)
  <2>1. PICK n \in Nat : n = DataWords(LongLength(head))
    BY <1>1, <1>2, LengthFacts, WordCount
  <2>2. SlotsRead(root, s, IsDynamic(commands[c])) = <<s>> \o [k \in 1 .. n |-> DataSlot(s, k - 1)]
    BY <1>1, <1>2, <2>1 DEF SlotsRead, DataWords
  <2>3. \A k \in 1 .. n : DataSlot(s, k - 1) \in Slot
    BY <1>1, <2>1, ByteFacts DEF DataSlot, Slot
  <2>4. PICK data : data = [k \in 1 .. n |-> DataSlot(s, k - 1)]
    OBVIOUS
  <2>5. data \in Seq(Slot)
    BY <2>3, <2>4
  <2> QED BY <1>1, <2>2, <2>4, <2>5
<1>3. CASE ~(IsDynamic(commands[c]) /\ IsLong(head))
  BY <1>1, <1>3 DEF SlotsRead
<1> QED BY <1>1, <1>2, <1>3

\* The list of slots, command by command.
LEMMA ListOfSlots ==
  ASSUME TypeInv, Calm
  PROVE  /\ SlotList(commands, constants, root) \in Seq(Slot)
         /\ SlotList(commands, constants, root)
              = FlattenSeq([c \in Commands |-> SlotsRead(root, SlotAt(c), IsDynamic(commands[c]))])
<1>1. SlotList(commands, constants, root)
        = FlattenSeq([c \in Commands |-> SlotsRead(root, SlotAt(c), IsDynamic(commands[c]))])
  BY CalmFacts DEF SlotList, SlotAt, answers, Commands
<1>2. PICK L : L = [c \in Commands |-> SlotsRead(root, SlotAt(c), IsDynamic(commands[c]))]
  OBVIOUS
<1>3. L \in Seq(Seq(Slot))
  <2>1. PICK n \in Nat : n = Len(commands)
    BY DEF TypeInv, TypeOK
  <2>2. \A c \in 1 .. n : L[c] \in Seq(Slot)
    BY <1>2, <2>1, SlotsReadType DEF Commands
  <2> QED BY <1>2, <2>1, <2>2 DEF Commands
<1>4. FlattenSeq(L) \in Seq(Slot)
  BY <1>3, FlattenType
<1> QED BY <1>1, <1>2, <1>4

\* Every step of the gateway keeps what makes it serve.
LEMMA ServesNext == TypeInv /\ ServesInv /\ [Next]_vars => ServesInv'
<1> SUFFICES ASSUME TypeInv, ServesInv, [Next]_vars, Calm' PROVE ServesInv'
  BY DEF ServesInv
<1>0. faults \in Nat /\ reorgs \in Nat /\ faults' = 0 /\ reorgs' = 0
  BY BoundAssumption DEF TypeInv, TypeOK, Calm
<1>1. ~NodeFails /\ ~Reorg
  BY <1>0 DEF NodeFails, Reorg
<1>2. UNCHANGED <<commands, constants, node, faults, reorgs>>
  BY <1>1 DEF Next, Run, GetProvableBlock, Step, ExecuteThrows, CallValue, FirstElement, NextElement,
       EndOfPath, ReadHead, ReadWord, ValueSettles, Reject, SetPromise, AllResolved, SomeRejected,
       GetProof, GetHeader, Stay, request, vars
<1>3. /\ Calm /\ root' = root /\ answers' = answers /\ Commands' = Commands
      /\ \A p, c : Good(p, c)' = Good(p, c)
  <2>1. Calm /\ root' = root /\ answers' = answers /\ Commands' = Commands
    BY <1>2 DEF Calm, root, answers, Commands, Fits
  <2>2. ASSUME NEW p, NEW c PROVE Good(p, c)' = Good(p, c)
    BY <1>2 DEF Good, HashedTo, Located, Fetched, SlotAt, Element, answers, root
  <2> QED BY <2>1, <2>2
<1>4. gpc # "failed" /\ \A c \in DOMAIN promise : Good(promise[c], c)
  BY <1>3 DEF ServesInv
<1>5. CASE GetProvableBlock
  <2>1. /\ gpc' = "slots" /\ promise' = [c \in Commands |-> NewPromise]
    BY <1>5 DEF GetProvableBlock
  <2>2. ASSUME NEW c \in Commands PROVE Good(NewPromise, c)
    <3>1. 1 \in 1 .. EndAt(commands[c])
      BY EndAtFacts, ByteFacts
    <3> QED BY <3>1 DEF NewPromise, Good, HashedTo, Located, Fetched, IsShort
  <2> QED BY <1>3, <2>1, <2>2 DEF ServesInv
<1>6. CASE \E c \in Commands : Step(c)
  BY <1>3, <1>6, ServeStep
<1>7. CASE AllResolved
  BY <1>3, <1>4, <1>7 DEF AllResolved, Stay, ServesInv
<1>8. CASE SomeRejected
  BY <1>4, <1>8 DEF SomeRejected, TypeInv, TypeOK, Good, Fetched
<1>9. CASE GetProof
  <2>1. \A c \in Commands : promise[c].slots = SlotsRead(root, SlotAt(c), IsDynamic(commands[c]))
    BY <1>3, <1>4, <1>9 DEF GetProof, ServesInv, TypeInv, TypeOK, Good, Located
  <2>2. slots = SlotList(commands, constants, root)
    <3>1. [c \in Commands |-> promise[c].slots]
            = [c \in Commands |-> SlotsRead(root, SlotAt(c), IsDynamic(commands[c]))]
      BY <2>1
    <3> QED BY <1>3, <3>1, ListOfSlots DEF slots
  <2>3. /\ gpc' = "header" /\ promise' = promise
        /\ response'.proof.stateTrieWitness = node
        /\ response'.proof.storageProofs = ProofsOf(root, slots)
    BY <1>9 DEF GetProof, Stay, TypeInv, ProofsOf
  <2>4. SlotList(commands, constants, root)' = SlotList(commands, constants, root)
    BY <1>2, <1>3
  <2>5. ProofsOf(root, SlotList(commands, constants, root))'
          = ProofsOf(root, SlotList(commands, constants, root))
    BY <1>2, <1>3
  <2> QED BY <1>2, <1>3, <1>4, <2>2, <2>3, <2>5 DEF ServesInv
<1>10. CASE GetHeader
  <2>1. /\ gpc = "header" /\ gpc' = "responded" /\ promise' = promise
        /\ response'.proof = response.proof /\ response'.header = node
    BY <1>10 DEF GetHeader, Stay, TypeInv
  <2>2. /\ response.proof.stateTrieWitness = node
        /\ response.proof.storageProofs = ProofsOf(root, SlotList(commands, constants, root))
    BY <1>3, <2>1 DEF ServesInv
  <2>5. ProofsOf(root, SlotList(commands, constants, root))'
          = ProofsOf(root, SlotList(commands, constants, root))
    BY <1>2, <1>3
  <2> QED BY <1>2, <1>3, <1>4, <2>1, <2>2, <2>5 DEF ServesInv
<1>11. CASE UNCHANGED vars
  <2>1. UNCHANGED <<gpc, promise, response>>
    BY <1>11 DEF vars
  <2>5. ProofsOf(root, SlotList(commands, constants, root))'
          = ProofsOf(root, SlotList(commands, constants, root))
    BY <1>2, <1>3
  <2> QED BY <1>2, <1>3, <1>4, <2>1, <2>5 DEF ServesInv
<1> QED BY <1>1, <1>5, <1>6, <1>7, <1>8, <1>9, <1>10, <1>11 DEF Next, Run

(***************************************************************************)
(* Undisturbed, createProofs does not fail on a request that can be        *)
(* served, and asks for the proofs of the slots that its commands name, in *)
(* the order of the commands, for every storage, request and interleaving  *)
(* of the promises.                                                        *)
(*                                                                         *)
(* ServesInv says why: the values that value() yields are those that the   *)
(* storage holds (ReadyValue), so every path hashes the elements that      *)
(* define its slot, references included.                                   *)
(***************************************************************************)
THEOREM CreateProofsServes == Spec => []Serves
<1>1. Init => ServesInv
  BY DEF Init, ServesInv
<1>2. ASSUME TypeInv, ServesInv PROVE Serves
  <2> SUFFICES ASSUME Calm PROVE
        /\ gpc # "failed"
        /\ gpc \in {"header", "responded"} =>
             [n \in DOMAIN response.proof.storageProofs |-> response.proof.storageProofs[n].slot]
               = SlotList(commands, constants, root)
    BY DEF Serves, Calm
  <2>1. PICK list : list = SlotList(commands, constants, root) /\ list \in Seq(Slot)
    BY <1>2, ListOfSlots
  <2>2. [n \in DOMAIN ProofsOf(root, list) |-> ProofsOf(root, list)[n].slot] = list
    BY <2>1 DEF ProofsOf
  <2> QED BY <1>2, <2>1, <2>2 DEF ServesInv
<1>3. Init => TypeInv
  BY GatewayInit
<1> QED BY <1>1, <1>2, <1>3, TypeNext, ServesNext, PTL DEF Spec

-----------------------------------------------------------------------------
(* The inductive invariant of a read.                                      *)

\* Until the callback the verifier has not begun; after it, the response is
\* one for the committed state and stays so, or the callback has failed.
ReadInv ==
  /\ commands \in Seq(Command) /\ constants \in Seq(Bytes) /\ committed \in StateRoots
  /\ vpc = "idle" => P!NewLocals
  /\ vpc # "idle" =>
       /\ gpc = "responded"
       /\ vpc # "reverted" => response.header = committed /\ P!IInv

\* The initial states satisfy the invariant.
LEMMA ReadInit == FetchInit => ReadInv
<1> SUFFICES ASSUME FetchInit PROVE ReadInv
  OBVIOUS
<1>1. commands \in Seq(Command) /\ constants \in Seq(Bytes)
  BY BoundAssumption DEF FetchInit, Init, Program
<1>2. P!NewLocals
  BY DEF FetchInit, V!NewLocals, P!NewLocals, V!BaseSlot, P!BaseSlot, V!ZeroWord, P!ZeroWord
<1> QED BY <1>1, <1>2 DEF FetchInit, ReadInv

\* What the gateway, the node and a reorganisation leave alone.
LEMMA GatewayKeeps ==
  ASSUME Run \/ NodeFails \/ Reorg
  PROVE  UNCHANGED request /\ gpc \notin {"responded", "failed"}
BY DEF Run, GetProvableBlock, Step, ExecuteThrows, CallValue, FirstElement, NextElement, EndOfPath,
       ReadHead, ReadWord, ValueSettles, OnPath, Reject, SetPromise, AllResolved, SomeRejected,
       GetProof, GetHeader, Stay, NodeFails, Reorg, request

\* As long as the verifier has not begun, the invariant is about the request.
LEMMA IdleKeeps ==
  ASSUME ReadInv, vpc = "idle", UNCHANGED <<request, verifierVars>>, committed' \in StateRoots
  PROVE  ReadInv'
<1>1. P!NewLocals'
  BY DEF ReadInv, P!NewLocals, request, verifierVars
<1> QED BY <1>1 DEF ReadInv, request, verifierVars

\* What the gateway, the node and a reorganisation do.
LEMMA GatewayInv ==
  ASSUME ReadInv, Gateway \/ Fault \/ Replace
  PROVE  ReadInv' /\ vpc = "idle" /\ UNCHANGED <<request, committed, verifierVars>>
<1>1. UNCHANGED <<request, committed, verifierVars>> /\ gpc # "responded"
  BY GatewayKeeps DEF Gateway, Fault, Replace
<1>2. vpc = "idle" /\ committed \in StateRoots
  BY <1>1 DEF ReadInv
<1> QED BY <1>1, <1>2, IdleKeeps

\* The verifier begins with its invariant.
LEMMA CallBegins ==
  /\ commands \in Seq(P!Command) /\ constants \in Seq(P!Bytes) /\ response.header \in StateRoots
  /\ vpc = "account" /\ P!NewLocals
  => P!IInv
BY P!CallInv, Premises DEF P!InputAssumption, P!SizeAssumption, P!StoreAssumption

\* The callback starts the verifier only on the committed block.
LEMMA CallbackInv == ASSUME ReadInv, Callback PROVE ReadInv'
<1>1. CASE response.header # committed
  BY <1>1 DEF ReadInv, Callback, vars, request
<1>2. CASE response.header = committed
  <2>1. /\ (commands \in Seq(P!Command) /\ constants \in Seq(P!Bytes) /\ response.header \in StateRoots)'
        /\ (vpc = "account")' /\ P!NewLocals'
    BY <1>2, SameWords DEF ReadInv, Callback, vars, request, P!NewLocals
  <2>2. P!IInv'
    BY <2>1, CallBegins, PTL
  <2> QED BY <1>2, <2>2 DEF ReadInv, Callback, vars, request
<1> QED BY <1>1, <1>2

\* The verifier runs on the response for the committed block, in its invariant.
LEMMA VerifierStep ==
  ASSUME ReadInv, Verifier
  PROVE  /\ P!IInv /\ P!Next /\ UNCHANGED <<vars, committed>> /\ gpc = "responded"
         /\ response.header = committed /\ vpc' # "idle"
<1>1. P!Next /\ vpc # "idle" /\ UNCHANGED <<vars, committed>>
  BY SameNext DEF Verifier
<1>2. vpc # "reverted" /\ vpc' # "idle"
  BY <1>1 DEF P!Next, P!GetStorageRoot, P!FirstElement, P!NextElement, P!ProofFails, P!Reading,
     P!ReadFixed, P!ReadShort, P!ReadLongHead, P!ReadChunk, P!EndOfValue, P!Return, P!Revert, P!Store_i
<1> QED BY <1>1, <1>2 DEF ReadInv

\* The verifier keeps its invariant.
LEMMA VerifierInv == ASSUME ReadInv, Verifier PROVE ReadInv'
<1>1. P!IInv'
  BY VerifierStep, P!StepInv, Premises DEF P!InputAssumption, P!SizeAssumption, P!StoreAssumption
<1> QED BY <1>1, VerifierStep DEF ReadInv, vars, request

\* Every step of a read keeps the invariant.
LEMMA ReadNext == ASSUME ReadInv, [FetchNext]_fetchVars PROVE ReadInv'
<1>1. CASE Recommit
  BY <1>1, IdleKeeps DEF Recommit, request
<1>2. CASE UNCHANGED fetchVars
  <2>1. CASE vpc = "idle"
    BY <1>2, <2>1, IdleKeeps DEF fetchVars, vars, ReadInv
  <2>2. CASE vpc # "idle" /\ vpc # "reverted"
    <3>1. UNCHANGED P!vars
      BY <1>2 DEF fetchVars, vars, verifierVars, request, P!vars, P!inputs, P!locals
    <3>2. P!IInv'
      BY <2>2, <3>1, P!StepInv, Premises
         DEF ReadInv, P!InputAssumption, P!SizeAssumption, P!StoreAssumption
    <3> QED BY <1>2, <2>2, <3>2 DEF ReadInv, fetchVars, vars, verifierVars, request
  <2>3. CASE vpc = "reverted"
    BY <1>2, <2>3 DEF ReadInv, fetchVars, vars, verifierVars, request
  <2> QED BY <2>1, <2>2, <2>3
<1> QED BY <1>1, <1>2, GatewayInv, CallbackInv, VerifierInv DEF FetchNext, FetchRun

-----------------------------------------------------------------------------
(***************************************************************************)
(* A whole read implements an authentic read, for every storage, request   *)
(* and number of failures and of reorganisations of either chain: it fails *)
(* or answers, once, with what the state holds that the chain is committed *)
(* to at that moment, whatever the gateway read and when it read it.       *)
(***************************************************************************)
THEOREM WholeRead == FetchSpec => ImplementsAuthenticRead
<1>1. FetchInit => AR!Init
  BY DEF FetchInit, Init, Failed, AR!Init
<1>2. ASSUME ReadInv, [FetchNext]_fetchVars PROVE [AR!Next]_(AR!vars)
  <2>1. CASE Gateway \/ Fault \/ Replace
    <3>1. /\ UNCHANGED <<request, committed, verifierVars>>
          /\ vpc = "idle" /\ gpc # "failed"
      BY <1>2, <2>1, GatewayInv, GatewayKeeps DEF Gateway, Fault, Replace
    <3>2. CASE gpc' = "failed"
      <4>1. AR!Fail
        BY <3>1, <3>2 DEF AR!Fail, Failed, request, verifierVars
      <4> QED BY <4>1 DEF AR!Next
    <3>3. CASE gpc' # "failed"
      BY <3>1, <3>3 DEF AR!vars, Failed, request, verifierVars
    <3> QED BY <3>2, <3>3
  <2>2. CASE Callback
    <3>1. /\ UNCHANGED <<commands, constants, committed, gpc>> /\ gpc = "responded" /\ vpc = "idle"
          /\ vpc' \in {"account", "reverted"}
      BY <2>2 DEF Callback, vars, request
    <3>2. CASE vpc' = "reverted"
      <4>1. AR!Fail
        BY <3>1, <3>2 DEF AR!Fail, Failed
      <4> QED BY <4>1 DEF AR!Next
    <3>3. CASE vpc' = "account"
      BY <3>1, <3>3 DEF AR!vars, Failed
    <3> QED BY <3>1, <3>2, <3>3
  <2>3. CASE Verifier
    <3>1. /\ P!IInv /\ P!Next /\ UNCHANGED <<commands, constants, committed, gpc>>
          /\ gpc = "responded" /\ response.header = committed
      BY <1>2, <2>3, VerifierStep DEF vars, request
    <3>2. /\ vpc \notin {"returned", "reverted"}
          /\ vpc' = "returned" => /\ UNCHANGED values
                                  /\ P!AuthenticAnswer(commands, constants, committed, values)
      <4>1. /\ vpc \notin {"returned", "reverted"}
            /\ vpc' = "returned" =>
                 /\ UNCHANGED P!locals
                 /\ P!AuthenticAnswer(commands, constants, response.header, values)
        BY <3>1, P!Outcome, Premises DEF P!InputAssumption, P!SizeAssumption, P!StoreAssumption
      <4> QED BY <3>1, <4>1 DEF P!locals
    <3>3. CASE vpc' = "returned"
      <4>1. AuthenticAnswer(commands, constants, committed, values')
        BY <3>2, <3>3, SameAnswers
      <4>2. AR!Answer
        BY <3>1, <3>2, <3>3, <4>1 DEF AR!Answer, Failed
      <4> QED BY <4>2 DEF AR!Next
    <3>4. CASE vpc' = "reverted"
      <4>1. AR!Fail
        BY <3>1, <3>2, <3>4 DEF AR!Fail, Failed
      <4> QED BY <4>1 DEF AR!Next
    <3>5. CASE vpc' \notin {"returned", "reverted"}
      BY <3>1, <3>2, <3>5 DEF AR!vars, Failed
    <3> QED BY <3>3, <3>4, <3>5
  <2>4. CASE Recommit
    <3>1. AR!Commit
      BY <2>4 DEF Recommit, AR!Commit, Failed, request, verifierVars
    <3> QED BY <3>1 DEF AR!Next
  <2>5. CASE UNCHANGED fetchVars
    BY <2>5 DEF AR!vars, Failed, fetchVars, vars, verifierVars, request
  <2> QED BY <1>2, <2>1, <2>2, <2>3, <2>4, <2>5 DEF FetchNext, FetchRun
<1> QED BY ReadInit, ReadNext, <1>1, <1>2, PTL DEF FetchSpec, AR!Spec, ImplementsAuthenticRead

-----------------------------------------------------------------------------
(* Where the storage proofs of a command are.                              *)

\* Every concatenation of the first sequences begins the concatenation of all.
LEMMA Beginnings ==
  ASSUME NEW S, NEW seqs \in Seq(Seq(S)), NEW f, Concatenates(f, seqs, S)
  PROVE  \A k \in 0 .. Len(seqs) :
           /\ f[k] \in Seq(S) /\ Len(f[k]) <= Len(f[Len(seqs)])
           /\ \A m \in 1 .. Len(f[k]) : f[Len(seqs)][m] = f[k][m]
<1> DEFINE n == Len(seqs)
           Begins(u, w) == Len(u) <= Len(w) /\ \A m \in 1 .. Len(u) : w[m] = u[m]
           D == {d \in Nat : d <= n => Begins(f[n - d], f[n])}
<1>1. n \in Nat /\ \A k \in 1 .. n : seqs[k] \in Seq(S)
  OBVIOUS
<1>2. \A k \in 0 .. n : f[k] \in Seq(S)
  BY DEF Concatenates
<1>3. 0 \in D
  <2>1. n - 0 = n /\ f[n] \in Seq(S)
    BY <1>1, <1>2
  <2> HIDE DEF n
  <2> QED BY <2>1
<1>4. ASSUME NEW d \in Nat, d \in D PROVE d + 1 \in D
  <2> SUFFICES ASSUME d + 1 <= n PROVE Begins(f[n - (d + 1)], f[n])
    OBVIOUS
  <2>1. PICK k : k = n - d /\ k \in 1 .. n /\ n - (d + 1) = k - 1 /\ k - 1 \in 0 .. n /\ k \in 0 .. n
    BY <1>1
  <2>2. Begins(f[k], f[n])
    <3>1. d <= n
      BY <1>1
    <3> QED BY <1>4, <2>1, <3>1
  <2>3. PICK u, w, c : u = f[k - 1] /\ w = seqs[k] /\ c = f[k] /\ c = u \o w
    BY <2>1 DEF Concatenates
  <2>4. u \in Seq(S) /\ w \in Seq(S) /\ c \in Seq(S) /\ f[n] \in Seq(S)
    BY <1>1, <1>2, <2>1, <2>3
  <2>5. Len(c) = Len(u) + Len(w) /\ \A m \in 1 .. Len(u) : c[m] = u[m]
    <3>1. c = u \o w
      BY <2>3
    <3> QED BY ONLY <2>4, <3>1, Concatenation
  <2> HIDE DEF n, D
  <2>6. Begins(u, f[n])
    <3>1. PICK a \in Nat, b \in Nat, d0 \in Nat, e \in Nat :
            a = Len(u) /\ b = Len(w) /\ d0 = Len(c) /\ e = Len(f[n])
      BY <2>4
    <3>2. d0 = a + b /\ d0 <= e /\ \A m \in 1 .. d0 : f[n][m] = c[m]
      BY <2>2, <2>3, <2>5, <3>1
    <3> QED BY <2>5, <3>1, <3>2
  <2> QED BY <2>1, <2>3, <2>6
<1>5. Nat \subseteq D
  <2> HIDE DEF D
  <2> QED BY <1>3, <1>4, SetInduction
<1>6. ASSUME NEW k \in 0 .. n PROVE Begins(f[k], f[n])
  <2>1. n - k \in Nat /\ n - k <= n /\ n - (n - k) = k
    BY <1>1
  <2> QED BY <1>5, <2>1
<1> QED BY <1>2, <1>6

lists == [c \in Commands |-> SlotsRead(root, SlotAt(c), IsDynamic(commands[c]))]
list == SlotList(commands, constants, root)

\* The slots of the first k commands, and how many they are.
Parts == CHOOSE f : Concatenates(f, lists, Slot) /\ FlattenSeq(lists) = f[Len(lists)]
Used(k) == Len(Parts[k])

\* The storage proofs of a command follow those of the command before.
LEMMA PartsFacts ==
  ASSUME TypeInv, Calm
  PROVE  /\ list \in Seq(Slot) /\ Used(0) = 0 /\ Used(Len(commands)) = Len(list)
         /\ \A k \in 0 .. Len(commands) : Used(k) \in Nat /\ Used(k) <= Len(list)
         /\ \A c \in Commands :
              /\ Used(c) = Used(c - 1) + Len(lists[c])
              /\ \A m \in 1 .. Len(lists[c]) : list[Used(c - 1) + m] = lists[c][m]
<1>1. PICK n \in Nat : n = Len(commands)
  BY DEF TypeInv, TypeOK
<1>2. \A c \in 1 .. n : lists[c] \in Seq(Slot)
  BY <1>1, SlotsReadType DEF lists, Commands
<1>3. PICK L : L = lists /\ L \in Seq(Seq(Slot)) /\ Len(L) = n
  <2>1. DOMAIN lists = 1 .. n
    BY <1>1 DEF lists, Commands
  <2>2. lists \in [1 .. n -> Seq(Slot)]
    BY <1>1, <1>2 DEF lists, Commands
  <2> QED BY <2>1, <2>2
<1>4. PICK f : f = Parts /\ Concatenates(f, L, Slot) /\ FlattenSeq(L) = f[n]
  BY <1>3, Flattening DEF Parts
<1>5. list \in Seq(Slot) /\ list = f[n]
  BY <1>3, <1>4, ListOfSlots DEF list, lists
<1>6. \A k \in 0 .. n : /\ f[k] \in Seq(Slot) /\ Len(f[k]) <= Len(f[n])
                        /\ \A m \in 1 .. Len(f[k]) : f[n][m] = f[k][m]
  BY <1>3, <1>4, Beginnings
<1>7. f[0] = <<>> /\ \A k \in 1 .. n : f[k] = f[k - 1] \o L[k]
  BY <1>3, <1>4 DEF Concatenates
<1>8. ASSUME NEW c \in 1 .. n
      PROVE  /\ Len(f[c]) = Len(f[c - 1]) + Len(L[c])
             /\ \A m \in 1 .. Len(L[c]) : f[n][Len(f[c - 1]) + m] = L[c][m]
  <2>1. PICK u, w, x : u = f[c - 1] /\ w = L[c] /\ x = f[c] /\ x = u \o w
    BY <1>7
  <2>2. u \in Seq(Slot) /\ w \in Seq(Slot)
    BY <1>2, <1>3, <1>6, <2>1
  <2>3. /\ Len(x) = Len(u) + Len(w)
        /\ \A m \in 1 .. Len(u) + Len(w) : m > Len(u) => x[m] = w[m - Len(u)]
    <3>1. x = u \o w
      BY <2>1
    <3> QED BY ONLY <2>2, <3>1, Concatenation
  <2>4. ASSUME NEW m \in 1 .. Len(w) PROVE f[n][Len(u) + m] = w[m]
    <3>1. PICK y : y = Len(u) + m /\ y \in 1 .. Len(u) + Len(w) /\ y > Len(u) /\ y - Len(u) = m
      BY <2>2
    <3>2. f[n][y] = x[y]
      <4>1. c \in 0 .. n /\ y \in 1 .. Len(f[c])
        <5>1. Len(x) = Len(f[c]) /\ c \in 0 .. n
          BY <1>1, <2>1
        <5>2. y \in 1 .. Len(x)
          BY ONLY <2>3, <3>1
        <5> QED BY <5>1, <5>2
      <4> QED BY <1>6, <2>1, <4>1
    <3> QED BY <2>3, <3>1, <3>2
  <2> QED BY <2>1, <2>3, <2>4
<1>9. /\ Used(0) = 0 /\ Used(n) = Len(list)
      /\ \A k \in 0 .. n : Used(k) \in Nat /\ Used(k) <= Len(list)
  BY <1>4, <1>5, <1>6, <1>7 DEF Used
<1> QED BY <1>1, <1>3, <1>4, <1>5, <1>8, <1>9 DEF Used, Commands

\* The slots of one command.
LEMMA ListFacts ==
  ASSUME TypeInv, Calm, NEW c \in Commands, NEW s, s = SlotAt(c), NEW head, head = Cell(root, s)
  PROVE  /\ Len(lists[c]) \in Nat /\ Len(lists[c]) >= 1 /\ lists[c][1] = s
         /\ ~(IsDynamic(commands[c]) /\ IsLong(head)) => Len(lists[c]) = 1
         /\ IsDynamic(commands[c]) /\ IsLong(head) =>
              /\ Len(lists[c]) = 1 + DataWords(LongLength(head))
              /\ \A m \in Nat : m < DataWords(LongLength(head)) => lists[c][m + 2] = DataSlot(s, m)
<1>1. head \in Word /\ lists[c] = SlotsRead(root, s, IsDynamic(commands[c]))
  BY CalmFacts, CellFacts DEF lists
<1>2. CASE IsDynamic(commands[c]) /\ IsLong(head)
  <2>1. PICK n \in Nat : n = DataWords(LongLength(head))
    BY <1>1, <1>2, LengthFacts, WordCount
  <2>2. PICK u, data : /\ u = <<s>> /\ data = [k \in 1 .. n |-> DataSlot(s, k - 1)]
                       /\ lists[c] = u \o data
    BY <1>1, <1>2, <2>1 DEF SlotsRead, DataWords
  <2>3. PICK T : T = {s} \cup {DataSlot(s, k - 1) : k \in 1 .. n}
    OBVIOUS
  <2>4. u \in Seq(T) /\ Len(u) = 1 /\ u[1] = s
    BY <2>2, <2>3
  <2>5. data \in Seq(T) /\ Len(data) = n /\ \A k \in 1 .. n : data[k] = DataSlot(s, k - 1)
    BY <2>2, <2>3
  <2>6. /\ Len(lists[c]) = 1 + n /\ lists[c][1] = s
        /\ \A m \in 1 .. 1 + n : m > 1 => lists[c][m] = data[m - 1]
    <3>1. /\ Len(lists[c]) = Len(u) + Len(data) /\ \A m \in 1 .. Len(u) : lists[c][m] = u[m]
          /\ \A m \in 1 .. Len(u) + Len(data) : m > Len(u) => lists[c][m] = data[m - Len(u)]
      BY ONLY <2>2, <2>4, <2>5, Concatenation
    <3> QED BY <2>4, <2>5, <3>1
  <2>7. ASSUME NEW m \in Nat, m < n PROVE lists[c][m + 2] = DataSlot(s, m)
    <3>1. m + 2 \in 1 .. 1 + n /\ m + 2 > 1 /\ (m + 2) - 1 = m + 1 /\ (m + 1) - 1 = m /\ m + 1 \in 1 .. n
      BY <2>7
    <3> QED BY <2>5, <2>6, <3>1
  <2> QED BY <1>2, <2>1, <2>6, <2>7
<1>3. CASE ~(IsDynamic(commands[c]) /\ IsLong(head))
  <2>1. lists[c] = <<s>>
    BY <1>1, <1>3 DEF SlotsRead
  <2> QED BY <1>3, <2>1
<1> QED BY <1>2, <1>3

-----------------------------------------------------------------------------
(* The verifier on a response for the committed state.                     *)

OnCourse == Calm /\ node = committed /\ Provable(root)

\* What is left of a value of len bytes after n words.
Rest(len, n) == IF n * WordSize <= len THEN len - n * WordSize ELSE 0

\* The verifier does not fail, and has used the storage proofs of the
\* commands done with, and those of the current one that it has come to.
On(pc, n, off, left, idx) ==
  /\ pc # "reverted"
  /\ pc = "account" => n = 0 /\ idx = 0
  /\ pc \in {"command", "path"} => idx = Used(n)
  /\ pc = "chunk" =>
       LET len == LongLength(Cell(root, SlotAt(n + 1)))
       IN  idx = Used(n) + 1 + off /\ off <= DataWords(len) /\ left = Rest(len, off)
  /\ pc = "returned" => idx = Len(list)

CourseInv == OnCourse => On(vpc, i, slot.off, length, proofIdx)

\* All that is known of a read.
WholeInv == ReadInv /\ TypeInv /\ ServesInv /\ CourseInv

\* A command and a storage mean the same in both.
LEMMA SameNames ==
  /\ \A c, consts, vals : P!SlotOf(c, consts, vals) = SlotOf(c, consts, vals)
  /\ \A c : P!IsDynamic(c) = IsDynamic(c)
  /\ \A r, s : P!Cell(r, s) = Cell(r, s)
  /\ \A w : P!IsLong(w) = IsLong(w)
  /\ \A cmds, consts, r, vals, k :
       P!Authentic(cmds, consts, r, vals, k) = Authentic(cmds, consts, r, vals, k)
BY DEF P!Authentic, Authentic, P!WellFormed, WellFormed,
       P!SlotOf, SlotOf, P!EndAt, EndAt, P!More, More, P!OP_END, OP_END, P!Argument, Argument,
       P!Opcode, Opcode, P!Operand, Operand, P!OP_CONSTANT, OP_CONSTANT, P!OP_BACKREF, OP_BACKREF,
       P!IsDynamic, IsDynamic, P!FLAG_DYNAMIC, FLAG_DYNAMIC, P!WholeWords, WholeWords,
       P!Value, Value, P!IsLong, IsLong, P!LongLength, LongLength, P!ShortLength, ShortLength,
       P!DataSlot, DataSlot, P!Cell, Cell, P!Trie, Trie, P!LeftPad, LeftPad, P!Num, Num

\* What the proof about the verifier says, in the words of this module.
LEMMA VerifierFacts ==
  ASSUME P!IInv, NEW R, R = StorageRootOf[response.header]
  PROVE  /\ i \in 0 .. Len(commands) /\ j \in 1 .. WordSize /\ slot \in Slot
         /\ values \in Seq(Bytes) /\ Len(values) = Len(commands)
         /\ length \in Nat /\ proofIdx \in Nat
         /\ vpc = "path" =>
              /\ i < Len(commands) /\ j >= 2 /\ \A k \in 2 .. j - 1 : More(commands[i + 1], k)
              /\ slot = [path |-> [k \in 1 .. j - 1 |-> Argument(commands[i + 1][k], constants, values)],
                         off |-> 0]
         /\ vpc = "chunk" =>
              LET s == SlotOf(commands[i + 1], constants, values)
              IN  /\ i < Len(commands) /\ IsDynamic(commands[i + 1]) /\ IsLong(Cell(R, s))
                  /\ slot.path = Append(s.path, <<>>)
         /\ \A k \in 1 .. i : Authentic(commands, constants, R, values, k)
<1>1. /\ i \in 0 .. Len(commands) /\ j \in 1 .. WordSize /\ slot \in Slot
      /\ values \in Seq(Bytes) /\ Len(values) = Len(commands)
      /\ length \in Nat /\ proofIdx \in Nat
  BY SameWords DEF P!IInv, P!Typed, P!Slot, Slot
<1>2. vpc = "path" =>
        /\ i < Len(commands) /\ j >= 2 /\ \A k \in 2 .. j - 1 : More(commands[i + 1], k)
        /\ slot = [path |-> [k \in 1 .. j - 1 |-> Argument(commands[i + 1][k], constants, values)],
                   off |-> 0]
  BY DEF P!IInv, P!OnPath, P!command, P!More, More, P!OP_END, OP_END, P!Argument, Argument,
     P!Opcode, Opcode, P!Operand, Operand, P!OP_CONSTANT, OP_CONSTANT
<1>3. vpc = "chunk" =>
        LET s == SlotOf(commands[i + 1], constants, values)
        IN  /\ i < Len(commands) /\ IsDynamic(commands[i + 1]) /\ IsLong(Cell(R, s))
            /\ slot.path = Append(s.path, <<>>)
  BY SameNames DEF P!IInv, P!InChunk, P!command, P!storageRoot
<1>4. \A k \in 1 .. i : Authentic(commands, constants, R, values, k)
  BY SameNames DEF P!IInv, P!Sound, P!storageRoot
<1> QED BY <1>1, <1>2, <1>3, <1>4

\* The values of the commands done with are the answers.
LEMMA ValuesAgree ==
  ASSUME TypeInv, Calm, P!IInv, response.header = node
  PROVE  Agree(i, values, answers)
<1>1. /\ i \in 0 .. Len(commands) /\ Len(commands) \in Nat
      /\ \A k \in 1 .. i : Authentic(commands, constants, root, values, k)
  BY VerifierFacts DEF root, TypeInv, TypeOK
<1> DEFINE K == {k \in Nat : k <= i => Agree(k, values, answers)}
<1>2. 0 \in K
  BY DEF Agree
<1>3. ASSUME NEW k \in Nat, k \in K PROVE k + 1 \in K
  <2> SUFFICES ASSUME k + 1 <= i PROVE Agree(k + 1, values, answers)
    OBVIOUS
  <2>1. k <= i
    BY <1>1
  <2>2. Agree(k, values, answers)
    BY <1>3, <2>1
  <2> HIDE DEF K
  <2>3. PICK n : n = k + 1 /\ n \in 1 .. i /\ n \in Commands /\ n - 1 = k
    BY <1>1 DEF Commands
  <2>4. PICK c : c = commands[n] /\ c \in Command /\ Answers(commands, constants, root, answers, n)
    BY <2>3, CalmFacts
  <2>5. SlotOf(c, constants, values) = SlotOf(c, constants, answers)
    <3>1. WellFormed(c, constants, k)
      BY <2>3, <2>4 DEF Answers
    <3> QED BY <2>2, <2>4, <3>1, SlotStable
  <2>6. values[n] = answers[n]
    BY <1>1, <2>3, <2>4, <2>5 DEF Answers, Authentic
  <2>7. ASSUME NEW m \in 1 .. k + 1 PROVE values[m] = answers[m]
    <3>1. CASE m = k + 1
      BY <2>3, <2>6, <3>1
    <3>2. CASE m # k + 1
      BY <2>2, <3>2 DEF Agree
    <3> QED BY <3>1, <3>2
  <2> QED BY <2>7 DEF Agree
<1>4. i \in K
  <2> HIDE DEF K
  <2> QED BY <1>1, <1>2, <1>3, SetInduction
<1> QED BY <1>1, <1>4

\* The elements of the path are the ones that the gateway hashed.
LEMMA SameElements ==
  ASSUME TypeInv, Calm, P!IInv, response.header = node, i < Len(commands)
  PROVE  /\ i + 1 \in Commands /\ (i + 1) - 1 = i
         /\ SlotOf(commands[i + 1], constants, values) = SlotAt(i + 1)
         /\ \A k \in 1 .. EndAt(commands[i + 1]) - 1 :
              /\ Argument(commands[i + 1][k], constants, values) = Element(i + 1, k)
              /\ \/ Opcode(commands[i + 1][k]) = OP_CONSTANT /\ Operand(commands[i + 1][k]) < Len(constants)
                 \/ /\ Opcode(commands[i + 1][k]) = OP_BACKREF
                    /\ Operand(commands[i + 1][k]) < Len(values)
<1>1. i \in 0 .. Len(commands) /\ Len(commands) \in Nat /\ Len(values) = Len(commands)
  BY VerifierFacts DEF TypeInv, TypeOK
<1>2. i \in Nat /\ i + 1 \in Commands /\ (i + 1) - 1 = i
  BY <1>1 DEF Commands
<1>3. PICK c : c = commands[i + 1] /\ c \in Command /\ Answers(commands, constants, root, answers, i + 1)
  BY <1>2, CalmFacts
<1>4. WellFormed(c, constants, i)
  BY <1>2, <1>3 DEF Answers
<1>5. PICK n, v, a :
        n = i /\ n \in Nat /\ v = values /\ a = answers /\ WellFormed(c, constants, n) /\ Agree(n, v, a)
  BY <1>2, <1>4, ValuesAgree
<1>6. c \in Command
  BY <1>3
<1>7. SlotOf(c, constants, v) = SlotOf(c, constants, a)
  BY ONLY <1>5, <1>6, SlotStable
<1>8. ASSUME NEW k \in 1 .. EndAt(c) - 1
      PROVE  Argument(c[k], constants, v) = Argument(c[k], constants, a)
  <2>1. n \in Nat
    BY <1>5
  <2>2. WellFormed(c, constants, n) /\ Agree(n, v, a)
    BY <1>5
  <2> QED BY ONLY <1>6, <2>1, <2>2, SlotStable
<1>9. ASSUME NEW k \in 1 .. EndAt(c) - 1
      PROVE  \/ Opcode(c[k]) = OP_CONSTANT /\ Operand(c[k]) < Len(constants)
             \/ Opcode(c[k]) = OP_BACKREF /\ Operand(c[k]) < Len(values)
  <2>1. c[k] \in Byte
    BY <1>3, EndAtFacts, ByteFacts DEF Command
  <2>2. Operand(c[k]) \in Nat
    BY <2>1, ByteFacts DEF Operand, Byte
  <2> QED BY <1>1, <1>4, <2>2 DEF WellFormed
<1> QED BY <1>2, <1>3, <1>5, <1>7, <1>8, <1>9 DEF SlotAt, Element

\* The next storage proof is the one for this slot.
ReadyFor(s) ==
  /\ proofIdx < Len(response.proof.storageProofs)
  /\ response.proof.storageProofs[proofIdx + 1] = [root |-> root, slot |-> s]

\* What the verifier starts from.
LEMMA CourseFacts ==
  ASSUME WholeInv, OnCourse, vpc # "idle"
  PROVE  /\ P!IInv /\ response.header = node /\ root \in StorageRoots /\ root # NoAccount
         /\ response.proof.stateTrieWitness = node
         /\ On(vpc, i, slot.off, length, proofIdx) /\ proofIdx \in Nat
         /\ i \in 0 .. Len(commands) /\ Len(commands) \in Nat /\ slot.off \in Nat
         /\ \A c \in Commands : \A n \in 1 .. Len(lists[c]) :
              proofIdx = Used(c - 1) + n - 1 => ReadyFor(lists[c][n])
<1>1. vpc # "reverted" /\ On(vpc, i, slot.off, length, proofIdx)
  BY DEF WholeInv, CourseInv, On
<1>2. P!IInv /\ response.header = node /\ gpc = "responded" /\ Calm
  BY <1>1 DEF WholeInv, ReadInv, OnCourse
<1>3. /\ response.proof.stateTrieWitness = node
      /\ response.proof.storageProofs = ProofsOf(root, list)
  BY <1>2 DEF WholeInv, ServesInv, list
<1>4. root \in StorageRoots /\ root # NoAccount
  BY <1>2, CalmFacts, StoreAssumption DEF WholeInv
<1>5. i \in 0 .. Len(commands) /\ Len(commands) \in Nat /\ slot.off \in Nat /\ proofIdx \in Nat
  BY <1>2, VerifierFacts DEF WholeInv, TypeInv, TypeOK, Slot
<1>6. ASSUME NEW c \in Commands, NEW n \in 1 .. Len(lists[c]), proofIdx = Used(c - 1) + n - 1
      PROVE  ReadyFor(lists[c][n])
  <2>1. PICK u, w : u = Used(c - 1) /\ w = Len(lists[c])
    OBVIOUS
  <2>2. /\ list \in Seq(Slot) /\ u \in Nat /\ w \in Nat /\ u + w <= Len(list)
        /\ list[u + n] = lists[c][n]
    <3>1. c - 1 \in 0 .. Len(commands) /\ c \in 0 .. Len(commands)
      BY <1>5 DEF Commands
    <3>2. TypeInv /\ Calm
      BY <1>2 DEF WholeInv
    <3>3. w \in Nat
      BY <2>1, <3>2, ListFacts
    <3> QED BY <2>1, <3>1, <3>2, <3>3, PartsFacts
  <2>3. n \in 1 .. w /\ proofIdx = u + n - 1
    BY <1>6, <2>1
  <2>4. PICK k : k = u + n /\ k \in 1 .. Len(list) /\ proofIdx + 1 = k /\ proofIdx < Len(list)
    BY <2>2, <2>3
  <2>5. Len(ProofsOf(root, list)) = Len(list) /\ ProofsOf(root, list)[k] = [root |-> root, slot |-> list[k]]
    BY <2>2, <2>4 DEF ProofsOf
  <2> QED BY <1>3, <2>2, <2>4, <2>5 DEF ReadyFor
<1> QED BY <1>1, <1>2, <1>3, <1>4, <1>5, <1>6

\* The verifier reads a fixed value or a head word.
LEMMA HeadReady ==
  ASSUME WholeInv, OnCourse, vpc = "path", ~More(commands[i + 1], j)
  PROVE  i + 1 \in Commands /\ i < Len(commands) /\ slot = SlotAt(i + 1) /\ ReadyFor(slot)
<1>1. /\ P!IInv /\ response.header = node /\ Calm /\ TypeInv /\ proofIdx = Used(i)
      /\ i \in 0 .. Len(commands) /\ Len(commands) \in Nat
  BY CourseFacts DEF On, OnCourse, WholeInv
<1>2. /\ i < Len(commands) /\ j \in 2 .. WordSize /\ \A k \in 2 .. j - 1 : More(commands[i + 1], k)
      /\ slot = [path |-> [k \in 1 .. j - 1 |-> Argument(commands[i + 1][k], constants, values)],
                 off |-> 0]
  BY <1>1, VerifierFacts, ByteFacts
<1>3. j = EndAt(commands[i + 1])
  <2>1. PICK e : /\ e = EndAt(commands[i + 1]) /\ e \in 2 .. WordSize /\ ~More(commands[i + 1], e)
                 /\ \A k \in 2 .. e - 1 : More(commands[i + 1], k)
    BY EndAtFacts
  <2> QED BY <1>2, <2>1, ByteFacts
<1>4. i + 1 \in Commands /\ (i + 1) - 1 = i /\ SlotOf(commands[i + 1], constants, values) = SlotAt(i + 1)
  BY <1>1, <1>2, SameElements
<1>5. slot = SlotAt(i + 1)
  BY <1>2, <1>3, <1>4 DEF SlotOf
<1>6. Len(lists[i + 1]) \in Nat /\ Len(lists[i + 1]) >= 1 /\ lists[i + 1][1] = slot
  BY <1>1, <1>4, <1>5, ListFacts
<1>7. proofIdx = Used((i + 1) - 1) + 1 - 1 /\ 1 \in 1 .. Len(lists[i + 1])
  <2>1. Used(i) \in Nat
    BY <1>1, PartsFacts
  <2> QED BY <1>1, <1>4, <1>6, <2>1
<1>8. ReadyFor(lists[i + 1][1])
  BY <1>4, <1>7, CourseFacts
<1> QED BY <1>2, <1>4, <1>5, <1>6, <1>8

\* The verifier reads a long value: s is the slot of its head word.
LEMMA ChunkFacts ==
  ASSUME WholeInv, OnCourse, vpc = "chunk", NEW s, s = SlotAt(i + 1), NEW len,
         len = LongLength(Cell(root, s))
  PROVE  /\ i + 1 \in Commands /\ (i + 1) - 1 = i /\ len \in Nat /\ DataWords(len) \in Nat
         /\ IsDynamic(commands[i + 1]) /\ IsLong(Cell(root, s)) /\ WholeWords(root, s)
         /\ slot = DataSlot(s, slot.off) /\ slot.off \in Nat /\ slot.off <= DataWords(len)
         /\ proofIdx = Used(i) + 1 + slot.off /\ length = Rest(len, slot.off)
         /\ Used(i + 1) = Used(i) + 1 + DataWords(len) /\ Used(i) \in Nat
<1>1. /\ P!IInv /\ response.header = node /\ Calm /\ TypeInv /\ slot.off \in Nat
      /\ i \in 0 .. Len(commands) /\ Len(commands) \in Nat /\ root \in StorageRoots
      /\ On(vpc, i, slot.off, length, proofIdx)
  BY CourseFacts DEF OnCourse, WholeInv
<1>2. LET t == SlotOf(commands[i + 1], constants, values)
      IN  /\ i < Len(commands) /\ IsDynamic(commands[i + 1]) /\ IsLong(Cell(root, t))
          /\ slot.path = Append(t.path, <<>>) /\ slot \in Slot
  BY <1>1, VerifierFacts DEF root
<1>3. /\ i + 1 \in Commands /\ (i + 1) - 1 = i
      /\ SlotOf(commands[i + 1], constants, values) = s
  BY <1>1, <1>2, SameElements
<1>4. /\ IsDynamic(commands[i + 1]) /\ IsLong(Cell(root, s)) /\ slot = DataSlot(s, slot.off)
  BY <1>2, <1>3 DEF DataSlot, Slot
<1>5. WholeWords(root, s)
  BY <1>1, <1>3, <1>4, CalmFacts DEF Answers, SlotAt
<1>6. len \in Nat /\ DataWords(len) \in Nat
  BY <1>1, <1>4, CellFacts, LengthFacts, WordCount
<1>7. slot.off <= DataWords(len) /\ proofIdx = Used(i) + 1 + slot.off /\ length = Rest(len, slot.off)
  BY <1>1 DEF On
<1>8. Used(i + 1) = Used(i) + 1 + DataWords(len) /\ Used(i) \in Nat
  <2>1. Len(lists[i + 1]) = 1 + DataWords(len)
    BY <1>1, <1>3, <1>4, ListFacts
  <2>2. Used(i + 1) = Used(i) + Len(lists[i + 1]) /\ Used(i) \in Nat
    BY <1>1, <1>3, PartsFacts
  <2> QED BY <1>6, <2>1, <2>2
<1> QED BY <1>1, <1>3, <1>4, <1>5, <1>6, <1>7, <1>8

\* There are more words as long as there are more bytes.
LEMMA RestFacts ==
  ASSUME NEW len \in Nat, NEW n \in Nat, n <= DataWords(len)
  PROVE  /\ Rest(len, n) > 0 => /\ n < DataWords(len) /\ n * WordSize < len
                                /\ Rest(len, n + 1) = IF Rest(len, n) < WordSize THEN 0
                                                      ELSE Rest(len, n) - WordSize
         /\ Rest(len, n) = 0 => n = DataWords(len)
         /\ Rest(len, 0) = len
<1>1. PICK a \in Nat, d \in Nat : a = n * WordSize /\ d = DataWords(len)
  <2>1. n * WordSize \in Nat
    BY ByteFacts
  <2>2. DataWords(len) \in Nat
    BY WordCount
  <2> QED BY <2>1, <2>2
<1>2. len <= d * WordSize /\ \A m \in Nat : m < d => m * WordSize < len
  BY <1>1, WordCount
<1>3. (n + 1) * WordSize = a + WordSize /\ 0 * WordSize = 0
  BY <1>1, ByteFacts
<1>4. Rest(len, n) > 0 => a < len
  BY <1>1 DEF Rest
<1>5. Rest(len, n) > 0 => n < d
  <2>1. n = d => len <= a
    BY <1>1, <1>2
  <2> QED BY <1>1, <1>4, <2>1
<1>6. Rest(len, n) = 0 => n = d
  <2>1. n < d => a < len
    BY <1>1, <1>2
  <2>2. Rest(len, n) = 0 => a >= len
    BY <1>1 DEF Rest
  <2> QED BY <1>1, <2>1, <2>2
<1>7. Rest(len, n) > 0 =>
        Rest(len, n + 1) = IF Rest(len, n) < WordSize THEN 0 ELSE Rest(len, n) - WordSize
  BY <1>1, <1>3, <1>4, ByteFacts DEF Rest
<1>8. Rest(len, 0) = len
  BY <1>3 DEF Rest
<1> QED BY <1>1, <1>4, <1>5, <1>6, <1>7, <1>8

\* The verifier reads the next word of a long value.
LEMMA ChunkReady ==
  ASSUME WholeInv, OnCourse, vpc = "chunk", length > 0
  PROVE  ReadyFor(slot) /\ Len(Trie(root, slot)) = WordSize
<1>1. PICK s, len : s = SlotAt(i + 1) /\ len = LongLength(Cell(root, s))
  OBVIOUS
<1>2. /\ i + 1 \in Commands /\ (i + 1) - 1 = i /\ len \in Nat /\ DataWords(len) \in Nat
      /\ IsDynamic(commands[i + 1]) /\ IsLong(Cell(root, s)) /\ WholeWords(root, s)
      /\ slot = DataSlot(s, slot.off) /\ slot.off \in Nat /\ slot.off <= DataWords(len)
      /\ proofIdx = Used(i) + 1 + slot.off /\ length = Rest(len, slot.off) /\ Used(i) \in Nat
  BY <1>1, ChunkFacts
<1>3. slot.off < DataWords(len) /\ slot.off * WordSize < len
  BY <1>2, RestFacts
<1>4. PICK n : n = slot.off + 2 /\ n \in 1 .. 1 + DataWords(len) /\ proofIdx = Used((i + 1) - 1) + n - 1
  BY <1>2, <1>3
<1>5. Len(lists[i + 1]) = 1 + DataWords(len) /\ lists[i + 1][n] = slot
  BY <1>1, <1>2, <1>3, <1>4, ListFacts DEF WholeInv, OnCourse
<1>6. ReadyFor(lists[i + 1][n])
  BY <1>2, <1>4, <1>5, CourseFacts
<1>7. Len(Trie(root, slot)) = WordSize
  <2>1. slot.off \in 0 .. len
    <3>1. slot.off <= slot.off * WordSize /\ slot.off * WordSize \in Nat
      BY <1>2, ByteFacts
    <3> QED BY <1>2, <1>3, <3>1
  <2>2. Len(Trie(root, DataSlot(s, slot.off))) = WordSize
    BY <1>1, <1>2, <1>3, <2>1 DEF WholeWords
  <2> QED BY <1>2, <2>2
<1> QED BY <1>5, <1>6, <1>7

\* As long as gateway and committed block do not change, neither does the course.
LEMMA CourseKept ==
  ASSUME UNCHANGED <<vars, committed>>,
         OnCourse => On(vpc', i', slot'.off, length', proofIdx')
  PROVE  CourseInv'
<1>1. UNCHANGED <<commands, constants, node, faults, reorgs, committed>>
  BY DEF vars, request
<1>2. OnCourse' = OnCourse /\ root' = root
  BY <1>1 DEF OnCourse, Calm, Fits, root
<1>3. list' = list /\ Parts' = Parts /\ \A c : SlotAt(c)' = SlotAt(c)
  BY <1>1 DEF list, Parts, lists, SlotAt, answers, root, Commands
<1>4. ASSUME NEW pc, NEW n, NEW off, NEW left, NEW idx
      PROVE  On(pc, n, off, left, idx)' = On(pc, n, off, left, idx)
  BY <1>2, <1>3 DEF On, Used
<1> QED BY <1>2, <1>4 DEF CourseInv

\* Steps of the verifier on its course.
LEMMA VerifierOnCourse ==
  ASSUME WholeInv, OnCourse, vpc # "idle", V!Next
  PROVE  On(vpc', i', slot'.off, length', proofIdx')
<1>0. /\ TypeInv /\ Calm /\ P!IInv /\ response.header = node /\ On(vpc, i, slot.off, length, proofIdx)
      /\ root \in StorageRoots /\ root # NoAccount /\ response.proof.stateTrieWitness = node
      /\ proofIdx \in Nat /\ i \in 0 .. Len(commands) /\ Len(commands) \in Nat /\ slot.off \in Nat
  BY CourseFacts DEF WholeInv, OnCourse
<1> DEFINE c == commands[i + 1]
<1>1. CASE V!GetStorageRoot
  <2>1. StorageRootOf[response.header] = root
    BY <1>0 DEF root
  <2>2. vpc = "account" /\ vpc' = "command" /\ i' = i /\ proofIdx' = proofIdx
    BY <1>0, <1>1, <2>1 DEF V!GetStorageRoot, V!storageRoot, V!locals
  <2> QED BY <1>0, <2>2, PartsFacts DEF On
<1>2. CASE V!FirstElement
  <2>1. vpc = "command" /\ i < Len(commands)
    BY <1>2 DEF V!FirstElement
  <2>2. /\ i + 1 \in Commands /\ 1 \in 1 .. EndAt(c) - 1
        /\ Argument(c[1], constants, values) = Element(i + 1, 1)
        /\ \/ Opcode(c[1]) = OP_CONSTANT /\ Operand(c[1]) < Len(constants)
           \/ Opcode(c[1]) = OP_BACKREF /\ Operand(c[1]) < Len(values)
    <3>1. 1 \in 1 .. EndAt(c) - 1
      BY EndAtFacts, ByteFacts
    <3> QED BY <1>0, <2>1, <3>1, SameElements
  <2>3. Len(Argument(c[1], constants, values)) = WordSize
    BY <1>0, <2>2, CalmFacts DEF Answers, Element
  <2>4. vpc' = "path" /\ i' = i /\ proofIdx' = proofIdx
    BY <1>2, <2>2, <2>3 DEF V!FirstElement, V!Executes, V!command, V!Opcode, Opcode, V!Operand, Operand,
         V!OP_CONSTANT, OP_CONSTANT, V!OP_BACKREF, OP_BACKREF, V!Argument, Argument
  <2> QED BY <1>0, <2>1, <2>4 DEF On
<1>3. CASE V!NextElement
  <2>1. vpc = "path" /\ More(c, j)
    BY <1>3 DEF V!NextElement, V!command, V!More, More, V!OP_END, OP_END
  <2>2. i < Len(commands) /\ j \in 2 .. WordSize /\ \A k \in 2 .. j - 1 : More(c, k)
    BY <1>0, <2>1, VerifierFacts, ByteFacts
  <2>3. j \in 1 .. EndAt(c) - 1
    <3>1. PICK e : e = EndAt(c) /\ e \in 2 .. WordSize /\ ~More(c, e)
      BY EndAtFacts
    <3> QED BY <2>1, <2>2, <3>1, ByteFacts
  <2>4. \/ Opcode(c[j]) = OP_CONSTANT /\ Operand(c[j]) < Len(constants)
        \/ Opcode(c[j]) = OP_BACKREF /\ Operand(c[j]) < Len(values)
    BY <1>0, <2>2, <2>3, SameElements
  <2>5. vpc' = "path" /\ i' = i /\ proofIdx' = proofIdx
    BY <1>3, <2>1, <2>4 DEF V!NextElement, V!Executes, V!command, V!Opcode, Opcode, V!Operand, Operand,
         V!OP_CONSTANT, OP_CONSTANT, V!OP_BACKREF, OP_BACKREF
  <2> QED BY <1>0, <2>1, <2>5 DEF On
<1>4. ASSUME ReadyFor(slot)
      PROVE  V!MayDecide /\ V!Decides /\ V!getSingleStorageProof = Trie(root, slot)
             /\ V!getFixedValue = Cell(root, slot)
  BY <1>0, <1>4 DEF ReadyFor, V!MayDecide, V!Decides, V!witness, V!storageRoot, root, OnCourse,
       V!Provable, Provable, V!getSingleStorageProof, V!getFixedValue, V!Trie, Trie, V!LeftPad, LeftPad, Cell
<1>5. CASE V!ProofFails
  <2>1. V!Reading /\ ~V!Decides
    BY <1>5 DEF V!ProofFails
  <2>2. CASE vpc = "path"
    <3>1. ~More(c, j)
      BY <2>1, <2>2 DEF V!Reading, V!command, V!More, More, V!OP_END, OP_END
    <3> QED BY <1>4, <2>1, <2>2, <3>1, HeadReady
  <2>3. CASE vpc # "path"
    <3>1. vpc = "chunk" /\ length > 0
      BY <2>1, <2>3 DEF V!Reading
    <3> QED BY <1>4, <2>1, <3>1, ChunkReady
  <2> QED BY <2>2, <2>3
\* A head word or a fixed value is read.
<1>6. ASSUME vpc = "path", ~More(c, j)
      PROVE  LET s == SlotAt(i + 1)
                 head == Cell(root, s)
             IN  /\ V!MayDecide /\ V!getFixedValue = head /\ slot = s
                 /\ i + 1 \in Commands /\ (i + 1) - 1 = i /\ proofIdx = Used(i) /\ Used(i) \in Nat
                 /\ Used(i + 1) = Used(i) + Len(lists[i + 1])
                 /\ head \in Word /\ V!Num(head) = Num(head) /\ Num(head) \in Nat
                 /\ head[WordSize] = Num(head) % ByteBase /\ head[WordSize] % 2 = Num(head) % 2
  <2>1. PICK s, head : s = SlotAt(i + 1) /\ head = Cell(root, s)
    OBVIOUS
  <2>2. i + 1 \in Commands /\ i < Len(commands) /\ slot = s /\ ReadyFor(slot)
    BY <1>6, <2>1, HeadReady
  <2>3. V!MayDecide /\ V!getFixedValue = head
    BY <1>4, <2>1, <2>2
  <2>4. (i + 1) - 1 = i /\ proofIdx = Used(i)
    BY <1>0, <1>6 DEF On
  <2>5. Used(i + 1) = Used(i) + Len(lists[i + 1]) /\ Used(i) \in Nat
    BY <1>0, <2>2, <2>4, PartsFacts
  <2>6. head \in Word
    BY <1>0, <2>1, CellFacts
  <2>7. V!Num(head) = Num(head)
    BY DEF V!Num, Num
  <2>8. /\ Num(head) \in Nat
        /\ head[WordSize] = Num(head) % ByteBase /\ head[WordSize] % 2 = Num(head) % 2
    BY <2>6, SameCells, P!NumFacts, Premises DEF P!InputAssumption, P!SizeAssumption, P!StoreAssumption
  <2> QED BY <2>1, <2>2, <2>3, <2>4, <2>5, <2>6, <2>7, <2>8
<1>7. CASE V!ReadFixed
  <2>1. vpc = "path" /\ ~More(c, j) /\ ~IsDynamic(c)
    BY <1>7 DEF V!ReadFixed, V!command, V!More, More, V!OP_END, OP_END, V!IsDynamic, IsDynamic,
         V!FLAG_DYNAMIC, FLAG_DYNAMIC
  <2>2. vpc' = "command" /\ i' = i + 1 /\ proofIdx' = proofIdx + 1
    BY <1>7 DEF V!ReadFixed, V!Store_i
  <2>3. proofIdx = Used(i) /\ i + 1 \in Commands /\ Used(i + 1) = Used(i) + Len(lists[i + 1])
    BY <1>6, <2>1
  <2>4. Len(lists[i + 1]) = 1
    BY <1>0, <2>1, <2>3, ListFacts
  <2> QED BY <2>2, <2>3, <2>4 DEF On
<1>8. CASE V!ReadShort
  <2>1. PICK head : head = Cell(root, SlotAt(i + 1))
    OBVIOUS
  <2>2. vpc = "path" /\ ~More(c, j) /\ IsDynamic(c)
    BY <1>8 DEF V!ReadShort, V!command, V!More, More, V!OP_END, OP_END, V!IsDynamic, IsDynamic,
         V!FLAG_DYNAMIC, FLAG_DYNAMIC
  <2>3. /\ V!getFixedValue = head /\ i + 1 \in Commands /\ proofIdx = Used(i) /\ Used(i) \in Nat
        /\ Used(i + 1) = Used(i) + Len(lists[i + 1])
        /\ V!Num(head) = Num(head) /\ head[WordSize] = Num(head) % ByteBase
        /\ head[WordSize] % 2 = Num(head) % 2
    BY <1>6, <2>1, <2>2
  <2>4. ~IsLong(head)
    BY <1>8, <2>3 DEF V!ReadShort, IsLong
  <2>5. ShortLength(head) <= WordSize
    BY <1>0, <2>1, <2>2, <2>3, <2>4, CalmFacts DEF Answers, SlotAt
  <2>6. (V!Num(V!getFixedValue) % ByteBase) \div 2 <= WordSize
    BY <2>3, <2>5 DEF ShortLength
  <2>7. vpc' = "command" /\ i' = i + 1 /\ proofIdx' = proofIdx + 1
    BY <1>8, <2>6 DEF V!ReadShort, V!Store_i
  <2>8. Len(lists[i + 1]) = 1
    BY <1>0, <2>1, <2>3, <2>4, ListFacts
  <2> QED BY <2>3, <2>7, <2>8 DEF On
<1>9. CASE V!ReadLongHead
  <2>1. PICK s, head : s = SlotAt(i + 1) /\ head = Cell(root, s)
    OBVIOUS
  <2>2. vpc = "path" /\ ~More(c, j) /\ IsDynamic(c)
    BY <1>9 DEF V!ReadLongHead, V!command, V!More, More, V!OP_END, OP_END, V!IsDynamic, IsDynamic,
         V!FLAG_DYNAMIC, FLAG_DYNAMIC
  <2>3. /\ V!getFixedValue = head /\ i + 1 \in Commands /\ proofIdx = Used(i) /\ Used(i) \in Nat
        /\ head \in Word /\ V!Num(head) = Num(head) /\ head[WordSize] % 2 = Num(head) % 2
    BY <1>6, <2>1, <2>2
  <2>4. PICK len : len = LongLength(head) /\ len \in Nat /\ DataWords(len) \in Nat
    <3>1. IsLong(head)
      BY <1>9, <2>3 DEF V!ReadLongHead, IsLong
    <3> QED BY <2>3, <3>1, LengthFacts, WordCount
  <2>5. /\ vpc' = "chunk" /\ i' = i /\ proofIdx' = proofIdx + 1 /\ length' = len /\ slot'.off = 0
    BY <1>9, <2>3, <2>4 DEF V!ReadLongHead, V!DataSlot, LongLength
  <2>6. Rest(len, 0) = len
    BY <2>4, RestFacts
  <2> QED BY <2>1, <2>3, <2>4, <2>5, <2>6 DEF On
<1>10. CASE V!ReadChunk
  <2>1. vpc = "chunk" /\ length > 0
    BY <1>10 DEF V!ReadChunk
  <2>2. PICK len, n : len = LongLength(Cell(root, SlotAt(i + 1))) /\ n = slot.off
    OBVIOUS
  <2>3. /\ len \in Nat /\ n \in Nat /\ n <= DataWords(len) /\ DataWords(len) \in Nat
        /\ proofIdx = Used(i) + 1 + n /\ length = Rest(len, n) /\ Used(i) \in Nat
    BY <2>1, <2>2, ChunkFacts
  <2>4. /\ n < DataWords(len)
        /\ Rest(len, n + 1) = IF length < WordSize THEN 0 ELSE length - WordSize
    BY <2>1, <2>3, RestFacts
  <2>5. ReadyFor(slot) /\ Len(Trie(root, slot)) = WordSize
    BY <2>1, ChunkReady
  <2>6. V!getSingleStorageProof = Trie(root, slot)
    BY <1>4, <2>5
  <2>7. (IF length < WordSize THEN length ELSE Len(V!getSingleStorageProof))
          <= Len(V!getSingleStorageProof)
    <3>1. length \in Nat /\ WordSize \in Nat
      BY <1>0, VerifierFacts, ByteFacts
    <3> QED BY <2>5, <2>6, <3>1
  <2>8. /\ vpc' = "chunk" /\ i' = i /\ proofIdx' = proofIdx + 1
        /\ length' = Rest(len, n + 1) /\ slot' = [slot EXCEPT !.off = @ + 1]
    BY <1>10, <2>1, <2>4, <2>7 DEF V!ReadChunk, V!Left
  <2>9. slot'.off = n + 1
    <3>1. slot \in Slot
      BY <1>0, VerifierFacts
    <3> QED BY <2>2, <2>8, <3>1 DEF Slot
  <2>10. n + 1 <= DataWords(len) /\ proofIdx + 1 = Used(i) + 1 + (n + 1)
    BY <2>3, <2>4
  <2> QED BY <2>2, <2>8, <2>9, <2>10 DEF On
<1>11. CASE V!EndOfValue
  <2>1. vpc = "chunk" /\ length = 0 /\ vpc' = "command" /\ i' = i + 1 /\ proofIdx' = proofIdx
    BY <1>11 DEF V!EndOfValue, V!Store_i
  <2>2. PICK len, n : len = LongLength(Cell(root, SlotAt(i + 1))) /\ n = slot.off
    OBVIOUS
  <2>3. /\ len \in Nat /\ n \in Nat /\ n <= DataWords(len)
        /\ proofIdx = Used(i) + 1 + n /\ length = Rest(len, n)
        /\ Used(i + 1) = Used(i) + 1 + DataWords(len)
    BY <2>1, <2>2, ChunkFacts
  <2>4. n = DataWords(len)
    BY <2>1, <2>3, RestFacts
  <2> QED BY <2>1, <2>3, <2>4 DEF On
<1>12. CASE V!Return
  <2>1. vpc = "command" /\ i = Len(commands) /\ vpc' = "returned" /\ proofIdx' = proofIdx
    BY <1>12 DEF V!Return, V!locals
  <2>2. Used(i) = Len(list)
    BY <1>0, <2>1, PartsFacts
  <2> QED BY <1>0, <2>1, <2>2 DEF On
<1> QED BY <1>1, <1>2, <1>3, <1>5, <1>7, <1>8, <1>9, <1>10, <1>11, <1>12 DEF V!Next

\* Nothing but a reorganisation of this chain touches what the gateway knows.
LEMMA GatewayStep == [FetchNext]_fetchVars => [Next]_vars \/ Recommit
BY DEF FetchNext, FetchRun, Gateway, Callback, Verifier, Fault, Replace, Next, fetchVars

\* A reorganisation of this chain changes nothing that the gateway knows.
LEMMA RecommitKeeps == ASSUME TypeInv, Recommit PROVE TypeInv' /\ ServesInv'
<1>1. /\ UNCHANGED <<commands, constants, node, gpc, promise, response, faults>>
      /\ reorgs \in Nat /\ reorgs < MaxReorgs /\ reorgs' = reorgs + 1
  BY BoundAssumption DEF Recommit, request, TypeInv, TypeOK
<1>2. reorgs' \in 0 .. MaxReorgs /\ reorgs' # 0
  BY <1>1, BoundAssumption
<1>3. TypeInv'
  BY <1>1, <1>2 DEF TypeInv, TypeOK, Commands
<1> QED BY <1>2, <1>3 DEF ServesInv, Calm

\* Every step of a read keeps all that is known of it.
LEMMA WholeNext == ASSUME WholeInv, [FetchNext]_fetchVars PROVE WholeInv'
<1>1. ReadInv'
  BY ReadNext DEF WholeInv
<1>2. TypeInv' /\ ServesInv'
  BY GatewayStep, RecommitKeeps, TypeNext, ServesNext DEF WholeInv
<1> SUFFICES CourseInv'
  BY <1>1, <1>2 DEF WholeInv
<1>3. vpc' = "idle" => CourseInv'
  BY DEF CourseInv, On
<1>4. CASE Gateway \/ Fault \/ Replace
  BY <1>3, <1>4, GatewayInv DEF WholeInv, verifierVars
<1>5. CASE Recommit
  BY <1>3, <1>5 DEF Recommit, verifierVars
<1>6. CASE Callback
  <2>1. /\ gpc = "responded" /\ UNCHANGED <<vars, committed, i, slot, length, proofIdx>>
        /\ vpc' = IF response.header = committed THEN "account" ELSE "reverted"
        /\ i = 0 /\ proofIdx = 0
    BY <1>6 DEF Callback, WholeInv, ReadInv, P!NewLocals
  <2>2. ASSUME OnCourse PROVE On(vpc', i', slot'.off, length', proofIdx')
    <3>1. response.header = committed
      BY <2>1, <2>2 DEF OnCourse, WholeInv, ServesInv
    <3> QED BY <2>1, <3>1 DEF On
  <2> QED BY <2>1, <2>2, CourseKept
<1>7. CASE Verifier
  <2>1. vpc # "idle" /\ V!Next /\ UNCHANGED <<vars, committed>>
    BY <1>7 DEF Verifier
  <2> QED BY <2>1, VerifierOnCourse, CourseKept
<1>8. CASE UNCHANGED fetchVars
  <2>1. UNCHANGED <<vars, committed, vpc, i, slot, length, proofIdx>>
    BY <1>8 DEF fetchVars, verifierVars
  <2> QED BY <2>1, CourseKept DEF WholeInv, CourseInv
<1> QED BY <1>4, <1>5, <1>6, <1>7, <1>8 DEF FetchNext, FetchRun

(***************************************************************************)
(* Gateway and verifier agree: a request that can be served in the         *)
(* committed state, and that nothing disturbs, neither makes createProofs  *)
(* fail nor getStorageValues revert, and getStorageValues consumes every   *)
(* storage proof, for every storage and request.                           *)
(*                                                                         *)
(* The verifier's own invariant (P) says what its results and its slot     *)
(* are; CourseInv adds which storage proof comes next.                     *)
(***************************************************************************)
THEOREM ReadCompletes == FetchSpec => []Completes
<1>1. FetchInit => WholeInv
  <2>1. FetchInit => TypeInv /\ ServesInv
    BY GatewayInit DEF FetchInit, Init, ServesInv
  <2>2. FetchInit => CourseInv
    BY DEF FetchInit, CourseInv, On
  <2> QED BY <2>1, <2>2, ReadInit DEF WholeInv
<1>2. ASSUME WholeInv PROVE Completes
  <2> SUFFICES ASSUME Undisturbed, Servable(commands, constants, committed), Fits(committed),
                      Provable(StorageRootOf[committed])
               PROVE  ~Failed /\ (vpc = "returned" => proofIdx = Len(response.proof.storageProofs))
    BY DEF Completes
  <2>1. Calm /\ OnCourse
    BY DEF Undisturbed, Calm, OnCourse, root
  <2>2. gpc # "failed" /\ On(vpc, i, slot.off, length, proofIdx)
    BY <1>2, <2>1 DEF WholeInv, ServesInv, CourseInv
  <2>3. ASSUME vpc = "returned" PROVE proofIdx = Len(response.proof.storageProofs)
    <3>1. response.proof.storageProofs = ProofsOf(root, list)
      BY <1>2, <2>1, <2>3 DEF WholeInv, ReadInv, ServesInv, list
    <3>2. list \in Seq(Slot)
      BY <1>2, <2>1, PartsFacts DEF WholeInv
    <3>3. Len(ProofsOf(root, list)) = Len(list)
      BY <3>2 DEF ProofsOf
    <3> QED BY <2>2, <2>3, <3>1, <3>3 DEF On
  <2> QED BY <2>2, <2>3 DEF Failed, On
<1> QED BY <1>1, <1>2, WholeNext, PTL DEF FetchSpec
===============================================================================
