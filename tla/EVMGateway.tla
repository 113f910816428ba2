----------------------------- MODULE EVMGateway -----------------------------
(***************************************************************************)
(* The off-chain half of a storage read: createProofs of                   *)
(* evm-gateway/src/EVMGateway.ts for one request, on top of a proof        *)
(* service (l1-gateway, op-gateway) that asks a node of the target chain   *)
(* for storage words, for the state proof and for the block header.        *)
(*                                                                         *)
(* There is one promise per command; they run interleaved, suspended at    *)
(* every instruction and at every call to the node.  The node is asked by  *)
(* block number, so a reorganisation of the chain changes what it says.    *)
(***************************************************************************)
EXTENDS StorageRead

CONSTANTS
  Programs,    \* the requests considered
  MaxWords,    \* data words of a value beyond which no array is allocated
  MaxFaults,   \* bound on failing calls to the node
  MaxReorgs    \* bound on reorganisations

VARIABLES
  commands, constants,  \* the request
  node,                 \* state of the provable block, as the node has it
  gpc,                  \* where createProofs is
  promise,              \* promise[c]: what getValueFromPath does for command c
  response,             \* header and state proof
  faults, reorgs        \* faults and reorganisations so far

request == <<commands, constants>>
vars == <<request, node, gpc, promise, response, faults, reorgs>>

ASSUME BoundAssumption ==
  /\ Programs \subseteq Program
  /\ MaxWords \in Nat /\ MaxFaults \in Nat /\ MaxReorgs \in Nat

root == StorageRootOf[node]
Commands == 1 .. Len(commands)
NoResponse ==
  [header |-> NoAccount, proof |-> [stateTrieWitness |-> NoAccount, storageProofs |-> <<>>]]
Unread == <<>>

\* eth_getStorageAt: words of an account that does not exist are zero.
getStorageAt(slot) == IF root = NoAccount THEN ZeroWord ELSE Cell(root, slot)

(***************************************************************************)
(* A promise for a StorageElement.  It hashes its path ("path", at         *)
(* instruction j), reads the head word of a dynamic value ("head"), and    *)
(* resolves to slots and a memoized value() that reads dataSlots into      *)
(* words ("idle" until value is first called) and cuts them at len.        *)
(***************************************************************************)
NewPromise ==
  [pc |-> "path", j |-> 1, slot |-> BaseSlot(ZeroWord),
   slots |-> <<>>, head |-> ZeroWord, dataSlots |-> <<>>, len |-> 0,
   value |-> "idle", words |-> <<>>]

Init ==
  /\ \E p \in Programs : commands = p.commands /\ constants = p.constants
  /\ node \in StateRoots
  /\ gpc = "block"
  /\ promise = <<>> /\ response = NoResponse
  /\ faults = 0 /\ reorgs = 0

\* createProofs: the promises are all created before any of them goes on.
GetProvableBlock ==
  /\ gpc = "block"
  /\ gpc' = "slots"
  /\ promise' = [c \in Commands |-> NewPromise]
  /\ UNCHANGED <<request, node, response, faults, reorgs>>

-----------------------------------------------------------------------------
\* Mutant of Visible: the list of promises is passed itself, not a copy.
Visible_NoSlice(c) == Commands

(***************************************************************************)
(* executeOperation.  Command c sees requests.slice(): the promises made   *)
(* before its own.                                                         *)
(***************************************************************************)
Visible(c) == 1 .. c - 1

OnPath(c) ==
  /\ gpc = "slots" /\ promise[c].pc = "path"
  /\ promise[c].j = 1 \/ More(commands[c], promise[c].j)

Operation(c) == commands[c][promise[c].j]
Referent(c) == Operand(Operation(c)) + 1

SetPromise(c, p) ==
  /\ promise' = [promise EXCEPT ![c] = p]
  /\ UNCHANGED <<request, node, gpc, response, faults, reorgs>>

Reject(c) == SetPromise(c, [promise[c] EXCEPT !.pc = "rejected"])

\* What value() yields: dataSlice(concat(words), 0, len), or the head word's
\* first bytes.
IsShort(p) == p.dataSlots = <<>>
valueOf(p) ==
  SubSeq(IF IsShort(p) THEN p.head ELSE FlattenSeq(p.words), 1, p.len)
Ready(p) ==
  /\ p.pc = "resolved"
  /\ IF IsShort(p) THEN p.len <= WordSize ELSE p.value = "ready"

\* The operation has something to push / will never have.
Pushes(c) ==
  LET op == Operation(c)
  IN  \/ Opcode(op) = OP_CONSTANT /\ Operand(op) < Len(constants)
      \/ Opcode(op) = OP_BACKREF /\ Referent(c) \in Visible(c) /\ Ready(promise[Referent(c)])

Throws(c) ==
  LET op == Operation(c)
  IN  \/ Opcode(op) \notin {OP_CONSTANT, OP_BACKREF}
      \/ Opcode(op) = OP_CONSTANT /\ Operand(op) >= Len(constants)
      \/ /\ Opcode(op) = OP_BACKREF
         /\ Referent(c) \in Visible(c) =>
              LET p == promise[Referent(c)]
              IN  \/ p.pc = "rejected" \/ p.value = "failed"
                  \/ p.pc = "resolved" /\ IsShort(p) /\ p.len > WordSize

Pushed(c) ==
  LET op == Operation(c)
  IN  IF Opcode(op) = OP_CONSTANT THEN constants[Operand(op) + 1]
                                  ELSE valueOf(promise[Referent(c)])

ExecuteThrows(c) == OnPath(c) /\ Throws(c) /\ Reject(c)

\* Mutant of Uncalled: value() is not memoized.
Uncalled_NoMemo(p) ==
  p.pc = "resolved" /\ ~IsShort(p) /\ p.value \in {"idle", "ready"}

Uncalled(p) == p.pc = "resolved" /\ ~IsShort(p) /\ p.value = "idle"

\* The first call of a memoized value() starts reading its words.
CallValue(c) ==
  /\ OnPath(c)
  /\ Opcode(Operation(c)) = OP_BACKREF /\ Referent(c) \in Visible(c)
  /\ LET d == Referent(c)
         p == promise[d]
     IN  /\ Uncalled(p)
         /\ SetPromise(d, [p EXCEPT !.value = "reading",
                                    !.words = [n \in 1 .. Len(p.dataSlots) |-> Unread]])

\* toBigInt of the first path element: leading zero bytes do not count.  A
\* number that is no word is given up here, in the code where it is next used.
Significant(v) == SelectInSeq(v, LAMBDA b : b # 0)
Stripped(v) == IF Significant(v) = 0 THEN <<>> ELSE SubSeq(v, Significant(v), Len(v))
IsWord(v) == v # <<>> /\ Len(Stripped(v)) <= WordSize

\* computeFirstSlot: the first element is a slot, the others are hashed in.
FirstElement(c) ==
  /\ OnPath(c) /\ promise[c].j = 1 /\ Pushes(c)
  /\ IF IsWord(Pushed(c))
     THEN SetPromise(c, [promise[c] EXCEPT !.j = 2, !.slot = BaseSlot(LeftPad(Stripped(Pushed(c))))])
     ELSE Reject(c)

NextElement(c) ==
  /\ OnPath(c) /\ promise[c].j > 1 /\ Pushes(c)
  /\ SetPromise(c, [promise[c] EXCEPT !.j = @ + 1, !.slot = Keccak(Pushed(c), @)])

-----------------------------------------------------------------------------
(* getValueFromPath, getDynamicValue                                       *)

EndOfPath(c) ==
  /\ gpc = "slots" /\ promise[c].pc = "path"
  /\ promise[c].j > 1 /\ ~More(commands[c], promise[c].j)
  /\ SetPromise(c,
       IF IsDynamic(commands[c])
       THEN [promise[c] EXCEPT !.pc = "head"]
       ELSE [promise[c] EXCEPT !.pc = "resolved", !.slots = <<promise[c].slot>>,
                               !.dataSlots = <<promise[c].slot>>, !.len = WordSize])

\* Mutants of DataWords: rounded down; one more for an exact multiple.
DataWords_Floor(len) == len \div WordSize
DataWords_OneMore(len) == len \div WordSize + 1

\* Math.ceil(len / 32)
DataWords(len) == (len + WordSize - 1) \div WordSize

\* Mutant of DataSlots: the data area is taken to start one word early.
DataSlots_OffByOne(s, words) == [n \in 1 .. words |-> DataSlot(s, n - 2)]

DataSlots(s, words) == [n \in 1 .. words |-> DataSlot(s, n - 1)]

ReadHead(c) ==
  /\ gpc = "slots" /\ promise[c].pc = "head"
  /\ LET s == promise[c].slot
         head == getStorageAt(s)
         words == DataWords(LongLength(head))
         data == DataSlots(s, words)
         p == [promise[c] EXCEPT !.pc = "resolved", !.head = head]
     IN  IF ~IsLong(head)
         THEN SetPromise(c, [p EXCEPT !.slots = <<s>>, !.len = ShortLength(head)])
         ELSE IF words > MaxWords THEN Reject(c)
         ELSE SetPromise(c, [p EXCEPT !.slots = <<s>> \o data, !.dataSlots = data,
                                      !.len = LongLength(head)])

\* One of the words that a value() is waiting for arrives.
ReadWord(c) ==
  /\ gpc = "slots" /\ promise[c].value = "reading"
  /\ \E n \in 1 .. Len(promise[c].words) :
       /\ promise[c].words[n] = Unread
       /\ SetPromise(c, [promise[c] EXCEPT !.words[n] = getStorageAt(promise[c].dataSlots[n])])

ValueSettles(c) ==
  /\ gpc = "slots" /\ promise[c].value = "reading"
  /\ \A n \in 1 .. Len(promise[c].words) : promise[c].words[n] # Unread
  /\ SetPromise(c, [promise[c] EXCEPT !.value = "ready"])

-----------------------------------------------------------------------------
(* Promise.all, getProofs                                                  *)

Stay == UNCHANGED <<request, node, promise, faults, reorgs>>

AllResolved ==
  /\ gpc = "slots"
  /\ \A c \in Commands : promise[c].pc = "resolved"
  /\ gpc' = "proof" /\ UNCHANGED response /\ Stay

SomeRejected ==
  /\ gpc = "slots"
  /\ \E c \in Commands : promise[c].pc = "rejected"
  /\ gpc' = "failed" /\ UNCHANGED response /\ Stay

\* eth_getProof, for the slots of all commands in the order of the commands.
slots == FlattenSeq([c \in Commands |-> promise[c].slots])

GetProof ==
  /\ gpc = "proof" /\ gpc' = "header"
  /\ response' = [response EXCEPT !.proof =
       [stateTrieWitness |-> node,
        storageProofs |-> [n \in 1 .. Len(slots) |-> [root |-> root, slot |-> slots[n]]]]]
  /\ Stay

\* eth_getBlockByNumber
GetHeader ==
  /\ gpc = "header" /\ gpc' = "responded"
  /\ response' = [response EXCEPT !.header = node]
  /\ Stay

-----------------------------------------------------------------------------
(* The environment                                                         *)

\* A call to the node fails, or finds no block.
NodeFails ==
  /\ faults < MaxFaults /\ faults' = faults + 1
  /\ \/ gpc \in {"block", "proof", "header"} /\ gpc' = "failed" /\ UNCHANGED promise
     \/ /\ gpc = "slots" /\ UNCHANGED gpc
        /\ \E c \in Commands :
             \/ promise[c].pc = "head" /\ promise' = [promise EXCEPT ![c].pc = "rejected"]
             \/ promise[c].value = "reading" /\ promise' = [promise EXCEPT ![c].value = "failed"]
  /\ UNCHANGED <<request, node, response, reorgs>>

\* Another block takes the place of the provable block.
Reorg ==
  /\ gpc \notin {"responded", "failed"}
  /\ reorgs < MaxReorgs /\ reorgs' = reorgs + 1
  /\ node' \in StateRoots \ {node}
  /\ UNCHANGED <<request, gpc, promise, response, faults>>

-----------------------------------------------------------------------------
Step(c) ==
  \/ ExecuteThrows(c) \/ CallValue(c) \/ FirstElement(c) \/ NextElement(c)
  \/ EndOfPath(c) \/ ReadHead(c) \/ ReadWord(c) \/ ValueSettles(c)

\* What the event loop does with the calls of this request.
Run ==
  \/ GetProvableBlock \/ (\E c \in Commands : Step(c))
  \/ AllResolved \/ SomeRejected \/ GetProof \/ GetHeader

Next == Run \/ NodeFails \/ Reorg

Spec == Init /\ [][Next]_vars

\* The event loop goes on while anything is ready, and every call to the
\* node is answered or times out.
FairSpec == Spec /\ WF_vars(Run)

-----------------------------------------------------------------------------
Promise ==
  [pc : {"path", "head", "resolved", "rejected"}, j : 1 .. WordSize, slot : Slot,
   slots : Seq(Slot), head : Word, dataSlots : Seq(Slot), len : Nat,
   value : {"idle", "reading", "ready", "failed"}, words : Seq(Word \cup {Unread})]

TypeOK ==
  /\ commands \in Seq(Command) /\ constants \in Seq(Bytes)
  /\ node \in StateRoots
  /\ gpc \in {"block", "slots", "proof", "header", "responded", "failed"}
  /\ promise \in Seq(Promise) /\ (gpc \in {"slots", "proof"} => DOMAIN promise = Commands)
  /\ response.header \in StateRoots \cup {NoAccount}
  /\ faults \in 0 .. MaxFaults /\ reorgs \in 0 .. MaxReorgs

(***************************************************************************)
(* createProofs always settles: no chain of references between commands,   *)
(* to themselves and to later ones included, leaves promises waiting for   *)
(* each other.                                                             *)
(***************************************************************************)
Settles == <>(gpc \in {"responded", "failed"})

(***************************************************************************)
(* All commands that refer to one command use the same value of it, even   *)
(* if the chain is reorganised between the instructions that do: value()   *)
(* is memoized for this.  At the start of a path it is used as a number,   *)
(* elsewhere as it is.                                                     *)
(***************************************************************************)
Refers(c, k, d) ==
  /\ k < promise[c].j
  /\ Opcode(commands[c][k]) = OP_BACKREF /\ Operand(commands[c][k]) + 1 = d

AsBase(v) == LeftPad(Stripped(v))

OneValue ==
  \A c1, c2 \in DOMAIN promise : \A k1, k2 \in 1 .. WordSize - 1 : \A d \in DOMAIN promise :
    Refers(c1, k1, d) /\ Refers(c2, k2, d) /\ (k2 = 1 => k1 = 1) =>
      LET v == promise[c2].slot.path[k2]
      IN  promise[c1].slot.path[k1] = IF k1 = 1 /\ k2 > 1 THEN AsBase(v) ELSE v

\* An array can be allocated for the words of every answer.
Fits(state) ==
  LET vals == Results(commands, constants, StorageRootOf[state])
  IN  \A k \in 1 .. Len(vals) : Len(vals[k]) <= MaxWords * WordSize

(***************************************************************************)
(* Without faults and reorganisations, a request that can be served gets   *)
(* the proofs of the slots its commands name, in the order in which the    *)
(* verifier consumes them.                                                 *)
(***************************************************************************)
Serves ==
  faults = 0 /\ reorgs = 0 /\ Servable(commands, constants, node) /\ Fits(node) =>
    /\ gpc # "failed"
    /\ gpc \in {"header", "responded"} =>
         [n \in DOMAIN response.proof.storageProofs |-> response.proof.storageProofs[n].slot]
           = SlotList(commands, constants, root)

=============================================================================
