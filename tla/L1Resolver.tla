------------------------------- MODULE L1Resolver -------------------------------
(***************************************************************************)
(* The ENS resolver on L1 whose records are on L2:                         *)
(* crosschain-resolver/contracts/L1Resolver.sol.  For a name it finds the  *)
(* L2 resolver, its target, and reads the record there with two commands   *)
(* of EVMFetcher: the version of the node's records, then the record at    *)
(* that version.  They are read from the L2 state that L1 is committed to  *)
(* by then, as AuthenticRead says, and reach the callback as the verifier  *)
(* extracts them: AuthenticRead promises nothing of a long record with a   *)
(* data word that starts with a zero byte, and such a record comes back    *)
(* without those bytes, or not at all (Extracted).                         *)
(*                                                                         *)
(* A node is the list of its labels, so hashes have no collisions; a slot  *)
(* is the list of what is hashed to get it.  A record is a byte string.    *)
(***************************************************************************)
EXTENDS Integers, FiniteSets, SequencesExt

CONSTANTS
  Labels,
  Names,        \* the names that are resolved, a list of labels each
  Written,      \* those of which L2 resolvers hold records
  Accounts, NameWrapper, FirstOwner,
  Targets, NoTarget,
  Queries,      \* what is asked of a name, [kind, key]
  Values,       \* what records hold, besides nothing
  WordSize,     \* bytes in a storage word: 32
  AddressSize,  \* bytes in an address: 20
  MaxWrites,    \* bound on writes on L2
  MaxChanges    \* bound on changes of owners and targets

None == 0
Nodes == UNION {Suffixes(name) : name \in Names}
Kinds == {"addr", "address", "text", "contenthash"}

ASSUME ResolverAssumption ==
  /\ NameWrapper \in Accounts /\ FirstOwner \in Accounts \ {NameWrapper}
  /\ Names \subseteq Seq(Labels) /\ Written \subseteq Names
  /\ NoTarget \notin Targets
  /\ Values \subseteq Seq(Nat)
  /\ WordSize \in Nat \ {0, 1} /\ AddressSize \in Nat
  /\ MaxWrites \in Nat /\ MaxChanges \in Nat

VARIABLES
  owner,      \* ENS registry: owner of a node
  ownerOf,    \* NameWrapper: owner of a wrapped node
  targets,
  l2,         \* l2[t]: storage of the L2 resolver t, a function on some slots
  committed,  \* the l2 that L1 verifies against
  call,       \* a call of resolve, and its callback
  writes, changes

vars == <<owner, ownerOf, targets, l2, committed, call, writes, changes>>
registry == <<owner, ownerOf, targets, changes>>

NoCall == [pc |-> "idle", target |-> NoTarget, commands |-> <<>>, query |-> <<>>,
           node |-> <<>>, result |-> <<>>]

Init ==
  /\ owner = [n \in Nodes |-> FirstOwner] /\ ownerOf = owner
  /\ targets = [n \in Nodes |-> NoTarget]
  /\ l2 = [t \in Targets |-> <<>>] /\ committed = l2
  /\ call = NoCall /\ writes = 0 /\ changes = 0

-----------------------------------------------------------------------------
(* Targets                                                                 *)

\* isAuthorised: who may set the target of a node
HolderOf(node) == IF owner[node] = NameWrapper THEN ownerOf[node] ELSE owner[node]

SetTarget(sender, node, target) ==
  /\ sender = HolderOf(node)
  /\ targets' = [targets EXCEPT ![node] = target]
  /\ UNCHANGED <<owner, ownerOf>>

\* Mutant of Nearest: what was found for the parent goes first.
Nearest_Parent(own, inherited) == IF inherited # NoTarget THEN inherited ELSE own

Nearest(own, inherited) == IF own # NoTarget THEN own ELSE inherited

\* getTarget: from the first label on, each asks the one after it; the root
\* is not asked for its own.
getTarget(name) ==
  LET found[i \in 1 .. Len(name) + 1] ==
        IF i > Len(name) THEN NoTarget
        ELSE Nearest(targets[SubSeq(name, i, Len(name))], found[i + 1])
  IN  found[1]

-----------------------------------------------------------------------------
(* Reading a record                                                        *)

\* Instructions of a command: a constant, or a reference to a value.
Const(c) == [const |-> TRUE, c |-> c]
Ref(i) == [const |-> FALSE, c |-> i]

\* Mutant of Version: the first version, whatever the current one.
Version_First == Const(None)

Version == Ref(0)

\* The commands of _addr, _addr, _text and _contenthash.
Commands(node, query) ==
  <<[slot |-> 0, path |-> <<Const(node)>>],
    CASE query.kind = "addr" -> [slot |-> 2, path |-> <<Version, Const(node), Const(60)>>]
      [] query.kind = "address" -> [slot |-> 2, path |-> <<Version, Const(node), Const(query.key)>>]
      [] query.kind = "text" -> [slot |-> 10, path |-> <<Version, Const(node), Const(query.key)>>]
      [] query.kind = "contenthash" -> [slot |-> 3, path |-> <<Version, Const(node)>>]>>

\* Slots that were never written are zero, or empty.
Read(state, target, slot, zero) ==
  IF slot \in DOMAIN state[target] THEN state[target][slot] ELSE zero

Operand(op, vals) == IF op.const THEN op.c ELSE vals[op.c + 1]
CommandSlot(c, vals) == <<c.slot>> \o [k \in 1 .. Len(c.path) |-> Operand(c.path[k], vals)]

\* What a state holds where the two commands lead: a version and a record.
Held(state, target, commands) ==
  LET version == Read(state, target, CommandSlot(commands[1], <<>>), None)
  IN  <<version, Read(state, target, CommandSlot(commands[2], <<version>>), <<>>)>>

(***************************************************************************)
(* How the verifier extracts a record v (getDynamicValue).  A short one is *)
(* in the head word.  A long one is put together from its data words, and  *)
(* a storage proof gives each without its leading zero bytes; the last one *)
(* is cut, and the cut must exist.                                         *)
(***************************************************************************)
IsLong(v) == Len(v) >= WordSize
WordCount(v) == (Len(v) + WordSize - 1) \div WordSize
LeftBefore(v, n) == Len(v) - (n - 1) * WordSize

DataWord(v, n) ==
  [k \in 1 .. WordSize |-> IF k <= LeftBefore(v, n) THEN v[(n - 1) * WordSize + k] ELSE 0]

Stripped(word) ==
  LET k == SelectInSeq(word, LAMBDA byte : byte # 0)
  IN  IF k = 0 THEN <<>> ELSE SubSeq(word, k, Len(word))

Chunk(v, n) ==
  LET bytes == Stripped(DataWord(v, n))
  IN  IF LeftBefore(v, n) < WordSize THEN SubSeq(bytes, 1, LeftBefore(v, n)) ELSE bytes

Extractable(v) ==
  LET n == WordCount(v)
  IN  IsLong(v) /\ LeftBefore(v, n) < WordSize
        => LeftBefore(v, n) <= Len(Stripped(DataWord(v, n)))

Extracted(v) ==
  IF IsLong(v) THEN FlattenSeq([n \in 1 .. WordCount(v) |-> Chunk(v, n)]) ELSE v

\* The values that the callback gets.
Fetched(state, target, commands) ==
  LET held == Held(state, target, commands) IN <<held[1], Extracted(held[2])>>

\* resolve(name, data): data names a function, its node and its key.  The call
\* reverts with OffchainLookup; other functions have no result.
Resolve(name, node, query) ==
  /\ call.pc = "idle"
  /\ call' = IF query.kind \in Kinds
             THEN [pc |-> "pending", target |-> getTarget(name), query |-> query, node |-> node,
                   commands |-> Commands(node, query), result |-> <<>>]
             ELSE [call EXCEPT !.pc = "returned"]
  /\ UNCHANGED <<registry, l2, committed, writes>>

\* Mutant of AddressOf: bytes that are missing are not filled up.
AddressOf_NoPad(bytes) == SubSeq(bytes, 1, Min({Len(bytes), AddressSize}))

\* address(bytes20(values[1])) is cut, or filled up with zero bytes, on the right.
AddressOf(bytes) == [k \in 1 .. AddressSize |-> IF k <= Len(bytes) THEN bytes[k] ELSE 0]

\* addrCallback; addrCoinTypeCallback, textCallback and contenthashCallback
RecordValue(query, values) == IF query.kind = "addr" THEN AddressOf(values[2]) ELSE values[2]

\* An account that has no storage has no storage proofs.
HasStorage(state, t) ==
  \E slot \in DOMAIN state[t] : state[t][slot] # (IF slot[1] = 0 THEN None ELSE <<>>)

Callback ==
  /\ call.pc = "pending"
  /\ call.target \in Targets /\ HasStorage(committed, call.target)
  /\ Extractable(Held(committed, call.target, call.commands)[2])
  /\ call' = [call EXCEPT !.pc = "returned",
                !.result = RecordValue(call.query, Fetched(committed, call.target, call.commands))]
  /\ UNCHANGED <<registry, l2, committed, writes>>

\* The gateway has no answer, or the verifier does not accept it.
Fail ==
  /\ call.pc = "pending"
  /\ call' = [call EXCEPT !.pc = "failed"]
  /\ UNCHANGED <<registry, l2, committed, writes>>

-----------------------------------------------------------------------------
(* The resolvers on L2, and the ENS contracts on L1                        *)

VersionOf(state, t, node) == Read(state, t, <<0, node>>, None)

\* Where PublicResolver of ens-contracts keeps a record of a version.
RecordSlot(version, node, query) ==
  CASE query.kind = "addr" -> <<2, version, node, 60>>
    [] query.kind = "address" -> <<2, version, node, query.key>>
    [] query.kind = "text" -> <<10, version, node, query.key>>
    [] query.kind = "contenthash" -> <<3, version, node>>

Write(t, slot, value) ==
  /\ writes < MaxWrites /\ writes' = writes + 1
  /\ l2' = [l2 EXCEPT ![t] = [s \in DOMAIN l2[t] \cup {slot} |->
                                IF s = slot THEN value ELSE l2[t][s]]]
  /\ UNCHANGED <<registry, committed, call>>

SetRecord(t, node, query, value) ==
  /\ query.kind \in Kinds
  /\ Write(t, RecordSlot(VersionOf(l2, t, node), node, query), value)

ClearRecords(t, node) == Write(t, <<0, node>>, VersionOf(l2, t, node) + 1)

\* L1 learns of the L2 state.
Commit == committed' = l2 /\ UNCHANGED <<registry, l2, call, writes>>

Transfer(node, account) ==
  /\ \/ owner' = [owner EXCEPT ![node] = account] /\ UNCHANGED ownerOf
     \/ /\ account # NameWrapper
        /\ ownerOf' = [ownerOf EXCEPT ![node] = account] /\ UNCHANGED owner
  /\ UNCHANGED targets

Change ==
  /\ changes < MaxChanges /\ changes' = changes + 1
  /\ \E node \in Nodes :
       \/ \E account \in Accounts : Transfer(node, account)
       \/ \E sender \in Accounts, t \in Targets \cup {NoTarget} : SetTarget(sender, node, t)
  /\ UNCHANGED <<l2, committed, call, writes>>

-----------------------------------------------------------------------------
L2Step ==
  \/ \E t \in Targets, node \in Written :
       ClearRecords(t, node) \/ \E q \in Queries, v \in Values : SetRecord(t, node, q, v)
  \/ Commit

Next ==
  \/ \E name, node \in Names, query \in Queries : Resolve(name, node, query)
  \/ Callback \/ Fail \/ L2Step \/ Change

Spec == Init /\ [][Next]_vars

-----------------------------------------------------------------------------
TypeOK ==
  /\ owner \in [Nodes -> Accounts] /\ ownerOf \in [Nodes -> Accounts \ {NameWrapper}]
  /\ targets \in [Nodes -> Targets \cup {NoTarget}]
  /\ \A s \in {l2, committed} : \A t \in Targets : \A slot \in DOMAIN s[t] :
       s[t][slot] \in (IF slot[1] = 0 THEN 0 .. MaxWrites ELSE Values)
  /\ call.pc \in {"idle", "pending", "returned", "failed"}
  /\ call.target \in Targets \cup {NoTarget} /\ call.result \in Seq(Nat)
  /\ call.pc = "returned" /\ call.commands # <<>> /\ call.query.kind = "addr"
       => Len(call.result) = AddressSize
  /\ writes \in 0 .. MaxWrites /\ changes \in 0 .. MaxChanges

\* The record that the L2 resolver itself finds in a state.
Record(state, t, node, query) ==
  Read(state, t, RecordSlot(VersionOf(state, t, node), node, query), <<>>)

\* No data word of a long record starts with a zero byte.
WholeWords(v) == IsLong(v) => \A n \in 1 .. WordCount(v) : DataWord(v, n)[1] # 0

\* What PublicResolver answers: addr is the zero address where there is none,
\* and reverts if the record is not as long as an address.
Answerable(query, record) == query.kind = "addr" => Len(record) \in {0, AddressSize}
Answered(query, record) ==
  IF query.kind = "addr" /\ record = <<>> THEN [k \in 1 .. AddressSize |-> 0] ELSE record

(***************************************************************************)
(* resolve answers what the L2 resolver would: the record of the version   *)
(* that is current in the state that is read, never one that was cleared,  *)
(* and of this node and key.  The resolver is the one in effect when the   *)
(* call began, also if the target has been changed since.  Left out are    *)
(* long records with a data word that starts with a zero byte, which the   *)
(* verifier does not return as they are, and those for which the L2        *)
(* resolver has no answer.                                                 *)
(***************************************************************************)
AnswersRecord ==
  [][call.pc = "pending" /\ call'.pc = "returned" =>
       LET record == Record(committed, call.target, call.node, call.query)
       IN  WholeWords(record) /\ Answerable(call.query, record)
             => call'.result = Answered(call.query, record)]_vars

(***************************************************************************)
(* The resolver in effect for a name changes only with the target of the   *)
(* name itself or of a name above it, the root excepted, and those above   *)
(* matter only while no name in between has a target of its own.           *)
(***************************************************************************)
OnlyAbove ==
  [][\A name \in Names : getTarget(name)' # getTarget(name) =>
       \E n \in Suffixes(name) \ {<<>>} :
         /\ targets'[n] # targets[n]
         /\ \A below \in Suffixes(name) :
              Len(below) > Len(n) => targets[below] = NoTarget]_vars
=============================================================================
