# TLA+ models and proofs for evmgateway

evmgateway lets a contract on one chain read the storage of a contract on
another. The contract describes the storage slots it wants in a small command
language (`EVMFetcher`) and reverts with a CCIP-Read `OffchainLookup`; a gateway
(`EVMGateway` over a proof service) finds the slots and collects Merkle proofs;
the client calls the contract back with them, and a verifier contract computes
the slots again and extracts the values from the proofs. Nobody trusts the
gateway: whatever it answers, the callback must fail or see the values that the
other chain's state holds.

These modules model that machinery from the source, check it with TLC on small
instances, and prove the central properties with TLAPS.

## Inventory

| component | state | operations | talks to |
|---|---|---|---|
| request builder `evm-verifier/contracts/EVMFetcher.sol` | commands, constants, `operationIdx` in memory | `getStatic`, `getDynamic`, `element`, `ref`, `fetch` | caller; gateway and verifier through the request |
| gateway `evm-gateway/src/EVMGateway.ts` | per request: a promise per command, memoized values | `createProofs` and what it calls | proof service |
| proof helper `evm-gateway/src/EVMProofHelper.ts` | none | `getStorageAt`, `getProofs` | node of the target chain, by block number |
| L1 service `l1-gateway/src/L1ProofService.ts` | none | `getProvableBlock`, `getProofs` | proof helper, node of L1 |
| OP service `op-gateway/src/OPProofService.ts` | none | the same, from an output of the L2 output oracle | proof helper, L1 and L2 nodes |
| Arbitrum service `arb-gateway/src/ArbProofService.ts`, `blockCache/InMemoryBlockCache.ts` | a one-entry cache shared by all requests | the same, from the rollup's latest node; `getBlock`, `setBlock` | L1 and L2 nodes |
| workers and servers `worker.ts`, `server.ts` of the three gateways | the variable `app`, made by the first requests or before listening | `fetch` | gateway |
| verifier library `evm-verifier/contracts/EVMProofHelper.sol` | locals of one call | `getStorageValues` and what it calls | trie walk |
| trie walk `evm-verifier/contracts/MerkleTrie.sol`, `SecureMerkleTrie.sol` | locals of one call | `get` | |
| callback `EVMFetchTarget.sol` and verifiers `L1Verifier.sol`, `ArbVerifier.sol`, `OPVerifier.sol` | none | `getStorageSlotsCallback`, `getStorageValues` | block hashes, rollup, output oracle |
| ENS resolver `crosschain-resolver/contracts/L1Resolver.sol` | `targets` | `setTarget`, `getTarget`, `resolve`, callbacks | request builder, ENS registry, NameWrapper |
| deployment scripts `deploy_l1`, `deploy_l2`, `hardhat.config.ts` | the saved deployments of each network | `hardhat deploy`, and the documented commands that call it | both chains |
| build script `scripts/workspace.ts` | what was built of each workspace | one workspace, a list, all of them | the `build` script of each workspace |

What is hard here, and what makes each part correct:

* *Untrusted proofs.* The verifier library and the trie walk get any proof at
  all. They must return what the accepted state holds, or revert.
* *Two implementations of one language.* Gateway and verifier interpret the same
  commands in TypeScript and Solidity, and agree on the slots, on their order
  and on the layout of long values only by convention. Storage proofs are
  consumed by position.
* *Concurrency in one request.* The promises of the commands wait for one
  another and for the node in any order; they must not wait in a circle, must
  read a referenced value once, and must deliver slots in command order.
* *A chain that moves.* Words, proofs and headers are read one after the other,
  by block number; reorganisations fall in between. The result may be a failure,
  never a wrong value.
* *Asking several nodes.* Nodes that are behind show fewer outputs or blocks, an
  output can be deleted and proposed again after it was read, and the contract
  that is called back knows 256 block hashes. The margin that a service leaves
  (a delay, `latest - 1`) has to make up for this.
* *Racing first requests.* A worker makes its app after imports that it awaits;
  other requests come, and isolates are evicted, in between.
* *Records that are versioned.* A resolver on L2 forgets records by counting up a
  version that is itself read through storage, and the target may change while a
  read is on its way.
* *Runs that fail halfway.* Contracts on L1 hold addresses of contracts on L2,
  and the scripts of both networks are run, and repeated, one by one.
* *A shared cache.* Requests for different rollup nodes overwrite each other's
  entry; the fields of an entry must stay together.
* *Boundaries.* 32 instructions, 32 commands, 32 constants; lengths that are
  multiples of 32; words with leading zero bytes; empty tries; nodes of less
  than 32 bytes.

`PROJECT.json` lists each of these hazards at its line of source, with the
properties that would catch it.

## Modules

Vocabulary

* `StorageVM` - words, slots, tries, commands. keccak256 is free of collisions,
  so a slot is the chain of values that were hashed to get it plus an offset.
  `WordSize`, `ByteBase` and `OperandSpan` are constants: the program has 32,
  256 and 32, the runs use words of 4 or 5 bytes of 5 or 6 bits. A storage trie
  holds words without leading zero bytes, as RLP does.
* `StorageRead` - what a request *means*: the slot of a command, the value
  Solidity keeps at a slot, and which requests can be served at all.
* `AuthenticRead` - the abstract specification: a read is pending, then answers
  once with what the committed state holds at that moment, or fails.

Components

* `EVMProofHelper` - `getStorageValues`. `vpc` says where the call is, the other
  variables are its locals; one action per step of its loops. A storage proof is
  represented by the root and the slot it was made for. A proof for another root
  never checks. A proof for another *slot* may share the nodes that matter, so it
  either decides with what the trie holds or fails; both are allowed.
* `EVMGateway` - `createProofs` with a record per promise. Every instruction,
  every word that arrives and every settled promise is a step, so all orders in
  which the event loop could run them are covered. `NodeFails` and `Reorg` are
  the environment.
* `StorageFetch` - extends `EVMGateway` by the verifier's call
  (`V == INSTANCE EVMProofHelper`), `getStorageSlotsCallback` and `L1Verifier`. `Recommit` changes the block hash that the verifying chain sees.
* `TargetChain` - the chain whose storage is proven, as a proof service sees it:
  `chain[n]` is the fork on which block n was made, so a block is a number and a
  fork. `getStorageAt` and `getProofs` of `EVMProofHelper.ts` answer by number.
  The slots that a request reads are a function of the state (`SlotsOf`): how
  they are found is the subject of `EVMGateway`.
* `L1ProofService` - concurrent requests over `TargetChain`: `latest - 1`, storage
  words, `eth_getProof` and header as separate calls, then the callback at a
  block `h` that the client's node has, with `blockhash` as `HasHash`.
* `GatewayApp` - the process. `host` is a worker or a server with its options,
  `app` the variable of `worker.ts`; `Fetch` and `Build` are the two halves of
  its `fetch`, with the awaited imports in between. Apps are numbered.
* `L1Gateway` - composes the two above: requests are handled by the service
  (`L1 == INSTANCE L1ProofService`) once the process (`App == INSTANCE
  GatewayApp`) has routed them, and the client calls back with what it is given.
* `OPProofService` - `latestOutputIndex() - delay`, `getL2Output`, the reads by
  number and the check of `OPVerifier`, with the oracle (external: `Propose`,
  `DeleteL2Outputs`) and the chain going on. The service has no state, so one
  request is enough. `Views` are the outputs that a node of L1 may show.
* `L1Resolver` - `setTarget` with its authorisation, `getTarget` as a function on
  the suffixes of a name, `resolve` with the two commands it builds, and the
  callbacks. The read in between takes the values from the state committed when it
  answers, as `AuthenticRead` says, and converts them as the verifier does: of a
  long record `Extracted` drops the leading zero bytes of each data word, which
  `AuthenticRead` allows, and a last chunk that is then too short to be cut is no
  answer (`Extractable`). `AddressOf` is the `address(bytes20(...))` of
  `addrCallback`. What records hold are byte strings, in words of `WordSize` bytes
  and addresses of `AddressSize`. Resolvers on L2 (`PublicResolver` of
  ens-contracts), registry and wrapper are external.
* `Deployment` - `hardhat deploy` on either network: a script is a contract and
  where its constructor's arguments come from (`Local`, `Companion`, `Setting`);
  `run[n]` is what is left to do. A contract is reused if code and arguments are
  those that were saved. The scripts of all three packages are in `Scripts`.
* `DeployCommand` - a developer who repeats a documented command: the runs of
  `Deployment` in the order `Order`, each begun only when the one before it has
  ended well. `at` says how far the command is.
* `Workspace` - `workspace.ts` with the script `build`, under a line of commands
  chained by `&&`: one workspace, a list that is spawned at once, all in turn.
  `current` is what is built from its present sources and dependencies.
* `Developer` - composes `Workspace` and `Deployment`: the workspaces are built,
  and when the build line has ended well the contracts are deployed, changed and
  deployed again, in any order of runs on both networks.
* `EVMFetcher` - the builder. `intent` is a history of what the caller asked for.
  `element` has five overloads which differ in how the value becomes bytes.
* `ArbProofService` - requests, the cache and both chains; every RPC call is a
  step. `Callback` is the check of `ArbVerifier`. `asserted` and `lost` are
  histories.
* `MerkleTrie` - `get`, on any list of nodes. What a parent holds of a node is
  its hash or, if it is short, the node itself; `Decoded` gives what a node says,
  nodes that belong to no trie and items that are no list included. What a trie
  `Holds` and the `Height` of its nodes are constant operators, pinned by
  `HoldsAssumption` and `HeightAssumption`: keys are hashes, so all keys of a trie
  have one length, and below a node of a trie equally much is left of each.

`MC*` modules give the constants their values; `MCStorage` has the storage
(five states of a contract with variables, strings and mappings) and the
requests (fixed and dynamic values, chains of references, references to self,
forward and beyond the end, a word that is no string read as one, unknown opcodes,
missing constants, a string with a length in its head word that no short string has)
that two of them share. Definitions that end in `_Something` and are introduced as mutants are
deliberately wrong variants of the definition after them, one per property:
with the variant in its place the property must fail.

## What the runs show

| run | instance | shows |
|---|---|---|
| `proof_helper` | 9 requests, 5 states, every state proof of up to 3 storage proofs out of 6 slots x 2 roots | `Sound`: each result is the value of the accepted state at the slot of its command; `ImplementsAuthenticRead` |
| `storage_fetch` | 17 requests of up to 4 commands, one failure, one reorganisation of the storage or one change of the committed block | `Settles`; `OneValue`; `Serves`: the slots the verifier needs, in its order; `Ends`; `Completes`; `ImplementsAuthenticRead` across the whole read |
| `fetcher` | words of 4 bytes (3 instructions), 2 commands, 4 constants | `Faithful`: a sent request encodes the description |
| `arb_blocks` | 3 requests, 2 rollup nodes, 3 blocks of which two compete, one failure, one reorganisation of either chain | `OneNode`; `Serves` |
| `l1_gateway` | 2 requests, blocks 0..3, a window of 2 hashes, nodes behind by 1, one reorganisation, failure and restart | `AnswersRecent`; `Serves`; `AppsAreFew`; `Settles` |
| `op_service` | a delay of 2 outputs, nodes behind by 1, blocks 0..4, 4 outputs of which 2 may be deleted, 2 reorganisations, one failure | `AnswersOutput`; `Serves`; `Settles` |
| `resolver` | two names side by side below a third, 2 resolvers, all four kinds of record and an unknown one, 3 values besides none (an address, and long ones that keep and that lose a zero byte), 2 writes and 2 changes of owners or targets | `AnswersRecord`; `OnlyAbove` |
| `developer` | the nine workspaces with the dependencies of their `package.json`, the build line and two lists, one failing script, any state of earlier builds; then the scripts of each package, three edits of code or settings, one failing transaction | `BuildsCurrent`; `OneRunIsEnough`; `Converges` |
| `merkle_trie` | three tries over keys of three bits and a root of no trie, every list of up to three of twelve nodes and some of four | `ReturnsWhatTrieHolds`; `AcceptsPaths` |

Why the bounds are enough to be interesting. Words of 5 bytes give strings of
up to 4 bytes in the head word, and long values of 7 and 10 bytes: one cut and
one exact multiple of the word. Four commands give a chain of references and a
fan-out (`GetEDA`). `GetFull` fills its command word and has no terminator. Two
storage proofs more or fewer than needed, swapped or of the other state, are
among the proofs. `Serves` and `Completes` speak of states whose values fit into
`MaxWords` words (`Fits`): a longer length makes `Array()` throw in the gateway, and
the request fails as it should. Words of 4 bytes let every sequence of builder calls run into
the word's end, the command limit and the constant limit. Two rollup nodes and
three requests are what it takes for an older request to overwrite a newer
entry while a third one hits it. A window of two hashes is left by two blocks between the request and the
callback. With a delay of two outputs and a lag of one, one deleted output is
within the margin and two are beyond it; two reorganisations let a block be
replaced and come back. One version and one record are the two writes a cleared
record takes, and two changes wrap a name and set its target, or set the targets of a name and of
the one above it or beside it. Three edits change
what L1 refers to before, during and after a run. In the tries, a key passes a branch, an
extension, a second branch and an embedded leaf.

`MaxWords`, `MaxFaults`, `MaxReorgs`, `MaxNodes`, `MaxOverflow`, `MaxBlocks`,
`MaxRestarts`, `MaxFailures`, `MaxOutputs`, `MaxRemoved`, `MaxWrites`, `MaxChanges` and
`MaxEdits` are the bounds on otherwise unbounded behaviour; `MaxWords` also stands for the limit of
JavaScript's `Array()`. Symmetry is used only for the requests of
`arb_blocks`, which has no liveness property.

Deadlock checking is off, because the programs end: a request is answered, a call
returns or reverts, a build fails. It is on in `l1_first`, where the command is
repeated for ever.

### Fairness

`Settles` and `Ends` assume weak fairness of `Run` only: the event loop of
JavaScript resumes whatever promise is ready, a call to a node is answered or
times out (a rejection, `NodeFails`), the client follows CCIP-Read, and the EVM
runs a call to its end. Faults and reorganisations are never fair. No fairness
of a single promise is assumed: it is the finiteness of the work that makes the
request settle, and no promise can starve another.

In `OPProofService`, `Settles` assumes weak fairness of `Step`, the next call of
the one request; in `L1Gateway`, weak fairness of `Start` (a server that was
started goes on to listen or to crash) and of `Step(r)` for each request, since
the process serves requests independently of each other. Blocks, outputs,
reorganisations, restarts and failures are never fair.

`RunsEnd`, in `Developer`, is weak fairness of `Continue(n)`: a run of `hardhat deploy`
that has begun goes on to its end. That a run is *begun* is not assumed: who types
the commands is a person. `Converges` states it as its condition, `Repeated`: if runs
are begun again and again on both networks, then the contracts on L1 get up to
date, in whatever order the runs come. It says nothing of a developer who repeats one
command that never gets to the second network, see `l1_first` below, whose
specification `CommandSpec` is fair to the steps of that command (`CommandStep`) and
to nothing else. Edits and failing transactions are finitely many but never
required.

### Where the code and its words differ

Three runs expect a violation. Each checks what a comment or a document says:

* `entire_value` - chunks of a long value lose their leading zero bytes
  (`EVMProofHelper.sol:110-113`), so the "entire value" of `EVMGateway.ts:64-66`
  is not what is returned. `Sound` and `Completes` leave such values out
  (`WholeWords`) for this reason.
  `AnswersRecord` does the same for records of `L1Resolver`.
* `caches_blocks` - a null answer is cached (`ArbProofService.ts:154-155`).
* `l1_first` - `arb-verifier/README.md:35-38` deploys with `hardhat deploy` on L1 `&&`
  on L2, although `10_testl1.ts:12` needs the `TestL2` of the L2 run. From an empty
  directory (`deployments` is ignored by git) the L1 run fails, the L2 run never
  begins, and the command does not get further however often it is repeated.
  `CommandDeploys` is the conclusion of `Converges`, whose condition `Repeated` this
  command does not meet; when they are repeated, those of `op-verifier/README.md:11-21` do.

Read off the code, without a run:

* An empty storage trie has an empty proof, which `MerkleTrie.sol:115` rejects;
  `EVMProofHelper.sol:58` says nonexistent values are zero. `Completes` asks for
  a `Provable` root.
* A new cache hits for node 0 and gives the empty block it was made with
  (`InMemoryBlockCache.ts:10-12` and `21`), where `IBlockCache.ts:8` promises null.
  `Serves` leaves node 0 out: the request fails with either answer.
* The constant after the 32nd is written over the request and its index is read
  as a reference (`EVMFetcher.sol:215-222`, against line 112).
* `ref` accepts the current and the next fetch (`EVMFetcher.sol:185`, against
  line 177); the gateway then rejects the request.
* The byte 0x70 that `EVMGateway.ts:80` lists as `halt` is an unrecognized
  opcode; only 0xff ends a command (line 180).
* `hashStack` (`EVMGateway.ts:85-89`) puts the hash of the earlier elements before
  the new one; the code (line 187), the verifier and Solidity put it after.
  `Keccak` is the code's order.
* `crosschain-resolver/deploy_l1/10_l1resolver.ts:16` passes one argument to the
  constructor of `L1Resolver`, which takes three (`L1Resolver.sol:49-53`);
  `01_l2resolver.ts:22` awaits `factory.wait()`, which the result of `deploy` does
  not have; `02_l2resolver_factory.ts:7` asks for the companion of a network that
  has none. The scripts of that package therefore never succeed, and `Converges`
  leaves it out.

## What is proved

All theorems hold for every value of the constants that satisfies the named
`ASSUME`s, which TLC evaluates on the instances. Every invariant, action property
and refinement of the passing runs is a theorem, but for `BuildsCurrent`.

* `EVMProofHelper_proofs`: `TypeCorrect`, `Soundness` and `Refinement`. `Sound`
  speaks only of finished results. The invariant `IInv` adds what the call knows
  while it works: the slot is the chain of the first `j - 1` instructions; in the
  loop over a long value, the bytes collected so far are a prefix of the value and
  `length` is what is left; results of later commands are still empty. A finished
  result is not touched again and was computed from earlier ones only, so it stays
  authentic. The refinement maps every step to a stutter except `Return` (an answer,
  by `Sound`) and the reverts (a failure).
* `StorageFetch_proofs`, on `EVMGateway` first:
  * `ValuesAreOne`. Two paths are compared at the moment that they were pushed to,
    which may be far apart; the invariant `MemoInv` compares each with the present:
    what a path has at a reference is the value the promise referred to *now* has
    (as a number, where the reference is the start of the path), which is ready. A ready value never changes again, because `value` is called
    once and only words being read are written.
  * `GatewayTypeCorrect`. A value is the concatenation of its words, cut at its
    length. That the cut lies within the words is `Sized`, kept from the moment the
    slots are known to the moment the last word arrives.
  * `CreateProofsServes`. `ServesInv` says of every promise what it has done of what
    the request means (`Good`): its path is hashed from the right elements, it
    resolves to the slots of its value, and each word that has arrived is that of
    the storage. A ready value is then the one `Results` gives (`ReadyValue`), which
    is what the paths of later commands need.
* `StorageFetch_proofs`, on the whole read:
  * `WholeRead`, the refinement of `AuthenticRead`. The verifier's part instantiates
    `EVMProofHelper_proofs` (`P`) with the response that the gateway made; `ReadInv`
    says that `IInv` holds from the callback on and that the header is the
    committed one. Everything before the callback is a stutter or a failure.
  * `ReadCompletes`. `Completes` counts storage proofs only at the end, so
    `CourseInv` counts them all along: before command n + 1, as many are used as the
    first n commands have slots (`Used`), and in the loop over a long value one for
    the head and one for each chunk. The storage proof that comes next is then the
    one the verifier asks for. That both sides computed the same slots follows from
    `Sound`: earlier results are authentic, and an authentic result of a value made
    of whole words is unique (`ValuesAgree`).
* `EVMFetcher_proofs`: `FetcherTypeCorrect`, `FetcherFaithful`. The invariant
  `FInv` says that finished commands encode their fetch, that the last one
  encodes it up to `operationIdx`, and that constants are not overwritten before
  the array overflows; after that no request is sent. Instruction bytes decode
  to what was put in because of the widths in `SizeAssumption` and
  `FetcherAssumption`.
* `ArbProofService_proofs`: `ArbTypeCorrect`, `NodesAreNotMixed`, `ArbServes`.
  `OneNode` is not inductive: a request between its event query and the answer
  carries an assertion that is not yet a block in the cache, and one before its
  query carries none; `Recorded` and `Early` say so. `Serves` needs three facts
  more (`ServesInv`): canonical blocks have distinct numbers, and while nothing is
  reorganised the record of assertions is the rollup (`Canonical`); what the cache
  holds is a block the L2 node has, or its node is an excuse (`Here`); and so for
  every request after its lookup (`Good`).
* `OPProofService_proofs`: `OPTypeCorrect`, `AnswersTheOutput`, `DelayServes`.
  `AnswersOutput` follows in the one step that answers: the output root binds the
  header, the header the proof. `Serves` needs `ServesInv`: the output asked for
  is as far from the last as the delay, but for those deleted since (`Ahead`), so
  while no more than the delay is lost it is still there, is what was claimed, and
  its block is known (`Claimed`); everything read of a right claim is of that
  block (`Read`).
* `L1Gateway_proofs`: `TypeCorrect`, `AnswersAreRecent`, `FewApps`,
  `GatewayServes`. Every step is one of the process or one of the service
  (`StepKinds`), and the two share only the count of faults. `AppsAreFew` is made
  inductive by counting the requests that are still going to make an app
  (`Making`); `Serves` by what a request has read (`Fine`) and by the fact that an
  app that is there has its gateway (`RoutedInv`).
* `MerkleTrie_proofs`: `TrieSoundness`, `TrieTypeCorrect`, `TrieCompleteness`. The
  invariant `TrieInv` is the walk's own argument: at every turn, the value searched
  for is the value below `currentNodeID` at what is left of the key. When nodes run
  out something of the key is left, so an answer needs a dead end. `PathInv` adds,
  for a proof that is the path of its key, that the walk is at the position of the
  key where the path has its next node, and that what is left of the key is the
  `Height` of that node: so an extension never reaches beyond the key, and the walk
  is at the path's end when the nodes are.
* `L1Resolver_proofs`: `TargetsFromAbove`, `RecordIsAnswered`,
  `ResolverTypeCorrect`. What `getTarget` finds is the target of the longest
  suffix that has one, or none; `FoundChanges` compares two solutions of its
  recursion by induction over the labels. A call that is under way
  carries the commands of its query (`Asks`); that the second command's reference
  to the first leads to the record of the current version is `CommandSlots`; that a
  record of whole words is extracted as it is, chunk by chunk, is `WholeIsExtracted`.
  Of records with a data word that starts with a zero byte nothing is claimed: what
  is answered then is not what L2 has. Nor is it of an `addr` record that is neither
  empty nor an address, which `addrCallback` cuts or fills up and L2 rejects.
* `RunIsEnough`, on `Deployment`, also in `L1Resolver_proofs`. A run has deployed
  the scripts up to some position (`After`), and while nothing changes these stay
  current: a script refers only to contracts of earlier ones (`ScriptFacts`), and
  no later script deploys one of them again.

The induction over data that these proofs need (concatenations, the results of the
first n commands, numbers of words, labels) is done on sets of numbers: a set that
holds 0, and n + 1 with n, holds all of `Nat` (`SetInduction`). That a
recursive definition has a solution is such an induction too (`Recursion`, `Found`).

Assumptions: no collisions of keccak256 (in the representation of slots, nodes,
blocks and output roots); `SizeAssumption` (a word has at least 3 bytes, and an
instruction's operand and opcode share a byte); `StoreAssumption` (a trie holds
words without leading zeros); `NodeAssumption`, `TrieAssumption`, `HoldsAssumption` and
`HeightAssumption` (what nodes are, a trie refers to its own nodes, what it holds,
and keys are of one length); `ChainAssumption` (a block has a state, a state a
sequence of slots); `ResolverAssumption` (names are sequences of labels, the
NameWrapper is not the first owner, records are sequences of numbers, and a word has
more than one byte); `DeploymentAssumption` (the three packages); the
bounds are natural numbers. Nothing is assumed of how large they are.

Two properties had to be made precise to be proved. `Serves` and `Completes` ask
that the values of the state fit (`Fits`): for a small `MaxWords` the gateway gives
up longer values, as `Array()` does in the program, and `Completes` does not hold.
`AcceptsPaths` speaks of tries whose keys have one length, as hashed keys do: `get`
reverts at a leaf or an extension whose path is longer than what is left of the key
(`PathTooLong`), and so would on the true path of a shorter key.

Only model-checked: liveness, that is `Settles` (of `EVMGateway`, `OPProofService` and
`L1Gateway`), `Ends` and `Converges`, since the prover does not reason about `ENABLED`,
which fairness is made of; and `BuildsCurrent`, about the one list of workspaces that
there is.

## What is not modelled

* ABI encoding and decoding of requests and responses, RLP and the layout of
  headers: they are inverse to each other or libraries. Where a conversion loses
  something (leading zeros, lengths) it is modelled.
* `SecureMerkleTrie`'s hash of the key (the keys of `MerkleTrie` are hashed keys),
  and the trie walk inside `EVMProofHelper`, which uses what `MerkleTrie` shows
  of it.
* Nodes that are confirmed or destroyed in the Arbitrum rollup: the gateway asks
  for the latest node created only, and `confirmData` is kept.
* The storage proofs behind `ArbVerifier` and `OPVerifier`, which are those of
  `EVMProofHelper`: there the state root is what is checked.
* `Number()` of lengths from 2^53 on; `MaxWords` is where arrays end.
* Tests and generated ABIs, which keep no state of the system. Of
  `rollupABI.ts` only the event `NodeCreated` is used, as `Assertion` of
  `ArbProofService`.
* Hosts, ports and other settings, apart from those that decide whether a server
  listens (`host`) and what a script passes on (`Setting`).

## Order of the modules, and what could follow

The modules build on each other in this order: `StorageVM`, `StorageRead`,
`AuthenticRead`, `EVMProofHelper`; `EVMGateway`; `StorageFetch`; `EVMFetcher`;
`ArbProofService`; `MerkleTrie`; `TargetChain`, `OPProofService`; `L1ProofService`,
`GatewayApp`, `L1Gateway`; `L1Resolver`; `Deployment`, `DeployCommand`; `Workspace`,
`Developer`. Each has its proofs in a
module of its own where it has any, but for `EVMGateway` (in `StorageFetch_proofs`)
and `Deployment` (in `L1Resolver_proofs`, which extends both).

What could follow: a theorem that `TargetChain` under `L1Gateway` and
`OPProofService` implements an abstract chain of which `AuthenticRead`'s committed
state is the newest acceptable block, so that the services and `StorageFetch`
compose; and a theorem for how long the values are that a gateway can serve.
