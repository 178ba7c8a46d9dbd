# TLA+ models of the AWM relayer

The relayer watches source chains of an Avalanche network, collects BLS
signatures of their validators for the Warp messages it finds, and delivers the
signed messages to destination chains. This directory holds models of it: the
start from a configuration, the routing of messages to application relayers, the
checkpoint that says which blocks are done, the pipeline from a subscription to
that checkpoint, the way of committed heights to the disk, the signature
aggregation, and the delivery to a destination chain. TLC checks them on small
instances; TLAPS proves the most important invariants and refinements for every
value of the constants.

## 1. The system

| Part | Source | State | Operations |
|---|---|---|---|
| Subscriber | `vms/evm/subscriber.go` | headers channel, subscription | `Subscribe`, `ProcessFromHeight` (catch-up), `processBlockRange` |
| Listener | `relayer/listener.go` | health flag, current subscription | `processLogs` (headers, errors, catch-up result), `reconnectToSubscriber` |
| Message coordinator | `relayer/message_coordinator.go` | routing tables (static) | `ProcessBlock`, `ProcessWarpMessage`, `ProcessMessageID` |
| Application relayer | `relayer/application_relayer.go` | none of its own | `ProcessHeight`, `ProcessMessage` |
| Checkpoint manager | `relayer/checkpoint/checkpoint.go` | committed height, heap of pending heights | `StageCommittedHeight`, `writeToDatabase` on each tick |
| Configuration | `relayer/config` | static | `Validate`, `InitializeWarpQuorums` |
| Start-up | `relayer/main`, `relayer/network_utils.go` | clients, connections, application relayers | `InitializeConnectionsAndCheckStake`, `createApplicationRelayers` |
| Relayer IDs | `database/relayer_id.go` | none | `CalculateRelayerID`, `GetSourceBlockchainRelayerIDs` |
| Database | `database/` | one row per relayer ID; files or Redis | `Get`, `Put`, `CalculateStartingBlockHeight` |
| Ticker | `utils/ticker.go` | subscribers, lock | `Run`, `Subscribe` |
| Message handlers | `messages/teleporter`, `messages/off-chain-registry` | none | `ShouldSendMessage`, `SendMessage` |
| Destination client | `vms/evm/destination_client.go` | `currentNonce`, lock | `SendTx` |
| Signature aggregator | `signature-aggregator/aggregator` | signatures and weight of a call, cache | `CreateSignedMessage` |
| External handler | `peers/external_handler.go` | response channels, counts, timeouts, lock | `RegisterAppRequest`, `RegisterRequestID`, `HandleInbound` |
| App request network | `peers/app_request_network.go` | tracked peers | `ConnectPeers`, `ConnectToCanonicalValidators`, `Send` |
| Canonical validator client | `peers/validators` | none | `GetCurrentCanonicalValidatorSet` |
| APIs, signers, metrics | `relayer/api`, `signature-aggregator/api`, ... | none | request handlers |

How they interact: main validates the configuration, fetches the quorum of each
destination, connects to the validators that will sign, and creates one
application relayer, with a checkpoint manager, for each relayer ID. The listener receives headers and the results of catch-up,
the coordinator starts one goroutine per application relayer and block, and each
goroutine relays the block's messages concurrently and stages the height. Staged
heights are committed in order and written to the database at every tick. After
a crash the next run starts from the row. Relaying one message means asking the
destination chain, collecting signatures over the peer-to-peer network with
retries and timeouts, sending a transaction with a nonce kept in memory, and
waiting for its receipt.

What makes it hard: blocks finish in any order; catch-up and the subscription
overlap; connections break and are made again; the process dies between
committing and writing; one request ID serves several attempts, so late answers
meet new channels; timeouts race answers; the handler sends with its mutex held;
nonces live in memory while the mempool may forget; the ticker sends with its lock
held; a restart may change the allow lists under a database that stays. `PROJECT.json` lists these
hazards with their lines and the properties that would catch them going wrong.

## 2. Modules

| Module | Models | Proofs |
|---|---|---|
| `CheckpointOps` | the pure parts: heap, commit rule, write rule, starting height | |
| `Stake` | sums of stake and the comparison with a quorum | `StakeProofs` |
| `AbstractCheckpoint` | what a checkpoint promises: a stored height that only covers processed blocks and never decreases | |
| `CheckpointManager` | `checkpoint.go` with restarts under changed configurations | `CheckpointManagerProofs` |
| `RelayerProcess` | subscriber, listener, coordinator, `ProcessHeight`, checkpoints and database of one source chain | `RelayerProcessProofs` |
| `AbstractDatabase` | what the database promises to the checkpoint managers; the Redis database | |
| `CheckpointStorage` | ticker, write goroutines, JSON file storage, creation of the managers | `CheckpointStorageProofs` |
| `RelayerIDs` | configuration, its validation, relayer IDs, the lookup of an application relayer | `StartupProofs` |
| `Startup` | main up to the application relayers: Warp quorums, validator sets, connections, stake check | `StartupProofs` |
| `Routing` | `Startup` composed with the coordinator, the API, checkpoints and rows, and restarts with another configuration | `RoutingProofs` |
| `ExternalHandler` | channels, counts and timeouts of one request ID | `SignatureAggregatorProofs` |
| `SignatureAggregator` | an API request and its `CreateSignedMessage` call with the handler and the network | `SignatureAggregatorProofs` |
| `MessageDelivery` | `ProcessHeight` and `ProcessMessage` message by message, handlers, destination client, mempool | `MessageDeliveryProofs` |
| `MCSignatureAggregator`, `MCMessageDelivery`, `MCCheckpointStorage`, `MCRouting` | constants for TLC | |

Definitions named in `map` of `PROJECT.json` carry the lines they translate.
Definitions whose comment begins with "A mutant" or "Mutant" are variants of the definition after
them with a plausible bug; they are not part of any specification.

### Checkpoint

`CheckpointManager` has the committed height, the heap as a bag (a height may be
staged twice), the stored row and the set of processed heights. `Restart`
forgets the memory and computes the starting height from the row and the
configuration (`process-missed-blocks`, `process-historical-blocks-from-height`).
It implements `AbstractCheckpoint`, checked as the property `AbstractSpec` and
proved as `Refinement`.

### Process

`RelayerProcess` composes the pipeline. One `ProcessBlock` step stands for the
receipt of a header and the dispatch to all application relayers: the dispatch
touches nothing another goroutine reads before the relayers run, so it commutes
to the left. Relaying is one step that succeeds, fails or is never taken; its
inside is `MessageDelivery`. A catch-up that has fetched a header waits for room in
the channel and cannot fail meanwhile. For each application relayer the process implements
`CheckpointManager` (`ImplementsCheckpointManager`), so the theorems about the
checkpoint apply to what the process stores. Two relayers with different rows
start from the smaller height, and the one that is ahead stages old heights.

### Storage

`CheckpointStorage` opens up what `RelayerProcess` takes for one step, a write to
the database. Each checkpoint manager's goroutine waits for a tick, reads the file
and, if its height is higher, puts it: update `currentState`, truncate the
temporary file, fill it, rename it, each a step at which an operation may fail or
the process die. The ticker sends to the subscribed managers in turn, with its
lock held, while main is still creating managers; `Subscribe` needs that lock. A
configuration that lists an address twice gives two managers with one relayer ID,
and only the later one is given heights (`Registered`). A run may begin at a chain
head behind the row, when `process-missed-blocks` is off or the node lags. The
files implement `AbstractDatabase`: a row changes atomically, to a value that a
manager is putting, and survives a crash.

### Start-up and routing

`RelayerIDs` has the configuration as a record with two lists, its validation, the
relayer IDs it defines (four-tuples for the hash of four parts) and
`getApplicationRelayer`, which tries four keys. `Allows` states the same from the
allow lists alone, and `Covers` says which messages an ID is there for. A source
without a list of destinations gets all of them, in the code in no particular order;
the model takes them in that of the configuration, and no property is about the order.

`Startup` takes main step by step, any of which may end the process. A validator
set comes from `getValidatorsAt` or, in the fallback, from two calls between which
the P-chain may move. `ConnectPeers` returns what the peer list of the API node
and the failures of the info API make possible. `backed` records, apart from the
code's own sum, for which source, destination and subnet the stake of the
connected validators sufficed.

`Routing` adds blocks with messages, the coordinator, the API, one checkpoint per
relayer ID and the rows. A block with a log that is no Warp log fails as a whole; a
message without a handler or a relayer is skipped. `Restart` chooses any of the
configurations, so rows written under one allow list are read under another.
Here a run processes a height once and the heap is a set; heights processed twice
are in `RelayerProcess`.

### Aggregation

`SignatureAggregator` begins with the HTTP handler, which refuses a bad request and
puts in the default percentage, and follows the call through its attempts: register the
timeouts, register the request ID, send, read responses until every reached node
is counted or the channel closes, sleep, try again. Every request that arrives is
answered on its own, also when its attempt is over, and at most once: the handler
would take a second answer like the first, and that peers send none is assumed of
them. A timer expires in one step
and its callback runs in another, as the timeout manager releases its lock in
between. A timer does not expire between `RegisterAppRequest` and
`RegisterRequestID`, which are a few instructions apart while a timeout takes
seconds; a late answer can arrive there. `connected` counts nodes, and the
connected weight adds a validator's weight once per node, as the code does.
`TotalValidatorWeight` includes stake without a BLS key.

### Delivery

`MessageDelivery` follows each `ProcessMessage` call of one block, and calls the
HTTP API starts for the same messages, through the handlers and the destination
client. The chain is a mempool, the account's transactions in nonce order and the
set of delivered messages. A transaction may replace one of its nonce, be
dropped, or revert. `disturbed` records that the nonce in memory may be out of
step: after a lost answer, a dropped transaction or a restart with pending
transactions.

## 3. Runs

| Run | Shows |
|---|---|
| `checkpoint` | commits and writes cover only processed heights, the row never decreases, the next height waits in the heap only behind a duplicate, the abstract checkpoint is implemented |
| `process` | no block is lost silently, none is dispatched more than twice, a failed or missed block holds the checkpoint, `CheckpointManager` is implemented; catch-up, subscription and listener never block each other for good, and every block reaches the application relayers unless the process ends, an error is raised for it or a resubscription skips it |
| `storage` | files stay readable, the registered manager never lowers a row, the ticker waits only for a manager that runs or is run next, the abstract database is implemented; start-up ends and committed heights reach the file |
| `routing` | no warning means a connected quorum of signers, only allowed messages are relayed, a row means that what its ID covers was relayed |
| `aggregator` | sends have room, a failure never hides a quorum, and, when no answer crosses attempts, a signature has one, each awaited node has a timeout or an answer ahead of it and the handler's entry a timer; the call returns and its entry is cleared, with the exceptions named in the properties |
| `delivery` | a staged block is delivered, while nothing is lost nonces are contiguous and a call waits for a transaction of its own that exists, every block is staged or reported as failed unless a call waits for signatures |
| `stalled_checkpoint`, `starting_block`, `health`, `double_count`, `lost_timeout`, `hex_ids` | where the code and its documentation disagree, see section 5 |

Bounds, and why they are enough:

- `checkpoint`: five heights let one height wait for another, be duplicated, and be
  passed; restarts are unbounded and take any configuration.
- `process`: a chain of heights 0 to 3 and a start at height 1, the configured
  historical height. Blocks 2 and 3 lie above it, so that block 3 is relayed while
  block 2 failed or was skipped, and waits for it in the heap.
  `process-missed-blocks` is set, which is the case with a catch-up range. One
  restart gives a resumed run. A headers channel of one slot is full as soon as
  catch-up or the subscription has sent, so that each waits for the listener. One
  goroutine at a time waits to report an error. There is one application relayer:
  with two, three heights already have ten million states. The safety properties of this run
  are proved for any number of relayers, and `routing` has relayers that fail a block
  others relay.
- `storage`: two managers that share a relayer ID, which includes what two with
  different IDs do to the ticker; one restart, one failed file operation and three
  heights let a write fail, be repeated, and meet an older one.
- `routing`: a chain of a subnet and the C-Chain, two blocks, three messages (one
  that only a wildcard covers, one whose log is invalid) and one restart. The eight
  configurations have all four kinds of relayer ID, a destination listed twice, a
  source on the primary network, an invalid one and a hex-encoded one. Three nodes,
  one of which leaves the primary network, let the fallback lose a key.
- `aggregator`: two validators, one of weight 2 with two nodes, and a total of 4,
  one unit without a key. One validator is no quorum and both are one at the
  default of 67%, which the request's 0 stands for. 80% is more than can ever sign,
  but not more than the connected weight, which counts two nodes: such a call
  starts, all validators sign, and its next attempt expects no response. 101 is
  refused. Two attempts let an answer cross attempts. `double_count` and
  `lost_timeout` use 67% and 90%.
- `delivery`: a Teleporter message with an additional API call, an off-chain
  registry message and a message for other relayers, with one restart: up to
  three transactions compete for nonces before and after the restart.

`CHECK_DEADLOCK FALSE` (all runs but `checkpoint`): a process with its blocks
done or its restarts used up, a call that returned, or a block that is decided, has
nothing more to do.

Fairness. Goroutines are scheduled (weak fairness on the listener, catch-up,
handlers, the ticker, the managers, the call and its timers), and calls of an RPC
node return. In `storage` the ticker takes its lock again and again, so `Subscribe`
is strongly fair: Go's `sync.Mutex` hands itself to a waiter that has waited for a
millisecond. Nothing is assumed of `CreateSignedMessage`, which has no deadline and
may wait for ever (`lost_timeout`): `process` has no fairness on relaying a block,
and `HeightDecided` of `delivery` allows a call that waits for signatures. A send to
a full channel is not enabled, so fairness does not end it. Answers of validators
are fair only on a network that is not lossy. Nothing is assumed of the destination
chain.

## 4. Proofs

The theorems hold for every value of the constants that satisfies the modules'
assumptions. Each rests on an inductive invariant, which says more than the
property because the property alone is not kept by every step.

- `StakeProofs`: lemmas for the other modules. A sum of stake (`StakeOf`, a fold) does not depend on the order in
  which validators are added (`StakeOfRemove`), grows by the weight of a new validator
  (`StakeOfAdd`), depends on the weights of the members only
  (`StakeOfSameWeights`) and is larger for a larger set (`StakeOfSubset`), so a quorum
  stays one when signatures are added (`QuorumGrows`). Induction over finite sets takes the form of a least
  counterexample (`MinimalSubset`, from the well-foundedness of the subset order).
- `CheckpointManagerProofs`: the inductive invariant says that every height up to
  the committed one, from where the run started, is processed, that pending
  heights are processed, and that the row is covered. Types, the two safety
  invariants, monotonicity of the row and the refinement follow. Two more theorems
  are about when the checkpoint stops: `StallsBehindDuplicates` says that the next
  height waits in the heap only behind a copy of a committed one, and
  `NoDuplicatesNoStall` that it never waits if no height is staged while it is pending
  (`MaxCopies = 1`). So the duplicates of `stalled_checkpoint` (section 5) are the
  only cause of a stall.
- `SignatureAggregatorProofs`: for every validator set, weights, quorum and number of
  attempts. `SendsNeverBlock` relates the registered entry to the count and the
  channel (a registered entry is open, has received fewer than it expects, and holds
  at most what it received). `AggregatorTypes` needs that the loop waits only while a
  response is outstanding (`Counts`). `FailureIsNoQuorum` needs that the accumulated
  weight is never below the stake of the signatures and does not suffice while the
  call goes on (`Weights`). For `SignedIsQuorum` the two are equal: as long as no
  message crosses attempts, a signature that is buffered or still to come is of a
  validator that has not signed, and there is one of each (`Fresh`, `CountedOnce`,
  with `OnTheWay` for what the network holds). `TimeoutsAreRegistered` is the safety
  half of `ReturnsUnlessStray`: whoever the call waits for has a timer, an expired
  timer or a message on the channel. Its invariant orders timers by attempt, allows
  one running callback, and has a fresh timer for each queried node when the requests
  are sent (`Timed`, `Armed`). `EntriesAreCompleted` is the safety half of
  `EntryCleared` and holds after the call returned, too: the nodes with a timer ahead
  are at least as many as the responses the entry lacks (`Covered`). An `AppError` of a
  peer counts as a response and leaves its timer, so the two numbers need not be equal.
- `MessageDeliveryProofs`: `StagedSafe` rests on three facts that every step keeps:
  final tasks that did not fail have a delivered, rejected or registry message,
  successful transactions have delivered theirs, and a staged block's tasks are
  final. `NoncesSafe` shows that `SendTx` extends and `Mine` shortens the range of
  nonces in the mempool by one. `WaitsAreMet` rests on it: a new transaction has a
  nonce no other one has, so it replaces none, and what leaves the mempool is mined.
- `RelayerProcessProofs`: for every set of application relayers, length of the chain,
  capacity of the headers channel and number of restarts and errors. The invariant
  adds to `NoBlockLost` that nothing in the pipeline is beyond the chain, that a
  process which has not subscribed has dispatched nothing, a count of the ways a block can still
  be dispatched (`AtMostTwoDispatches`), and that the heights between a run's start
  and a checkpoint are relayed (`Covered`). From it follow types, `NoBlockLost`,
  `AtMostTwice` and `MissedHoldsCheckpoint`. The refinement shows that each step is,
  for each relayer, a step of `CheckpointManager` or a stutter. Two results are about
  the whole process and have no run. `ProcessKeepsPromise` says that for each relayer
  it is an `AbstractCheckpoint`; it is proved from the process's own invariant, as the
  prover cannot cite theorems of an instance with a parameter. `StallsNeedDuplicates`
  says that, up to the first restart, a relayed block that is next to be committed
  waits only behind a second copy of a committed height; its invariant has each relayed
  height above the committed one in the heap (`RelayedIsPending`) and the commit loop
  run to its end (`LoopEnded`). The bounds of `process` are too small for a stalled
  checkpoint with the overlap that causes it, so a run of it would show little.
- `CheckpointStorageProofs`: for any managers and any sharing of IDs. The invariant
  says that at most one manager of an ID is inside `Put` and that a manager about to
  rename has filled the temporary file with its own height; so the file is never
  torn, and `Rename` is the abstract `Put`. A second invariant orders heights and
  rows: managers of one ID all start at the same height, a replaced one stays there,
  and a registered one that decided to write is not behind its row; so only a
  replaced manager lowers a row. `TickerIsServed` is the safety half of
  `StartUpCompletes`: all managers subscribed before the one main is creating run
  (`SubscribedRun`), so the ticker never holds its lock for a manager whose creation
  needs that lock.
- `StartupProofs`: `LookupMatchesAllowLists` says that the four-key lookup finds a
  relayer exactly for what the allow lists let through, and `AtMostOneKeyRegistered`
  that it has one candidate if destinations are listed once. The rest is the
  invariant of the start (`SInv`) and its steps: while main goes through sources and
  destinations, those behind it are backed unless it warned (`Backing`). This needs
  that no Warp quorum in use is zero or above 100 (`Quorums`) and that the loops stay
  within their lists (`Loops`). The code adds a canonical validator's weight once per
  connected node; without shared keys each has one node, and the sum is the stake of
  the connected validators.
- `RoutingProofs`: for any chains, addresses, configurations and messages.
  `RowsMeanRelayed` rests on an invariant per relayer ID: up to the committed
  height and for every staged height what the ID covers is relayed, and a row never
  exceeds what that establishes, across restarts with any configuration. The step
  that needs `AtMostOneKeyRegistered` is `ProcessHeight`: what an ID covers is what
  the lookup gives it. `UnwarnedIsBacked` follows from `SInv`, which the steps of the
  coordinator leave alone, and `RoutingTypes` from both invariants.

Layout. The step lemmas about stake are stated under a hypothesis that collects the
facts about sums and finite sets they use (`StakeFacts` and `CountFacts` in
`SignatureAggregatorProofs`, `FiniteFacts` in `StartupProofs`). `StakeFactsHold`,
`CountFactsHold` and `FiniteFactsHold` prove them from `StakeProofs` at the end of the
development, and no theorem listed in `PROJECT.json` has one. This keeps the context
of most leaves small. Zenon is the default prover of these modules; leaves with
arithmetic name SMT.

Assumptions on the constants, all named in the modules and evaluated by TLC in the
runs: their types and the bounds of the models; finite sets of validators; in
`PChainAssumption`, validators that are nodes, with weights that are naturals and some
stake in each subnet; in `ChainConfigAssumption`, quorum numerators up to 100, which a
chain checks of its own Warp configuration; in `ConfigsAssumption`, that no chain is a
source twice.

Only model-checked: liveness (`EveryBlockDispatched`,
`Returns`, `ReturnsUnlessStray`, `EntryCleared`, `HeightDecided`, `StartUpCompletes`,
`CommittedReachesFile`), as the prover handles neither `ENABLED` nor fairness; and the
properties the violation runs refute. Every invariant, action property and refinement
that a passing run checks is also proved.

## 5. Disagreements between code and documentation

- `stalled_checkpoint`: a height staged twice while it is pending leaves a copy at
  the top of the heap that no longer equals the next height, and nothing commits
  after it until a restart. It happens when catch-up and the subscription both
  deliver a block, which the comment at `vms/evm/subscriber.go:91-94` wants to
  avoid; `AtMostTwice` bounds it, and `StallsNeedDuplicates` shows that in a first
  run nothing else holds a checkpoint below a relayed block that is next.
- `starting_block`: the starting height counts as committed before its block is
  processed, so a block that fails there is not processed after a restart.
- `health`: reconnecting sets the health flag to true, whatever made it false.
- `double_count`: two answers of one validator to two attempts count twice, and
  the aggregate may have less than the quorum of the stake.
- `lost_timeout`: an answer to an earlier attempt handled between the registration
  of timeouts and of the request ID removes a timeout, and its answer is dropped.
- `hex_ids`: a destination with IDs in hex passes `Validate`, and the fetch of its
  quorum, which parses the same text as cb58, ends the start.

Two more that no run shows: a timeout and an answer of one node fill two slots of
the channel, so an attempt may end before each node responded
(`aggregator.go:319`); and a message without a channel is dropped without
`OnFinishedHandling` (`external_handler.go:192`).

Two limits of properties that hold. `RowMeansRelayed` needs configurations that list
a destination once per source: with a second entry, with and without addresses,
the more specific ID takes its messages, and the row of the other counts the
block although a later run without the second entry would take the row to stand
for them. The comment at `message_coordinator.go:109` asks for that uniqueness and
`Validate` does not check it. `RowNeverLowered` excepts a manager that another one
of its ID has replaced, since both write the row.

## 6. Not modelled

- Metrics, logging, signers and the decoding of requests and logs are stateless or
  I/O. A block or a request that cannot be decoded is an outcome of the models.
- Batches of catch-up requests do not change the order of headers.
- The cancelled context of a listener needs a second source chain in
  `RelayerProcess`; main then ends all listeners, which is `Restart`.
- Concurrent `CreateSignedMessage` calls. They have different request IDs and share
  the handler's mutex, which `lockHeld` stands for, and the cache, a Go map written
  without a lock: what that does is undefined and nothing can be shown past it.
- The handler's throttler (`OnFinishedHandling`), and calls of an RPC node that never
  return while a lock is held: time without an answer is outside the models.
- A chain that is listed as a source in both encodings: `Validate` compares texts and
  lets it through; `ConfigsAssumption` leaves it out.
- Power failures: the temporary file is renamed without `fsync`. The crash in
  `CheckpointStorage` is the death of the process.
- The limit on subnets, the write interval and the URLs of the configuration, which
  only end the start.
