# TLA+ models of the cryptonote node

This directory holds TLA+ models of the node in this repository, the TLC
configurations that check them on small instances, and TLAPS proofs of the
properties that matter most. Names follow the code: a variable `m_outputs` is
the member `m_outputs`, an action `LoadTransactions` is the function
`loadTransactions`. `PROJECT.json` lists, for every definition that models code,
the lines it stands for.

## 1. The system

A node keeps a main chain of blocks, the blocks it knows beside it, and a pool
of transactions that wait for a block; it exchanges blocks and transactions with
peers, serves wallets, and mines.

| Component | State | Operations | Talks to |
|---|---|---|---|
| `core` | none of its own | `add_new_tx`, block acceptance, `get_block_template`, `init`, `deinit` | owns pool and blockchain, takes both locks |
| `Blockchain` | `m_blocks`, `m_blockIndex`, `m_transactionMap`, `m_spent_keys`, `m_outputs`, `m_multisignatureOutputs`, `m_alternative_chains` | `addNewBlock`, `pushBlock`, `popBlock`, `handle_alternative_block`, `switch_to_alternative_blockchain`, `rollback_blockchain_switching`, `rebuildCache` | takes transactions from the pool and returns them; sends messages |
| `TxMemoryPool` | `m_transactions`, `m_spent_key_images`, `m_recentlyDeletedTransactions`, pool file | `add_tx`, `take_tx`, `fill_block_template`, `removeExpiredTransactions` | asks `Blockchain` to check inputs |
| `Checkpoints` | `m_points` | `isCheckpoint`, `check`, `isAllowed` | asked by `Blockchain` |
| `BlockAccessor` | items file, index file, offsets, cache | `push_back`, `pop_back`, `clear`, `operator[]`, `init` | is `m_blocks` |
| block index, block cache | hashes of the main chain; a cache file | `push`, `pop`, `load`, `save` | `Blockchain` |
| secondary indexes | payment ids, timestamps, generated coins, orphans | `add`, `remove`, `find` | explorer queries |
| `Currency`, difficulty | parameters | reward, next difficulty, fusion tests | all of the above |
| protocol handler | one context per connection, observed height, peers | notifications, requests and responses for chains and objects | `core`, p2p; yields between blocks |
| p2p node, peer list | connections, white and grey lists | handshake, timed sync, ping, connect loops | protocol handler |
| miner | template, nonce, worker threads | set, start, pause, stop | `core` |
| `System` | run queues, contexts, events | spawn, yield, interrupt, wait | everything that does I/O |
| message queues, observers | queues, lists of observers | push, pop, stop, notify | explorer, RPC, in-process node |
| transfers, `BlockchainSynchronizer` | current and future state, consumers, containers of transfers | start, stop, block and pool synchronisation | wallets, node interface |
| wallets | keys, transactions, caches | send, save, load | transfers |
| `InProcessNode`, `NodeRpcProxy` | last known state of a node | asynchronous requests | wallets |
| RPC, HTTP, payment gate, explorer | none that matters | translation of requests | `core`, wallets |

Where the difficulty lies. A block is accepted by moving its transactions out of
the pool and, one by one, into four indexes that must stay images of the chain. A
reorganisation does this backwards for the old blocks and forwards for the new
ones, and when one of those fails it does everything again in the other
direction; at any point a function may return, throw, or the process may end.
Blocks go to the files at once, the pool only at a clean shutdown, alternative
blocks never. `core` takes the pool lock and then the blockchain lock around
each operation, so that operations do not interleave with each other, but each
of them is a long sequence of steps with many exits. Higher up, everything that
talks to peers runs in contexts that share one thread and give it up at each call
that waits; the miner, the consoles and the synchronizer of a wallet are threads.
A connection, a list, a template or a chain that was looked at before such a point
may be another one after it, and a stop may come at any of them.

What makes each part correct:

* chain: what is stored is a chain from the genesis block; no key image is spent
  twice; work does not decrease; a checkpointed block stays; a switch happens
  completely or not at all; messages let a reader rebuild the chain;
* indexes: each is a function of the main chain, after any history;
* pool: indexed exactly, disjoint from the chain, loses no transaction in a
  switch;
* storage: a stack that a crash cannot damage, or can damage in a known way;
* synchronizer: a consumer keeps a path of the block tree; no notification and no
  task is lost; `stop` returns; what the node has arrives;
* transfers: the outputs and the spends that a wallet keeps are those of the chain
  and of its unconfirmed transactions, and one output per key image counts;
* protocol handler: a connection that synchronizes waits for something, one that
  reports the end of it has the chain of its peer, and the chains offered arrive;
* miner: pauses balance, the workers come to mine on the top of the chain, `stop`
  returns;
* P2P node: connections are made until there are enough or no peer is left, never
  twice to an address, and a stop ends them all;
* planned: a block template is consistent with one state of the chain.

`PROJECT.json` lists the hazards, at their lines, with the properties that cover
them.

## 2. Modules

| Module | Models |
|---|---|
| `Blockchain` | `Blockchain`, `TxMemoryPool`, `Checkpoints` and the state-changing part of `core` |
| `MCBlockchain` | instances: a catalogue of blocks and transactions |
| `BlockchainProofs` | proofs of its safety properties, in three parts: the links of the chain and double spends; the shape of the chain; the indexes and where transactions are |
| `BlockStack` | abstract specification of the block storage |
| `BlockAccessor` | the storage at the granularity of its file writes |
| `MCBlockAccessor` | instances |
| `BlockAccessorProofs` | proofs of its three invariants and of the refinement of `BlockStack` |
| `BlockchainSynchronizer` | `BlockchainSynchronizer`, `SynchronizationState`, and what they use of `TransfersConsumer` and of the node interface |
| `MCBlockchainSynchronizer` | instances: block trees and budgets |
| `BlockchainSynchronizerProofs` | proofs of its safety properties |
| `TransfersContainer` | `TransfersContainer` and the `TransfersConsumer` above it |
| `MCTransfersContainer` | an instance: outputs, spends and double spends |
| `Loop` | what a loop over numbered items computes, and the lemmas about it |
| `TransfersContainerProofs` | proof of `OneVisiblePerKeyImage` |
| `ProtocolHandler` | `CryptoNoteProtocolHandler` over an abstract core, with its peers |
| `MCProtocolHandler` | instances: block trees |
| `ProtocolHandlerProofs` | proofs of `NothingRequestedAtRest` and `SynchronizedHasChain` |
| `Miner` | `core/Miner.cpp` and the calls of `core` that drive it |
| `MCMiner` | an instance |
| `MinerProofs` | proof of `PausesBalance` |
| `NodeServer` | `NodeServer`, `PeerlistManager`, and the dispatcher and contexts below |
| `MCNodeServer` | instances: seeds and priority peers |
| `NodeServerProofs` | proofs of `OutgoingBounded`, `NothingOpensAfterStop` and `ListsDisjoint` |

How they fit together. `Blockchain` is what `core` does with one block or transaction.
`ProtocolHandler` decides which blocks it is given; it keeps of `Blockchain` the known
blocks, the top of the main chain and the verdict on a block, which are the three
things the handler asks of `core`. `NodeServer` is the layer below it: which
connections there are and which context runs; of the handler it keeps that a response
is added block by block with a yield after each. `Miner` keeps of the chain its
height, and of a response the pause around it. `BlockchainSynchronizer` is in the
process of a wallet: it keeps of a node its chain and pool, and of a consumer whether it
accepts blocks; `TransfersContainer` is that consumer.

### Blockchain

*State.* The chain is a sequence of block hashes, in the files (`m_blocks`) and in
memory (`m_blockIndex`). `m_transactionMap`, `m_spent_keys` and `m_outputs` are the
three indexes. The local variables of the running operation are variables too
(`block`, `pushed`, `path`, `alt_chain`, `disconnected_chain`, ...), and `pc` and `caller`
say where it stands: `caller` is the loop that `pushBlock`, `popBlock` or
`handle_alternative_block` returns to.

*Steps.* A step is what the code does with one block or one transaction: take the
transactions from the pool (`LoadTransactions`), the tests of `pushBlock` and the
miner transaction (`CheckBlock`), one transaction (`PushNextTransaction`), the size
and reward tests and the commit (`FinishPush`), one transaction of
`popTransactions` (`UndoTransaction`), and so on. The process may end between any
two of them (`Crash`). `Start` reads the pool and empties the indexes, and
`RebuildNext` fills them, one transaction at a time.

*Data.* A block is a name with its content in `BlockInfo`: previous hash,
transactions, miner transaction, claimed height, and whether it passes each of the
tests that depend on the block and its ancestors only (timestamp, proof of work,
reward). The tests that depend on the state of the node are modelled: input
checks resolve each ring member through `m_outputs` and `m_blocks`, the signature
binds a member to one output, unlock times and sizes are numbers. Input checks
can *throw*: a place in `m_outputs` past the end of `m_blocks` makes `m_blocks[]` throw, and
this is what a ring that names an output of its own block does. An exception ends
the operation where it stands (`Unwind`); the connection handler catches it.

*Bounds.* `MaxRestarts` bounds the restarts. The rest is finite because blocks and
transactions are.

*History variables.* `before` is the chain and the pool when the operation began.
`residue`, `aborted`, `panicked` and `crashed` record that the run has met one of the
four events after which some properties do not hold in the code; the properties
name them. They are never read by a guard.

*The files.* `m_blocks` is the stack of `BlockStack` and a crash comes when its last item
is durable. `BlockAccessor` shows what an earlier crash does.

### BlockAccessor

The items file is a sequence of cells, an item is the sequence of its parts. A
write to it goes through a stream that stays open: any part of an item may stay in
`buffer` until the next seek. The index file is opened and closed for each write.
`WriteItem`, `WriteSize` and `WriteCount` are the three writes of `push_back`. The
abstract stack is what the index counts, read from file and buffer, so that an
operation takes effect at the write of the count. Reading takes whatever item the
bytes at an offset form. The abstract specification says what the detailed one is
shown to guarantee: a crash replaces the last item, if it was not durable, by
*some* item or by bytes that are none, and touches no other.

For the node this means: a crash soon after a block was accepted can leave the
bytes of a block that an earlier switch removed in the place of the new one;
`rebuildCache` does not compare previous hashes and would index it. The proofs about
the chain assume that the last block is durable when the process stops. The pool
file is older than the blocks after a crash: `PoolDisjointFromChain` excepts it, and
`add_new_tx`, whose comment says that its locks keep transactions of the chain out of
the pool, does not see those that were read at the start.

### BlockchainSynchronizer

*Threads.* The worker runs `workingProcedure`; its place is `pc`, its local variables
are `job`. The user calls `start`, `stop`, the two task functions, `addConsumer`,
`removeConsumer` and `getConsumerState`; `userPc` says in which call it waits. The
node changes and calls back. Their steps interleave.

*Locks.* `m_stateMutex` and `m_consumersMutex` are variables. They are held over several
steps where the code holds one while it waits for the other: `actualizeFutureState`
runs tasks, which take `m_consumersMutex`, under `m_stateMutex`; `getConsumerState` and
`processPoolTxs` ask for the state under `m_consumersMutex`. Every other critical
section is one step that waits for the mutex.

*The node.* It is external: a tree of blocks with cumulative work, of which the main
chain grows or gives way to one of more work, and a set of pool transactions. It
announces a change in two steps, as `ObserverManager::notify` does: the list of
observers is copied (`events` to `calls`), then the calls are made, even to an observer
that has left the list. Between a query and the use of its answer it may change.

*Data.* A chain is a sequence of hashes. `DenseHistory` and `BlockLimit` stand for the 10
hashes that `getShortHistory` takes one by one and for the 200 blocks of an answer.
`lastBlockId` has no initialiser in the code: `Init` lets it be any hash. `unconfirmed`
are the unconfirmed transactions a consumer has added, `m_poolTxs` those it knows.

*Failures.* The node may fail a request, a consumer may refuse blocks, a pool update
or a transaction, and it may throw from `onNewBlocks`, `addUnconfirmedTransaction` and
`removeUnconfirmedTransaction`.

*Bounds.* `Budget` bounds the changes of the node, the starts and tasks together, and
the failures; `Failures` says of which kinds these may be.

### TransfersContainer

*State.* `container` holds the members of the class: recorded transactions, unconfirmed,
available and spent transfers, and the height. `chain` is what the consumer has taken;
`refused` are the blocks that it refused while `lastBlockId` moved on, and `outdated` says that
`lastBlockId` is not the top of the node. `m_poolTxs` is what the consumer knows of the pool.
`outgoing` is the transaction that the wallet is about to send, `sent` and `failed` those that
the container took and those that it did not. `ended` says that an exception has ended
the process.

*Steps.* One call of the worker is one step, since the container is locked in each:
`onNewBlocks` (a batch of blocks, the transactions of each in order after its base
transaction), the same refused because the node does not tell a global index and undone by a
detach (`onNewBlocksFails`), `onBlockchainDetach`, a change of the pool,
`addUnconfirmedTransaction` and `removeUnconfirmedTransaction`, and a save followed by a load.
Inside a step the functions of the class appear under their names and hand a container from
one to the next; an exception is a field of it that the later functions respect. A loop of
the class is an instance of `Loop`: its body is an operator (`AddOutput`, `AddInput`,
`ConfirmOutput`, `DetachTransaction`), which takes the container from one round to the next.

*Exceptions* undo nothing: the container keeps what was done before them. That of a batch is
caught in `startBlockchainSync` (`BlockchainSynchronizer.cpp:362`) and that of a transaction of
the wallet is put into its promise (`:200`); the worker goes on in both cases, with the
container half changed and the chain as it was, and the same batch may come again. Nobody
catches that of a pool update. `Finish` is the end of every call.

*Data.* A transaction is its outputs to the wallet and its inputs from it. Outputs with one
key image differ in their amounts. `Keyless` are the transactions without a public key, which
`onNewBlocks` skips (`TransfersConsumer.cpp:219`) and a pool update does not. Blocks are those
that a node can have: `CanFollow` says what a valid one may spend. The transactions of the
pool are each valid after the chain, but may be in conflict with each other, since those of a
block that came off are kept without that test. Wallets that share keys are covered, because
others may spend outputs of this one. The containers of the class are multisets; an element
has a number, `copy`, so that sets can hold one output several times.

*History variables.* `faults` lists the exceptions and the refusals. `doubtful` are the
transactions of the calls that threw, the transactions whose outputs these had spent, and
those that the pool offered to a consumer that lacks the blocks they build on.
`OutputsFollowChain` and `SpendsFollowChain` are about all others. `faults` is read in the
guards only for its bound.

*Bounds.* `MaxHeight`, `MaxBlockTxs`, `MaxBatch` (blocks in one call), `MaxFaults`.

*Two choices.* `SameBlockSpend` and `DetachSending` are `FALSE` in the run. With either of
them a property fails in the code: a load forgets the order of transactions within a
block, after which a detach may give back an output that goes with it
(`TransfersContainer.cpp:874`, `:605`); and a transaction that the wallet has prepared on
outputs that are detached before the worker adds it is recorded without its spends,
and `markTransactionConfirmed` does not look for them again (`:463`). `OneVisiblePerKeyImage` is
proved for either value of both.

### ProtocolHandler

*State.* `ctx` is the `CryptoNoteConnectionContext` of each connection, `todo` and `busy` are the
rest of a response that `processObjects` is adding, `toPeer` and `toUs` the messages on
their way. `told` is a history variable: the last block of the last chain entry.

*Steps.* A step runs from one yield of the connection's context to the next: a message is
taken and handled, and a response adds one block per step (`ReceiveObjects`, then
`ProcessNext`), so that other connections come between. `Handler(c)` is one round of the
loop of `connectionHandler`, including the `start_sync` that its state machine runs
before a message is read. Both ends speak the protocol; a peer's main chain grows
or switches at any time (`PeerAdvances`) and it answers from the chain it then has.

*Data.* `IdsPerResponse` and `BlocksPerRequest` stand for 10000 and 200. A block is added,
known already, an orphan or rejected; the main chain moves to the block with the most
work. Transactions and the pool are left out.

### Miner

The threads are the workers, the console and the dispatcher; the dispatcher's thread is
shared by the contexts that add blocks, by RPC and by `on_idle` (`running` says which
context holds it). A step ends where another thread can see its effect. A template is the block that it is
built on; `current` are the workers whose noted version is the present one, which keeps
the version counter out of the state. `pc` goes through the lines of `worker_thread`,
`start` and `stop`: test of `m_stop` and of the pauses, copy under the lock, version
noted after it, hash, found block with its own update of the template.

`request_block_template` asks `core` in one step and sets the template in another, so that
blocks and other requests come between.
`core` may refuse at any time (`core.cpp:304` and others): the old template then stays,
and a `start` goes on to create its threads, with the old template or without one. A long hash that fails sets `m_stop` and
ends the other workers too (`HashFails`).

### NodeServer

*The dispatcher.* `resuming` is its queue, whose head runs; a step goes from there to the
next call that waits (`Block`), which removes it from the queue. `Epoll` is one event that the loop of
`dispatch` reports when no context is ready; `Yield` reports a batch of at most
`MaxEvents`. An interrupt of a context that waits resumes it with an exception; of one
that does not wait, it sets a flag that its next wait takes. `group` is
`m_workingContextGroup`. Contexts that a step creates only to wait for them belong to the
context that waits.

*The node.* `Accept`, `TimedSync` and the steps of `connections_maker` (`StartRound` to
`HandshakeDone`) are the loops; `maker` holds the local variables of
`connections_maker` and of what it calls. `handle_handshake` merges nothing and pings
back; `PingAnswered` is the rest of it. `SetStop`, `RemoteSpawn`, `StopSignal`, `StopGroup` and
`Return` are the stop, from the signal handler to the end of `run`.

*Data.* A peer's id is its address. Lists are ordered by when a peer was seen, newest
first; where an entry that another node sends comes to stand is any place.
`RandomIndexes` has exactly the positions that the cubic formula can return: it skips some
of them (of three positions it never gives the second, `NetNode.cpp:56`). The lists of the
run have two entries, of which both are drawn; in a longer list a peer that stands at
a skipped position is not tried before the list changes. A handshake that fails after its list was merged is
one fault, at the merge or before it.

## 3. Runs

Passing runs:

| Run | Instance | Shows |
|---|---|---|
| `reorg` | chains of two, three and four blocks beside each other, conflicting and dependent transactions, a block that spends twice, a checkpoint at height 4, a main block that the checkpoint zone admits without proof of work | chain, indexes, pool and followers stay in step through switches, rollbacks, switches that discard the old chain and refused re-additions; operations end |
| `restart` | forks of one block, blocks over the size limit, without proof of work, with a wrong reward, with a ring into themselves, transactions that cannot be returned; two restarts anywhere | rebuilt indexes match the files whatever rejected blocks had left; the index of the pool is exact |
| `storage` | three items, two of them of equal size, two slots, a cache of one, two crashes | `BlockAccessor` implements `BlockStack`; the cache never serves a popped or replaced item |
| `sync` | two consumers, a fork of one and two blocks, answers of up to two blocks, two changes of the node, two starts or a start and a task, no failure | a worker that waits has left no consumer behind; completion means up to date; a node at rest is reached; tasks are answered and stop returns |
| `sync_failures` | answers of up to three blocks, two changes, two starts with consumers that come and go between or a start and a task, one failure of any kind | chains stay paths, intervals leave no gap, a failed addition is undone, an error does not forget a stop |
| `transfers` | two outputs with one key image, a spend of each of them of which one has an input before it, a multisignature output and its spending, a transaction without a public key, a chain of up to three blocks of one transaction, batches of one or two blocks, two exceptions or refusals; detaches, pool changes and restarts without bound | outputs and spends follow the chain but for what a failed call left half done, through retries of the call; one output per key image is visible; only a double spend throws first |
| `protocol` | two connections, forks of four and two blocks of which each in turn has the most work, a rejected block, chain entries of four, requests of two, two changes of the peers, one lost connection, a stop | nothing is requested at rest, a synchronizing connection is awaited, a synchronized one has the chain it was told of, chains at rest arrive |
| `mining` | one worker, two contexts that add blocks, two blocks from peers, one found, three calls of start or stop by RPC and console, requests for a template and hashes that fail at any time | pauses balance, mining settles on the top if `on_idle` gets a template again and again, `stop` returns |
| `peers` | a seed that is dead and one that answers, the node itself as a priority peer, a visitor, two wanted connections, one incoming connection, one list, one fault, a stop | at most one connection to an address and never too many, none opens after the stop, enough are made |

The bounds are small but each run contains the case it is about: the mutants listed
in `PROJECT.json` (a guard dropped, an undo forgotten, an order swapped) are each
found under the same configuration. Two chains that fork at the genesis block and
reach height 3 are enough for a switch of two blocks that fails at the third; a
longer chain repeats the loops of switch and rollback. A cache of one item is full
at every read and push, but does not tell the order in which a larger one evicts.
In `protocol` a chain takes two chain entries or two requests, and both connections ask for
the same blocks. One worker is enough for the miner, since workers share nothing but
`m_template` and the flags. In `peers` a yield reports one event where the code
takes up to 16; more events of one yield are the events of several yields in which
nothing else runs between, except that none of them sees what the others cause. That a
second connection to one address is not made is what its instance tries hardest; two
wanted connections and two peers that answer do not strain the count, for which there is
the theorem `OutgoingAlwaysBounded`. The time allows
`transfers` one transaction per block; with two, and without the transaction that has no
public key or without refusals, it was run once (321625 and 271260 states) and showed nothing
else.

Violated runs, each a disagreement between the code and what it says of itself:

* `rollback_panic`: `pushBlock` leaves an oversize block's transactions in the indexes
  (`blockchain.cpp:1481`); a later rollback fails with the message it calls PANIC;
* `protocol_stall`: a connection whose last block came over another connection sends an
  empty request; if its peer has moved to a shorter fork of more work, the answer meets
  `request_missing_blocks final condition failed!` (`handler.cpp:501`) and the connection
  synchronizes for ever. `SynchronizingIsAwaited` holds in `protocol`, in whose tree no
  shorter fork has more work;
* `stop_ping`: `try_ping` takes the interrupt of a stop for a failed ping
  (`NetNode.cpp:1258`), so that `run` waits for a handler that it has interrupted
  already.

Disagreements that were met while modelling and that no run repeats:

* a failed switch erases a block under a sibling of the switched chain, which
  `doBuildSparseChain` asserts cannot be (`blockchain.cpp:446`, `:321`);
* `isAllowed` is given the number of blocks for the height: a chain that ends just
  before a checkpoint can neither grow nor be replaced (`blockchain.cpp:655`);
* `processBlocks` moves `lastBlockId` although a consumer has refused the blocks
  (`BlockchainSynchronizer.cpp:430`);
* a fork between two sparse hashes of the short history, 265 to 321 blocks deep, is
  never reached (`SynchronizationState.cpp:34`);
* `getConsumerState` takes the two mutexes in the opposite order to a task of the worker
  (`BlockchainSynchronizer.cpp:63`): set `ReadsWhileRunning` to see both wait for ever;
* `SameBlockSpend` and `DetachSending` of `TransfersContainer`, see there;
* a batch that threw is asked for again. If an earlier block of it went through, the retry
  ends at the first base transaction with "Cannot add transaction from block <
  m_currentHeight" (`TransfersContainer.cpp:274`), and so does every later one until something
  is detached. If not, each retry adds the outputs before the throw once more, or ends with
  "Transfer already exists" at a multisignature output (`:357`). `OutputsFollowChain` and
  `SpendsFollowChain` except the transactions of such calls, `OnlyDoubleSpendThrows` is about
  the first exception;
* a batch that threw leaves transactions recorded at their heights. When the node then
  switches nothing is detached, since the consumer's chain never had the blocks, and a
  transaction that comes again in a block of another height meets an assertion that the
  two are equal (`TransfersConsumer.cpp:494`); a release build keeps the old height;
* a consumer that refused blocks is given the pool of the chain it lacks, and a transaction
  there may throw with nobody to catch it (`BlockchainSynchronizer.cpp:430`).
  `OnlyDoubleSpendThrows` is about states in which no block was refused;
* a transaction without a public key that spends an output of the wallet is skipped in a
  block, so that the output stays available (`TransfersConsumer.cpp:219`).
  `SpendsFollowChain` excepts it;
* a consumer that refuses the blocks of a fork keeps to what it had in common with it,
  while those before it have the new blocks and those after it the old ones. With three
  consumers, when the middle one refuses and is removed before the next start, the first
  and the last have parted ways, and an interval that fits the first is added to the
  last: a chain such as g, b1, a2, which is no path of the block tree
  (`BlockchainSynchronizer.cpp:440`; `checkInterval` compares from the start of the
  interval only). `ChainsAlwaysLinked` is proved where this cannot be;
* an exception out of a switch that a checkpoint asks for leaves the block of the
  checkpoint among the alternative ones; it may then stand in the middle of a chain that
  is connected and rolled back, and leaves the main chain again. `CheckpointsStay`
  excepts it;
* a `stop` of the miner sets `m_stop` before it waits for `m_threads_lock`; a `start` that holds
  the lock clears it again (`Miner.cpp:214`), and the stop then joins workers that nobody
  stops until the next call of `stop`; `StopReturns` excepts it;
* a request for a template that fails logs "stopping mining" (`Miner.cpp:88`) and stops
  nothing: the workers go on with the template of a block that is no longer the top, for as
  long as the requests fail. `FinallyMinesOnTop` assumes that those of `on_idle` succeed again
  and again.

*Fairness.* In `Blockchain` only `WF_vars(Step)`: the thread that runs an operation holds both locks and
runs until it returns. Nothing is assumed about arrivals, expiry or crashes; the
restarts are bounded, so that `EveryOperationEnds` says that an operation or a restart
that is not killed ends.

In `BlockchainSynchronizer` the threads run on: weak fairness of the worker, of each
announcement and each callback, of the join and of a `getConsumerState` that has begun.
Nothing makes the user call or the node change.

In `ProtocolHandler` weak fairness of each handler, of the timed synchronisation, of the
connection maker and of the peers' answers; nothing makes a peer advance or hang up.

In `Miner` threads run on (weak for the workers); contexts and callers wait for the
dispatcher's thread or a mutex, which others may take between, so theirs is strong. Nothing
is assumed of `on_idle` or of `core` granting a template: `FinallyMinesOnTop` has the
hypothesis that `on_idle` gets one again and again (`OnIdleRenews`) and that nobody stops the
miner for good.

In `NodeServer` weak fairness of `Step`: the context at the head of the queue runs. Strong
fairness of the timer of `onIdle`, which is reported by `dispatch` or by a yield, and of
drawing a peer that answers: the draws are independent and random. Nothing is assumed
of peers, lists, faults or the stop.

*Deadlock* is checked in the runs of `Blockchain` and `BlockAccessor`. Elsewhere the system may
rest: a worker without work and a user that does not call, a node whose peers are in
step, a miner or a node that has stopped, a wallet whose chain has reached the bound.
Waiting for each other is excluded by `CallsReturn`, `StopReturns`, `SynchronizingIsAwaited`
and the other liveness properties.

## 4. Proofs

TLAPS proves 29 theorems. Each is about every value of the constants that the named
assumptions of its module allow: any tree of blocks, any number of transactions,
connections, consumers, workers and crashes. 27 of them state a property that a run
checks; the run shows it on one instance and has a mutant that breaks it.

| Module | Theorem | Property |
|---|---|---|
| `BlockchainProofs` | `TypeCorrect`, `ChainAlwaysLinked`, `PoolAlwaysIndexed`, `NoKeyImageSpentTwice` | `TypeOK`, `ChainLinked`, `PoolIndexMatches`, `NoDoubleSpend` |
| | `AlwaysAllOrNothing`, `WorkAlwaysKept`, `FollowerAlwaysHasMainChain`, `CheckpointsAlwaysStay` | `AllOrNothing`, `WorkNeverDecreases`, `FollowerHasMainChain`, `CheckpointsStay` |
| | `IndexesAlwaysMatch`, `PoolAlwaysDisjoint`, `TransactionsNeverLost`, `NeverAborted` | `IndexesMatch`, `PoolDisjointFromChain`, `NoTransactionLost`, half of `RollbackNeverFails` |
| `BlockAccessorProofs` | `MemoryAlwaysMatches`, `IndexAlwaysReadable`, `CacheAlwaysCoherent`, `AccessorImplementsStack` | `MemoryMatchesIndex`, `IndexReadable`, `CacheCoherent`, `StackSpec` |
| `BlockchainSynchronizerProofs` | `IntervalsAlwaysFit`, `StopAlwaysKept`, `FailedAddsLeaveNothing`, `ChainsAlwaysLinked`, `WaitingAlwaysSynced`, `CompletedAlwaysUpToDate` | `IntervalFits`, `StopIsKept`, `FailedAddLeavesNothing`, `ChainsLinked`, `WaitingMeansSynced`, `CompletedMeansUpToDate` |
| `ProtocolHandlerProofs` | `NeverRequestedAtRest`, `ReportsOnlyWholeChains` | `NothingRequestedAtRest`, `SynchronizedHasChain` |
| `TransfersContainerProofs` | `VisibilityIsRight` | `OneVisiblePerKeyImage` |
| `MinerProofs` | `PausesAlwaysBalance` | `PausesBalance` |
| `NodeServerProofs` | `OutgoingAlwaysBounded`, `NothingEverOpensAfterStop`, `ListsAlwaysDisjoint` | `OutgoingBounded`, `NothingOpensAfterStop`, `ListsDisjoint` (in no run) |

### Assumptions

Blocks and transactions are well formed; the height and the work of a block exceed those
of its parent; miner transactions of different heights differ, and so do the key images
within a transaction (`Blockchain`). Items have a size, and the cache holds at least one
(`BlockAccessor`). An answer of the node has room for two blocks (`BlockchainSynchronizer`).
Workers and contexts are finite sets, without which counting them means nothing
(`Miner`). There are enough connection ids for the connections that can exist, and the
names of the loops are no connection ids (`NodeServer`). Transactions are a finite set, so
that a change of the pool can be listed (`TransfersContainer`). TLC evaluates all of them on the
instances.

Three theorems have a hypothesis of their own, because the code does not do without it:
`ChainsAlwaysLinked` assumes `NoneBetween` (no consumer refuses blocks or throws, or there
are at most two consumers; section 3 has what three can do), and `WaitingAlwaysSynced` and
`CompletedAlwaysUpToDate` assume that nothing fails, since after a failed query or a
refusal the worker rests on an old chain until the next notification.

### Arguments

*The chain.* `ChainLinked` is not inductive: a step of a switch is right only if the chain
being connected is a path that starts at the block the main chain was cut back to.
`Control` adds that: in each value of `pc`, what `alt_chain`, `disconnected_chain`, `path`,
`block` and `pushed` are relative to `m_blocks`, and that `Connected` counts the blocks of the
switch.

*Double spends.* `SpendInv` says that every key image of the files is in `m_spent_keys` (or,
during a rebuild, those of the part that was read), that the transactions of the block
being pushed are disjoint from it and from each other, and that what `popBlock` removes
from the set belongs to the block it removes. It needs no assumption that the indexes are
exact: rejected blocks may leave too much in them, never too little.

*The shape of the chain.* `ShapeInv` relates the main chain to the one that the operation
began with: they share what is below the split; above it are the blocks of the
alternative chain that are connected so far; `disconnected_chain` is what was there
before. A block stands at its height, so that the three parts cannot overlap. The three
properties of what an operation leaves follow at its end. For checkpoints `CheckpointInv`
adds that no alternative block has the height of a checkpoint (but for the last of a chain
that a checkpoint asks for), so that no switch can split off below one that the main chain
has reached, and that such a chain is never rolled back once it is connected.

*The indexes.* What they should hold is a set of entries, one per transaction of the
chain, ordered by block and position. Every step leaves the set, adds the entry that is
last in that order, removes it, or empties the set. One half of the proof is about the
three indexes and such a set, the other about the set and the chain; the list of an
amount is a run of outputs for each entry, which is why popping from its end removes the
right one.

*Where transactions are.* `PlaceInv`: each is in the pool, in the chain, or in the hands of
`pushBlock`, and never in two of these; what `popBlock` removes is in the pool before its
block leaves the files. That no exception comes follows: one comes when `popBlock` cannot
return a transaction to the pool, which needs it to be there already or its key image to
be spent.

*The storage.* The file is described by what is at each position (`At`) and where the sizes
put each item (`Offset`, a sum whose recursion is unfolded by induction). `BufferInv`: the
stream holds back cells of the last item only; so a crash replaces that one and touches
no other, and each of the writes is a step of `BlockStack` or none. The cache is a list
without repetition whose members are the domain of `m_items`.

*The synchronizer.* `LinkInv`: all chains are paths, and of two one is a beginning of the
other, so that one interval fits all. `SyncInv` adds, for each `pc`, what the worker knows
of the node, and that it is true or that a change is in `events`, in `calls` or in
`m_futureState`. No chain has more work than the node's, hence one on which the tail of the
node lies ends there. The proofs of `StopIsKept` and `FailedAddLeavesNothing` go through the
steps of the worker one by one.

*The protocol handler.* `WaitInv`: a connection waits for one thing at a time, which is a
request on its way, its answer, or the blocks of an answer; it has asked for no block while
a chain entry is under way, and for nothing outside a synchronisation. That a report means
a whole chain takes two more invariants. `DataInv` is about what is on its way: a request
names the genesis block, so that an answer can start at a block that the node has; an
answer lists a part of a chain of the peer, whatever the peer has switched to since; the
known blocks reach down to the genesis block. `HasInv` is about the bookkeeping: while a
connection synchronizes and no entry is to come, each block of the chain listed last is
known, asked for, still to be asked for, or in the answer being added. When nothing is
left to ask and the report goes out, only the first case remains.

*The transfers.* A call of the container is a loop, and an exception can leave one in the
middle; since it is caught and the next call works on what it left, the invariant must hold
between any two rounds. `VisInv` says of each key image what the property says. It cannot say
that an output is held once: an exception leaves outputs without a record of their
transaction, and a retry adds them again. `Numbered` and `Distinct` take the place of that:
an element of the pool is known by output and `copy`, and `NewCopy` is a number that no
element has, in the pool, in the chain or among the spent ones, so that no two of them become
one when they move or are marked. `UpdateRight` is the centre: after any change, marking
the key images of all outputs that it touched makes all of them right. Each operation then
shows which it touches. Confirming an output touches one more than it marks when the output
is a multisignature one, whose descriptor changes with its global index; that such a
descriptor is never a key image is part of the types. `Loop` has the induction over the
rounds once; each loop is an instance of it, and a batch is a loop over loops.

*The miner.* `PausesBalance` alone is not inductive: a start puts every worker at the head
of its loop and would lose the pause of one that still runs. `StartInv` says why none does:
whoever starts holds `m_threads_lock` and has found no threads, and joined threads have
ended.

*The P2P node.* `NodeInv`: while `connections_maker` waits for a peer, what it asked before is
still true, since nobody else makes connections; there is a free id for each connection to
come; and the accept loop never stands behind `run` in the queue once `stop` has put it
there, since nothing is reported between `handlerStop` and the interrupt of the group.

### What is only model-checked

* Liveness (`EveryOperationEnds`, `EventuallySynced`, `CallsReturn`, `StopReturns` and the
  others under fairness): the prover has no rules for fairness and `ENABLED`.
* `RollbackNeverFails` as far as it is about a rollback. It is not expected to hold for
  every catalogue of blocks: a block pushed while a rejected one is in the indexes may have
  a ring with an output of that one; after a clean restart the indexes are in order, and a
  rollback of the block fails. The instances have no such block.
* `SynchronizingIsAwaited`, which is false for some trees (`protocol_stall`).
* Of `TransfersContainer`, `OutputsFollowChain`, `SpendsFollowChain` and `OnlyDoubleSpendThrows`.
  They are inductive only together, and relate the container to the whole chain: the
  global index of an output counts those of all blocks before it, and a detach is right
  only since the transactions are ordered by height. The counts are folds with `SelectSeq`,
  of which tlapm knows nothing.
* The type invariants of the other modules are stated in no run; the proofs use the parts
  of them they need.

## 5. Not modelled

* Multisignature inputs and outputs, the secondary indexes, the height-dependent size
  limit and the median of sizes, wall-clock time (expiry may happen to any
  transaction at any time; timestamps are a static attribute of a block).
* Proof of work and difficulty: a block has a cumulative difficulty and either meets
  the required difficulty or not. The required difficulty of a block depends on its
  ancestors only; that the two functions that compute it agree is planned.
* Of the synchronizer: `save` and `load`, the timestamp of `syncStart` (every block has
  its full content), progress notifications, exceptions out of `onBlockchainDetach` or in
  `startPoolSync` (they end the process), the lifetime of the observer object. The
  node reads its tail and its pool in one step.
* Failing writes to the block files in the middle of an operation of `Blockchain`;
  `BlockAccessor` has those of the index file.
* Of the protocol handler: transactions, the pool of a peer, relaying, statistics.
* Of the P2P node: exclusive peers, `timeoutLoop`, the write queue of a connection, the
  configuration file, the requests for statistics; `P2pNode`, a second implementation
  of the same node that no program of the repository uses.
* Of the miner: hash rates, extra messages, the stand-alone miner in `src/miner`.
* Of the transfers: the threads that preprocess blocks in parallel (their results are
  put in order before they are used), several subscriptions, payment ids, queries, batches
  of more than two blocks.
* The wallets themselves (`WalletGreen`, `WalletLegacy`), beyond the unconfirmed transaction
  that one sends; the payment gate.
* Cryptography, byte formats, RPC, HTTP, consoles, logging, configuration, vendored
  code (`external/`, `contrib/`), the programs kept in `backup/`. These are the larger
  part of the repository's lines and hold next to none of its control: hash functions
  and curve arithmetic, parsers, and translations of requests have no state that a
  model checker could explore, and the models stay a small share of the lines for that
  reason.

## 6. Plan

In this order, each with its runs and mutants:

1. Proofs: `SpendsFollowChain` and `OutputsFollowChain` of `TransfersContainer`, with the
   global indexes counted by `Loop`; the failing rollback, from an invariant about the
   rings of the blocks in the chain.
2. Pool: `fill_block_template`, cached check information, multisignature inputs; then
   `get_block_template`, which reads chain and pool under different locks.
3. Algorithms over bounded inputs: next difficulty on the main and on an alternative
   chain, timestamp windows, relative output offsets, rewards.
4. The states of a wallet's transaction (`WalletGreen`), message queues and blocking
   queues.
