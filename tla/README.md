# A verification of the ECE598 blockchain client

The repository holds a Bitcoin-like client in Rust (`src/src`, 2472 lines: block
tree, gossip, miner, transaction generator, ledger state, API) and the Solidity
contracts of a synthetic-asset exchange (`src/FinalProject`). This directory
models both in TLA+: modules that TLC checks on small instances, and
proofs, checked by TLAPS, of what holds for every instance. All paths below are
relative to the directory that holds `src/`.

Read first: `ChainInsert.tla` and `Blockchain.tla` (one insert), then `Node.tla`
(several nodes), `Locks.tla` (why a handler is one step there), `Server.tla` (the
connections under it). `Merkle.tla` and `Market.tla` stand by themselves.

## 1. Inventory

### The client's parts, their state, and what makes them correct

| Part | State | Operations | Correct when |
|---|---|---|---|
| Block tree, `blockchain/mod.rs` | `chain_map`, `tip`, `length_map`, `buffer_map` (orphans) | `new`, `insert`, `tip`, `all_blocks_in_longest_chain` | the chain is closed under parents; `length_map` is the depth; the tip is a longest chain and moves to strictly longer ones only; no orphan stays behind, none is lost; every block met the difficulty of its parent |
| Ledger state, `types/ledger_state.rs` | `block_state_map`: block hash to unspent outputs | `verify_tx`, `verify_block`, `update_state` | a state is the replay of its own branch; a verified block spends only coins unspent there and creates no money |
| Mempool, `types/transaction_mempool.rs` | `tx_queue` (order), `tx_wait_map` (waiting), `tx_map` (in a block) | written by worker, miner, generator | a transaction is queued once, waits or is done and not both; a mined one never comes back |
| Gossip worker, `network/worker.rs` | none of its own: locks the three above for one message | `Ping`, `Pong`, `NewBlockHashes`, `GetBlocks`, `Blocks`, `NewTransactionHashes`, `GetTransactions`, `Transactions` | every block and transaction reaches every node; trees agree when the network is quiet |
| Miner, `miner/mod.rs` | run state, its `tip`, `block_num: u8` | `Start`, `Update`, `Exit`, an iteration of mining | it mines on a longest chain, at most 15 queued transactions, and never stops by itself |
| Miner worker, `miner/worker.rs` | the channel of finished blocks | insert, update state, announce | the block finds its parent and its state |
| Generator, `types/transaction_generator.rs` | run state | create a transaction from a random output of the tip's state | what it makes is accepted by the peers |
| P2P server, `network/server.rs`, `network/peer.rs` | peers by address, control channel (10000), a write queue and a socket per peer | `connect`, `accept`, `broadcast`, drop of a peer | a broadcast reaches every peer that is connected, in order, once and from its registration on; a connection that works stays registered; no event of one connection stops the others |
| Locking, across all threads | three mutexes: `blockchain`, `transaction_mempool`, `block_state` | `lock().unwrap()` at the top of each loop body | no deadlock, one body at a time, the gate is given back, each thread gets its turn |
| API server, `api/mod.rs` | none | start miner and generator, list chain, transactions, state | a `Start` takes effect; no request stops the node |
| Wiring, `main.rs` | the shared `Arc`s, known peers | starts the threads | |
| Merkle tree, `types/merkle.rs` | node hashes, height, count | `new`, `root`, `proof`, `verify` | `verify` accepts the proof of each leaf and no other datum |
| Basic types, `types/{hash,address,block,transaction,key_pair}.rs` | | hashing, signing | identities |

Contracts of `src/FinalProject`: `Mint.sol` (positions: collateral, minted
assets; open, close, deposit, withdraw, mint, burn), `EUSD.sol` and `sAsset.sol`
(tokens), `PriceFeed.sol` (a constant), `Swap.sol` (a constant-product pool:
init, add and remove liquidity, swap). `Part0` and `Part1` are earlier exercises.
`Mint` is correct when every asset token in circulation is the debt of a position,
each position keeps its ratio by value, and the vault can pay out every position, whatever is sent to it besides;
`Swap` when the reserves are the pool's balances, shares add up, joining and
leaving costs the others nothing, and trades do not lower the product of the reserves.
A call takes effect as a whole or not at all; what makes the contracts hard is
truncating division over sequences of calls.

### How they interact

A miner that finds a block moves its transactions from `tx_wait_map` to `tx_map`
and sends the block down a channel; the miner worker inserts it, computes its
state and broadcasts `NewBlockHashes`. A broadcast is a signal in the server's
control channel; the dispatcher copies it to the write queue of each peer. A
peer's reader puts the message in the channel all worker threads of that node
share. A worker asks for an unknown hash (`GetBlocks`), gets `Blocks`, checks
that the parent has a state and the transactions are valid in it, inserts,
updates mempool and state, and announces the block in turn. Transactions travel
the same way through `NewTransactionHashes`, `GetTransactions`, `Transactions`.

### What is hard

* Blocks arrive in any order: the orphan buffer, its breadth-first search, the tip.
* `insert` may refuse or buffer a block without a word, and its caller goes on.
* Several threads per node share three mutexes taken in different orders, keep
  them while they sleep or block on a channel, and poison them by a panic.
* Two worker threads take a block and its child off one channel and lock in the
  other order; a peer joins in the middle; two peers announce the same hash.
* A transaction is gossiped, mined here and mined there at once.
* The server's tasks share one executor: an unwrap in any of them stops them all,
  and leaves a channel that nobody reads. Peers are keyed by address, and the
  end of a connection is a signal that can arrive after its successor.
* Signals of the API reach a loop that looks at one per iteration.
* Forks: each state must come from its own branch.
* Widths: a `u8` block counter, a `u8` output index, `u32` sums.

`PROJECT.json`, "hazards", lists these one by one at their lines, with the
properties that would catch them.

## 2. The modules

| Module | Models | Size of state |
|---|---|---|
| `ChainInsert` | the result of `insert` as one operator: `Adopted` (orphans that join), `Lineage` (their depth), `Attach`, `Insert` | pure |
| `BlockTree` | abstract specification: inserts in any order, each at once | one struct |
| `Blockchain` | `insert` step by step: `InsertOrphan`, `InsertAttach`, `BfsStep` (one round of the `while`), `BfsDone`; shown to implement `BlockTree` | struct and locals |
| `BlockchainProofs` | theorems about `Blockchain` | |
| `LedgerState` | `verify_tx`, `verify_block`, `update_state` | pure |
| `Ledger` | the states of a node as blocks arrive from peers (verified) and from its miner (not) | one node |
| `LedgerProofs` | theorems about `Ledger` | |
| `Locks` | the mutexes, the threads that take them, their signals, the states of the server they broadcast to, poisoning | one node |
| `LocksProofs` | theorems about `Locks` | |
| `Node` | nodes that gossip: worker, miner, miner worker, generator, dispatcher, links | a network |
| `NodeProofs` | theorems about `Node` | |
| `Server` | listener, dispatcher, reader and writer tasks, registry, the remote ends, main's connecting thread | one node |
| `ServerProofs` | theorems about `Server` | |
| `Merkle` | `new` level by level, `proof` and `verify` by index arithmetic, and the recursive definition they are compared with | one tree |
| `MerkleProofs` | theorems about `Merkle` | |
| `Totals` | the sum of amounts: balances, debts, the values of a transaction or a state | pure |
| `TotalsProofs` | what becomes of a sum when amounts change, join, split or are counted off | |
| `Tokens` | ERC20 balances: OpenZeppelin's `_transfer`, `_mint` and `_burn`, as vendored in `Part2/node_modules` | pure |
| `Mint`, `Swap` | a call of each contract as an action | one contract each |
| `Market` | both on one chain: the asset of `Mint` is token 0 of `Swap` (`INSTANCE ... WITH`); and the tokens' own `transfer` | three tokens, vault, pool |
| `MarketProofs` | theorems about `Market`, and through it about `Mint` and `Swap` | |
| `MC*` | instances for TLC | |

`Node` uses `ChainInsert!Insert` for the tree (one step: the caller has the
mutex), the result `Blockchain` implements. `Ledger` says what a state is;
`Node` keeps only which blocks have one. `Locks` justifies the grain of `Node`:
a handler is one step and a node is alive or poisoned. `Server` says what
`Node`'s links assume, that a broadcast arrives while a connection holds, and when
the networking of a node ends, which `Locks` takes up as the server's three states.

### State and actions against the code

**Blockchain.** Blocks are the numbers 1 to `NumBlocks`, genesis is 0, and
`parent[b] < b` because a header holds its parent's hash. All trees and all
orders of arrival are explored. `chain_map`, `tip`, `length_map`, `buffer_map`
are the struct's fields; `hash`, `hash_queue`, `block_to_remove` the locals of
`insert`; `pc` says whether a search is running. `hash_queue` is a set: the order
in which the code takes hashes follows the iteration of a `HashMap`, so any order
is possible, and since siblings share a length and the tip rule is strict, the
result does not depend on it (`ImplementsBlockTree` says exactly that, and is proved). Blocks of the
set `MayLackPow` may miss the difficulty of their parent. Two variables are
auxiliary: `before` is the struct as it was when the call began, and `adopted`
collects the blocks that searches took from the buffer. The tip is right while
there are none, and a node never gets there: its buffer holds only blocks over a refused
one, which no search adopts (`BufferUnderRefused` of `Node`).

**LedgerState, Ledger.** Coins are `[tx_hash, index]`, a state a function from
coins to outputs. `GoodInputs` is the loop of `verify_tx` with its early exit.
`Overflows` and `PanicsOn` model the `u32` additions in the dev build, which
panic; `IndexModulus` is the cast of an output's index to `u8`. A peer's block is
checked against the parent's state, may be delivered again (`PeerBlockAgain`),
and may panic (`PeerBlockPanics`). The miner's own block is not verified and
extends its own last block, as `miner/worker.rs` does.

**Node.** Per node: `bc` (the block tree), `states` (keys of `block_state_map`),
the three fields of the mempool, the miner (`run`, `tip`, `block_num`), the
channel `finished`, `peers`, the control channel, and `held`, what each worker
thread took off the shared channel and has not handled. `link[<<m, n>>]` is write
queue, socket and receive channel of one direction: first in, first out per
connection (`Carry`, `Arriving`), any interleaving across connections and threads. Messages carry one
hash, block or transaction: the miner and the generator announce one at a time
and every reply is as long as its request, so vectors never grow. Transactions
come in two kinds. `GeneratedTxs` are what the generator makes; they are signed by
a fresh key while the coin they spend belongs to another address
(`transaction_generator.rs:135-157`), so no `verify_block` accepts them.
`ClientTxs` are signed transactions without inputs that anyone may send to the
p2p port, and pass `verify_tx` in any state; they come from outside `src/src`.
A block is valid at a node when its parent has a state there and it holds no
generated transaction. Clients send blocks too (`SubmitBlock`, `ResendBlock`), as the
test `reply_blocks` of `network/worker.rs` does: on any block they have seen, with or
without work (`weak`), with a transaction or none. `HandleBlocks` is the whole arm of the
`match`: what passes the checks goes to `insert`, which may take it, refuse it for want
of work or buffer it under a refused block, and mempool, state and announcement follow in
each case, as in `worker.rs:148-173`. So a state says that a block passed the checks, not that it is in the
chain, and a refused block, which is neither in `chain_map` nor in `buffer_map`, is new
whenever it comes again.

**Locks.** `LockOrder` lists the `lock()` calls of each loop in order, `Acquire`
takes one, `Enter` starts the body, `Send` is a broadcast into the bounded
channel, `Release` drops the guards together at the end of the body.
`BodyPanics`, `LookupPanics`, `LosesMiner` and `FindPoison` kill a thread, and poison
what it holds. An API request takes one or two of the mutexes, and the one for the
state of a block past the tip panics between them. `Tell` is a method of the miner's or
generator's `Handle`; `ObeyStart`, `ObeyUpdate`, `IgnoreUpdate` and `ObeyExit` are the arms of
the `match` at the head of the loop, which a paused thread runs on `recv` and a
running one on `try_recv`, one signal an iteration. `serving` is the server: it
runs, its channel is closed (the dispatcher ended, `SendFails`), or it stalls
(the executor ended, the receiver was not dropped, and the channel fills up).

**Server.** `conn` lists the connections in the order they were made, each with the
state of its link, of its reader and its writer, its write queue, what the writer
has in its hand and what the remote read, replies included. What a task does to its
connection is an operator on that record (`Accepted`, `Started`, `Taken`, `Written`,
`Finished`, `Enqueue`); the actions say when it may. `peers` is the registry by address.
`Accept` is the listener, `AcceptFails` its end: the error of `accept` goes through the
`?` of line 70 to the unwrap of line 57. `DispatchGetNewPeer`, `DispatchConnected` or `DispatchRefused`,
`DispatchBroadcast` and `DispatchDroppedPeer` are the arms of the dispatcher's
`match`; `ReaderReads`, `ReaderEnds`, `WriterTakes`, `WriterWrites` and `WriterReports`
the steps of the two tasks between their `await`s. `WriterStarves` is
`write_queue.next().await.unwrap()` when the last handle is gone, and `HasHandle`
counts the clones: registry, reader, messages that wait for a worker. `executor` turns
false with the first panic of a task and `open` with the dispatcher's own end. The
remote ends connect, send, close and reset as they like; an address comes back once
its earlier connection was reset. Two variables are auxiliary: `dispatched` counts the broadcasts
handed out, and `since` keeps that count as of each connection's registration, where what it is owed begins.

**Merkle.** `queue`, `hashes`, `height` and `count` are the locals of `new`, an
action is one iteration of its `while`. Hashes are nested pairs, so two hashes are
equal when the trees below are. `Layout` has `start`, `level_len` and `div` on each
level of the loop of `proof`, `At` its `i`, and `ProofIndices` what it reads; `verify` is its
loop with `hash` and `index`. They are recursive functions, since `MerkleProofs` reasons
about them.

**Mint, Swap, Market.** An action is a call that does not revert: every `require`, every
checked subtraction, division and transfer is a guard. `deposit(u, i, amount)` is
the function of that name with `u` for `msg.sender`. Positions are numbered from 1,
and a deleted one has nobody for its owner. `transfer` is the tokens' own call, by which a
user sends any of the three tokens to anyone, the vault and the pool among them. Auxiliary are
`mispaid`, true once `withdraw` paid another amount than it was asked for, and `given`, `given0`,
`given1`, what vault and pool were sent past the contracts' calls. `sqrt` is the `while` of `Swap.sol:31-42` from
its second turn on: the first one only moves `z` from `y` to `y / 2 + 1`, below `y`.

Every `lock()` sequence begins with `blockchain` and nothing is dropped before
the body ends, so bodies exclude each other (`OneBodyAtATime`, proved): that is
why an action of `Node` is a whole handler, and why `poisoned` there is one bit
per node (`PoisonIsTotal`, proved).

## 3. The runs

Bounds are named in the modules (`NumBlocks`, `MaxTxs`, `MaxBlocks`, `ControlCap`)
and set in the `.cfg` files.

| Run | Question | Instance | Shows |
|---|---|---|---|
| `blocktree` | does insert do what `BlockTree` says, whatever the order? | every tree of 5 blocks, 2 of which may lack work, arriving in any order, repeatedly | orphans of several generations join with the right length, none stays or is lost, insert returns, one atomic step from outside; until a search adopts a block, the tip is a longest chain |
| `ledger` | is a state a function of its branch, and can verified blocks spend a spent coin or create money? | 3 blocks on any parents, delivered repeatedly, of up to 2 of 8 transactions: mint by the own miner, payment, one that lists the same coin twice, one whose outputs overflow, forged, three outputs on two indices, one without inputs that recreates its coin, one that spends that; values up to 4 | a state is the replay of its branch; money is created only through a coin spent twice within one block |
| `ledger_inflation` | and without the exception? | same | no: finding 1 |
| `gossip` | does every block reach every node? | 3 nodes in a line, both ends mining, 3 blocks, one worker each, under fairness | yes; relayed blocks arrive parents first, trees agree when quiet |
| `schedules` | what holds whatever the threads, the peers and a client do, and whatever insert refuses? | 2 nodes, one of them mining, a connection that is made late; a client with 1 transaction that makes and sends up to 2 of 2 blocks, or one twice, to either node, with or without work, on any block it has seen; panics | `BlocksInStep`: a state without a place in the chain belongs to a refused block or one over it, the buffer holds exactly the latter, the tip is a longest chain; the mempool's three fields stay consistent; no branch that is mined holds a transaction twice |
| `tx_gossip` | does a generated transaction reach every node while it is mined on the way? | 3 nodes in a line with 2 worker threads each, the middle one mines, its counter may overflow; under fairness | yes, unless a node dies; no miner's `unwrap` misses it |
| `stale_miner` | does the miner extend a longest chain? | 2 nodes, 2 blocks | no: finding 2 |
| `locks` | deadlock, exclusion, poisoning, the gate; can a `Start` get lost? | 5 threads (worker, miner, miner worker, generator, API), channel of 1, two signals waiting for the miner, one for the generator, 3 threads may panic, the server may close or stall; under fairness | no circle of waits, bodies exclude each other, one panic stops the node, `blockchain` is given back unless the server stalls or pings never end; a `Start` is taken up, or the thread has ended |
| `server` | do connections, broadcasts and their ends keep together, and do calls get through? | 2 connections: one known peer, one client that may come back; control channel of 2, channel to the workers of 1, one worker, 2 messages; under fairness | a working connection is listed unless another had its address, an ended one is about to be unlisted, no broadcast since its registration is missed; the executor stops for four reasons only; every `connect` is answered; a broadcast in the channel arrives |
| `merkle` | is the vector the tree, and do proofs verify? | every data of up to 9 leaves of 2 kinds | yes; the empty tree is the only one whose `proof` panics |
| `market` | do the books of both contracts balance? | 2 users, 7 calls, amounts 3, 10 and 40, transfers of 10 to anyone, price 2, minimum ratio 2, 2 positions | yes, until `withdraw` pays a wrong amount; shares are fair, and a trade lowers the product of the reserves by one rounding at most |
| `mint_withdraw` | can the vault pay out every position? | 5 calls, price 1 | no: finding 3 |

Why the bounds are enough for what they check: five blocks hold every shape the
search distinguishes (two generations of orphans, siblings at both, a rival
branch longer than the inserted block and one as long). Three ledger blocks hold a
fork whose sides both spend one coin and one side of which grows. Three blocks with
rival miners hold a fork whose one side outgrows the other. A channel of one is full
after the first broadcast. Two waiting signals put a `Start` behind or before another
signal, where a loop that looks at one an iteration might drop it. Two blocks, made by the miner, by a client
or one by each, hold a refused block, one on it that is buffered, a child that arrives
before its parent because they were sent to different nodes, and one that is sent twice, also before
and after the node has it otherwise. Two worker threads are in `tx_gossip` only, for the time TLC takes;
the theorems about `BlocksInStep`, `MempoolConsistent` and `NoDuplicateTx` hold for any number. Two connections are enough for one to take the other's place, and a
control channel of two fills while a writer reports its end. Nine leaves have
an inner level of odd width below another one (9, 5, 3, 2, 1), which is the case
that the padding is for. Seven calls empty a pool and open it again, or open,
trade, and close a position whose assets went through the pool. A price of two tells units from values.

`CHECK_DEADLOCK FALSE` is set where the system really stops: a `Node` instance
ends when its last block is mined and nobody sends, the threads of `locks` may all
have died of a panic, a `Ledger` has its last block, the server's executor
may have ended, a Merkle tree is built, the market's calls are used up.

### Fairness

* `Blockchain!Spec`: weak fairness of the search, which runs to its end on one
  thread that waits for nobody.
* `Node!FairSpec`: weak fairness of dispatcher, miner worker and each worker
  thread. These are loops that wait only for work, for room in the control channel and
  for the mutexes. That a mutex is obtained in the end is an assumption: `std::sync::Mutex`
  does not promise it, miner and generator unlock at the end of their loop body and
  lock again at once, and `Locks` shows only that the mutex is given back. It is the one
  assumption here that the code does not establish. Nobody is obliged to mine, connect or send.
* `Server!FairSpec`: weak fairness of the dispatcher, of the workers, of main's
  thread and of the executor's other tasks taken together. The executor polls any
  task that can go on; that it is fair among them is needed nowhere, since each
  task waits after finitely many steps. The remote ends owe nothing.
* `Locks!FairSpec`: weak fairness of the dispatcher and of each thread's next step, that
  is, a thread that can go on does. No thread is promised a turn at a mutex that
  others take and release. So `GateReopens` says that the holder of `blockchain` gives
  it back, not who gets it next, and `StartsOrEnds` is about paused threads, which need no mutex.

### Findings

Where the code disagrees with a document. Three have a run that shows it, and are recorded in
`PROJECT.json` with the quoted line:

1. Conflicts within a block pass verification (`ledger_inflation`).
2. The miner extends its own last block, not the tip (`stale_miner`).
3. `withdraw` pays the remaining collateral, not the amount asked for
   (`mint_withdraw`). The repository's test withdraws one half.

For the others the property the document asks for is stated in its module and TLC refutes it
within half a minute on the instance named; no `.cfg` is kept for them:

4. Orphans that a search adopts skip the work check (`blockchain/mod.rs:81`; `WorkIsChecked` on the
   instance of `blocktree`). `src/MidtermProject4/README.md:19` asks for it of every block, and
5. when the longest of them is longer than the tip, the tip becomes the inserted block
   (`blockchain/mod.rs:85`; `TipIsLastOfLongest`, same instance), while the comment at line 99 promises
   the last block of the longest chain. `insert` does both for any caller; the client's two callers never
   make it adopt, because the worker drops a block whose parent has no state (11).
6. Peers are keyed by address: the end of a connection unlists its successor
   (`server.rs:100`; `RegisteredIsListed` on the instance of `server`), which then misses what
   it was inserted for, "so that we can broadcast to this guy later" (line 225).
7. `mint` and `withdraw` take the collateral ratio between amounts, not values, as
   `src/FinalProject/Part2/README.md:10` defines it (`Mint.sol:110` and `:124`; `ValueRatioKept` on the
   instance of `market`, where a position mints on until its collateral is worth as much as its debt).
8. A trade rounds in favour of the trader (`Swap.sol:76`; `ProductGrows` on the instance of `market`): on a shallow
   pool the product of the reserves falls, from (3, 3) to (0, 13) at worst, where
   `src/FinalProject/Part3/README.md:46` has it slightly increase.
9. A block refused for want of work still takes its transactions out of the mempool
   (`worker.rs:156`; `TxsKept` on the instance of `schedules`), which is to hold what is not yet in the chain
   (`src/MidtermProject5/README.md:52`).
10. A client's transaction mined elsewhere leaves its hash in `tx_queue`, and the miner unwraps
    `None` (`worker.rs:159`, `miner/mod.rs:179`; `QueuedAreWaiting` on the instance of `schedules`; `UnwrapFails`
    is the step that follows). `src/MidtermProject5/README.md:54` asks for its removal.
11. With two worker threads, and `main` starts four by default, a child handled before its parent
    is dropped, where the course asks for the orphan buffer and for `GetBlocks` of the parent
    (`worker.rs:143`, `src/MidtermProject4/README.md:25`; `SameTreeWhenQuiet` on the instance of `gossip` with `TwoWorkers`).
12. A peer that joins late never catches up (`server.rs:88`, `src/MidtermProject4/README.md:36`;
    `SameTreeWhenQuiet` on two nodes whose only connection is the `LatePair`).

The first can be met by one block; 9 needs a block without work, which anyone can make, and which is
announced on from node to node; 4 and 5 need a caller of `insert` that hands it orphans.

More that the models contain and that no document speaks of:

* Blocks with generated transactions stay on their own node, since no peer finds them valid.
* `block_num: u8` overflows at the 256th block (`CounterOverflows`).
* A connection reset before it is registered, a second connection from an address, the end of
  all workers and an error of `accept` each stop the networking of a node (`ServerStops` lists
  them). In the first case the next announcement kills the node; in the others
  the channel fills, and the thread that finds it full keeps the mutexes for good.
* What is mined on a refused block, by anyone, stays in the buffer (`BufferUnderRefused`).
* `main` connects to a known peer until it succeeds once, and never again when the connection
  is lost; `verify` of the Merkle tree does not look at
  `leaf_size` and accepts the proof of a padded last leaf at the index of its copy.
* `withdraw` reverts by a division by zero when all debt is burned; `addLiquidity` accepts only a
  price of about one (`Swap.sol:63`); a trade on a pool that is not open takes the
  tokens for nothing and keeps `init` from ever working.

## 4. What is proved

`BlockchainProofs`, for every `NumBlocks`, every tree and every order:
`TypeCorrect`, `ChainIsClosed`, `LengthsAreDepths`, `NoOrphanStranded`,
`BlocksAreKept`; and, until a search adopts a block, `TipStaysLongest` and `TipMovesToLonger`. The only assumption is `BlocksAssumption`.

The inductive invariant adds to `TypeOK`, `ParentClosed` and `LengthIsDepth`
what the search keeps between its rounds:

* `SearchCovers`: a buffered block whose parent is in the chain has the parent in
  `hash_queue` or is marked for removal. Without it an empty queue would say
  nothing about the buffer, and `NoStrandedOrphan` would not be inductive.
* `AdoptedAreMarked`: a buffered block that is in the chain is marked, or is the
  block being inserted. It makes the final cleaning safe and `NoBlockLost` true.
* `IdleIsClean`: the locals are empty between calls.

For `TipStaysLongest` and `TipMovesToLonger` a second invariant says what
holds while `adopted` is empty: the search has changed nothing but its locals, so the only tip
rule that mattered so far is the strict one of `InsertAttach`.

`SearchRefinesTree` is the refinement: `Blockchain` implements `BlockTree` with the
mapping of `ImplementsBlockTree` (during a search the struct is still `before`). An orphan
that is buffered is an `Insert`; `InsertAttach` and each round of the search map to a stutter;
`BfsDone` maps to the `Insert` of `hash`. What has to be shown is that the struct is then
the one that `ChainInsert!Insert` computes from `before` at once, and its invariant `RInv` says how far the
search is on the way there:

* the chain is `before`'s, `hash`, and `block_to_remove`. `Adopted` is the least set of buffered
  blocks closed under "its parent is `hash` or a member", so `block_to_remove` lies in it at all
  times (each round adds a child of a member, `AdoptedIsClosed`), and contains it when the queue
  is empty, because it is then closed itself (`AdoptedIsLeast`);
* the depth given to each of these blocks is the one that `Lineage` counts along the path
  to `hash`, by one more than the parent's;
* the tip is `hash` if any of these depths exceeds that of `before`'s tip, and is left
  alone otherwise. The order in which the rounds come does not show in any of the three.

`LocksProofs`, for every set of threads, every assignment of roles, every set of
threads that may panic, every capacity and any signals, and whether the server runs,
stalls or closes: `BlockchainIsGate`, `BodiesExclude`,
`NoDeadlockOnMutexes`, `OnePanicEndsAll`, `LocksTypeCorrect`. The invariant says that
a thread holds exactly the first `taken[t]` mutexes of its `LockOrder`. Since
every order begins with `blockchain`, a thread with any mutex has that one; two
threads in a circle of waits would both have it, or want it from each other.

`NodeProofs`, for any nodes, threads, connections, miners and transactions, with
`NodeAssumption`: `TypesHold`, `BlocksStayInStep`, `MempoolStaysConsistent`,
`GeneratedStayBacked`, `NoDuplicates`. Clients send any blocks at any time, with or without
work. The invariant has five parts, each of which needs the ones before it:

* `Typed`: every message in flight or held by a worker names a block that was
  made or a transaction that was made, so what a handler does is about something.
* `ChainInv`: for each node the shape of chain, states and buffer (`ChainOK`, which is `Shape`:
  what has a state has a parent with one, and is in the chain exactly if it has work and
  its parent is there; the rest waits in the buffer if the parent is missing), and `Pipeline`: the blocks in the
  channel from miner to miner worker are a path, it starts at a block of the chain
  and ends at the miner's tip. Without it nothing says that the miner worker finds the
  parent of the block it takes. `InsertShape` is the step: `insert` of a block whose parent has a
  state keeps the shape, whether it takes, buffers or refuses it, and never adopts anything,
  because what hangs from a block without a place in the chain has none either.
* `OutsideInv`: blocks short of work are clients', and miners build on their own blocks.
* `MemInv`: the mempool, and that the transactions of a node's own blocks,
  inserted or still in the channel, are in its `tx_map`; that is what keeps the
  miner from mining one twice.
* `FreshInv`: a block that a miner made repeats no transaction of a set of blocks closed under
  parents that holds its parent. It speaks of sets and not of branches because a step can
  only be compared with sets; `BranchInClosed` brings it back to `Branch`, the
  recursive function of `NoDuplicateTx`, by induction over the depth of a block.

`SameTreeWhenQuiet` is checked and not proved: it holds for one worker a node and peers
that are there from the start, as the run `gossip` shows, and is false
of the code as `main` starts it (findings 11 and 12).

`ServerProofs`, for any addresses, capacities and numbers of connections, with
`ServerAssumption`: `TypesHold`, `RegistryFollows`, `OnlyTheseStop`, `BroadcastsKept`.

* `Typed` ties registry, control channel and inbox to the connections: a listed connection is
  registered, a `GetNewPeer` in the channel is that of a connection that is accepted
  and is there once, a `DroppedPeer` that of a writer that ended.
* `OneAtATime`: of two connections from one client address the earlier is
  reset. `RunningIsListed` is `LiveIsListed` for every writer that has not ended,
  whatever its link does, since the end of the link is noticed later;
  `EndedIsReported` completes it.
* `OpenWhileRunning`: the dispatcher's channel closes only with the executor. With
  the registry it tells the four reasons of `ServerStops` apart: a writer that
  starves has no handle, so it was unlisted by another connection.
* `Streams`: for each connection that is owed broadcasts, what was read, what is in hand,
  what is queued and what the control channel still holds are one interval of the
  broadcasts, in order, from the one after `since`, its registration, up to the last one.

`TotalsProofs` is about the sum over a finite function: that it changes with one of its
amounts (`TotalChanges`, `TotalGrows`), is the sum of two parts (`TotalSplits`), bounds each
amount and everything that can be counted off against some of them (`TotalBounds`,
`TotalInjects`). The sum is a fold, so its value is found by induction over finite sets;
that induction comes from the least counterexample (`LeastNat`, `SetInduction`) and is
stated about sets of sets, not with an operator as parameter. All recursion over data in
these proofs (sums, branches, the states between transactions, the loop of `sqrt`) is treated so:
a recursive function is shown to exist up to n + 1 when it does up to n, and what it computes
is the set of arguments for which it does.

`LedgerProofs`, for any transactions, any number of them in a block, any blocks and any
order of arrival, with `LedgerAssumption`: `TypesHold`, `StatesAreReplays` (`StateIsReplay`),
`NothingSpentTwice` (`NoDoubleSpend`), `NoMoneyMade` (`NoInflation`). The
invariant adds to `StateIsReplay` that every state is a finite one of u32s (`StatesOK`)
and that every verified block passes `verify_block` in the state its parent has now
(`VerifiedAreGood`): a state never changes once it is there, so the check at arrival
still counts, and a second delivery computes the state the block already has
(`StateFromParent`). The replay follows the branch because one transaction does to a
state what one more transaction does to the last touch of each coin (`ReplayAppended`). `NoMoneyMade`
walks through a block: the coins that came with it are worth at most the inputs so far,
all others are as before it and not among these inputs (`Balanced`). That the inputs of different
transactions differ is used in this step and nowhere else, which is finding 1 seen from the other side.

`MarketProofs`, for any users, amounts, prices, ratios and lengths of a run, with
`MintAssumption` and `MarketAssumption`: `TypesHold`, `DebtsCovered` (`SupplyIsDebt`), `RatiosStay`
(`UnitRatioKept`), `BooksStayBalanced` (`BooksBalance`), and the action properties `SharesStayFair`
and `ProductStays`. The invariant is the conjunction of these with

* `OpenedAtRatio`: once there is a position the asset is registered with `MinRatio`.
  Without it a later registration could lower the ratio of a position that is open.
* `EmptyPool`: with both reserves empty there are no shares, so `init` after the last
  `removeLiquidity` starts from nothing.

The steps are arithmetic: truncating division keeps `(a * b) / c <= a` for `b <= c`, the product of
the reserves grows or keeps within what the rounding of one unit may cost, and
`sqrt` is the root (`sqrtIsRoot`): its loop is a recursive function whose value is
shown to exist by the same induction (`LoopExists`), and to satisfy
`z * z <= y < (z + 1) * (z + 1)` because an iteration stays at or above the root
(`MeanStays`) until it stops.

`MerkleProofs`, for any leaves and data of any length, with `MerkleAssumption`:
`VectorHoldsTree` (`VectorIsTree`) and `ProofsAreSound` (`ProofsVerify`). The inductive invariant
`TreeInv` relates the vector to the tree of the definition:

* while `new` runs (`Growing`), its queue is the level `height` of the definition (`ParentsAreAbove`), and
  the levels below are in the vector at the places where `proof`'s arithmetic looks for them (`Stacked`, over
  `Layout`), each padded (`PaddedWidth`) and none but the leaves of width one (`Reached`);
* once built (`Finished`), the level below `height` is the root alone, at the end of the vector.

That the widths that `NextLen` counts are the widths of the padded levels, and the starts even, is
`LayoutFacts`; since the starts are even, the parity of an index in the vector is that of the place
on the level. The place itself is a quotient by a power of two in `proof` and
repeated halving in the definition; `HalfOfQuotient` makes them one (`PlaceFacts`). For `ProofsVerify` the
way of `verify` is followed up, the hash on each level being the one at the leaf's place (`WayUp`),
and for another leaf down from the root: a pair has one left and one right half (`WayDown`), so
a way that ends at the root starts from the leaf that is at its place, whatever the
proof was. That hashes do not collide is assumed here, as everywhere (`Pair` is injective).

Model-checked only: liveness (`InsertReturns`, `BlocksSpread`, `TxsSpread`,
`GateReopens`, `StartsOrEnds`, `ConnectAnswered`, `BroadcastArrives`), which is out of
TLAPS's reach together with fairness and `ENABLED`; and `SameTreeWhenQuiet`, an invariant.

## 5. Not modelled

* Hashing, signatures, serialisation, keys: identities. Two blocks never collide.
* Ping and Pong change nothing in a worker; the API's ping is in `Locks`.
* In `Node` a connection holds once it is made. What a lost one does is in `Server`,
  within one node: the two together are out of TLC's reach.
* `SendToPeer` is `unimplemented!()` and no caller sends it.
* Main's failure to parse an address.
* Difficulty never changes and every block a miner finds meets it; a client's may not.
* API answers are pure reads; their locks and their panic are in `Locks`. Parsing of
  URLs and the text of answers are left out.
* The generator's `return` when the tip has no state: `StatesFollowChain` says it is
  never taken.
* The value of transactions in `Node`: see `Ledger`.
* `Mint` has one registered asset and a price that stays, as `PriceFeed.sol` and the
  deployment have it; approvals are taken for given; numbers are natural numbers
  without a width, as 256 bits are not reached.
* `types/{block,hash,address,key_pair}.rs` keep no state; `Part0` and `Part1` are
  earlier versions of the contracts.

## 6. Plan

All components with state of their own are modelled; every safety property and refinement that
a passing run checks is proved but `SameTreeWhenQuiet`, and TLC keeps the liveness properties. What could be added:

1. `SameTreeWhenQuiet` for some peers that join late: of what was mined after they joined.
2. `Server` and `Node` composed, a connection that ends while blocks are in flight, in a model small
   enough to check.
