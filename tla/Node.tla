-------------------------------- MODULE Node --------------------------------
(***************************************************************************)
(* Running nodes of the client: the gossip of blocks and transactions of   *)
(* src/src/network/worker.rs, the miner (src/src/miner/mod.rs), the worker *)
(* that inserts its blocks (src/src/miner/worker.rs), the generator        *)
(* (src/src/types/transaction_generator.rs) and the server's dispatcher    *)
(* (src/src/network/server.rs).                                            *)
(*                                                                         *)
(* Every thread takes the blockchain mutex before any other and keeps it to *)
(* the end of its loop body (see Locks), so one loop body is one action.   *)
(* The vectors in messages hold one hash, block or transaction each: the   *)
(* miner and the generator announce one, and every reply is as long as its *)
(* request.                                                                *)
(***************************************************************************)
EXTENDS ChainInsert, SequencesExt

CONSTANTS
    Nodes,        \* the processes
    Wallet,       \* a client that sends transactions and blocks to a p2p port
    Edges,        \* connections from the start: set of two-element sets
    LateEdges,    \* connections opened later: set of pairs <<from, to>>
    Workers,      \* threads of a network::worker::Worker, --p2p-workers
    Miners,       \* nodes whose miner is ever started over the API
    Generators,   \* nodes whose transaction generator is ever started
    GeneratedTxs, \* what generators create: signed by a random key, so that no
                  \* peer finds them valid
    ClientTxs,    \* signed transactions without inputs or value: valid anywhere
    BlockLimit,   \* transactions per block (15 in the code)
    MaxBlockNum,  \* largest value of the miner's counter (255 in the code)
    MaxBlocks,    \* bound of the model: blocks made by nodes and clients
    MaxOffers     \* bound of the model: Blocks messages that clients send

ASSUME NodeAssumption ==
    /\ Wallet \notin Nodes
    /\ Edges \subseteq SUBSET Nodes /\ LateEdges \subseteq Nodes \X Nodes
    /\ Miners \subseteq Nodes /\ Generators \subseteq Nodes
    /\ GeneratedTxs \cap ClientTxs = {}
    /\ BlockLimit \in Nat \ {0} /\ MaxBlockNum \in Nat /\ MaxBlocks \in Nat
    /\ MaxOffers \in Nat

VARIABLES
    \* blocks that were made, 1..Len(parent), and transactions that were made
    parent, content, made,
    \* the blocks among them that a client made, those of them short of work, and
    \* how many Blocks messages clients sent
    outside, weak, offers,
    \* per node: Arc<Mutex<Blockchain>>, keys of block_state_map
    bc, states,
    \* per node: the three fields of TransactionMempool
    tx_queue, tx_wait_map, tx_map,
    \* per node: the miner's Context and its channel to the miner worker
    miner, finished,
    \* per node: some thread panicked while it held a mutex
    poisoned,
    \* per node: the server's peers and control channel
    peers, control,
    \* per connection and direction: write queue, socket and receive channel
    link,
    \* per node and thread: the message received and not yet handled
    held

blockVars   == <<parent, content, outside, weak, offers>>
chainVars   == <<bc, states>>
mempoolVars == <<tx_queue, tx_wait_map, tx_map>>
minerVars   == <<miner, finished>>
serverVars  == <<peers, control>>
vars == <<blockVars, made, bc, states, tx_queue, tx_wait_map, tx_map,
          miner, finished, poisoned, peers, control, link, held>>

\* Messages about a block and messages about a transaction.
BlockTypes == {"NewBlockHashes", "GetBlocks", "Blocks"}
TxTypes    == {"NewTransactionHashes", "GetTransactions", "Transactions"}

Msg(type, item) == [type |-> type, item |-> item]
Nothing == [type |-> "none", item |-> Genesis, from |-> Wallet]

Sources == Nodes \cup {Wallet}
Blocks  == 1 .. Len(parent)

\* Blocks whose hash meets the difficulty of their parent.
Worked == Blocks \ weak

Init ==
    /\ parent = << >> /\ content = << >> /\ made = {}
    /\ outside = {} /\ weak = {} /\ offers = 0
    /\ bc = [n \in Nodes |-> NewChain]
    /\ states = [n \in Nodes |-> {Genesis}]
    /\ tx_queue = [n \in Nodes |-> << >>]
    /\ tx_wait_map = [n \in Nodes |-> {}]
    /\ tx_map = [n \in Nodes |-> {}]
    /\ miner = [n \in Nodes |-> [run |-> FALSE, tip |-> Genesis, block_num |-> 0]]
    /\ finished = [n \in Nodes |-> << >>]
    /\ poisoned = [n \in Nodes |-> FALSE]
    /\ peers = [n \in Nodes |-> {m \in Nodes \ {n} : {n, m} \in Edges}]
    /\ control = [n \in Nodes |-> << >>]
    /\ link = [e \in Sources \X Nodes |-> << >>]
    /\ held = [n \in Nodes |-> [w \in Workers |-> Nothing]]

-----------------------------------------------------------------------------
\* Faulty variants of definitions below: nothing announced; mined transactions
\* not kept; transactions known only while they wait; the parent check of a
\* block dropped; the check of its transactions dropped.
AnnounceNothing(b)    == << >>
MinedIntoNothing(n)   == tx_map[n]
KnownTxsWaiting(n)    == tx_wait_map[n]
ValidOnAnyParent(n, b) == ToSet(content[b]) \subseteq ClientTxs
ValidWithAnyTxs(n, b)  == parent[b] \in states[n]

\* What the writer task of n's connection to m puts on the socket, and what the
\* reader task at n puts next in the channel of the workers: in order, unchanged.
Carry(queue, msg) == Append(queue, msg)
Arriving(n, m)    == Head(link[<<m, n>>])

\* peer.write: a client's answers are not modelled.
Write(n, m, msg) ==
    link' = IF m \in Nodes THEN [link EXCEPT ![<<n, m>>] = Carry(@, msg)] ELSE link

\* server.broadcast: the message waits for the dispatcher.
Broadcast(n, msgs) == control' = [control EXCEPT ![n] = @ \o msgs]

\* A block that is new to the node is announced to its peers.
Announce(b) == <<Msg("NewBlockHashes", b)>>

Push(queues, n, x) == [queues EXCEPT ![n] = Append(@, x)]
Pop(queues, n)     == [queues EXCEPT ![n] = Tail(@)]

-----------------------------------------------------------------------------
(* The miner thread. *)

\* /miner/start, the only signal ever sent to the miner.
StartMiner(n) ==
    /\ n \in Miners
    /\ ~miner[n].run
    /\ miner' = [miner EXCEPT ![n].run = TRUE]
    /\ UNCHANGED <<blockVars, made, chainVars, mempoolVars, finished,
                   poisoned, serverVars, link, held>>

\* The hashes one iteration looks at, and whether it finds their transactions.
Picked(n)   == SubSeq(tx_queue[n], 1, IF Len(tx_queue[n]) < BlockLimit
                                      THEN Len(tx_queue[n]) ELSE BlockLimit)
Backed(n)   == ToSet(Picked(n)) \subseteq tx_wait_map[n]

\* The block the miner works on: its parent is the miner's own last block.
MiningParent(n) == miner[n].tip

\* What mining leaves in tx_map.
MinedInto(n) == tx_map[n] \cup ToSet(Picked(n))

\* An iteration that meets the difficulty.
MineBlock(n) ==
    LET b == Len(parent) + 1 IN
    /\ miner[n].run /\ ~poisoned[n]
    /\ Len(parent) < MaxBlocks
    /\ Backed(n)
    /\ miner[n].block_num < MaxBlockNum
    /\ parent' = Append(parent, MiningParent(n))
    /\ content' = Append(content, Picked(n))
    /\ miner' = [miner EXCEPT ![n] = [run |-> TRUE, tip |-> b, block_num |-> @.block_num + 1]]
    /\ tx_queue' = [tx_queue EXCEPT ![n] = SubSeq(@, Len(Picked(n)) + 1, Len(@))]
    /\ tx_map' = [tx_map EXCEPT ![n] = MinedInto(n)]
    /\ tx_wait_map' = [tx_wait_map EXCEPT ![n] = @ \ ToSet(Picked(n))]
    /\ finished' = Push(finished, n, b)
    /\ UNCHANGED <<outside, weak, offers, made, chainVars, poisoned, serverVars, link, held>>

\* The iteration panics with both mutexes held.
MinerPanics(n) ==
    /\ miner[n].run /\ ~poisoned[n]
    /\ poisoned' = [poisoned EXCEPT ![n] = TRUE]
    /\ UNCHANGED <<blockVars, made, chainVars, mempoolVars, minerVars,
                   serverVars, link, held>>

\* A queued hash has no transaction: unwrap fails.
UnwrapFails(n) == ~Backed(n) /\ MinerPanics(n)

\* Another block is found and, in the dev build, the counter overflows.
CounterOverflows(n) ==
    /\ Backed(n)
    /\ miner[n].block_num = MaxBlockNum /\ Len(parent) < MaxBlocks
    /\ MinerPanics(n)

\* The miner worker inserts the miner's block, unverified, and announces it.
MinerWorker(n) ==
    LET b == Head(finished[n]) IN
    /\ ~poisoned[n]
    /\ finished[n] # << >>
    /\ finished' = Pop(finished, n)
    /\ bc' = [bc EXCEPT ![n] = Insert(@, b, parent, Worked)]
    /\ parent[b] \in states[n]
    /\ states' = [states EXCEPT ![n] = @ \cup {b}]
    /\ Broadcast(n, Announce(b))
    /\ UNCHANGED <<blockVars, made, mempoolVars, miner, poisoned, peers, link, held>>

-----------------------------------------------------------------------------
(* Transactions and blocks enter the system. *)

\* One iteration of the generator thread.
Generate(n, tx) ==
    /\ n \in Generators /\ ~poisoned[n]
    /\ tx \in GeneratedTxs \ made
    /\ bc[n].tip \in states[n]
    /\ made' = made \cup {tx}
    /\ tx_wait_map' = [tx_wait_map EXCEPT ![n] = @ \cup {tx}]
    /\ tx_queue' = Push(tx_queue, n, tx)
    /\ Broadcast(n, <<Msg("NewTransactionHashes", tx)>>)
    /\ UNCHANGED <<blockVars, chainVars, tx_map, minerVars, poisoned, peers,
                   link, held>>

\* A client outside the system sends a Transactions message.
Submit(n, tx) ==
    /\ tx \in ClientTxs \ made
    /\ made' = made \cup {tx}
    /\ link' = [link EXCEPT ![<<Wallet, n>>] = Append(@, Msg("Transactions", tx))]
    /\ UNCHANGED <<blockVars, chainVars, mempoolVars, minerVars, poisoned,
                   serverVars, held>>

\* A client sends a Blocks message.
Offer(n, b) ==
    /\ offers < MaxOffers /\ offers' = offers + 1
    /\ link' = [link EXCEPT ![<<Wallet, n>>] = Append(@, Msg("Blocks", b))]

\* Blocks a client has made or got from a node.
Seen == outside \cup UNION {states[m] : m \in Nodes}

\* A client makes a block on one it has seen, with at most one transaction, and sends
\* it; short: without the work that the parent's difficulty asks for.
SubmitBlock(n, p, txs, short) ==
    LET b == Len(parent) + 1 IN
    /\ Len(parent) < MaxBlocks
    /\ p \in Seen \cup {Genesis}
    /\ parent' = Append(parent, p)
    /\ content' = Append(content, txs)
    /\ made' = made \cup ToSet(txs)
    /\ outside' = outside \cup {b}
    /\ weak' = IF short THEN weak \cup {b} ELSE weak
    /\ Offer(n, b)
    /\ UNCHANGED <<chainVars, mempoolVars, minerVars, poisoned, serverVars, held>>

\* A client sends such a block once more.
ResendBlock(n, b) ==
    /\ b \in Seen \ {Genesis}
    /\ Offer(n, b)
    /\ UNCHANGED <<parent, content, outside, weak, made, chainVars, mempoolVars,
                   minerVars, poisoned, serverVars, held>>

-----------------------------------------------------------------------------
(* The server's dispatcher. *)

Signal(n, type) == control[n] # << >> /\ Head(control[n]).type = type

\* The node is told to connect to a peer (command line, retried until it works).
Join(n, m) ==
    /\ <<n, m>> \in LateEdges
    /\ m \notin peers[n] /\ Msg("ConnectNewPeer", m) \notin ToSet(control[n])
    /\ control' = Push(control, n, Msg("ConnectNewPeer", m))
    /\ UNCHANGED <<blockVars, made, chainVars, mempoolVars, minerVars, poisoned,
                   peers, link, held>>

\* The other side accepts when its dispatcher gets to it.
DispatchConnect(n) ==
    LET m == Head(control[n]).item IN
    /\ Signal(n, "ConnectNewPeer")
    /\ peers' = [peers EXCEPT ![n] = @ \cup {m}]
    /\ control' = Push(Pop(control, n), m, Msg("GetNewPeer", n))
    /\ UNCHANGED <<blockVars, made, chainVars, mempoolVars, minerVars, poisoned,
                   link, held>>

DispatchAccept(n) ==
    /\ Signal(n, "GetNewPeer")
    /\ peers' = [peers EXCEPT ![n] = @ \cup {Head(control[n]).item}]
    /\ control' = Pop(control, n)
    /\ UNCHANGED <<blockVars, made, chainVars, mempoolVars, minerVars, poisoned,
                   link, held>>

\* A broadcast goes to the peers there are when it is dispatched.
DispatchBroadcast(n) ==
    /\ control[n] # << >>
    /\ Head(control[n]).type \notin {"ConnectNewPeer", "GetNewPeer"}
    /\ link' = [e \in DOMAIN link |->
                  IF e[1] = n /\ e[2] \in peers[n]
                  THEN Carry(link[e], Head(control[n])) ELSE link[e]]
    /\ control' = Pop(control, n)
    /\ UNCHANGED <<blockVars, made, chainVars, mempoolVars, minerVars, poisoned,
                   peers, held>>

-----------------------------------------------------------------------------
(* The worker threads. *)

\* A thread takes the next message of some connection off the shared channel.
Receive(n, w, m) ==
    /\ ~poisoned[n]
    /\ held[n][w] = Nothing
    /\ link[<<m, n>>] # << >>
    /\ held' = [held EXCEPT ![n][w] = [type |-> Arriving(n, m).type,
                                       item |-> Arriving(n, m).item, from |-> m]]
    /\ link' = [link EXCEPT ![<<m, n>>] = Tail(@)]
    /\ UNCHANGED <<blockVars, made, chainVars, mempoolVars, minerVars, poisoned,
                   serverVars>>

\* The thread has the mutexes and a message of this type.
Handles(n, w, type) == ~poisoned[n] /\ held[n][w].type = type

Done(n, w) == held' = [held EXCEPT ![n][w] = Nothing]

\* Hashes the node does not ask for again.
KnownBlocks(n) == bc[n].chain_map \cup bc[n].buffer_map
KnownTxs(n)    == tx_wait_map[n] \cup tx_map[n]

HandleNewBlockHashes(n, w) ==
    LET h == held[n][w].item IN
    /\ Handles(n, w, "NewBlockHashes")
    /\ IF h \in KnownBlocks(n) THEN UNCHANGED link
       ELSE Write(n, held[n][w].from, Msg("GetBlocks", h))
    /\ Done(n, w)
    /\ UNCHANGED <<blockVars, made, chainVars, mempoolVars, minerVars, poisoned,
                   serverVars>>

HandleGetBlocks(n, w) ==
    LET h == held[n][w].item IN
    /\ Handles(n, w, "GetBlocks")
    /\ IF h \in KnownBlocks(n) THEN Write(n, held[n][w].from, Msg("Blocks", h))
       ELSE UNCHANGED link
    /\ Done(n, w)
    /\ UNCHANGED <<blockVars, made, chainVars, mempoolVars, minerVars, poisoned,
                   serverVars>>

\* The parent has a state, and verify_block finds every transaction valid in it.
ValidBlock(n, b) == parent[b] \in states[n] /\ ToSet(content[b]) \subseteq ClientTxs

\* A block that passes the checks.  Insert may refuse it, for want of work, or buffer it,
\* under a refused one: mempool, state and announcement follow all the same, and one
\* refused is new whenever it comes again.  tx_queue keeps the hashes.
HandleBlocks(n, w) ==
    LET b   == held[n][w].item
        txs == ToSet(content[b])
        new == b \notin KnownBlocks(n)
        bc2 == IF new THEN Insert(bc[n], b, parent, Worked) ELSE bc[n]
    IN
    /\ Handles(n, w, "Blocks")
    /\ ValidBlock(n, b)
    /\ bc' = [bc EXCEPT ![n] = bc2]
    /\ tx_wait_map' = [tx_wait_map EXCEPT ![n] = @ \ txs]
    /\ tx_map' = [tx_map EXCEPT ![n] = @ \cup txs]
    /\ states' = [states EXCEPT ![n] = @ \cup {b}]
    /\ Broadcast(n, (IF new /\ parent[b] \notin bc2.chain_map
                     THEN <<Msg("GetBlocks", parent[b])>> ELSE << >>)
                    \o (IF new THEN Announce(b) ELSE << >>))
    /\ Done(n, w)
    /\ UNCHANGED <<blockVars, made, tx_queue, minerVars, poisoned, peers, link>>

\* A block that fails the checks is dropped without a trace, the one whose parent
\* has no state yet among them.
DropBlocks(n, w) ==
    /\ Handles(n, w, "Blocks")
    /\ ~ValidBlock(n, held[n][w].item)
    /\ Done(n, w)
    /\ UNCHANGED <<blockVars, made, chainVars, mempoolVars, minerVars, poisoned,
                   serverVars, link>>

HandleNewTransactionHashes(n, w) ==
    LET tx == held[n][w].item IN
    /\ Handles(n, w, "NewTransactionHashes")
    /\ IF tx \in KnownTxs(n) THEN UNCHANGED link
       ELSE Write(n, held[n][w].from, Msg("GetTransactions", tx))
    /\ Done(n, w)
    /\ UNCHANGED <<blockVars, made, chainVars, mempoolVars, minerVars, poisoned,
                   serverVars>>

HandleGetTransactions(n, w) ==
    LET tx == held[n][w].item IN
    /\ Handles(n, w, "GetTransactions")
    /\ IF tx \in KnownTxs(n) THEN Write(n, held[n][w].from, Msg("Transactions", tx))
       ELSE UNCHANGED link
    /\ Done(n, w)
    /\ UNCHANGED <<blockVars, made, chainVars, mempoolVars, minerVars, poisoned,
                   serverVars>>

\* Only the signature is checked, and it is good for every transaction made.
HandleTransactions(n, w) ==
    LET tx == held[n][w].item IN
    /\ Handles(n, w, "Transactions")
    /\ IF tx \in KnownTxs(n) THEN UNCHANGED <<mempoolVars, control>>
       ELSE /\ tx_wait_map' = [tx_wait_map EXCEPT ![n] = @ \cup {tx}]
            /\ tx_queue' = Push(tx_queue, n, tx)
            /\ Broadcast(n, <<Msg("NewTransactionHashes", tx)>>)
            /\ UNCHANGED tx_map
    /\ Done(n, w)
    /\ UNCHANGED <<blockVars, made, chainVars, minerVars, poisoned, peers, link>>

Handle(n, w) ==
    \/ HandleNewBlockHashes(n, w) \/ HandleGetBlocks(n, w)
    \/ HandleBlocks(n, w) \/ DropBlocks(n, w)
    \/ HandleNewTransactionHashes(n, w) \/ HandleGetTransactions(n, w)
    \/ HandleTransactions(n, w)

Dispatch(n) == DispatchConnect(n) \/ DispatchAccept(n) \/ DispatchBroadcast(n)

Worker(n, w) == Handle(n, w) \/ \E m \in Sources : Receive(n, w, m)

\* What a client puts in a block.
OneOrNone == {<< >>} \cup {<<tx>> : tx \in ClientTxs}

Next ==
    \E n \in Nodes :
        \/ StartMiner(n) \/ MineBlock(n) \/ MinerWorker(n)
        \/ UnwrapFails(n) \/ CounterOverflows(n)
        \/ \E tx \in GeneratedTxs : Generate(n, tx)
        \/ \E tx \in ClientTxs : Submit(n, tx)
        \/ \E p \in {Genesis} \cup Blocks, txs \in OneOrNone, short \in BOOLEAN :
              SubmitBlock(n, p, txs, short)
        \/ \E b \in Blocks : ResendBlock(n, b)
        \/ \E m \in Nodes : Join(n, m)
        \/ Dispatch(n)
        \/ \E w \in Workers : Worker(n, w)

Spec == Init /\ [][Next]_vars

\* The dispatcher and the worker threads get their turns in the end.  That is an
\* assumption about std::sync::Mutex, which promises no order among the threads that
\* wait; Locks does not discharge it.  Nobody has to mine, to send or to connect.
FairSpec ==
    /\ Spec
    /\ \A n \in Nodes :
          /\ WF_vars(Dispatch(n))
          /\ WF_vars(MinerWorker(n))
          /\ \A w \in Workers : WF_vars(Worker(n, w))

-----------------------------------------------------------------------------
Txs == GeneratedTxs \cup ClientTxs

TypeOK ==
    /\ parent \in Seq(Nat) /\ content \in Seq(Seq(Txs)) /\ Len(content) = Len(parent)
    /\ \A b \in Blocks : parent[b] < b
    /\ made \subseteq Txs
    /\ weak \subseteq outside /\ outside \subseteq Blocks
    /\ \A n \in Nodes :
          /\ bc[n].chain_map \subseteq {Genesis} \cup Blocks
          /\ bc[n].tip \in bc[n].chain_map
          /\ bc[n].length_map \in [bc[n].chain_map -> Nat]
          /\ bc[n].buffer_map \subseteq Blocks
          /\ states[n] \subseteq {Genesis} \cup Blocks
          /\ tx_queue[n] \in Seq(made)
          /\ tx_wait_map[n] \cup tx_map[n] \subseteq made
          /\ miner[n].tip \in {Genesis} \cup Blocks
          /\ finished[n] \in Seq(Blocks)
          /\ peers[n] \subseteq Nodes
          /\ \A w \in Workers : \/ held[n][w] = Nothing
                               \/ held[n][w] \in [type : BlockTypes, item : Blocks, from : Sources]
                               \/ held[n][w] \in [type : TxTypes, item : made, from : Sources]

\* A state is written for a block whose parent has one, and never without cause missing
\* from the chain: it is short of work, or its parent is not there either.  In
\* particular every block of the chain has a state and its parent in the chain.
StatesFollowChain ==
    \A n \in Nodes :
        /\ bc[n].chain_map \subseteq states[n]
        /\ \A b \in states[n] \ {Genesis} :
              /\ parent[b] \in states[n]
              /\ b \in bc[n].chain_map <=> b \notin weak /\ parent[b] \in bc[n].chain_map

\* The orphan buffer holds what hangs, directly or not, from a refused block, for ever:
\* no search adopts any of it.
BufferUnderRefused ==
    \A n \in Nodes :
        bc[n].buffer_map = {b \in states[n] \ {Genesis} : parent[b] \notin bc[n].chain_map}

\* Without refused blocks, exactly the blocks of the chain have a state and the orphan
\* buffer stays empty.
NothingBesideChain ==
    weak = {} => \A n \in Nodes : states[n] = bc[n].chain_map /\ bc[n].buffer_map = {}

\* A node's tip is a longest chain of its tree.
TipIsLongest ==
    \A n \in Nodes : \A h \in bc[n].chain_map :
        bc[n].length_map[h] <= bc[n].length_map[bc[n].tip]

\* The parent of the block the miner worker takes next has a state: the worker never
\* waits for one, nor panics for want of one.
OwnParentKnown ==
    \A n \in Nodes : finished[n] # << >> => parent[Head(finished[n])] \in states[n]

\* Whatever the threads, the peers and the clients do, and whatever insert refuses, a
\* node's chain, buffer, states and tip stay in step.
BlocksInStep ==
    StatesFollowChain /\ BufferUnderRefused /\ NothingBesideChain /\ TipIsLongest /\ OwnParentKnown

\* Nothing is in flight.
Quiet ==
    /\ \A e \in DOMAIN link : link[e] = << >>
    /\ \A n \in Nodes : /\ finished[n] = << >> /\ control[n] = << >>
                        /\ \A w \in Workers : held[n][w] = Nothing

\* When nothing is in flight, nodes that are connected, directly or through others, have
\* the same tree.  With a second worker thread, or a connection made late, it is false.
SameTreeWhenQuiet ==
    Quiet => \A n \in Nodes : \A m \in peers[n] : bc[n].chain_map = bc[m].chain_map

\* A block one node has reaches every node.
BlocksSpread ==
    \A b \in 1 .. MaxBlocks :
        (\E n \in Nodes : b \in bc[n].chain_map) ~> \A m \in Nodes : b \in bc[m].chain_map

\* A transaction one node knows reaches every node, unless one of them dies.
TxsSpread ==
    \A tx \in Txs, m \in Nodes :
        (\E n \in Nodes : tx \in KnownTxs(n))
            ~> tx \in KnownTxs(m) \/ \E n \in Nodes : poisoned[n]

-----------------------------------------------------------------------------
\* A transaction is queued at most once, and every waiting one is queued.
QueueIsWaitMap ==
    \A n \in Nodes : IsInjective(tx_queue[n]) /\ tx_wait_map[n] \subseteq ToSet(tx_queue[n])

\* A transaction is either waiting or in a block the node knows, not both, so
\* that an answer to GetTransactions holds it once.
WaitOrDone == \A n \in Nodes : tx_wait_map[n] \cap tx_map[n] = {}

\* The transactions of the node's blocks are never taken for new ones.
ChainTxsKnown ==
    \A n \in Nodes : \A b \in bc[n].chain_map \ {Genesis} :
        ToSet(content[b]) \subseteq tx_map[n]

\* The three fields of the mempool fit each other and the chain.
MempoolConsistent == QueueIsWaitMap /\ WaitOrDone /\ ChainTxsKnown

\* No branch that the nodes mine holds a transaction twice.  (A client's block may: no
\* node compares the transactions of a block with those below it.)
Branch(b) ==
    LET path[h \in {Genesis} \cup Blocks] ==
            IF h = Genesis THEN << >> ELSE path[parent[h]] \o content[h]
    IN  path[b]
NoDuplicateTx == \A b \in Blocks \ outside : IsInjective(Branch(b))

\* tx_wait_map.get(&tx_hash).unwrap() in the miner finds every generated
\* transaction: no block of a peer takes one out of tx_wait_map.
GeneratedBacked ==
    \A n \in Nodes : ToSet(tx_queue[n]) \cap GeneratedTxs \subseteq tx_wait_map[n]

\* What the assignment asks of the mempool: a transaction the node received waits for the
\* miner until a block of the chain, or one the miner has just made, holds it.  Not kept by
\* the code: a refused block takes its transactions with it.
TxsKept ==
    \A n \in Nodes :
        tx_map[n] \subseteq UNION {ToSet(content[b]) :
                                 b \in (bc[n].chain_map \ {Genesis}) \cup ToSet(finished[n])}

\* What the assignment asks when a block is processed: its transactions leave the mempool,
\* the queue of hashes too, so that the miner's unwrap finds every hash it picks.  Not kept
\* by the code: the worker leaves tx_queue alone.
QueuedAreWaiting == \A n \in Nodes : ToSet(tx_queue[n]) \subseteq tx_wait_map[n]

\* A block is mined on a longest chain its node knows.
MinesOnLongest ==
    [][\A n \in Nodes :
          miner'[n].tip # miner[n].tip /\ parent'[miner'[n].tip] \in bc[n].chain_map
            => bc[n].length_map[parent'[miner'[n].tip]] = bc[n].length_map[bc[n].tip]]_vars
=============================================================================
