----------------------------- MODULE NodeProofs -----------------------------
(***************************************************************************)
(* Invariants of a running network, for any nodes, threads, connections,   *)
(* clients and transactions.  The inductive invariant Inv has five parts:  *)
(* the types of all variables, messages in flight included (Typed); what   *)
(* clients made and that the miners stay off it (OutsideInv); each node's  *)
(* chain, buffer and states and the miner's blocks on their way to them    *)
(* (ChainInv); each node's mempool (MemInv); and that no mined block       *)
(* repeats a transaction of one below it (FreshInv).                       *)
(***************************************************************************)
EXTENDS Node, FiniteSetTheorems, SequenceTheorems, WellFoundedInduction, TLAPS

PeerMsgs    == [type : BlockTypes, item : Blocks] \cup [type : TxTypes, item : made]
ControlMsgs == PeerMsgs \cup [type : {"ConnectNewPeer", "GetNewPeer"}, item : Nodes]
HeldMsgs    == [type : BlockTypes, item : Blocks, from : Sources]
                 \cup [type : TxTypes, item : made, from : Sources] \cup {Nothing}

BlocksTyped ==
    /\ parent \in Seq(Nat) /\ content \in Seq(Seq(made)) /\ Len(content) = Len(parent)
    /\ \A b \in Blocks : parent[b] < b

NodesTyped ==
    /\ made \subseteq Txs
    /\ bc = [n \in Nodes |-> bc[n]]
    /\ states \in [Nodes -> SUBSET ({Genesis} \cup Blocks)]
    /\ tx_queue \in [Nodes -> Seq(made)]
    /\ tx_wait_map \in [Nodes -> SUBSET made] /\ tx_map \in [Nodes -> SUBSET made]
    /\ miner \in [Nodes -> [run : BOOLEAN, tip : {Genesis} \cup Blocks, block_num : Nat]]
    /\ finished \in [Nodes -> Seq(Blocks)]
    /\ poisoned \in [Nodes -> BOOLEAN]
    /\ peers \in [Nodes -> SUBSET Nodes]
    /\ control \in [Nodes -> Seq(ControlMsgs)]
    /\ link \in [Sources \X Nodes -> Seq(PeerMsgs)]
    /\ held \in [Nodes -> [Workers -> HeldMsgs]]

Typed == BlocksTyped /\ NodesTyped

\* Blocks short of work come from clients, and miners build on their own blocks only.
OutsideInv ==
    /\ weak \subseteq outside /\ outside \subseteq Blocks
    /\ \A n \in Nodes : miner[n].tip \notin outside /\ ToSet(finished[n]) \cap outside = {}

USE DEF Genesis, blockVars, chainVars, mempoolVars, minerVars, serverVars

LEMMA InitTyped == ASSUME Init PROVE Typed
<1>1. BlocksTyped
  BY DEF Init, BlocksTyped, Blocks
<1>2. NodesTyped
  BY DEF Init, NodesTyped, HeldMsgs, Blocks, Sources
<1> QED BY <1>1, <1>2 DEF Typed


\* The sets of blocks and transactions only grow, and everything typed by them stays
\* typed.
LEMMA PickedTyped ==
    ASSUME Typed, NEW n \in Nodes
    PROVE  Picked(n) \in Seq(made) /\ Len(Picked(n)) \in 0 .. Len(tx_queue[n])
<1>1. tx_queue[n] \in Seq(made) /\ BlockLimit \in Nat \ {0}
  BY NodeAssumption DEF Typed, NodesTyped
<1> QED BY <1>1 DEF Picked

LEMMA SeqGrows ==
    ASSUME NEW S, NEW T, S \subseteq T
    PROVE  Seq(S) \subseteq Seq(T)
  BY SeqMonotonic

LEMMA Growing ==
    ASSUME Blocks \subseteq Blocks', made \subseteq made'
    PROVE  /\ PeerMsgs \subseteq PeerMsgs' /\ ControlMsgs \subseteq ControlMsgs'
           /\ HeldMsgs \subseteq HeldMsgs'
           /\ Seq(Blocks) \subseteq Seq(Blocks') /\ Seq(made) \subseteq Seq(made')
           /\ Seq(PeerMsgs) \subseteq Seq(PeerMsgs')
           /\ Seq(ControlMsgs) \subseteq Seq(ControlMsgs')
<1>1. PeerMsgs \subseteq PeerMsgs'
  BY DEF PeerMsgs
<1>2. ControlMsgs \subseteq ControlMsgs'
  BY <1>1 DEF ControlMsgs
<1>3. HeldMsgs \subseteq HeldMsgs'
  BY DEF HeldMsgs, Nothing, Sources
<1> QED BY <1>1, <1>2, <1>3, SeqGrows

LEMMA Constant ==
    ASSUME UNCHANGED <<parent, made>>
    PROVE  /\ Blocks' = Blocks /\ PeerMsgs' = PeerMsgs /\ ControlMsgs' = ControlMsgs
           /\ HeldMsgs' = HeldMsgs
  BY DEF Blocks, PeerMsgs, ControlMsgs, HeldMsgs, Nothing, Sources

LEMMA MineTyped == ASSUME Typed, NEW n \in Nodes, MineBlock(n) PROVE Typed'
<1> DEFINE b == Len(parent) + 1
<1>1. /\ parent' = Append(parent, MiningParent(n)) /\ content' = Append(content, Picked(n))
      /\ parent \in Seq(Nat) /\ content \in Seq(Seq(made)) /\ Len(content) = Len(parent)
      /\ \A h \in 1 .. Len(parent) : parent[h] < h
  BY DEF MineBlock, Typed, BlocksTyped, Blocks
<1>2. MiningParent(n) \in {Genesis} \cup Blocks /\ Picked(n) \in Seq(made)
  BY PickedTyped DEF MiningParent, Typed, NodesTyped
<1>3. Blocks' = Blocks \cup {b} /\ b \in Nat
  BY <1>1, <1>2 DEF Blocks
<1>4. BlocksTyped'
  <2>1. parent' \in Seq(Nat) /\ content' \in Seq(Seq(made')) /\ Len(content') = Len(parent')
    BY <1>1, <1>2 DEF Blocks, MineBlock
  <2>2. \A h \in Blocks' : parent'[h] < h
    BY <1>1, <1>2, <1>3 DEF Blocks
  <2> QED BY <2>1, <2>2 DEF BlocksTyped
<1>5. made' = made
  BY DEF MineBlock
<1>6. NodesTyped'
  <2>1. miner' \in [Nodes -> [run : BOOLEAN, tip : {Genesis} \cup Blocks', block_num : Nat]]
    <3> DEFINE M == [run : BOOLEAN, tip : {Genesis} \cup Blocks', block_num : Nat]
    <3>1. miner \in [Nodes -> M]
      BY <1>3 DEF Typed, NodesTyped
    <3>2. /\ miner[n].block_num + 1 \in Nat /\ b \in {Genesis} \cup Blocks'
      BY <1>3 DEF Typed, NodesTyped
    <3>3. miner' = [miner EXCEPT ![n] = [run |-> TRUE, tip |-> b,
                                         block_num |-> miner[n].block_num + 1]]
      BY DEF MineBlock
    <3>4. [run |-> TRUE, tip |-> b, block_num |-> miner[n].block_num + 1] \in M
      BY <3>2
    <3> HIDE DEF M
    <3>5. miner' \in [Nodes -> M]
      BY <3>1, <3>3, <3>4
    <3> QED BY <3>5 DEF M
  <2>2. tx_queue' \in [Nodes -> Seq(made)]
    <3> DEFINE q == tx_queue[n]
               rest == SubSeq(q, Len(Picked(n)) + 1, Len(q))
    <3>1. tx_queue \in [Nodes -> Seq(made)] /\ q \in Seq(made)
      BY DEF Typed, NodesTyped
    <3>2. Len(Picked(n)) \in 0 .. Len(q)
      BY PickedTyped
    <3>3. rest \in Seq(made)
      BY <3>1, <3>2
    <3>4. tx_queue' = [tx_queue EXCEPT ![n] = rest]
      BY DEF MineBlock
    <3> HIDE DEF rest
    <3> QED BY <3>1, <3>3, <3>4
  <2>3. tx_wait_map' \in [Nodes -> SUBSET made] /\ tx_map' \in [Nodes -> SUBSET made]
    BY PickedTyped DEF MineBlock, Typed, NodesTyped, MinedInto, ToSet
  <2>4. finished' \in [Nodes -> Seq(Blocks')]
    <3>1. finished \in [Nodes -> Seq(Blocks')]
      BY <1>3, SeqGrows DEF Typed, NodesTyped
    <3> QED BY <1>3, <3>1 DEF MineBlock, Push
  <2>5. Seq(ControlMsgs) \subseteq Seq(ControlMsgs') /\ Seq(PeerMsgs) \subseteq Seq(PeerMsgs')
        /\ HeldMsgs \subseteq HeldMsgs'
    BY <1>3, <1>5, Growing
  <2>6. UNCHANGED <<made, bc, states, poisoned, peers, control, link, held>>
    BY DEF MineBlock
  <2>7. /\ states' \in [Nodes -> SUBSET ({Genesis} \cup Blocks')]
        /\ control' \in [Nodes -> Seq(ControlMsgs')]
        /\ link' \in [Sources \X Nodes -> Seq(PeerMsgs')]
        /\ held' \in [Nodes -> [Workers -> HeldMsgs']]
    BY <1>3, <2>5, <2>6 DEF Typed, NodesTyped
  <2> QED BY <1>5, <2>1, <2>2, <2>3, <2>4, <2>6, <2>7 DEF Typed, NodesTyped
<1> QED BY <1>4, <1>6 DEF Typed

LEMMA StartTyped == ASSUME Typed, NEW n \in Nodes, StartMiner(n) PROVE Typed'
<1>1. /\ UNCHANGED <<parent, content, made, bc, states, tx_queue, tx_wait_map, tx_map, finished,
                    poisoned, peers, control, link, held>>
      /\ miner' = [miner EXCEPT ![n].run = TRUE]
  BY DEF StartMiner
<1>2. miner' \in [Nodes -> [run : BOOLEAN, tip : {Genesis} \cup Blocks, block_num : Nat]]
  <2> DEFINE T == {Genesis} \cup Blocks
  <2>1. miner \in [Nodes -> [run : BOOLEAN, tip : T, block_num : Nat]]
    BY DEF Typed, NodesTyped
  <2> HIDE DEF T
  <2>2. miner' \in [Nodes -> [run : BOOLEAN, tip : T, block_num : Nat]]
    BY <1>1, <2>1
  <2> QED BY <2>2 DEF T
<1>3. Blocks' = Blocks /\ PeerMsgs' = PeerMsgs /\ ControlMsgs' = ControlMsgs /\ HeldMsgs' = HeldMsgs
  BY <1>1, Constant
<1>4. BlocksTyped'
  BY <1>1, <1>3 DEF Typed, BlocksTyped
<1>5. NodesTyped'
  BY <1>1, <1>2, <1>3 DEF Typed, NodesTyped
<1> QED BY <1>4, <1>5 DEF Typed

LEMMA PanicTyped == ASSUME Typed, NEW n \in Nodes, MinerPanics(n) PROVE Typed'
  BY Constant DEF MinerPanics, Typed, BlocksTyped, NodesTyped, Blocks

LEMMA MinerWorkerTyped == ASSUME Typed, NEW n \in Nodes, MinerWorker(n) PROVE Typed'
<1>1. UNCHANGED <<parent, content, made>>
  BY DEF MinerWorker
<1>2. BlocksTyped'
  BY <1>1 DEF Typed, BlocksTyped, Blocks
<1>3. Head(finished[n]) \in Blocks /\ Tail(finished[n]) \in Seq(Blocks)
  BY DEF MinerWorker, Typed, NodesTyped
<1>4. Announce(Head(finished[n])) \in Seq(ControlMsgs)
  BY <1>3 DEF Announce, Msg, ControlMsgs, PeerMsgs, BlockTypes
<1>5. control' \in [Nodes -> Seq(ControlMsgs)]
  BY <1>4 DEF MinerWorker, Broadcast, Typed, NodesTyped
<1> QED BY <1>1, <1>2, <1>3, <1>5, Constant DEF MinerWorker, Typed, NodesTyped, Pop

LEMMA GenerateTyped ==
    ASSUME Typed, NEW n \in Nodes, NEW tx \in GeneratedTxs, Generate(n, tx)
    PROVE  Typed'
<1>1. UNCHANGED <<parent, content>> /\ made' = made \cup {tx}
  BY DEF Generate
<1>2. BlocksTyped' /\ Blocks' = Blocks
  <2>1. Seq(Seq(made)) \subseteq Seq(Seq(made'))
    BY <1>1, SeqGrows
  <2> QED BY <1>1, <2>1 DEF Typed, BlocksTyped, Blocks
<1>3. /\ HeldMsgs \subseteq HeldMsgs' /\ Seq(made) \subseteq Seq(made')
      /\ Seq(PeerMsgs) \subseteq Seq(PeerMsgs') /\ Seq(ControlMsgs) \subseteq Seq(ControlMsgs')
  BY <1>1, <1>2, Growing
<1>4. Msg("NewTransactionHashes", tx) \in ControlMsgs'
  BY <1>1 DEF Msg, ControlMsgs, PeerMsgs, TxTypes
<1>5. control' \in [Nodes -> Seq(ControlMsgs')]
  BY <1>3, <1>4 DEF Generate, Broadcast, Typed, NodesTyped
<1>6. tx_queue' \in [Nodes -> Seq(made')]
  BY <1>1, <1>3 DEF Generate, Push, Typed, NodesTyped
<1>7. made' \subseteq Txs /\ tx_wait_map' \in [Nodes -> SUBSET made']
  BY <1>1 DEF Generate, Typed, NodesTyped, Txs
<1> QED BY <1>1, <1>2, <1>3, <1>5, <1>6, <1>7 DEF Generate, Typed, NodesTyped

LEMMA SubmitTyped ==
    ASSUME Typed, NEW n \in Nodes, NEW tx \in ClientTxs, Submit(n, tx)
    PROVE  Typed'
<1>1. UNCHANGED <<parent, content>> /\ made' = made \cup {tx}
  BY DEF Submit
<1>2. BlocksTyped' /\ Blocks' = Blocks
  <2>1. Seq(Seq(made)) \subseteq Seq(Seq(made'))
    BY <1>1, SeqGrows
  <2> QED BY <1>1, <2>1 DEF Typed, BlocksTyped, Blocks
<1>3. /\ HeldMsgs \subseteq HeldMsgs' /\ Seq(made) \subseteq Seq(made')
      /\ Seq(PeerMsgs) \subseteq Seq(PeerMsgs') /\ Seq(ControlMsgs) \subseteq Seq(ControlMsgs')
  BY <1>1, <1>2, Growing
<1>4. Msg("Transactions", tx) \in PeerMsgs'
  BY <1>1 DEF Msg, PeerMsgs, TxTypes
<1>5. link' \in [Sources \X Nodes -> Seq(PeerMsgs')]
  BY <1>3, <1>4 DEF Submit, Sources, Typed, NodesTyped
<1>6. made' \subseteq Txs
  BY <1>1 DEF Typed, NodesTyped, Txs
<1> QED BY <1>1, <1>2, <1>3, <1>5, <1>6 DEF Submit, Typed, NodesTyped

\* A Blocks message of a client.
LEMMA OfferTyped ==
    ASSUME Typed, NEW n \in Nodes, NEW b \in Blocks', Offer(n, b),
           Seq(PeerMsgs) \subseteq Seq(PeerMsgs')
    PROVE  link' \in [Sources \X Nodes -> Seq(PeerMsgs')]
<1>1. Msg("Blocks", b) \in PeerMsgs'
  BY DEF Msg, PeerMsgs, BlockTypes
<1> QED BY <1>1 DEF Offer, Sources, Typed, NodesTyped

LEMMA SubmitBlockTyped ==
    ASSUME Typed, OutsideInv, NEW n \in Nodes, NEW p \in {Genesis} \cup Blocks,
           NEW txs \in OneOrNone, NEW short \in BOOLEAN, SubmitBlock(n, p, txs, short)
    PROVE  Typed'
<1> DEFINE b == Len(parent) + 1
<1>1. /\ parent' = Append(parent, p) /\ content' = Append(content, txs)
      /\ made' = made \cup ToSet(txs) /\ Offer(n, b)
      /\ UNCHANGED <<chainVars, mempoolVars, minerVars, poisoned, serverVars, held>>
  BY DEF SubmitBlock
<1>2. /\ parent \in Seq(Nat) /\ content \in Seq(Seq(made)) /\ Len(content) = Len(parent)
      /\ \A h \in 1 .. Len(parent) : parent[h] < h
      /\ p \in 0 .. Len(parent)
  BY DEF Typed, BlocksTyped, Blocks
<1>3. /\ Blocks' = Blocks \cup {b} /\ b \in Nat
  BY <1>1, <1>2 DEF Blocks
<1>4. txs \in Seq(made') /\ ToSet(txs) \subseteq Txs
  <2>1. CASE txs = << >>
    BY <2>1 DEF ToSet
  <2>2. CASE txs # << >>
    <3>1. PICK tx \in ClientTxs : txs = <<tx>>
      BY <2>2 DEF OneOrNone
    <3>2. ToSet(txs) = {tx}
      BY <3>1 DEF ToSet
    <3> QED BY <1>1, <3>1, <3>2 DEF Txs
  <2> QED BY <2>1, <2>2
<1>5. Seq(Seq(made)) \subseteq Seq(Seq(made'))
  BY <1>1, SeqGrows
<1>6. BlocksTyped'
  <2>1. content' \in Seq(Seq(made')) /\ Len(content') = Len(parent')
    BY <1>1, <1>2, <1>4, <1>5
  <2>2. parent' \in Seq(Nat) /\ \A h \in Blocks' : parent'[h] < h
    BY <1>1, <1>2, <1>3 DEF Blocks
  <2> QED BY <2>1, <2>2 DEF BlocksTyped
<1>7. /\ HeldMsgs \subseteq HeldMsgs' /\ Seq(made) \subseteq Seq(made')
      /\ Seq(Blocks) \subseteq Seq(Blocks')
      /\ Seq(PeerMsgs) \subseteq Seq(PeerMsgs') /\ Seq(ControlMsgs) \subseteq Seq(ControlMsgs')
  BY <1>1, <1>3, Growing
<1>8. link' \in [Sources \X Nodes -> Seq(PeerMsgs')]
  BY <1>1, <1>3, <1>7, OfferTyped
<1>9. made' \subseteq Txs
  BY <1>1, <1>4 DEF Typed, NodesTyped
<1>10. miner' \in [Nodes -> [run : BOOLEAN, tip : {Genesis} \cup Blocks', block_num : Nat]]
  BY <1>1, <1>3 DEF Typed, NodesTyped
<1>11. /\ states' \in [Nodes -> SUBSET ({Genesis} \cup Blocks')]
       /\ tx_wait_map' \in [Nodes -> SUBSET made'] /\ tx_map' \in [Nodes -> SUBSET made']
  BY <1>1, <1>3 DEF Typed, NodesTyped
<1>12. /\ tx_queue' \in [Nodes -> Seq(made')] /\ finished' \in [Nodes -> Seq(Blocks')]
       /\ control' \in [Nodes -> Seq(ControlMsgs')]
       /\ held' \in [Nodes -> [Workers -> HeldMsgs']]
  BY <1>1, <1>7 DEF Typed, NodesTyped
<1>13. UNCHANGED <<bc, poisoned, peers>>
  BY <1>1
<1>14. NodesTyped'
  BY <1>8, <1>9, <1>10, <1>11, <1>12, <1>13 DEF Typed, NodesTyped
<1> QED BY <1>6, <1>14 DEF Typed

LEMMA ResendTyped ==
    ASSUME Typed, NEW n \in Nodes, NEW b \in Blocks, ResendBlock(n, b)
    PROVE  Typed'
<1>1. UNCHANGED <<parent, content, made>> /\ Offer(n, b)
  BY DEF ResendBlock
<1>2. Blocks' = Blocks /\ PeerMsgs' = PeerMsgs
  BY <1>1, Constant
<1>3. link' \in [Sources \X Nodes -> Seq(PeerMsgs')]
  BY <1>1, <1>2, OfferTyped
<1>4. BlocksTyped'
  BY <1>1, <1>2 DEF Typed, BlocksTyped
<1> QED BY <1>2, <1>3, <1>4, Constant DEF ResendBlock, Typed, NodesTyped

LEMMA JoinTyped ==
    ASSUME Typed, NEW n \in Nodes, NEW m \in Nodes, Join(n, m)
    PROVE  Typed'
<1>1. Msg("ConnectNewPeer", m) \in ControlMsgs
  BY DEF Msg, ControlMsgs
<1>2. /\ UNCHANGED <<blockVars, made, chainVars, mempoolVars, minerVars, poisoned, peers,
                     link, held>>
      /\ control' = Push(control, n, Msg("ConnectNewPeer", m))
  BY DEF Join
<1>3. Blocks' = Blocks /\ PeerMsgs' = PeerMsgs /\ HeldMsgs' = HeldMsgs
      /\ ControlMsgs' = ControlMsgs
  BY <1>2, Constant
<1>4. control' \in [Nodes -> Seq(ControlMsgs')]
  BY <1>1, <1>2, <1>3 DEF Push, Typed, NodesTyped
<1>5. BlocksTyped'
  BY <1>2, <1>3 DEF Typed, BlocksTyped
<1>6. NodesTyped'
  BY <1>2, <1>3, <1>4 DEF Typed, NodesTyped
<1> QED BY <1>5, <1>6 DEF Typed

LEMMA ConnectTyped == ASSUME Typed, NEW n \in Nodes, DispatchConnect(n) PROVE Typed'
<1>1. control[n] \in Seq(ControlMsgs) /\ control[n] # << >>
  BY DEF DispatchConnect, Signal, Typed, NodesTyped
<1>2. Head(control[n]).item \in Nodes /\ Tail(control[n]) \in Seq(ControlMsgs)
  BY <1>1 DEF DispatchConnect, Signal, ControlMsgs, PeerMsgs, BlockTypes, TxTypes
<1>3. Msg("GetNewPeer", n) \in ControlMsgs
  BY DEF Msg, ControlMsgs
<1>4. control' \in [Nodes -> Seq(ControlMsgs)]
  <2>1. Pop(control, n) \in [Nodes -> Seq(ControlMsgs)]
    BY <1>2 DEF Pop, Typed, NodesTyped
  <2>2. control' = Push(Pop(control, n), Head(control[n]).item, Msg("GetNewPeer", n))
    BY DEF DispatchConnect
  <2> QED BY <1>2, <1>3, <2>1, <2>2 DEF Push
<1>5. peers' \in [Nodes -> SUBSET Nodes]
  BY <1>2 DEF DispatchConnect, Typed, NodesTyped
<1>6. BlocksTyped'
  BY DEF DispatchConnect, Typed, BlocksTyped, Blocks
<1> QED BY <1>4, <1>5, <1>6, Constant DEF DispatchConnect, Typed, NodesTyped

LEMMA AcceptTyped == ASSUME Typed, NEW n \in Nodes, DispatchAccept(n) PROVE Typed'
<1>1. control[n] \in Seq(ControlMsgs) /\ control[n] # << >>
  BY DEF DispatchAccept, Signal, Typed, NodesTyped
<1>2. Head(control[n]).item \in Nodes /\ Tail(control[n]) \in Seq(ControlMsgs)
  BY <1>1 DEF DispatchAccept, Signal, ControlMsgs, PeerMsgs, BlockTypes, TxTypes
<1> QED BY <1>2, Constant DEF DispatchAccept, Pop, Typed, BlocksTyped, NodesTyped, Blocks

LEMMA BroadcastTyped == ASSUME Typed, NEW n \in Nodes, DispatchBroadcast(n) PROVE Typed'
<1>1. control[n] \in Seq(ControlMsgs) /\ control[n] # << >>
  BY DEF DispatchBroadcast, Typed, NodesTyped
<1>2. Head(control[n]) \in PeerMsgs /\ Tail(control[n]) \in Seq(ControlMsgs)
  BY <1>1 DEF DispatchBroadcast, ControlMsgs
<1>3. link' \in [Sources \X Nodes -> Seq(PeerMsgs)]
  BY <1>2 DEF DispatchBroadcast, Carry, Typed, NodesTyped
<1> QED BY <1>2, <1>3, Constant DEF DispatchBroadcast, Pop, Typed, BlocksTyped, NodesTyped, Blocks

LEMMA ReceiveTyped ==
    ASSUME Typed, NEW n \in Nodes, NEW w \in Workers, NEW m \in Sources, Receive(n, w, m)
    PROVE  Typed'
<1>1. link[<<m, n>>] \in Seq(PeerMsgs) /\ link[<<m, n>>] # << >>
  BY DEF Receive, Typed, NodesTyped
<1>2. Arriving(n, m) \in PeerMsgs /\ Tail(link[<<m, n>>]) \in Seq(PeerMsgs)
  BY <1>1 DEF Arriving
<1>3. [type |-> Arriving(n, m).type, item |-> Arriving(n, m).item, from |-> m] \in HeldMsgs
  BY <1>2 DEF PeerMsgs, HeldMsgs
<1>4. held' \in [Nodes -> [Workers -> HeldMsgs]]
  BY <1>3 DEF Receive, Typed, NodesTyped
<1> QED BY <1>2, <1>4, Constant DEF Receive, Typed, BlocksTyped, NodesTyped, Blocks

\* A thread with a message of a type has an item of that type, and is done with it after.
LEMMA HandleFacts ==
    ASSUME Typed, NEW n \in Nodes, NEW w \in Workers, ~poisoned[n]
    PROVE  /\ held[n][w].type \in BlockTypes => held[n][w].item \in Blocks
           /\ held[n][w].type \in TxTypes => held[n][w].item \in made
           /\ held[n][w].from \in Sources
           /\ Done(n, w) => held' \in [Nodes -> [Workers -> HeldMsgs]]
<1>1. held[n][w] \in HeldMsgs /\ held \in [Nodes -> [Workers -> HeldMsgs]]
  BY DEF Typed, NodesTyped
<1>2. /\ held[n][w].type \in BlockTypes => held[n][w].item \in Blocks
      /\ held[n][w].type \in TxTypes => held[n][w].item \in made
      /\ held[n][w].from \in Sources
  BY <1>1 DEF HeldMsgs, Nothing, BlockTypes, TxTypes, Sources
<1>3. Nothing \in HeldMsgs
  BY DEF HeldMsgs
<1> QED BY <1>1, <1>2, <1>3 DEF Done

LEMMA WriteTyped ==
    ASSUME Typed, NEW n \in Nodes, NEW m, NEW msg \in PeerMsgs, Write(n, m, msg)
    PROVE  link' \in [Sources \X Nodes -> Seq(PeerMsgs)]
<1>1. link \in [Sources \X Nodes -> Seq(PeerMsgs)]
  BY DEF Typed, NodesTyped
<1>2. CASE m \in Nodes
  <2>1. <<n, m>> \in Sources \X Nodes
    BY <1>2 DEF Sources
  <2> QED BY <1>1, <1>2, <2>1 DEF Write, Carry
<1>3. CASE m \notin Nodes
  BY <1>1, <1>3 DEF Write
<1> QED BY <1>2, <1>3

\* Announcements, requests and answers about one block or transaction.
LEMMA MsgTyped ==
    /\ \A h \in Blocks : \A type \in BlockTypes : Msg(type, h) \in PeerMsgs
    /\ \A tx \in made : \A type \in TxTypes : Msg(type, tx) \in PeerMsgs
    /\ PeerMsgs \subseteq ControlMsgs
  BY DEF Msg, PeerMsgs, ControlMsgs

LEMMA RestTyped ==
    ASSUME Typed, NEW n \in Nodes, NEW w \in Workers, ~poisoned[n], Done(n, w),
           UNCHANGED <<parent, content, made, bc, states, minerVars, poisoned, peers>>,
           tx_queue' \in [Nodes -> Seq(made)],
           tx_wait_map' \in [Nodes -> SUBSET made], tx_map' \in [Nodes -> SUBSET made],
           control' \in [Nodes -> Seq(ControlMsgs)],
           link' \in [Sources \X Nodes -> Seq(PeerMsgs)]
    PROVE  Typed'
<1>1. held' \in [Nodes -> [Workers -> HeldMsgs]]
  BY HandleFacts
<1>2. BlocksTyped'
  BY DEF Typed, BlocksTyped, Blocks
<1> QED BY <1>1, <1>2, Constant DEF Typed, NodesTyped

LEMMA NewBlockHashesTyped ==
    ASSUME Typed, NEW n \in Nodes, NEW w \in Workers, HandleNewBlockHashes(n, w)
    PROVE  Typed'
<1>1. held[n][w].item \in Blocks /\ ~poisoned[n]
  BY HandleFacts DEF HandleNewBlockHashes, Handles, BlockTypes
<1>2. Msg("GetBlocks", held[n][w].item) \in PeerMsgs
  BY <1>1, MsgTyped DEF BlockTypes
<1>3. link' \in [Sources \X Nodes -> Seq(PeerMsgs)]
  BY <1>2, WriteTyped DEF HandleNewBlockHashes, Typed, NodesTyped
<1> QED BY <1>1, <1>3, RestTyped DEF HandleNewBlockHashes, Typed, NodesTyped

LEMMA GetBlocksTyped ==
    ASSUME Typed, NEW n \in Nodes, NEW w \in Workers, HandleGetBlocks(n, w)
    PROVE  Typed'
<1>1. held[n][w].item \in Blocks /\ ~poisoned[n]
  BY HandleFacts DEF HandleGetBlocks, Handles, BlockTypes
<1>2. Msg("Blocks", held[n][w].item) \in PeerMsgs
  BY <1>1, MsgTyped DEF BlockTypes
<1>3. link' \in [Sources \X Nodes -> Seq(PeerMsgs)]
  BY <1>2, WriteTyped DEF HandleGetBlocks, Typed, NodesTyped
<1> QED BY <1>1, <1>3, RestTyped DEF HandleGetBlocks, Typed, NodesTyped

LEMMA DropBlocksTyped ==
    ASSUME Typed, NEW n \in Nodes, NEW w \in Workers, DropBlocks(n, w)
    PROVE  Typed'
  BY RestTyped DEF DropBlocks, Handles, Typed, NodesTyped

LEMMA NewTransactionHashesTyped ==
    ASSUME Typed, NEW n \in Nodes, NEW w \in Workers, HandleNewTransactionHashes(n, w)
    PROVE  Typed'
<1>1. held[n][w].item \in made /\ ~poisoned[n]
  BY HandleFacts DEF HandleNewTransactionHashes, Handles, TxTypes
<1>2. Msg("GetTransactions", held[n][w].item) \in PeerMsgs
  BY <1>1, MsgTyped DEF TxTypes
<1>3. link' \in [Sources \X Nodes -> Seq(PeerMsgs)]
  BY <1>2, WriteTyped DEF HandleNewTransactionHashes, Typed, NodesTyped
<1> QED BY <1>1, <1>3, RestTyped DEF HandleNewTransactionHashes, Typed, NodesTyped

LEMMA GetTransactionsTyped ==
    ASSUME Typed, NEW n \in Nodes, NEW w \in Workers, HandleGetTransactions(n, w)
    PROVE  Typed'
<1>1. held[n][w].item \in made /\ ~poisoned[n]
  BY HandleFacts DEF HandleGetTransactions, Handles, TxTypes
<1>2. Msg("Transactions", held[n][w].item) \in PeerMsgs
  BY <1>1, MsgTyped DEF TxTypes
<1>3. link' \in [Sources \X Nodes -> Seq(PeerMsgs)]
  BY <1>2, WriteTyped DEF HandleGetTransactions, Typed, NodesTyped
<1> QED BY <1>1, <1>3, RestTyped DEF HandleGetTransactions, Typed, NodesTyped

LEMMA TransactionsTyped ==
    ASSUME Typed, NEW n \in Nodes, NEW w \in Workers, HandleTransactions(n, w)
    PROVE  Typed'
<1> DEFINE tx == held[n][w].item
<1>1. tx \in made /\ ~poisoned[n]
  BY HandleFacts DEF HandleTransactions, Handles, TxTypes
<1>2. Msg("NewTransactionHashes", tx) \in ControlMsgs
  BY <1>1, MsgTyped DEF TxTypes
<1>3. /\ tx_queue' \in [Nodes -> Seq(made)] /\ control' \in [Nodes -> Seq(ControlMsgs)]
      /\ tx_wait_map' \in [Nodes -> SUBSET made] /\ tx_map' \in [Nodes -> SUBSET made]
  <2>1. CASE tx \in KnownTxs(n)
    <3>1. UNCHANGED <<tx_queue, tx_wait_map, tx_map, control>>
      BY <2>1 DEF HandleTransactions
    <3> QED BY <3>1 DEF Typed, NodesTyped
  <2>2. CASE tx \notin KnownTxs(n)
    <3>1. /\ tx_wait_map' = [tx_wait_map EXCEPT ![n] = @ \cup {tx}]
          /\ tx_queue' = Push(tx_queue, n, tx) /\ UNCHANGED tx_map
          /\ Broadcast(n, <<Msg("NewTransactionHashes", tx)>>)
      BY <2>2 DEF HandleTransactions
    <3>2. control' \in [Nodes -> Seq(ControlMsgs)]
      BY <1>2, <3>1 DEF Broadcast, Typed, NodesTyped
    <3>3. tx_queue' \in [Nodes -> Seq(made)]
      BY <1>1, <3>1 DEF Push, Typed, NodesTyped
    <3> QED BY <1>1, <3>1, <3>2, <3>3 DEF Typed, NodesTyped
  <2> QED BY <2>1, <2>2
<1> QED BY <1>1, <1>3, RestTyped DEF HandleTransactions, Typed, NodesTyped

-----------------------------------------------------------------------------
\* Insert where nothing in the buffer builds on the block: it joins, nothing else does.
NoChild(c, b, par) == \A x \in c.buffer_map : par[x] # b

Joined(c, b, par) ==
    [chain_map  |-> c.chain_map \cup {b},
     tip        |-> IF c.length_map[par[b]] + 1 > c.length_map[c.tip] THEN b ELSE c.tip,
     length_map |-> [h \in c.chain_map \cup {b} |->
                       IF h = b THEN c.length_map[par[b]] + 1 ELSE c.length_map[h]],
     buffer_map |-> c.buffer_map]

LEMMA InsertOne ==
    ASSUME NEW c, NEW b, NEW par, NEW pow, NoChild(c, b, par), b \in pow,
           par[b] \in c.chain_map
    PROVE  Insert(c, b, par, pow) = Joined(c, b, par)
<1>1. Adopted(b, c.buffer_map \ {b}, par) = {}
  <2> DEFINE B == c.buffer_map \ {b}
  <2>1. \A x \in B : par[x] \in {} \cup {b} => x \in {}
    BY DEF NoChild
  <2>2. {} \in SUBSET B
    OBVIOUS
  <2> HIDE DEF B
  <2> QED BY <2>1, <2>2 DEF Adopted, B
<1>2. Lineage(b, {b}, par) = {b}
  BY DEF Lineage
<1>3. Cardinality({b}) = 1
  BY FS_Singleton
<1>4. Insert(c, b, par, pow) = Attach(c, b, par)
  BY DEF Insert
<1>5. {b} \cup {} = {b} /\ c.buffer_map \ ({b} \ {b}) = c.buffer_map
  OBVIOUS
<1> QED BY <1>1, <1>2, <1>3, <1>4, <1>5 DEF Attach, Joined

-----------------------------------------------------------------------------
IsChain(c) == c = [chain_map |-> c.chain_map, tip |-> c.tip, length_map |-> c.length_map,
                   buffer_map |-> c.buffer_map]

Lengths(c, par) ==
    /\ c.tip \in c.chain_map
    /\ c.length_map \in [c.chain_map -> Nat]
    /\ \A b \in c.chain_map \ {Genesis} : c.length_map[b] = c.length_map[par[b]] + 1
    /\ \A h \in c.chain_map : c.length_map[h] <= c.length_map[c.tip]

\* A chain c and the blocks with a state S fit each other, given the parents of all blocks
\* B and those of them short of work W: what has a state but is not in the chain is short
\* of work or hangs from such a block, and then waits in the buffer.
Shape(c, S, par, W, B) ==
    /\ IsChain(c)
    /\ c.chain_map \subseteq S /\ S \subseteq {Genesis} \cup B /\ Genesis \in c.chain_map
    /\ \A b \in S \ {Genesis} :
          par[b] \in S /\ (b \in c.chain_map <=> b \notin W /\ par[b] \in c.chain_map)
    /\ c.buffer_map = {b \in S \ {Genesis} : par[b] \notin c.chain_map}
    /\ Lengths(c, par)

LEMMA ShapeIntro ==
    ASSUME NEW c, NEW S, NEW par, NEW W, NEW B, IsChain(c), Lengths(c, par),
           c.chain_map \subseteq S /\ S \subseteq {Genesis} \cup B /\ Genesis \in c.chain_map,
           \A x \in S \ {Genesis} :
              par[x] \in S /\ (x \in c.chain_map <=> x \notin W /\ par[x] \in c.chain_map),
           c.buffer_map = {x \in S \ {Genesis} : par[x] \notin c.chain_map}
    PROVE  Shape(c, S, par, W, B)
BY DEF Shape

LEMMA ShapeBuffer ==
    ASSUME NEW c, NEW S, NEW par, NEW W, NEW B, Shape(c, S, par, W, B)
    PROVE  c.buffer_map \subseteq S /\ c.buffer_map \subseteq B
<1>1. /\ c.buffer_map = {b \in S \ {Genesis} : par[b] \notin c.chain_map}
      /\ S \subseteq {Genesis} \cup B
  BY DEF Shape
<1>2. \A b \in c.buffer_map : b \in S \ {Genesis}
  BY <1>1
<1> QED BY <1>1, <1>2

\* More blocks come to be: nothing changes for the old ones.
LEMMA ShapeGrows ==
    ASSUME NEW c, NEW S, NEW par, NEW W, NEW B, NEW par2, NEW W2, NEW B2,
           Shape(c, S, par, W, B), B \subseteq B2,
           \A h \in B : par2[h] = par[h] /\ (h \in W2 <=> h \in W)
    PROVE  Shape(c, S, par2, W2, B2)
<1>1. \A h \in S \ {Genesis} : par2[h] = par[h] /\ (h \in W2 <=> h \in W)
  BY DEF Shape
<1>2. {b \in S \ {Genesis} : par2[b] \notin c.chain_map}
         = {b \in S \ {Genesis} : par[b] \notin c.chain_map}
  BY <1>1
<1>3. \A b \in c.chain_map \ {Genesis} : par2[b] = par[b]
  BY <1>1 DEF Shape
<1>4. Lengths(c, par2)
  BY <1>3 DEF Shape, Lengths
<1> QED BY <1>1, <1>2, <1>4 DEF Shape

\* A block with work whose parent is in the chain joins it, and adopts nothing.
LEMMA InsertJoins ==
    ASSUME NEW c, NEW S, NEW par, NEW W, NEW B, Shape(c, S, par, W, B),
           NEW b \in B, b \notin W, par[b] \in c.chain_map, b # Genesis
    PROVE  Insert(c, b, par, B \ W) = Joined(c, b, par)
<1>1. NoChild(c, b, par)
  <2> SUFFICES ASSUME NEW x \in c.buffer_map PROVE par[x] # b
    BY DEF NoChild
  <2>1. par[x] \in S /\ par[x] \notin c.chain_map
    BY DEF Shape
  <2>2. b \in S => b \in c.chain_map
    BY DEF Shape
  <2> QED BY <2>1, <2>2
<1>2. b \in B \ W
  OBVIOUS
<1> QED BY <1>1, <1>2, InsertOne

\* What insert does to the chain and to the buffer.
Effect(r, c, b, par, W) ==
    /\ r.chain_map = IF b \notin W /\ par[b] \in c.chain_map
                     THEN c.chain_map \cup {b} ELSE c.chain_map
    /\ r.buffer_map = IF par[b] \in c.chain_map THEN c.buffer_map ELSE c.buffer_map \cup {b}

LEMMA InsertEffect ==
    ASSUME NEW c, NEW S, NEW par, NEW W, NEW B, Shape(c, S, par, W, B),
           NEW b \in B, b # Genesis
    PROVE  Effect(Insert(c, b, par, B \ W), c, b, par, W)
<1> DEFINE r == Insert(c, b, par, B \ W)
<1>1. CASE par[b] \notin c.chain_map
  <2>1. r = [c EXCEPT !.buffer_map = @ \cup {b}]
    BY <1>1 DEF Insert
  <2>2. c = [chain_map |-> c.chain_map, tip |-> c.tip, length_map |-> c.length_map,
             buffer_map |-> c.buffer_map]
    BY DEF Shape, IsChain
  <2>3. r.chain_map = c.chain_map /\ r.buffer_map = c.buffer_map \cup {b}
    <3> HIDE DEF r
    <3> QED BY <2>1, <2>2
  <2> QED BY <1>1, <2>3 DEF Effect
<1>2. CASE par[b] \in c.chain_map /\ b \in W
  BY <1>2 DEF Insert, Effect
<1>3. CASE par[b] \in c.chain_map /\ b \notin W
  <2>1. r = Joined(c, b, par)
    BY <1>3, InsertJoins
  <2>2. r.chain_map = c.chain_map \cup {b} /\ r.buffer_map = c.buffer_map
    <3> HIDE DEF r
    <3> QED BY <2>1 DEF Joined
  <2> QED BY <1>3, <2>2 DEF Effect
<1> QED BY <1>1, <1>2, <1>3

\* A block whose parent has a state is inserted and gets a state, whether insert takes it,
\* buffers it or refuses it: the shape is kept.
LEMMA InsertShape ==
    ASSUME NEW c, NEW S, NEW par, NEW W, NEW B, Shape(c, S, par, W, B),
           NEW b \in B, b # Genesis, par[b] \in S, par[b] # b
    PROVE  Shape(Insert(c, b, par, B \ W), S \cup {b}, par, W, B)
<1> DEFINE r == Insert(c, b, par, B \ W)
           T == S \cup {b}
<1>1. /\ r.chain_map = IF b \notin W /\ par[b] \in c.chain_map
                       THEN c.chain_map \cup {b} ELSE c.chain_map
      /\ r.buffer_map = IF par[b] \in c.chain_map THEN c.buffer_map ELSE c.buffer_map \cup {b}
  <2>1. Effect(r, c, b, par, W)
    BY InsertEffect
  <2> HIDE DEF r
  <2> QED BY <2>1 DEF Effect
<1>2. /\ c.chain_map \subseteq S /\ S \subseteq {Genesis} \cup B /\ Genesis \in c.chain_map
      /\ c.tip \in c.chain_map
      /\ c.length_map \in [c.chain_map -> Nat]
      /\ c.buffer_map = {x \in S \ {Genesis} : par[x] \notin c.chain_map}
      /\ \A h \in c.chain_map : c.length_map[h] <= c.length_map[c.tip]
  BY DEF Shape, Lengths
<1>3. \A x \in S \ {Genesis} :
         par[x] \in S /\ (x \in c.chain_map <=> x \notin W /\ par[x] \in c.chain_map)
  BY DEF Shape
<1>4. \A x \in c.chain_map \ {Genesis} :
         par[x] \in c.chain_map /\ c.length_map[x] = c.length_map[par[x]] + 1
  BY <1>2, <1>3 DEF Shape, Lengths
\* nothing with a state builds on b unless b is in the chain already, or stays out of it
<1>5. \A x \in S \ {Genesis} : par[x] = b /\ b \notin c.chain_map => b \notin r.chain_map
  BY <1>1, <1>3
<1> HIDE DEF r
<1>6. \A x \in T \ {Genesis} :
         par[x] \in T /\ (x \in r.chain_map <=> x \notin W /\ par[x] \in r.chain_map)
  <2>1. ASSUME NEW x \in S \ {Genesis}
        PROVE  par[x] \in T /\ (x \in r.chain_map <=> x \notin W /\ par[x] \in r.chain_map)
    <3>1. par[x] \in r.chain_map <=> par[x] \in c.chain_map
      BY <1>1, <1>5
    <3>2. x \in r.chain_map <=> x \in c.chain_map
      BY <1>1, <1>3
    <3> QED BY <1>3, <3>1, <3>2
  <2>2. par[b] \in T /\ (b \in r.chain_map <=> b \notin W /\ par[b] \in r.chain_map)
    <3>1. par[b] \in r.chain_map <=> par[b] \in c.chain_map
      BY <1>1
    <3>2. b \in c.chain_map => b \notin W /\ par[b] \in c.chain_map
      BY <1>2, <1>3
    <3> QED BY <1>1, <3>1, <3>2
  <2> QED BY <2>1, <2>2
<1>7. r.buffer_map = {x \in T \ {Genesis} : par[x] \notin r.chain_map}
  <2>1. \A x \in S \ {Genesis} : par[x] \in r.chain_map <=> par[x] \in c.chain_map
    BY <1>1, <1>5
  <2>2. par[b] \in r.chain_map <=> par[b] \in c.chain_map
    BY <1>1
  <2>3. \A x : x \in r.buffer_map <=> x \in T \ {Genesis} /\ par[x] \notin r.chain_map
    BY <1>1, <1>2, <2>1, <2>2
  <2> QED BY <2>3
<1>8. r.chain_map \subseteq T /\ T \subseteq {Genesis} \cup B /\ Genesis \in r.chain_map
  BY <1>1, <1>2
<1> HIDE DEF T
<1>9. CASE ~(b \notin W /\ par[b] \in c.chain_map)
  <2>1. /\ r.tip = c.tip /\ r.length_map = c.length_map /\ r.chain_map = c.chain_map
        /\ IsChain(r)
    <3> USE DEF IsChain
    <3>0. c = [chain_map |-> c.chain_map, tip |-> c.tip, length_map |-> c.length_map,
               buffer_map |-> c.buffer_map]
      BY DEF Shape
    <3>1. CASE par[b] \notin c.chain_map
      <4>1. r = [c EXCEPT !.buffer_map = @ \cup {b}]
        BY <3>1 DEF Insert, r
      <4>2. r = [chain_map |-> c.chain_map, tip |-> c.tip, length_map |-> c.length_map,
                 buffer_map |-> c.buffer_map \cup {b}]
        BY <3>0, <4>1
      <4> QED BY <4>2
    <3>2. CASE par[b] \in c.chain_map
      <4>1. r = c
        BY <1>9, <3>2 DEF Insert, r
      <4> QED BY <3>0, <4>1
    <3> QED BY <3>1, <3>2
  <2>2. \A x \in r.chain_map \ {Genesis} : r.length_map[x] = r.length_map[par[x]] + 1
    BY <1>4, <2>1
  <2>3. Lengths(r, par)
    BY <1>2, <2>1, <2>2 DEF Lengths
  <2>4. IsChain(r)
    BY <2>1
  <2>5. Shape(r, T, par, W, B)
    BY <1>6, <1>7, <1>8, <2>3, <2>4, ShapeIntro
  <2> QED BY <2>5 DEF T, r
<1>10. CASE b \notin W /\ par[b] \in c.chain_map
  <2> DEFINE new == c.length_map[par[b]] + 1
  <2>1. r = Joined(c, b, par)
    BY <1>10, InsertJoins DEF r
  <2>2. new \in Nat /\ \A h \in c.chain_map : c.length_map[h] \in Nat
    BY <1>2, <1>10
  \* inserted again, a block keeps its length
  <2>3. b \in c.chain_map => c.length_map[b] = new
    BY <1>4
  <2> HIDE DEF new
  <2>4. /\ r.chain_map = c.chain_map \cup {b}
        /\ r.tip = IF new > c.length_map[c.tip] THEN b ELSE c.tip
        /\ r.length_map = [h \in c.chain_map \cup {b} |->
                             IF h = b THEN new ELSE c.length_map[h]]
        /\ IsChain(r)
    BY <2>1 DEF Joined, new, IsChain
  <2>5. /\ \A h \in c.chain_map : r.length_map[h] = c.length_map[h]
        /\ r.length_map[b] = new
    BY <2>3, <2>4
  <2>6. r.length_map \in [r.chain_map -> Nat] /\ r.tip \in r.chain_map
    <3>1. \A h \in c.chain_map \cup {b} : (IF h = b THEN new ELSE c.length_map[h]) \in Nat
      BY <2>2
    <3> QED BY <1>2, <2>4, <3>1
  <2>7. ASSUME NEW x \in r.chain_map \ {Genesis}
        PROVE  r.length_map[x] = r.length_map[par[x]] + 1
    <3>1. CASE x = b
      BY <1>10, <2>5, <3>1 DEF new
    <3>2. CASE x # b
      BY <1>4, <2>4, <2>5, <3>2
    <3> QED BY <3>1, <3>2
  <2>8. \A h \in r.chain_map : r.length_map[h] <= r.length_map[r.tip]
    <3>1. CASE new > c.length_map[c.tip]
      <4>1. r.tip = b
        BY <2>4, <3>1
      <4>2. \A h \in c.chain_map : c.length_map[h] <= new
        BY <1>2, <2>2, <3>1
      <4> QED BY <2>2, <2>4, <2>5, <4>1, <4>2
    <3>2. CASE ~(new > c.length_map[c.tip])
      <4>1. r.tip = c.tip /\ new <= c.length_map[c.tip]
        BY <1>2, <2>2, <2>4, <3>2
      <4> QED BY <1>2, <2>2, <2>4, <2>5, <4>1
    <3> QED BY <3>1, <3>2
  <2>9. Lengths(r, par)
    BY <2>6, <2>7, <2>8 DEF Lengths
  <2>10. IsChain(r)
    BY <2>4
  <2>11. Shape(r, T, par, W, B)
    BY <1>6, <1>7, <1>8, <2>9, <2>10, ShapeIntro
  <2> QED BY <2>11 DEF T, r
<1> QED BY <1>9, <1>10

-----------------------------------------------------------------------------
ChainOK(n) == Shape(bc[n], states[n], parent, weak, Blocks)

\* The miner's blocks on their way to the miner worker: each is the parent of the next,
\* the first one's parent is in the chain, and the last is where the miner goes on.
Pipeline(n) ==
    /\ \A i \in 1 .. Len(finished[n]) - 1 : parent[finished[n][i + 1]] = finished[n][i]
    /\ finished[n] # << >> => /\ parent[finished[n][1]] \in bc[n].chain_map
                              /\ miner[n].tip = finished[n][Len(finished[n])]
    /\ finished[n] = << >> => miner[n].tip \in bc[n].chain_map

ChainInv == \A n \in Nodes : ChainOK(n) /\ Pipeline(n)

LEMMA InitChain == ASSUME Init PROVE ChainInv
<1> SUFFICES ASSUME NEW n \in Nodes PROVE ChainOK(n) /\ Pipeline(n)
  BY DEF ChainInv
<1>1. /\ bc[n] = NewChain /\ states[n] = {Genesis} /\ finished[n] = << >>
      /\ miner[n].tip = Genesis
  BY DEF Init
<1>2. Shape(NewChain, {Genesis}, parent, weak, Blocks)
  BY DEF NewChain, Shape, IsChain, Lengths
<1>3. Pipeline(n)
  BY <1>1 DEF Pipeline, NewChain
<1> QED BY <1>1, <1>2, <1>3 DEF ChainOK

LEMMA SameChain ==
    ASSUME Typed, ChainInv, UNCHANGED <<parent, weak, bc, states, finished>>,
           \A n \in Nodes : miner'[n].tip = miner[n].tip
    PROVE  ChainInv'
<1> SUFFICES ASSUME NEW n \in Nodes PROVE ChainOK(n)' /\ Pipeline(n)'
  BY DEF ChainInv
<1>1. ChainOK(n) /\ Pipeline(n)
  BY DEF ChainInv
<1>2. ChainOK(n)'
  BY <1>1 DEF ChainOK, Blocks
<1>3. Pipeline(n)'
  BY <1>1 DEF Pipeline
<1> QED BY <1>2, <1>3

\* A block whose parent has a state is inserted.
LEMMA InsertChainOK ==
    ASSUME Typed, ChainInv, NEW n \in Nodes, NEW b \in Blocks, parent[b] \in states[n],
           UNCHANGED <<parent, weak>>,
           bc' = [bc EXCEPT ![n] = Insert(@, b, parent, Worked)],
           states' = [states EXCEPT ![n] = @ \cup {b}]
    PROVE  \A k \in Nodes : ChainOK(k)'
<1> SUFFICES ASSUME NEW k \in Nodes PROVE ChainOK(k)'
  OBVIOUS
<1>1. ChainOK(k) /\ Blocks' = Blocks
  BY DEF ChainInv, Blocks
<1>2. CASE k # n
  <2>1. bc'[k] = bc[k] /\ states'[k] = states[k]
    BY <1>2 DEF Typed, NodesTyped
  <2> QED BY <1>1, <2>1 DEF ChainOK
<1>3. CASE k = n
  <2>1. bc'[n] = Insert(bc[n], b, parent, Blocks \ weak) /\ states'[n] = states[n] \cup {b}
    BY DEF Typed, NodesTyped, Worked
  <2>2. b # Genesis /\ parent[b] # b
    BY DEF Typed, BlocksTyped, Blocks
  <2>3. Shape(bc[n], states[n], parent, weak, Blocks)
    BY <1>1, <1>3 DEF ChainOK
  <2>4. Shape(Insert(bc[n], b, parent, Blocks \ weak), states[n] \cup {b}, parent, weak, Blocks)
    BY <2>2, <2>3, InsertShape
  <2> QED BY <1>1, <1>3, <2>1, <2>4 DEF ChainOK
<1> QED BY <1>2, <1>3

\* The parents and the work of all blocks, as far as the old ones go.
LEMMA GrownChainOK ==
    ASSUME Typed, ChainInv, UNCHANGED <<bc, states>>, Blocks \subseteq Blocks',
           \A h \in Blocks : parent'[h] = parent[h] /\ (h \in weak' <=> h \in weak)
    PROVE  \A k \in Nodes : ChainOK(k)'
<1> SUFFICES ASSUME NEW k \in Nodes PROVE ChainOK(k)'
  OBVIOUS
<1>1. Shape(bc[k], states[k], parent, weak, Blocks)
  BY DEF ChainInv, ChainOK
<1>2. Shape(bc[k], states[k], parent', weak', Blocks')
  BY <1>1, ShapeGrows
<1> QED BY <1>2 DEF ChainOK

\* Mining adds a block on the miner's own last one; no chain changes.
LEMMA MineChain == ASSUME Typed, ChainInv, NEW n \in Nodes, MineBlock(n) PROVE ChainInv'
<1> DEFINE b == Len(parent) + 1
<1>1. /\ parent' = Append(parent, miner[n].tip) /\ UNCHANGED <<bc, states, weak>>
      /\ miner' = [miner EXCEPT ![n] = [run |-> TRUE, tip |-> b,
                                        block_num |-> @.block_num + 1]]
      /\ finished' = [finished EXCEPT ![n] = Append(@, b)]
  BY DEF MineBlock, MiningParent, Push
<1>2. parent \in Seq(Nat) /\ miner[n].tip \in Nat
  BY DEF Typed, BlocksTyped, NodesTyped, Blocks
<1>3. /\ \A h \in Blocks : parent'[h] = parent[h]
      /\ parent'[b] = miner[n].tip /\ Blocks' = Blocks \cup {b}
  BY <1>1, <1>2 DEF Blocks
<1> SUFFICES ASSUME NEW k \in Nodes PROVE ChainOK(k)' /\ Pipeline(k)'
  BY DEF ChainInv
<1>4. ChainOK(k) /\ Pipeline(k)
  BY DEF ChainInv
<1>5. ChainOK(k)'
  BY <1>1, <1>3, GrownChainOK
<1>6. finished[k] \in Seq(Blocks) /\ k \in DOMAIN finished /\ k \in DOMAIN miner
  BY DEF Typed, NodesTyped
<1>7. Pipeline(k)'
  <2>1. \A i \in 1 .. Len(finished[k]) : finished[k][i] \in Blocks
    BY <1>6
  <2>2. CASE k # n
    <3>1. finished'[k] = finished[k] /\ miner'[k] = miner[k] /\ bc'[k] = bc[k]
      BY <1>1, <1>6, <2>2
    <3> QED BY <1>3, <1>4, <1>6, <2>1, <3>1 DEF Pipeline
  <2>3. CASE k = n
    <3>1. finished'[n] = Append(finished[n], b) /\ miner'[n].tip = b /\ bc'[n] = bc[n]
      BY <1>1, <1>6, <2>3
    <3>2. CASE finished[n] = << >>
      <4>1. finished'[n] = <<b>> /\ miner[n].tip \in bc[n].chain_map
        BY <1>4, <2>3, <3>1, <3>2 DEF Pipeline
      <4>2. Len(<<b>>) = 1 /\ <<b>>[1] = b /\ <<b>> # << >>
        OBVIOUS
      <4>3. parent'[b] \in bc'[n].chain_map /\ \A i \in 1 .. Len(<<b>>) - 1 : FALSE
        BY <1>3, <3>1, <4>1, <4>2
      <4> HIDE DEF b
      <4> QED BY <2>3, <3>1, <4>1, <4>2, <4>3 DEF Pipeline
    <3>3. CASE finished[n] # << >>
      <4>1. /\ Len(finished[n]) \in Nat \ {0} /\ Len(finished'[n]) = Len(finished[n]) + 1
            /\ \A i \in 1 .. Len(finished[n]) : finished'[n][i] = finished[n][i]
            /\ finished'[n][Len(finished'[n])] = b
        BY <1>6, <2>3, <3>1, <3>3
      <4>2. miner[n].tip = finished[n][Len(finished[n])]
        BY <1>4, <2>3, <3>3 DEF Pipeline
      <4>3. ASSUME NEW i \in 1 .. Len(finished'[n]) - 1
            PROVE  parent'[finished'[n][i + 1]] = finished'[n][i]
        <5>1. CASE i < Len(finished[n])
          <6>1. i \in 1 .. Len(finished[n]) - 1 /\ i + 1 \in 1 .. Len(finished[n])
            BY <4>1, <5>1
          <6>2. parent[finished[n][i + 1]] = finished[n][i] /\ finished[n][i + 1] \in Blocks
            BY <1>4, <2>1, <2>3, <6>1 DEF Pipeline
          <6> QED BY <1>3, <4>1, <6>1, <6>2
        <5>2. CASE i = Len(finished[n])
          BY <1>3, <4>1, <4>2, <5>2
        <5> QED BY <4>1, <5>1, <5>2
      <4>4. parent'[finished'[n][1]] \in bc'[n].chain_map
        BY <1>3, <1>4, <2>1, <2>3, <3>1, <3>3, <4>1 DEF Pipeline
      <4>5. finished'[n] # << >>
        BY <4>1
      <4>6. miner'[n].tip = finished'[n][Len(finished'[n])]
        BY <3>1, <4>1
      <4> QED BY <2>3, <4>3, <4>4, <4>5, <4>6 DEF Pipeline
    <3> QED BY <3>2, <3>3
  <2> QED BY <2>2, <2>3
<1> QED BY <1>5, <1>7

\* The miner worker's block has its parent in the chain.
LEMMA MinerWorkerChain ==
    ASSUME Typed, OutsideInv, ChainInv, NEW n \in Nodes, MinerWorker(n)
    PROVE  ChainInv'
<1> DEFINE f == finished[n]
           b == Head(f)
<1>1. /\ f \in Seq(Blocks) /\ f # << >> /\ b \in Blocks /\ b = f[1]
      /\ Len(f) \in Nat \ {0} /\ Len(Tail(f)) = Len(f) - 1
      /\ \A i \in 1 .. Len(f) - 1 : Tail(f)[i] = f[i + 1]
  BY DEF MinerWorker, Typed, NodesTyped
<1>2. ChainOK(n) /\ Pipeline(n)
  BY DEF ChainInv
<1>3. parent[b] \in bc[n].chain_map /\ parent[b] \in states[n]
  BY <1>1, <1>2 DEF Pipeline, ChainOK, Shape
<1>4. /\ bc' = [bc EXCEPT ![n] = Insert(@, b, parent, Worked)]
      /\ states' = [states EXCEPT ![n] = @ \cup {b}]
      /\ finished' = [finished EXCEPT ![n] = Tail(@)] /\ UNCHANGED <<parent, weak, miner>>
  BY DEF MinerWorker, Pop
<1>5. \A k \in Nodes : ChainOK(k)'
  BY <1>1, <1>3, <1>4, InsertChainOK
\* a block the node has mined meets the difficulty
<1>6. bc'[n].chain_map = bc[n].chain_map \cup {b}
  <2>1. b \notin weak
    BY <1>1 DEF OutsideInv, ToSet
  <2>2. Insert(bc[n], b, parent, Blocks \ weak).chain_map = bc[n].chain_map \cup {b}
    <3>1. Shape(bc[n], states[n], parent, weak, Blocks) /\ b # Genesis
      BY <1>1, <1>2 DEF ChainOK, Blocks
    <3>2. Effect(Insert(bc[n], b, parent, Blocks \ weak), bc[n], b, parent, weak)
      BY <1>1, <3>1, InsertEffect
    <3> QED BY <1>3, <2>1, <3>2 DEF Effect
  <2>3. bc'[n] = Insert(bc[n], b, parent, Blocks \ weak)
    BY <1>4 DEF Typed, NodesTyped, Worked
  <2> QED BY <2>2, <2>3
<1>7. ASSUME NEW k \in Nodes PROVE Pipeline(k)'
  <2>1. CASE k # n
    <3>1. finished'[k] = finished[k] /\ bc'[k] = bc[k] /\ Pipeline(k)
      BY <1>4, <2>1 DEF Typed, NodesTyped, ChainInv
    <3> QED BY <1>4, <3>1 DEF Pipeline
  <2>2. CASE k = n
    <3>1. finished'[n] = Tail(f) /\ b \in bc'[n].chain_map /\ miner' = miner /\ parent' = parent
        BY <1>1, <1>4, <1>6 DEF Typed, NodesTyped
    <3>2. /\ \A i \in 1 .. Len(f) - 1 : parent[f[i + 1]] = f[i]
          /\ miner[n].tip = f[Len(f)]
      BY <1>1, <1>2 DEF Pipeline
    <3> DEFINE t == Tail(f)
    <3> HIDE DEF f, b, t
    <3>3. t = << >> <=> Len(f) = 1
      <4>1. t \in Seq(Blocks) /\ Len(t) = Len(f) - 1 /\ Len(f) \in Nat
        BY <1>1 DEF t
      <4> QED BY <4>1, EmptySeq
    <3>4. CASE Len(f) = 1
      <4>1. t = << >> /\ miner[n].tip = b
        BY <1>1, <3>2, <3>3, <3>4
      <4>2. finished'[n] = << >>
        BY <3>1, <4>1 DEF t
      <4>3. miner'[n].tip \in bc'[n].chain_map
        BY <3>1, <4>1
      <4>4. \A i \in 1 .. Len(finished'[n]) - 1 : parent'[finished'[n][i + 1]] = finished'[n][i]
        BY <4>2
      <4> QED BY <2>2, <4>2, <4>3, <4>4 DEF Pipeline
    <3>5. CASE Len(f) > 1
      <4>1. /\ Len(t) = Len(f) - 1 /\ t[1] = f[2] /\ t[Len(t)] = f[Len(f)]
            /\ \A i \in 1 .. Len(t) - 1 : t[i] = f[i + 1] /\ t[i + 1] = f[i + 2]
        BY <1>1, <3>5 DEF t
      <4>2. parent[t[1]] = b /\ miner[n].tip = t[Len(t)] /\ t # << >>
        BY <1>1, <3>2, <3>3, <3>5, <4>1
      <4>3. ASSUME NEW i \in 1 .. Len(t) - 1 PROVE parent[t[i + 1]] = t[i]
        <5>1. i + 1 \in 1 .. Len(f) - 1 /\ i + 2 = (i + 1) + 1
          BY <1>1, <4>1
        <5>2. parent[f[(i + 1) + 1]] = f[i + 1]
          BY <3>2, <5>1
        <5>3. t[i] = f[i + 1] /\ t[i + 1] = f[i + 2]
          BY <4>1
        <5> QED BY <5>1, <5>2, <5>3
      <4> QED BY <2>2, <3>1, <4>2, <4>3 DEF Pipeline, t
    <3> QED BY <1>1, <3>4, <3>5
  <2> QED BY <2>1, <2>2
<1> QED BY <1>5, <1>7 DEF ChainInv

\* A client's block changes no chain.
LEMMA SubmitChain ==
    ASSUME Typed, OutsideInv, ChainInv, NEW n \in Nodes, NEW p \in {Genesis} \cup Blocks,
           NEW txs \in OneOrNone, NEW short \in BOOLEAN, SubmitBlock(n, p, txs, short)
    PROVE  ChainInv' /\ \A h \in Blocks : content'[h] = content[h] /\ parent'[h] = parent[h]
<1> DEFINE b == Len(parent) + 1
<1>1. /\ parent' = Append(parent, p) /\ content' = Append(content, txs)
      /\ weak' = IF short THEN weak \cup {b} ELSE weak
      /\ UNCHANGED <<bc, states, miner, finished>>
  BY DEF SubmitBlock
<1>2. parent \in Seq(Nat) /\ p \in Nat /\ Len(content) = Len(parent) /\ content \in Seq(Seq(made))
  BY DEF Typed, BlocksTyped, Blocks
<1>3. /\ \A h \in Blocks : content'[h] = content[h] /\ parent'[h] = parent[h] /\ h # b
      /\ Blocks' = Blocks \cup {b}
  BY <1>1, <1>2 DEF Blocks
<1> HIDE DEF b
<1>4. ASSUME NEW k \in Nodes PROVE ChainOK(k)' /\ Pipeline(k)'
  <2>1. ChainOK(k)'
    BY <1>1, <1>3, GrownChainOK
  <2>2. Pipeline(k) /\ finished[k] \in Seq(Blocks)
    BY DEF ChainInv, Typed, NodesTyped
  <2>3. \A i \in 1 .. Len(finished[k]) : finished[k][i] \in Blocks
    BY <2>2
  <2>4. \A i \in 1 .. Len(finished[k]) - 1 : i + 1 \in 1 .. Len(finished[k])
    BY <2>2
  <2>5. finished[k] # << >> => 1 \in 1 .. Len(finished[k])
    BY <2>2
  <2>6. Pipeline(k)'
    BY <1>1, <1>3, <2>2, <2>3, <2>4, <2>5 DEF Pipeline
  <2> QED BY <2>1, <2>6
<1> QED BY <1>3, <1>4 DEF ChainInv

\* A block that passes the checks: the handler goes through with it, known or new.
LEMMA HandleBlocksFacts ==
    ASSUME Typed, ChainInv, NEW n \in Nodes, NEW w \in Workers, HandleBlocks(n, w)
    PROVE  LET b == held[n][w].item IN
           /\ b \in Blocks /\ ~poisoned[n] /\ parent[b] \in states[n]
           /\ ToSet(content[b]) \subseteq ClientTxs
           /\ states' = [states EXCEPT ![n] = @ \cup {b}]
           /\ bc' = [bc EXCEPT ![n] = IF b \in KnownBlocks(n) THEN @
                                      ELSE Insert(@, b, parent, Worked)]
           /\ UNCHANGED <<parent, weak, miner, finished>>
<1> DEFINE b == held[n][w].item
<1>1. b \in Blocks /\ ~poisoned[n]
  BY HandleFacts DEF HandleBlocks, Handles, BlockTypes
<1>2. parent[b] \in states[n] /\ ToSet(content[b]) \subseteq ClientTxs
  BY DEF HandleBlocks, ValidBlock
<1>3. bc' = [bc EXCEPT ![n] = IF b \notin KnownBlocks(n)
                             THEN Insert(bc[n], b, parent, Worked) ELSE bc[n]]
  BY DEF HandleBlocks
<1>4. states' = [states EXCEPT ![n] = @ \cup {b}] /\ UNCHANGED <<parent, weak, miner, finished>>
  BY DEF HandleBlocks
<1> HIDE DEF b
<1>5. bc' = [bc EXCEPT ![n] = IF b \in KnownBlocks(n) THEN @
                             ELSE Insert(@, b, parent, Worked)]
  BY <1>3
<1> QED BY <1>1, <1>2, <1>4, <1>5 DEF b

\* No chain loses a block, and the handled one is the only new one.
LEMMA HandledMap ==
    ASSUME Typed, ChainInv, NEW n \in Nodes, NEW w \in Workers, HandleBlocks(n, w)
    PROVE  /\ bc[n].chain_map \subseteq bc'[n].chain_map
           /\ bc'[n].chain_map \subseteq bc[n].chain_map \cup {held[n][w].item}
           /\ \A k \in Nodes \ {n} : bc'[k] = bc[k] /\ states'[k] = states[k]
<1> DEFINE b == held[n][w].item
<1>1. /\ b \in Blocks /\ states' = [states EXCEPT ![n] = @ \cup {b}]
      /\ bc' = [bc EXCEPT ![n] = IF b \in KnownBlocks(n) THEN @
                                 ELSE Insert(@, b, parent, Worked)]
  BY HandleBlocksFacts
<1>2. Shape(bc[n], states[n], parent, weak, Blocks) /\ b # Genesis
  BY <1>1 DEF ChainInv, ChainOK, Blocks
<1>3. LET m == Insert(bc[n], b, parent, Blocks \ weak).chain_map IN
      bc[n].chain_map \subseteq m /\ m \subseteq bc[n].chain_map \cup {b}
  <2>1. Effect(Insert(bc[n], b, parent, Blocks \ weak), bc[n], b, parent, weak)
    BY <1>1, <1>2, InsertEffect
  <2> HIDE DEF b
  <2> QED BY <2>1 DEF Effect
<1>4. bc'[n] = IF b \in KnownBlocks(n) THEN bc[n] ELSE Insert(bc[n], b, parent, Blocks \ weak)
  BY <1>1 DEF Typed, NodesTyped, Worked
<1>5. \A k \in Nodes \ {n} : bc'[k] = bc[k] /\ states'[k] = states[k]
  BY <1>1 DEF Typed, NodesTyped
<1> HIDE DEF b
<1>6. /\ bc[n].chain_map \subseteq bc'[n].chain_map
      /\ bc'[n].chain_map \subseteq bc[n].chain_map \cup {b}
  BY <1>3, <1>4
<1> QED BY <1>5, <1>6 DEF b

LEMMA HandleBlocksChain ==
    ASSUME Typed, ChainInv, NEW n \in Nodes, NEW w \in Workers, HandleBlocks(n, w)
    PROVE  ChainInv'
<1> DEFINE b == held[n][w].item
<1>1. /\ b \in Blocks /\ parent[b] \in states[n]
      /\ states' = [states EXCEPT ![n] = @ \cup {b}]
      /\ bc' = [bc EXCEPT ![n] = IF b \in KnownBlocks(n) THEN @
                                 ELSE Insert(@, b, parent, Worked)]
      /\ UNCHANGED <<parent, weak, miner, finished>>
  BY HandleBlocksFacts
<1>2. CASE b \in KnownBlocks(n)
  <2>1. b \in states[n]
    <3>1. Shape(bc[n], states[n], parent, weak, Blocks)
      BY DEF ChainInv, ChainOK
    <3>2. bc[n].buffer_map \subseteq states[n] /\ bc[n].chain_map \subseteq states[n]
      <4>1. bc[n].buffer_map \subseteq states[n]
        BY <3>1, ShapeBuffer
      <4> QED BY <3>1, <4>1 DEF Shape
    <3> QED BY <1>2, <3>2 DEF KnownBlocks
  <2>2. bc' = bc /\ states' = states
    BY <1>1, <1>2, <2>1 DEF Typed, NodesTyped
  <2> QED BY <1>1, <2>2, SameChain
<1>3. CASE b \notin KnownBlocks(n)
  <2>1. \A k \in Nodes : ChainOK(k)'
    BY <1>1, <1>3, InsertChainOK
  <2>2. ASSUME NEW k \in Nodes PROVE Pipeline(k)'
    <3>1. Pipeline(k) /\ bc[k].chain_map \subseteq bc'[k].chain_map
      BY HandledMap DEF ChainInv
    <3> QED BY <1>1, <3>1 DEF Pipeline
  <2> QED BY <2>1, <2>2 DEF ChainInv
<1> QED BY <1>2, <1>3

LEMMA HandleBlocksTyped ==
    ASSUME Typed, ChainInv, NEW n \in Nodes, NEW w \in Workers, HandleBlocks(n, w)
    PROVE  Typed'
<1> DEFINE b == held[n][w].item
<1>1. /\ b \in Blocks /\ ~poisoned[n] /\ parent[b] \in states[n]
      /\ states' = [states EXCEPT ![n] = @ \cup {b}]
      /\ bc' = [bc EXCEPT ![n] = IF b \in KnownBlocks(n) THEN @
                                 ELSE Insert(@, b, parent, Worked)]
  BY HandleBlocksFacts
<1>2. held' \in [Nodes -> [Workers -> HeldMsgs]]
  BY <1>1, HandleFacts DEF HandleBlocks
<1>3. Msg("NewBlockHashes", b) \in ControlMsgs
  BY <1>1, MsgTyped DEF BlockTypes
<1>4. control' \in [Nodes -> Seq(ControlMsgs)]
  <2> DEFINE new == b \notin KnownBlocks(n)
             bc2 == IF new THEN Insert(bc[n], b, parent, Worked) ELSE bc[n]
             ask == IF new /\ parent[b] \notin bc2.chain_map
                    THEN <<Msg("GetBlocks", parent[b])>> ELSE << >>
             tell == IF new THEN Announce(b) ELSE << >>
  <2>1. control' = [control EXCEPT ![n] = @ \o (ask \o tell)]
    BY DEF HandleBlocks, Broadcast
  <2>2. tell \in Seq(ControlMsgs)
    BY <1>3 DEF Announce
  <2>3. ask \in Seq(ControlMsgs)
    <3>1. Genesis \in bc2.chain_map
      <4>1. bc2 = bc'[n]
        BY DEF HandleBlocks, Typed, NodesTyped
      <4>2. Genesis \in bc[n].chain_map
        BY DEF ChainInv, ChainOK, Shape
      <4> QED BY <4>1, <4>2, HandledMap
    <3>2. parent[b] \in {Genesis} \cup Blocks
      BY <1>1 DEF ChainInv, ChainOK, Shape
    <3> HIDE DEF bc2, new, b
    <3>3. CASE parent[b] \in Blocks
      <4>1. Msg("GetBlocks", parent[b]) \in ControlMsgs
        BY <3>3, MsgTyped DEF BlockTypes
      <4> QED BY <4>1
    <3>4. CASE parent[b] = Genesis
      <4>1. ask = << >>
        BY <3>1, <3>4
      <4> QED BY <4>1
    <3> QED BY <3>2, <3>3, <3>4
  <2> HIDE DEF ask, tell
  <2>4. ask \o tell \in Seq(ControlMsgs)
    BY <2>2, <2>3
  <2>5. control \in [Nodes -> Seq(ControlMsgs)]
    BY DEF Typed, NodesTyped
  <2> QED BY <2>1, <2>4, <2>5
<1>5. states' \in [Nodes -> SUBSET ({Genesis} \cup Blocks)]
  BY <1>1 DEF Typed, NodesTyped
<1>6. ToSet(content[b]) \subseteq made
  BY <1>1 DEF Typed, BlocksTyped, Blocks, ToSet
<1>7. bc' = [k \in Nodes |-> bc'[k]]
  BY <1>1 DEF Typed, NodesTyped
<1>8. /\ tx_wait_map' = [tx_wait_map EXCEPT ![n] = @ \ ToSet(content[b])]
      /\ tx_map' = [tx_map EXCEPT ![n] = @ \cup ToSet(content[b])]
      /\ UNCHANGED <<parent, content, made, tx_queue, miner, finished, poisoned, peers, link>>
  BY DEF HandleBlocks
<1>9. tx_wait_map' \in [Nodes -> SUBSET made] /\ tx_map' \in [Nodes -> SUBSET made]
  BY <1>6, <1>8 DEF Typed, NodesTyped
<1>10. BlocksTyped'
  BY <1>8 DEF Typed, BlocksTyped, Blocks
<1> QED BY <1>2, <1>4, <1>5, <1>7, <1>8, <1>9, <1>10, Constant DEF Typed, NodesTyped

-----------------------------------------------------------------------------
\* Facts about the sequences of the mempool: what a sequence holds, and whether it holds it
\* once.
LEMMA SplitSeq ==
    ASSUME NEW S, NEW s \in Seq(S), NEW k \in 0 .. Len(s)
    PROVE  LET l == SubSeq(s, 1, k)
               r == SubSeq(s, k + 1, Len(s))
           IN  /\ l \in Seq(S) /\ r \in Seq(S)
               /\ ToSet(s) = ToSet(l) \cup ToSet(r)
               /\ IsInjective(s) => /\ IsInjective(l) /\ IsInjective(r)
                                    /\ ToSet(l) \cap ToSet(r) = {}
<1> DEFINE l == SubSeq(s, 1, k)
           r == SubSeq(s, k + 1, Len(s))
<1>1. /\ l \in Seq(S) /\ Len(l) = k /\ \A i \in 1 .. k : l[i] = s[i]
      /\ r \in Seq(S) /\ Len(r) = Len(s) - k /\ \A i \in 1 .. Len(s) - k : r[i] = s[k + i]
  OBVIOUS
<1>2. DOMAIN l = 1 .. k /\ DOMAIN r = 1 .. Len(s) - k /\ DOMAIN s = 1 .. Len(s)
      /\ Len(s) \in Nat /\ k \in Nat /\ k <= Len(s)
  BY <1>1
<1> HIDE DEF l, r
<1>3. ToSet(s) \subseteq ToSet(l) \cup ToSet(r)
  <2> SUFFICES ASSUME NEW i \in 1 .. Len(s) PROVE s[i] \in ToSet(l) \cup ToSet(r)
    BY <1>2 DEF ToSet
  <2>1. CASE i <= k
    <3>1. i \in 1 .. k /\ s[i] = l[i]
      BY <1>1, <1>2, <2>1
    <3> QED BY <1>2, <3>1 DEF ToSet
  <2>2. CASE i > k
    <3>1. i - k \in 1 .. Len(s) - k /\ r[i - k] = s[k + (i - k)] /\ k + (i - k) = i
      BY <1>1, <1>2, <2>2
    <3> QED BY <1>2, <3>1 DEF ToSet
  <2> QED BY <1>2, <2>1, <2>2
<1>4. ToSet(l) \subseteq ToSet(s) /\ ToSet(r) \subseteq ToSet(s)
  <2>1. \A i \in 1 .. k : l[i] \in ToSet(s)
    <3>1. \A i \in 1 .. k : i \in 1 .. Len(s) /\ l[i] = s[i]
      BY <1>1, <1>2
    <3> QED BY <1>2, <3>1 DEF ToSet
  <2>2. \A i \in 1 .. Len(s) - k : r[i] \in ToSet(s)
    <3>1. \A i \in 1 .. Len(s) - k : k + i \in 1 .. Len(s) /\ r[i] = s[k + i]
      BY <1>1, <1>2
    <3> QED BY <1>2, <3>1 DEF ToSet
  <2> QED BY <1>2, <2>1, <2>2 DEF ToSet
<1>5. ASSUME IsInjective(s)
      PROVE  IsInjective(l) /\ IsInjective(r) /\ ToSet(l) \cap ToSet(r) = {}
  <2>1. \A i, j \in 1 .. Len(s) : s[i] = s[j] => i = j
    BY <1>2, <1>5 DEF IsInjective
  <2>2. \A i, j \in 1 .. k : l[i] = l[j] => i = j
    BY <1>1, <1>2, <2>1
  <2>3. \A i \in 1 .. Len(s) - k : k + i \in 1 .. Len(s)
    BY <1>2
  <2>4. \A i, j \in 1 .. Len(s) - k : r[i] = r[j] => i = j
    BY <1>1, <1>2, <2>1, <2>3
  <2>5. \A i \in 1 .. k, j \in 1 .. Len(s) - k : l[i] # r[j]
    BY <1>1, <1>2, <2>1, <2>3
  <2> QED BY <1>2, <2>2, <2>4, <2>5 DEF IsInjective, ToSet
<1> QED BY <1>1, <1>3, <1>4, <1>5 DEF l, r

LEMMA AppendSeq ==
    ASSUME NEW S, NEW s \in Seq(S), NEW x
    PROVE  /\ ToSet(Append(s, x)) = ToSet(s) \cup {x}
           /\ IsInjective(s) /\ x \notin ToSet(s) => IsInjective(Append(s, x))
<1> DEFINE t == Append(s, x)
<1>1. /\ DOMAIN t = 1 .. Len(s) + 1 /\ DOMAIN s = 1 .. Len(s) /\ Len(s) \in Nat
      /\ \A i \in 1 .. Len(s) : t[i] = s[i]
      /\ t[Len(s) + 1] = x
  OBVIOUS
<1> HIDE DEF t
<1>2. ToSet(t) = ToSet(s) \cup {x}
  BY <1>1 DEF ToSet
<1>3. IsInjective(s) /\ x \notin ToSet(s) => IsInjective(t)
  BY <1>1 DEF ToSet, IsInjective
<1> QED BY <1>2, <1>3 DEF t

LEMMA PopSeq ==
    ASSUME NEW S, NEW s \in Seq(S), s # << >>
    PROVE  ToSet(s) = {Head(s)} \cup ToSet(Tail(s))
<1>1. /\ Len(s) \in Nat \ {0} /\ DOMAIN s = 1 .. Len(s) /\ DOMAIN Tail(s) = 1 .. Len(s) - 1
      /\ Head(s) = s[1] /\ \A i \in 1 .. Len(s) - 1 : Tail(s)[i] = s[i + 1]
  OBVIOUS
<1>2. \A i \in 2 .. Len(s) : s[i] = Tail(s)[i - 1] /\ i - 1 \in 1 .. Len(s) - 1
  BY <1>1
<1>3. ToSet(s) \subseteq {Head(s)} \cup ToSet(Tail(s))
  <2> SUFFICES ASSUME NEW i \in 1 .. Len(s) PROVE s[i] \in {Head(s)} \cup ToSet(Tail(s))
    BY <1>1 DEF ToSet
  <2>1. CASE i = 1
    BY <1>1, <2>1
  <2>2. CASE i # 1
    <3>1. i \in 2 .. Len(s)
      BY <1>1, <2>2
    <3> QED BY <1>1, <1>2, <3>1 DEF ToSet
  <2> QED BY <2>1, <2>2
<1>4. {Head(s)} \cup ToSet(Tail(s)) \subseteq ToSet(s)
  <2>1. \A i \in 1 .. Len(s) - 1 : i + 1 \in 1 .. Len(s)
    BY <1>1
  <2>2. 1 \in 1 .. Len(s)
    BY <1>1
  <2> QED BY <1>1, <2>1, <2>2 DEF ToSet
<1> QED BY <1>3, <1>4

LEMMA ConcatSeq ==
    ASSUME NEW S, NEW s \in Seq(S), NEW t \in Seq(S)
    PROVE  /\ s \o t \in Seq(S)
           /\ ToSet(s \o t) = ToSet(s) \cup ToSet(t)
           /\ IsInjective(s) /\ IsInjective(t) /\ ToSet(s) \cap ToSet(t) = {}
                => IsInjective(s \o t)
<1> DEFINE u == s \o t
<1>1. /\ u \in Seq(S) /\ Len(u) = Len(s) + Len(t)
      /\ Len(s) \in Nat /\ Len(t) \in Nat
      /\ DOMAIN u = 1 .. Len(u) /\ DOMAIN s = 1 .. Len(s) /\ DOMAIN t = 1 .. Len(t)
      /\ \A i \in 1 .. Len(s) : u[i] = s[i]
      /\ \A i \in 1 .. Len(t) : u[Len(s) + i] = t[i]
  OBVIOUS
<1> HIDE DEF u
<1>2. \A i \in 1 .. Len(u) : \/ i \in 1 .. Len(s) /\ u[i] = s[i]
                             \/ \E j \in 1 .. Len(t) : i = Len(s) + j /\ u[i] = t[j]
  <2> SUFFICES ASSUME NEW i \in 1 .. Len(u), i \notin 1 .. Len(s)
               PROVE  \E j \in 1 .. Len(t) : i = Len(s) + j /\ u[i] = t[j]
    BY <1>1 DEF u
  <2>1. i - Len(s) \in 1 .. Len(t) /\ i = Len(s) + (i - Len(s))
    BY <1>1
  <2> QED BY <1>1, <2>1
<1>3. ToSet(u) = ToSet(s) \cup ToSet(t)
  <2>1. ToSet(u) \subseteq ToSet(s) \cup ToSet(t)
    <3> SUFFICES ASSUME NEW i \in 1 .. Len(u) PROVE u[i] \in ToSet(s) \cup ToSet(t)
      BY <1>1 DEF ToSet
    <3>1. CASE i \in 1 .. Len(s) /\ u[i] = s[i]
      BY <1>1, <3>1 DEF ToSet
    <3>2. CASE \E j \in 1 .. Len(t) : i = Len(s) + j /\ u[i] = t[j]
      BY <1>1, <3>2 DEF ToSet
    <3> QED BY <1>2, <3>1, <3>2
  <2>2. ToSet(s) \subseteq ToSet(u)
    BY <1>1 DEF ToSet
  <2>3. ASSUME NEW i \in 1 .. Len(t) PROVE t[i] \in ToSet(u)
    <3>1. Len(s) + i \in 1 .. Len(u) /\ u[Len(s) + i] = t[i]
      BY <1>1
    <3> QED BY <1>1, <3>1 DEF ToSet
  <2> QED BY <1>1, <2>1, <2>2, <2>3 DEF ToSet
<1>4. ASSUME IsInjective(s), IsInjective(t), ToSet(s) \cap ToSet(t) = {}
      PROVE  IsInjective(u)
  <2>1. /\ \A i, j \in 1 .. Len(s) : s[i] = s[j] => i = j
        /\ \A i, j \in 1 .. Len(t) : t[i] = t[j] => i = j
    BY <1>1, <1>4 DEF IsInjective
  <2>2. \A i \in 1 .. Len(s), j \in 1 .. Len(t) : s[i] # t[j]
    BY <1>1, <1>4 DEF ToSet
  <2>3. ASSUME NEW i \in 1 .. Len(u), NEW j \in 1 .. Len(u), u[i] = u[j] PROVE i = j
    <3>1. CASE i \in 1 .. Len(s) /\ u[i] = s[i]
      <4>1. CASE j \in 1 .. Len(s) /\ u[j] = s[j]
        BY <2>1, <2>3, <3>1, <4>1
      <4>2. CASE \E k \in 1 .. Len(t) : j = Len(s) + k /\ u[j] = t[k]
        BY <2>3, <2>2, <3>1, <4>2
      <4> QED BY <1>2, <4>1, <4>2
    <3>2. CASE \E k \in 1 .. Len(t) : i = Len(s) + k /\ u[i] = t[k]
      <4>1. CASE j \in 1 .. Len(s) /\ u[j] = s[j]
        BY <2>3, <2>2, <3>2, <4>1
      <4>2. CASE \E k \in 1 .. Len(t) : j = Len(s) + k /\ u[j] = t[k]
        BY <2>1, <2>3, <3>2, <4>2
      <4> QED BY <1>2, <4>1, <4>2
    <3> QED BY <1>2, <3>1, <3>2
  <2> QED BY <1>1, <2>3 DEF IsInjective
<1> QED BY <1>1, <1>3, <1>4 DEF u

-----------------------------------------------------------------------------
\* The blocks that node n has in its chain or on their way to it.
OwnBlocks(n) == (bc[n].chain_map \ {Genesis}) \cup ToSet(finished[n])

\* The mempool of a node: a hash is queued at most once and only while the transaction is
\* known; every waiting transaction is queued; one that a block holds does not wait; the
\* transactions of the node's blocks are kept; a generated transaction leaves tx_wait_map
\* only with its hash.
MemOK(n) ==
    /\ IsInjective(tx_queue[n])
    /\ ToSet(tx_queue[n]) \subseteq KnownTxs(n)
    /\ tx_wait_map[n] \subseteq ToSet(tx_queue[n])
    /\ tx_wait_map[n] \cap tx_map[n] = {}
    /\ \A b \in OwnBlocks(n) : ToSet(content[b]) \subseteq tx_map[n]
    /\ ToSet(tx_queue[n]) \cap GeneratedTxs \subseteq tx_wait_map[n]

MemInv == \A n \in Nodes : MemOK(n)

LEMMA InitMem == ASSUME Init PROVE MemInv
<1> SUFFICES ASSUME NEW n \in Nodes PROVE MemOK(n)
  BY DEF MemInv
<1>1. /\ tx_queue[n] = << >> /\ tx_wait_map[n] = {} /\ tx_map[n] = {}
      /\ bc[n].chain_map = {Genesis} /\ finished[n] = << >>
  BY DEF Init, NewChain
<1>2. ToSet(<< >>) = {} /\ IsInjective(<< >>)
  BY DEF ToSet, IsInjective
<1> QED BY <1>1, <1>2 DEF MemOK, OwnBlocks

LEMMA OwnBlocksMined == ASSUME Typed, ChainInv, NEW n \in Nodes PROVE OwnBlocks(n) \subseteq Blocks
<1>1. bc[n].chain_map \subseteq {Genesis} \cup Blocks /\ finished[n] \in Seq(Blocks)
  BY DEF ChainInv, ChainOK, Shape, Typed, NodesTyped
<1> QED BY <1>1 DEF OwnBlocks, ToSet

\* A step that leaves a node's mempool alone and brings it no new block keeps MemOK.
LEMMA SameMem ==
    ASSUME Typed, ChainInv, MemInv, NEW n \in Nodes,
           tx_queue'[n] = tx_queue[n], tx_wait_map'[n] = tx_wait_map[n], tx_map'[n] = tx_map[n],
           \A b \in Blocks : content'[b] = content[b],
           OwnBlocks(n)' \subseteq OwnBlocks(n)
    PROVE  MemOK(n)'
<1>1. MemOK(n) /\ OwnBlocks(n) \subseteq Blocks
  BY OwnBlocksMined DEF MemInv
<1> QED BY <1>1 DEF MemOK, KnownTxs

\* Mining: the hashes picked leave the queue, and their transactions tx_wait_map.
LEMMA MineMem == ASSUME Typed, ChainInv, MemInv, NEW n \in Nodes, MineBlock(n) PROVE MemInv'
<1> DEFINE b == Len(parent) + 1
<1>1. /\ content' = Append(content, Picked(n))
      /\ tx_queue' = [tx_queue EXCEPT ![n] = SubSeq(@, Len(Picked(n)) + 1, Len(@))]
      /\ tx_map' = [tx_map EXCEPT ![n] = @ \cup ToSet(Picked(n))]
      /\ tx_wait_map' = [tx_wait_map EXCEPT ![n] = @ \ ToSet(Picked(n))]
      /\ finished' = [finished EXCEPT ![n] = Append(@, b)] /\ bc' = bc
      /\ ToSet(Picked(n)) \subseteq tx_wait_map[n]
  BY DEF MineBlock, MinedInto, Push, Backed
<1>2. content \in Seq(Seq(made)) /\ Len(content) = Len(parent) /\ Len(parent) \in Nat
  BY DEF Typed, BlocksTyped
<1>3. /\ \A h \in Blocks : content'[h] = content[h]
      /\ content'[b] = Picked(n) /\ b \notin Blocks
  BY <1>1, <1>2, PickedTyped DEF Blocks
<1> SUFFICES ASSUME NEW k \in Nodes PROVE MemOK(k)'
  BY DEF MemInv
<1>4. CASE k # n
  <2>1. /\ tx_queue'[k] = tx_queue[k] /\ tx_wait_map'[k] = tx_wait_map[k]
        /\ tx_map'[k] = tx_map[k] /\ OwnBlocks(k)' = OwnBlocks(k)
    BY <1>1, <1>4 DEF Typed, NodesTyped, OwnBlocks
  <2> QED BY <1>3, <2>1, SameMem
<1>5. CASE k = n
  <2> DEFINE q == tx_queue[n]
             p == Picked(n)
             r == SubSeq(q, Len(p) + 1, Len(q))
  <2>1. MemOK(n) /\ OwnBlocks(n) \subseteq Blocks
    BY OwnBlocksMined DEF MemInv
  <2>2. /\ tx_queue'[n] = r /\ tx_map'[n] = tx_map[n] \cup ToSet(p)
        /\ tx_wait_map'[n] = tx_wait_map[n] \ ToSet(p)
        /\ finished'[n] = Append(finished[n], b)
    BY <1>1 DEF Typed, NodesTyped
  <2>3. q \in Seq(made) /\ Len(p) \in 0 .. Len(q) /\ p = SubSeq(q, 1, Len(p))
    <3>1. q \in Seq(made) /\ BlockLimit \in Nat
      BY NodeAssumption DEF Typed, NodesTyped
    <3>2. Len(p) \in 0 .. Len(q)
      BY PickedTyped
    <3>3. Len(p) = IF Len(q) < BlockLimit THEN Len(q) ELSE BlockLimit
      BY <3>1 DEF Picked
    <3> QED BY <3>1, <3>2, <3>3 DEF Picked
  <2>4. /\ ToSet(q) = ToSet(p) \cup ToSet(r)
        /\ IsInjective(r) /\ ToSet(p) \cap ToSet(r) = {}
    BY <2>1, <2>3, SplitSeq DEF MemOK
  <2>5. OwnBlocks(n)' = OwnBlocks(n) \cup {b}
    <3>1. ToSet(finished'[n]) = ToSet(finished[n]) \cup {b}
      BY <2>2, AppendSeq DEF Typed, NodesTyped
    <3> QED BY <1>1, <3>1 DEF OwnBlocks
  <2> HIDE DEF q, p, r, b
  <2>6. \A h \in OwnBlocks(n)' : ToSet(content'[h]) \subseteq tx_map'[n]
    BY <1>3, <2>1, <2>2, <2>5 DEF MemOK, p
  <2>7. /\ ToSet(q) \subseteq tx_wait_map[n] \cup tx_map[n]
        /\ tx_wait_map[n] \subseteq ToSet(q) /\ tx_wait_map[n] \cap tx_map[n] = {}
        /\ ToSet(q) \cap GeneratedTxs \subseteq tx_wait_map[n]
    BY <2>1 DEF MemOK, KnownTxs, q
  <2>8. /\ ToSet(r) \subseteq tx_wait_map'[n] \cup tx_map'[n]
        /\ tx_wait_map'[n] \subseteq ToSet(r)
        /\ ToSet(r) \cap GeneratedTxs \subseteq tx_wait_map'[n]
    BY <2>2, <2>4, <2>7
  <2>9. tx_wait_map'[n] \cap tx_map'[n] = {}
    BY <2>2, <2>7
  <2> QED BY <1>5, <2>2, <2>4, <2>6, <2>8, <2>9 DEF MemOK, KnownTxs
<1> QED BY <1>4, <1>5

\* The miner worker: a block of the miner moves into the chain.
LEMMA MinerWorkerMem ==
    ASSUME Typed, ChainInv, MemInv, NEW n \in Nodes, MinerWorker(n)
    PROVE  MemInv'
<1> DEFINE b == Head(finished[n])
<1>1. /\ bc' = [bc EXCEPT ![n] = Insert(@, b, parent, Worked)]
      /\ finished' = [finished EXCEPT ![n] = Tail(@)] /\ finished[n] # << >>
      /\ UNCHANGED <<content, mempoolVars>>
  BY DEF MinerWorker, Pop
<1>2. ToSet(finished[n]) = {b} \cup ToSet(Tail(finished[n])) /\ finished[n] \in Seq(Blocks)
  BY <1>1, PopSeq DEF Typed, NodesTyped
<1>3. /\ b \in Blocks /\ b # Genesis
      /\ Shape(bc[n], states[n], parent, weak, Blocks)
  BY <1>1, <1>2 DEF ChainInv, ChainOK, Blocks
<1>4. bc'[n].chain_map \subseteq bc[n].chain_map \cup {b}
  <2>1. Insert(bc[n], b, parent, Blocks \ weak).chain_map \subseteq bc[n].chain_map \cup {b}
    <3>1. Effect(Insert(bc[n], b, parent, Blocks \ weak), bc[n], b, parent, weak)
      BY <1>3, InsertEffect
    <3> HIDE DEF b
    <3> QED BY <3>1 DEF Effect
  <2>2. bc'[n] = Insert(bc[n], b, parent, Blocks \ weak)
    BY <1>1 DEF Typed, NodesTyped, Worked
  <2> QED BY <2>1, <2>2
<1>5. OwnBlocks(n)' \subseteq OwnBlocks(n)
  <2>1. finished'[n] = Tail(finished[n])
    BY <1>1 DEF Typed, NodesTyped
  <2> HIDE DEF b
  <2> QED BY <1>2, <1>4, <2>1 DEF OwnBlocks
<1> SUFFICES ASSUME NEW k \in Nodes PROVE MemOK(k)'
  BY DEF MemInv
<1>6. OwnBlocks(k)' \subseteq OwnBlocks(k)
  <2>1. CASE k # n
    BY <1>1, <2>1 DEF OwnBlocks, Typed, NodesTyped
  <2> QED BY <1>5, <2>1
<1> QED BY <1>1, <1>6, SameMem

\* A transaction the node does not know goes into tx_wait_map and the queue.
LEMMA AddTxMem ==
    ASSUME Typed, ChainInv, MemInv, NEW n \in Nodes, NEW tx, tx \notin KnownTxs(n),
           UNCHANGED <<content, bc, finished, tx_map>>,
           tx_wait_map' = [tx_wait_map EXCEPT ![n] = @ \cup {tx}],
           tx_queue' = Push(tx_queue, n, tx)
    PROVE  MemInv'
<1> SUFFICES ASSUME NEW k \in Nodes PROVE MemOK(k)'
  BY DEF MemInv
<1>1. OwnBlocks(k)' = OwnBlocks(k)
  BY DEF OwnBlocks
<1>2. CASE k # n
  <2>1. tx_queue'[k] = tx_queue[k] /\ tx_wait_map'[k] = tx_wait_map[k]
    BY <1>2 DEF Push, Typed, NodesTyped
  <2> QED BY <1>1, <2>1, SameMem
<1>3. CASE k = n
  <2>1. MemOK(n) /\ tx_queue[n] \in Seq(made)
    BY DEF MemInv, Typed, NodesTyped
  <2>2. /\ tx_queue'[n] = Append(tx_queue[n], tx)
        /\ tx_wait_map'[n] = tx_wait_map[n] \cup {tx} /\ tx_map'[n] = tx_map[n]
    BY DEF Push, Typed, NodesTyped
  <2>3. tx \notin ToSet(tx_queue[n])
    BY <2>1 DEF MemOK
  <2>4. /\ ToSet(tx_queue'[n]) = ToSet(tx_queue[n]) \cup {tx}
        /\ IsInjective(tx_queue'[n])
    BY <2>1, <2>2, <2>3, AppendSeq DEF MemOK
  <2> QED BY <1>1, <1>3, <2>1, <2>2, <2>4 DEF MemOK, KnownTxs
<1> QED BY <1>2, <1>3

\* An accepted block: its transactions move from tx_wait_map to tx_map; no generated one is
\* among them.
LEMMA HandleBlocksMem ==
    ASSUME Typed, ChainInv, MemInv, NEW n \in Nodes, NEW w \in Workers, HandleBlocks(n, w)
    PROVE  MemInv'
<1> DEFINE b == held[n][w].item
           txs == ToSet(content[b])
<1>1. b \in Blocks /\ txs \subseteq ClientTxs /\ finished' = finished
  BY HandleBlocksFacts
<1>2. /\ tx_wait_map' = [tx_wait_map EXCEPT ![n] = @ \ txs]
      /\ tx_map' = [tx_map EXCEPT ![n] = @ \cup txs]
      /\ UNCHANGED <<content, tx_queue>>
  BY DEF HandleBlocks
<1> SUFFICES ASSUME NEW k \in Nodes PROVE MemOK(k)'
  BY DEF MemInv
<1>3. CASE k # n
  <2>1. /\ tx_wait_map'[k] = tx_wait_map[k] /\ tx_map'[k] = tx_map[k]
        /\ OwnBlocks(k)' = OwnBlocks(k)
    BY <1>1, <1>2, <1>3, HandledMap DEF OwnBlocks, Typed, NodesTyped
  <2> QED BY <1>2, <2>1, SameMem
<1>4. CASE k = n
  <2>1. bc'[n].chain_map \subseteq bc[n].chain_map \cup {b}
    BY HandledMap
  <2>2. OwnBlocks(n)' \subseteq OwnBlocks(n) \cup {b}
    BY <1>1, <2>1 DEF OwnBlocks
  <2>3. /\ tx_wait_map'[n] = tx_wait_map[n] \ txs /\ tx_map'[n] = tx_map[n] \cup txs
        /\ MemOK(n)
    BY <1>2 DEF Typed, NodesTyped, MemInv
  <2>4. txs \cap GeneratedTxs = {}
    BY <1>1, NodeAssumption
  <2>5. \A h \in OwnBlocks(n)' : ToSet(content[h]) \subseteq tx_map'[n]
    BY <2>2, <2>3 DEF MemOK
  <2> HIDE DEF b, txs
  <2> QED BY <1>2, <1>4, <2>3, <2>4, <2>5 DEF MemOK, KnownTxs
<1> QED BY <1>3, <1>4

-----------------------------------------------------------------------------
\* A set of blocks with every block its members build on.
Closed(S) == \A h \in S : parent[h] \in S \cup {Genesis}

\* A block holds no transaction twice, and none that a block below it holds.
Fresh(b) ==
    /\ IsInjective(content[b])
    /\ \E S \in SUBSET Blocks :
          /\ Closed(S) /\ parent[b] \in S \cup {Genesis}
          /\ \A h \in S : ToSet(content[h]) \cap ToSet(content[b]) = {}

\* Of blocks mined by nodes; what clients put in theirs no node compares.
FreshInv == \A b \in Blocks \ outside : Fresh(b) /\ parent[b] \notin outside

LEMMA InitFresh == ASSUME Init PROVE FreshInv
  BY DEF Init, FreshInv, Blocks

LEMMA SameFresh == ASSUME FreshInv, UNCHANGED <<parent, content, outside>> PROVE FreshInv'
  BY DEF FreshInv, Fresh, Closed, Blocks

\* The blocks of a node are closed, and its miner works on top of them.
LEMMA OwnClosed ==
    ASSUME Typed, ChainInv, NEW n \in Nodes
    PROVE  Closed(OwnBlocks(n)) /\ miner[n].tip \in OwnBlocks(n) \cup {Genesis}
<1> DEFINE f == finished[n]
<1>1. ChainOK(n) /\ Pipeline(n) /\ f \in Seq(Blocks)
  BY DEF ChainInv, Typed, NodesTyped
<1>2. DOMAIN f = 1 .. Len(f) /\ Len(f) \in Nat /\ (f # << >> => Len(f) \in 1 .. Len(f))
  BY <1>1
<1>3. ASSUME NEW i \in 1 .. Len(f) PROVE parent[f[i]] \in OwnBlocks(n) \cup {Genesis}
  <2>1. CASE i = 1
    <3>1. f # << >>
      BY <1>2, <2>1
    <3> QED BY <1>1, <2>1, <3>1 DEF Pipeline, OwnBlocks
  <2>2. CASE i # 1
    <3>1. i - 1 \in 1 .. Len(f) - 1 /\ i - 1 \in 1 .. Len(f) /\ (i - 1) + 1 = i
      BY <1>2, <2>2
    <3>2. parent[f[i]] = f[i - 1]
      BY <1>1, <3>1 DEF Pipeline
    <3> QED BY <1>2, <3>1, <3>2 DEF OwnBlocks, ToSet
  <2> QED BY <2>1, <2>2
<1>4. Closed(OwnBlocks(n))
  <2>1. \A h \in bc[n].chain_map \ {Genesis} : parent[h] \in OwnBlocks(n) \cup {Genesis}
    BY <1>1 DEF ChainOK, Shape, OwnBlocks
  <2>2. \A h \in ToSet(f) : parent[h] \in OwnBlocks(n) \cup {Genesis}
    BY <1>2, <1>3 DEF ToSet
  <2> QED BY <2>1, <2>2 DEF Closed, OwnBlocks
<1>5. miner[n].tip \in OwnBlocks(n) \cup {Genesis}
  <2>1. CASE f = << >>
    BY <1>1, <2>1 DEF Pipeline, ChainOK, Shape, OwnBlocks
  <2>2. CASE f # << >>
    BY <1>1, <1>2, <2>2 DEF Pipeline, OwnBlocks, ToSet
  <2> QED BY <2>1, <2>2
<1> QED BY <1>4, <1>5

\* What is below a block stays as it is when a block is added.
LEMMA FreshGrows ==
    ASSUME Blocks \subseteq Blocks',
           \A h \in Blocks : content'[h] = content[h] /\ parent'[h] = parent[h],
           NEW h \in Blocks, Fresh(h)
    PROVE  Fresh(h)'
<1>1. PICK R \in SUBSET Blocks :
         /\ Closed(R) /\ parent[h] \in R \cup {Genesis}
         /\ \A g \in R : ToSet(content[g]) \cap ToSet(content[h]) = {}
  BY DEF Fresh
<1>2. /\ R \in SUBSET Blocks' /\ parent'[h] \in R \cup {Genesis}
      /\ \A g \in R : parent'[g] \in R \cup {Genesis}
      /\ \A g \in R : ToSet(content'[g]) \cap ToSet(content'[h]) = {}
  BY <1>1 DEF Closed
<1>3. IsInjective(content'[h])
  BY DEF Fresh
<1>4. \E Q \in SUBSET Blocks' :
         /\ \A g \in Q : parent'[g] \in Q \cup {Genesis}
         /\ parent'[h] \in Q \cup {Genesis}
         /\ \A g \in Q : ToSet(content'[g]) \cap ToSet(content'[h]) = {}
  BY <1>2
<1> QED BY <1>3, <1>4 DEF Fresh, Closed

\* The miner takes waiting transactions, and those of its node's blocks do not wait.
LEMMA MineFresh ==
    ASSUME Typed, OutsideInv, ChainInv, MemInv, FreshInv, NEW n \in Nodes, MineBlock(n)
    PROVE  FreshInv'
<1> DEFINE b == Len(parent) + 1
           S == OwnBlocks(n)
<1>1. /\ content' = Append(content, Picked(n)) /\ parent' = Append(parent, miner[n].tip)
      /\ ToSet(Picked(n)) \subseteq tx_wait_map[n] /\ outside' = outside
  BY DEF MineBlock, MiningParent, Backed
<1>2. /\ content \in Seq(Seq(made)) /\ Len(content) = Len(parent) /\ parent \in Seq(Nat)
      /\ miner[n].tip \in Nat
  BY DEF Typed, BlocksTyped, NodesTyped, Blocks
<1>3. /\ \A h \in Blocks : content'[h] = content[h] /\ parent'[h] = parent[h]
      /\ content'[b] = Picked(n) /\ parent'[b] = miner[n].tip
      /\ Blocks' = Blocks \cup {b} /\ b \notin Blocks
  BY <1>1, <1>2, PickedTyped DEF Blocks
<1>4. /\ S \subseteq Blocks /\ Closed(S) /\ miner[n].tip \in S \cup {Genesis}
      /\ MemOK(n)
  BY OwnBlocksMined, OwnClosed DEF MemInv
<1>5. \A h \in S : ToSet(content[h]) \cap ToSet(Picked(n)) = {}
  BY <1>1, <1>4 DEF MemOK
<1>6. IsInjective(Picked(n))
  <2>1. tx_queue[n] \in Seq(made) /\ BlockLimit \in Nat
    BY NodeAssumption DEF Typed, NodesTyped
  <2> DEFINE q == tx_queue[n]
             k == IF Len(q) < BlockLimit THEN Len(q) ELSE BlockLimit
  <2>2. k \in 0 .. Len(q) /\ Picked(n) = SubSeq(q, 1, k) /\ IsInjective(q)
    BY <1>4, <2>1 DEF Picked, MemOK
  <2> HIDE DEF q, k
  <2> QED BY <2>1, <2>2, SplitSeq DEF q
<1> HIDE DEF b, S
<1>7. ASSUME NEW g \in {b} PROVE Fresh(g)'
  <2>1. S \in SUBSET Blocks' /\ parent'[b] \in S \cup {Genesis}
    BY <1>3, <1>4
  <2>2. \A h \in S : parent'[h] \in S \cup {Genesis}
    BY <1>3, <1>4 DEF Closed
  <2>3. \A h \in S : ToSet(content'[h]) \cap ToSet(content'[b]) = {}
    BY <1>3, <1>4, <1>5
  <2>4. \E R \in SUBSET Blocks' :
           /\ \A h \in R : parent'[h] \in R \cup {Genesis}
           /\ parent'[g] \in R \cup {Genesis}
           /\ \A h \in R : ToSet(content'[h]) \cap ToSet(content'[g]) = {}
    BY <2>1, <2>2, <2>3
  <2> QED BY <1>3, <1>6, <2>4 DEF Fresh, Closed
<1>8. \A h \in Blocks \ outside : (Fresh(h) /\ parent[h] \notin outside)'
  <2>1. \A h \in Blocks \ outside : Fresh(h)'
    BY <1>3, FreshGrows DEF FreshInv
  <2> QED BY <1>1, <1>3, <2>1 DEF FreshInv
<1>9. parent'[b] \notin outside
  BY <1>3 DEF OutsideInv
<1> QED BY <1>1, <1>3, <1>7, <1>8, <1>9 DEF FreshInv

\* A client makes a block: nothing changes below those mined by nodes.
LEMMA SubmitFresh ==
    ASSUME Typed, OutsideInv, ChainInv, FreshInv, NEW n \in Nodes,
           NEW p \in {Genesis} \cup Blocks, NEW txs \in OneOrNone, NEW short \in BOOLEAN,
           SubmitBlock(n, p, txs, short)
    PROVE  FreshInv'
<1>1. \A h \in Blocks : content'[h] = content[h] /\ parent'[h] = parent[h]
  BY SubmitChain
<1>2. /\ Blocks' = Blocks \cup {Len(parent) + 1} /\ outside' = outside \cup {Len(parent) + 1}
      /\ \A h \in Blocks : parent[h] # Len(parent) + 1
  <2>1. parent \in Seq(Nat) /\ \A h \in 1 .. Len(parent) : parent[h] < h
    BY DEF Typed, BlocksTyped, Blocks
  <2> QED BY <2>1 DEF SubmitBlock, Blocks
<1>3. \A h \in Blocks \ outside : Fresh(h)'
  BY <1>1, <1>2, FreshGrows DEF FreshInv
<1> QED BY <1>1, <1>2, <1>3 DEF FreshInv

-----------------------------------------------------------------------------
Inv == Typed /\ OutsideInv /\ ChainInv /\ MemInv /\ FreshInv

\* OutsideInv is kept: a mined block is a new one, and the miner worker takes from finished.
LEMMA SameOutside ==
    ASSUME OutsideInv, Blocks' = Blocks,
           UNCHANGED <<outside, weak>>,
           \A n \in Nodes : miner'[n].tip = miner[n].tip
                         /\ ToSet(finished'[n]) \subseteq ToSet(finished[n])
    PROVE  OutsideInv'
  BY DEF OutsideInv

LEMMA MineOutside == ASSUME Typed, OutsideInv, NEW n \in Nodes, MineBlock(n) PROVE OutsideInv'
<1> DEFINE b == Len(parent) + 1
<1>1. /\ parent' = Append(parent, MiningParent(n)) /\ UNCHANGED <<outside, weak>>
      /\ miner' = [miner EXCEPT ![n] = [run |-> TRUE, tip |-> b, block_num |-> @.block_num + 1]]
      /\ finished' = [finished EXCEPT ![n] = Append(@, b)]
  BY DEF MineBlock, Push
<1>2. Len(parent') = b /\ Blocks' = Blocks \cup {b} /\ b \notin Blocks
  BY <1>1 DEF Typed, BlocksTyped, Blocks
<1> SUFFICES ASSUME NEW k \in Nodes
             PROVE  miner'[k].tip \notin outside /\ ToSet(finished'[k]) \cap outside = {}
  BY <1>1, <1>2 DEF OutsideInv
<1>3. CASE k # n
  BY <1>1, <1>3 DEF OutsideInv, Typed, NodesTyped
<1>4. CASE k = n
  <2>1. miner'[n].tip = b /\ finished'[n] = Append(finished[n], b) /\ finished[n] \in Seq(Blocks)
    BY <1>1 DEF Typed, NodesTyped
  <2>2. ToSet(finished'[n]) = ToSet(finished[n]) \cup {b}
    BY <2>1, AppendSeq
  <2> QED BY <1>2, <1>4, <2>1, <2>2 DEF OutsideInv
<1> QED BY <1>3, <1>4

LEMMA SubmitOutside ==
    ASSUME Typed, OutsideInv, NEW n \in Nodes, NEW p \in {Genesis} \cup Blocks,
           NEW txs \in OneOrNone, NEW short \in BOOLEAN, SubmitBlock(n, p, txs, short)
    PROVE  OutsideInv'
<1> DEFINE b == Len(parent) + 1
<1>1. /\ parent' = Append(parent, p) /\ outside' = outside \cup {b}
      /\ weak' \subseteq weak \cup {b} /\ UNCHANGED <<miner, finished>>
  BY DEF SubmitBlock
<1>2. Blocks' = Blocks \cup {b} /\ b \notin {Genesis} \cup Blocks
  BY <1>1 DEF Typed, BlocksTyped, Blocks
<1>3. weak' \subseteq outside' /\ outside' \subseteq Blocks'
  BY <1>1, <1>2 DEF OutsideInv, SubmitBlock
<1>4. ASSUME NEW k \in Nodes
      PROVE  miner'[k].tip \notin outside' /\ ToSet(finished'[k]) \cap outside' = {}
  <2>1. miner[k].tip \in {Genesis} \cup Blocks /\ finished[k] \in Seq(Blocks)
    BY DEF Typed, NodesTyped
  <2>2. ToSet(finished[k]) \subseteq Blocks
    BY <2>1 DEF ToSet
  <2> QED BY <1>1, <1>2, <2>1, <2>2 DEF OutsideInv
<1> QED BY <1>3, <1>4 DEF OutsideInv

\* Steps that neither mine nor insert nor touch a mempool.
LEMMA RestInv ==
    ASSUME Inv, Typed',
           UNCHANGED <<parent, content, outside, weak, bc, states, finished, mempoolVars>>,
           \A n \in Nodes : miner'[n].tip = miner[n].tip
    PROVE  Inv'
<1>1. ChainInv'
  BY SameChain DEF Inv
<1>2. FreshInv'
  BY SameFresh DEF Inv
<1>3. MemInv'
  <2> SUFFICES ASSUME NEW n \in Nodes PROVE MemOK(n)'
    BY DEF MemInv
  <2>1. OwnBlocks(n)' = OwnBlocks(n)
    BY DEF OwnBlocks
  <2> QED BY <2>1, SameMem DEF Inv
<1>4. OutsideInv'
  BY SameOutside DEF Inv, Blocks
<1> QED BY <1>1, <1>2, <1>3, <1>4 DEF Inv

LEMMA ChainStep ==
    ASSUME Inv, NEW n \in Nodes
    PROVE  /\ StartMiner(n) => Inv'
           /\ MineBlock(n) => Inv'
           /\ MinerPanics(n) => Inv'
           /\ MinerWorker(n) => Inv'
<1> USE DEF Inv
<1>1. ASSUME StartMiner(n) PROVE Inv'
  <2>1. \A k \in Nodes : miner'[k].tip = miner[k].tip
    BY <1>1 DEF StartMiner, Typed, NodesTyped
  <2> QED BY <1>1, <2>1, StartTyped, RestInv DEF StartMiner
<1>2. ASSUME MineBlock(n) PROVE Inv'
  BY <1>2, MineTyped, MineOutside, MineChain, MineMem, MineFresh
<1>3. ASSUME MinerPanics(n) PROVE Inv'
  BY <1>3, PanicTyped, RestInv DEF MinerPanics
<1>4. ASSUME MinerWorker(n) PROVE Inv'
  <2>1. OutsideInv'
    <3>1. \A k \in Nodes : ToSet(finished'[k]) \subseteq ToSet(finished[k])
      <4>1. \A k \in Nodes : finished'[k] = IF k = n THEN Tail(finished[n]) ELSE finished[k]
        BY <1>4 DEF MinerWorker, Pop, Typed, NodesTyped
      <4>2. ToSet(Tail(finished[n])) \subseteq ToSet(finished[n])
        BY <1>4, PopSeq DEF MinerWorker, Typed, NodesTyped
      <4> QED BY <4>1, <4>2
    <3> QED BY <1>4, <3>1, SameOutside DEF MinerWorker, Blocks
  <2> QED BY <1>4, <2>1, MinerWorkerTyped, MinerWorkerChain, MinerWorkerMem, SameFresh
          DEF MinerWorker
<1> QED BY <1>1, <1>2, <1>3, <1>4

LEMMA ClientStep ==
    ASSUME Inv, NEW n \in Nodes
    PROVE  /\ \A tx \in GeneratedTxs : Generate(n, tx) => Inv'
           /\ \A tx \in ClientTxs : Submit(n, tx) => Inv'
           /\ \A p \in {Genesis} \cup Blocks, txs \in OneOrNone, short \in BOOLEAN :
                 SubmitBlock(n, p, txs, short) => Inv'
           /\ \A b \in Blocks : ResendBlock(n, b) => Inv'
           /\ \A m \in Nodes : Join(n, m) => Inv'
           /\ Dispatch(n) => Inv'
<1> USE DEF Inv
<1>1. ASSUME NEW tx \in GeneratedTxs, Generate(n, tx) PROVE Inv'
  <2>1. tx \notin KnownTxs(n)
    BY <1>1 DEF Generate, KnownTxs, Typed, NodesTyped
  <2>2. MemInv'
    BY <1>1, <2>1, AddTxMem DEF Generate
  <2>3. OutsideInv'
    BY <1>1, SameOutside DEF Generate, Blocks
  <2> QED BY <1>1, <2>2, <2>3, GenerateTyped, SameChain, SameFresh DEF Generate
<1>2. ASSUME NEW tx \in ClientTxs, Submit(n, tx) PROVE Inv'
  BY <1>2, SubmitTyped, RestInv DEF Submit
<1>3. ASSUME NEW m \in Nodes, Join(n, m) PROVE Inv'
  BY <1>3, JoinTyped, RestInv DEF Join
<1>4. ASSUME DispatchConnect(n) PROVE Inv'
  BY <1>4, ConnectTyped, RestInv DEF DispatchConnect
<1>5. ASSUME DispatchAccept(n) PROVE Inv'
  BY <1>5, AcceptTyped, RestInv DEF DispatchAccept
<1>6. ASSUME DispatchBroadcast(n) PROVE Inv'
  BY <1>6, BroadcastTyped, RestInv DEF DispatchBroadcast
<1>7. ASSUME NEW p \in {Genesis} \cup Blocks, NEW txs \in OneOrNone, NEW short \in BOOLEAN,
             SubmitBlock(n, p, txs, short)
      PROVE  Inv'
  <2>1. Typed' /\ OutsideInv' /\ ChainInv' /\ FreshInv'
    BY <1>7, SubmitBlockTyped, SubmitOutside, SubmitChain, SubmitFresh
  <2>2. MemInv'
    <3> SUFFICES ASSUME NEW k \in Nodes PROVE MemOK(k)'
      BY DEF MemInv
    <3>1. \A h \in Blocks : content'[h] = content[h]
      BY <1>7, SubmitChain
    <3>2. UNCHANGED <<bc, finished, tx_queue, tx_wait_map, tx_map>>
      BY <1>7 DEF SubmitBlock
    <3>3. OwnBlocks(k)' = OwnBlocks(k)
      BY <3>2 DEF OwnBlocks
    <3> QED BY <3>1, <3>2, <3>3, SameMem
  <2> QED BY <2>1, <2>2
<1>8. ASSUME NEW b \in Blocks, ResendBlock(n, b) PROVE Inv'
  BY <1>8, ResendTyped, RestInv DEF ResendBlock
<1> QED BY <1>1, <1>2, <1>3, <1>4, <1>5, <1>6, <1>7, <1>8 DEF Dispatch

LEMMA WorkerStep ==
    ASSUME Inv, NEW n \in Nodes, NEW w \in Workers, Worker(n, w)
    PROVE  Inv'
<1> USE DEF Inv
<1>1. CASE \E m \in Sources : Receive(n, w, m)
  BY <1>1, ReceiveTyped, RestInv DEF Receive
<1>2. CASE HandleNewBlockHashes(n, w)
  BY <1>2, NewBlockHashesTyped, RestInv DEF HandleNewBlockHashes
<1>3. CASE HandleGetBlocks(n, w)
  BY <1>3, GetBlocksTyped, RestInv DEF HandleGetBlocks
<1>4. CASE HandleBlocks(n, w)
  <2>1. OutsideInv'
    BY <1>4, SameOutside DEF HandleBlocks, Blocks
  <2> QED BY <1>4, <2>1, HandleBlocksTyped, HandleBlocksChain, HandleBlocksMem, SameFresh
          DEF HandleBlocks
<1>5. CASE DropBlocks(n, w)
  BY <1>5, DropBlocksTyped, RestInv DEF DropBlocks
<1>6. CASE HandleNewTransactionHashes(n, w)
  BY <1>6, NewTransactionHashesTyped, RestInv DEF HandleNewTransactionHashes
<1>7. CASE HandleGetTransactions(n, w)
  BY <1>7, GetTransactionsTyped, RestInv DEF HandleGetTransactions
<1>8. CASE HandleTransactions(n, w)
  <2> DEFINE tx == held[n][w].item
  <2>1. Typed'
    BY <1>8, TransactionsTyped
  <2>2. CASE tx \in KnownTxs(n)
    BY <1>8, <2>1, <2>2, RestInv DEF HandleTransactions
  <2>3. CASE tx \notin KnownTxs(n)
    <3>1. MemInv'
      BY <1>8, <2>3, AddTxMem DEF HandleTransactions
    <3>2. OutsideInv'
      BY <1>8, SameOutside DEF HandleTransactions, Blocks
    <3> QED BY <1>8, <2>1, <3>1, <3>2, SameChain, SameFresh DEF HandleTransactions
  <2> QED BY <2>2, <2>3
<1> QED BY <1>1, <1>2, <1>3, <1>4, <1>5, <1>6, <1>7, <1>8 DEF Worker, Handle

LEMMA StutterStep == ASSUME Inv, UNCHANGED vars PROVE Inv'
<1>1. Typed'
  BY Constant DEF Inv, Typed, BlocksTyped, NodesTyped, Blocks, vars
<1> QED BY <1>1, RestInv DEF vars

LEMMA InvHolds == Spec => []Inv
<1>1. Init => Inv
  <2>1. Init => OutsideInv
    BY DEF Init, OutsideInv, ToSet
  <2> QED BY <2>1, InitTyped, InitChain, InitMem, InitFresh DEF Inv
<1>2. Inv /\ [Next]_vars => Inv'
  <2> SUFFICES ASSUME Inv, Next PROVE Inv'
    BY StutterStep
  <2> PICK n \in Nodes :
        \/ StartMiner(n) \/ MineBlock(n) \/ MinerWorker(n)
        \/ UnwrapFails(n) \/ CounterOverflows(n)
        \/ \E tx \in GeneratedTxs : Generate(n, tx)
        \/ \E tx \in ClientTxs : Submit(n, tx)
        \/ \E p \in {Genesis} \cup Blocks, txs \in OneOrNone, short \in BOOLEAN :
              SubmitBlock(n, p, txs, short)
        \/ \E b \in Blocks : ResendBlock(n, b)
        \/ \E m \in Nodes : Join(n, m)
        \/ Dispatch(n)
        \/ \E w \in Workers : Worker(n, w)
    BY DEF Next
  <2> QED BY ChainStep, ClientStep, WorkerStep DEF UnwrapFails, CounterOverflows
<1> QED BY <1>1, <1>2, PTL DEF Spec

\* Every node's chain, mempool, miner and messages are of the right kind, whatever the
\* threads and the peers do.
THEOREM TypesHold == Spec => []TypeOK
<1>1. Inv => TypeOK
  <2> SUFFICES ASSUME Inv PROVE TypeOK
    OBVIOUS
  <2> USE DEF Inv
  <2>1. made \subseteq Txs /\ content \in Seq(Seq(Txs))
    <3>1. made \subseteq Txs /\ content \in Seq(Seq(made))
      BY DEF Typed, BlocksTyped, NodesTyped
    <3>2. Seq(Seq(made)) \subseteq Seq(Seq(Txs))
      BY <3>1, SeqGrows
    <3> QED BY <3>1, <3>2
  <2>2. parent \in Seq(Nat) /\ Len(content) = Len(parent) /\ \A b \in Blocks : parent[b] < b
    BY DEF Typed, BlocksTyped
  <2>3. ASSUME NEW n \in Nodes
        PROVE  /\ bc[n].chain_map \subseteq {Genesis} \cup Blocks
               /\ bc[n].tip \in bc[n].chain_map
               /\ bc[n].length_map \in [bc[n].chain_map -> Nat]
               /\ bc[n].buffer_map \subseteq Blocks
               /\ states[n] \subseteq {Genesis} \cup Blocks
    <3>1. Shape(bc[n], states[n], parent, weak, Blocks)
      BY DEF ChainInv, ChainOK
    <3>2. bc[n].buffer_map \subseteq Blocks
      BY <3>1, ShapeBuffer
    <3> QED BY <3>1, <3>2 DEF Shape, Lengths
  <2>4. ASSUME NEW n \in Nodes
        PROVE  /\ tx_queue[n] \in Seq(made)
               /\ tx_wait_map[n] \cup tx_map[n] \subseteq made
               /\ miner[n].tip \in {Genesis} \cup Blocks
               /\ finished[n] \in Seq(Blocks)
               /\ peers[n] \subseteq Nodes
    BY DEF Typed, NodesTyped
  <2>5. ASSUME NEW n \in Nodes, NEW w \in Workers
        PROVE  \/ held[n][w] = Nothing
               \/ held[n][w] \in [type : BlockTypes, item : Blocks, from : Sources]
               \/ held[n][w] \in [type : TxTypes, item : made, from : Sources]
    BY DEF Typed, NodesTyped, HeldMsgs
  <2>6. weak \subseteq outside /\ outside \subseteq Blocks
    BY DEF OutsideInv
  <2> QED BY <2>1, <2>2, <2>3, <2>4, <2>5, <2>6 DEF TypeOK
<1> QED BY <1>1, InvHolds, PTL

\* The three fields of every node's mempool fit each other and the node's blocks.
THEOREM MempoolStaysConsistent == Spec => []MempoolConsistent
<1>1. Inv => MempoolConsistent
  BY DEF Inv, MemInv, MemOK, OwnBlocks, MempoolConsistent, QueueIsWaitMap, WaitOrDone,
         ChainTxsKnown
<1> QED BY <1>1, InvHolds, PTL

\* A queued hash of a generated transaction always has its transaction: the miner's unwrap
\* can fail only on what peers sent.
THEOREM GeneratedStayBacked == Spec => []GeneratedBacked
<1>1. Inv => GeneratedBacked
  BY DEF Inv, MemInv, MemOK, GeneratedBacked
<1> QED BY <1>1, InvHolds, PTL

-----------------------------------------------------------------------------
\* A set of numbers has a least one: the form of induction the provers can use.
LEMMA LeastNat ==
    ASSUME NEW B \in SUBSET Nat, B # {}
    PROVE  \E y \in B : \A z \in B : y <= z
<1> DEFINE R == {ss \in Nat \X Nat : ss[1] < ss[2]}
<1>1. R = OpToRel(<, Nat)
  BY DEF OpToRel
<1>2. IsWellFoundedOn(R, Nat)
  BY <1>1, NatLessThanWellFounded
<1>3. \A y, z \in Nat : <<z, y>> \notin R => y <= z
  OBVIOUS
<1> HIDE DEF R
<1>4. \E y \in B : \A z \in B : <<z, y>> \notin R
  BY <1>2, WFMin
<1> QED BY <1>3, <1>4

\* Blocks are numbered in the order they are mined: what holds of a block whenever it holds
\* of every earlier one holds of all of them.
LEMMA BlockInduction ==
    ASSUME NEW k \in Nat, NEW A, 0 \in A,
           \A h \in 1 .. k : (\A g \in 0 .. h - 1 : g \in A) => h \in A
    PROVE  0 .. k \subseteq A
<1> SUFFICES ASSUME NEW x \in (0 .. k) \ A PROVE FALSE
  OBVIOUS
<1> DEFINE B == (0 .. k) \ A
<1>1. PICK y \in B : \A z \in B : y <= z
  <2>1. B \in SUBSET Nat /\ B # {}
    OBVIOUS
  <2> HIDE DEF B
  <2> QED BY <2>1, LeastNat
<1>2. \A g \in 0 .. y - 1 : g \in A
  BY <1>1
<1>3. y \in 1 .. k
  BY <1>1
<1> QED BY <1>1, <1>2, <1>3

-----------------------------------------------------------------------------
\* Whatever threads, peers and clients do and whatever insert refuses, what has a state but
\* is not in a node's chain is a refused block or hangs from one, waiting in the buffer; the
\* tip is a longest chain; the miner worker's next block has a state under it.
THEOREM BlocksStayInStep == Spec => []BlocksInStep
<1>1. Inv => BlocksInStep
  <2> SUFFICES ASSUME Inv PROVE BlocksInStep
    OBVIOUS
  <2>1. StatesFollowChain /\ BufferUnderRefused /\ TipIsLongest
    BY DEF Inv, ChainInv, ChainOK, Shape, Lengths, StatesFollowChain, BufferUnderRefused,
           TipIsLongest
  <2>2. ASSUME NEW n \in Nodes, finished[n] # << >>
        PROVE  parent[Head(finished[n])] \in states[n]
    <3>1. finished[n] \in Seq(Blocks)
      BY DEF Inv, Typed, NodesTyped
    <3>2. Head(finished[n]) = finished[n][1]
      BY <2>2, <3>1
    <3> QED BY <2>2, <3>2 DEF Inv, ChainInv, ChainOK, Shape, Pipeline
  <2>3. ASSUME weak = {}, NEW n \in Nodes
        PROVE  states[n] = bc[n].chain_map /\ bc[n].buffer_map = {}
    <3> DEFINE k == Len(parent)
               A == {b \in 0 .. k : b \in states[n] => b \in bc[n].chain_map}
    <3>1. /\ k \in Nat /\ {Genesis} \cup Blocks = 0 .. k /\ Blocks = 1 .. k
          /\ \A h \in 1 .. k : parent[h] \in 0 .. h - 1
      BY DEF Inv, Typed, BlocksTyped, Blocks
    <3>2. Shape(bc[n], states[n], parent, weak, Blocks)
      BY DEF Inv, ChainInv, ChainOK
    <3>3. 0 \in A
      BY <3>1, <3>2 DEF Shape
    <3>4. ASSUME NEW h \in 1 .. k, \A g \in 0 .. h - 1 : g \in A PROVE h \in A
      <4>1. parent[h] \in A /\ h # 0 /\ h \in 0 .. k
        BY <3>1, <3>4
      <4>2. h \in states[n] => parent[h] \in states[n]
        BY <3>2, <4>1 DEF Shape
      <4>3. h \in states[n] => parent[h] \in bc[n].chain_map
        BY <4>1, <4>2
      <4> QED BY <2>3, <3>2, <4>1, <4>3 DEF Shape
    <3>5. 0 .. k \subseteq A
      <4> HIDE DEF A, k
      <4> QED BY <3>1, <3>3, <3>4, BlockInduction
    <3>6. states[n] \subseteq 0 .. k /\ bc[n].chain_map \subseteq states[n]
      BY <3>1, <3>2 DEF Shape
    <3>7. states[n] = bc[n].chain_map
      BY <3>5, <3>6
    <3>8. \A b \in states[n] \ {Genesis} : parent[b] \in bc[n].chain_map
      BY <3>2, <3>7 DEF Shape
    <3>9. bc[n].buffer_map = {}
      BY <3>2, <3>8 DEF Shape
    <3> QED BY <3>7, <3>9
  <2> QED BY <2>1, <2>2, <2>3 DEF BlocksInStep, NothingBesideChain, OwnParentKnown
<1> QED BY <1>1, InvHolds, PTL

\* The transactions below a block: a function over the blocks mined, which exists because a
\* block's parent comes before it.
LEMMA BranchFunction ==
    ASSUME Typed
    PROVE  \E path \in [{Genesis} \cup Blocks -> Seq(made)] :
              /\ \A b \in {Genesis} \cup Blocks : Branch(b) = path[b]
              /\ path[Genesis] = << >>
              /\ \A b \in Blocks : path[b] = path[parent[b]] \o content[b]
<1> DEFINE k == Len(parent)
           Step(g, h) == IF h = Genesis THEN << >> ELSE g[parent[h]] \o content[h]
           Solves(g, j) == /\ g \in [0 .. j -> Seq(made)]
                           /\ \A h \in 0 .. j : g[h] = Step(g, h)
           A == {j \in 0 .. k : \E g : Solves(g, j)}
<1>1. /\ k \in Nat /\ {Genesis} \cup Blocks = 0 .. k
      /\ \A h \in 1 .. k : parent[h] \in 0 .. h - 1 /\ content[h] \in Seq(made)
  BY DEF Typed, BlocksTyped, Blocks
<1>2. 0 \in A
  <2> DEFINE g == [x \in 0 .. 0 |-> << >>]
  <2>1. g \in [0 .. 0 -> Seq(made)] /\ \A h \in 0 .. 0 : h = 0 /\ g[h] = << >>
    OBVIOUS
  <2> HIDE DEF g
  <2>2. Solves(g, 0)
    BY <2>1
  <2> QED BY <1>1, <2>2
<1>3. ASSUME NEW h \in 1 .. k, \A g \in 0 .. h - 1 : g \in A PROVE h \in A
  <2>1. h - 1 \in 0 .. h - 1 /\ h \in Nat \ {0}
    BY <1>1
  <2>2. PICK g : Solves(g, h - 1)
    <3>1. h - 1 \in A
      BY <1>3, <2>1
    <3> QED BY <3>1
  <2> DEFINE f == [x \in 0 .. h |-> IF x = h THEN g[parent[h]] \o content[h] ELSE g[x]]
  <2>3. g \in [0 .. h - 1 -> Seq(made)] /\ \A x \in 0 .. h - 1 : g[x] = Step(g, x)
    BY <2>2
  <2>4. g[parent[h]] \o content[h] \in Seq(made)
    <3>1. g[parent[h]] \in Seq(made) /\ content[h] \in Seq(made)
      BY <1>1, <2>3
    <3> QED BY <3>1, ConcatSeq
  <2>5. \A x \in 0 .. h : x = h \/ x \in 0 .. h - 1
    BY <2>1
  <2>6. /\ f \in [0 .. h -> Seq(made)] /\ f[h] = g[parent[h]] \o content[h]
        /\ \A x \in 0 .. h - 1 : f[x] = g[x]
    <3> DEFINE v == g[parent[h]] \o content[h]
    <3>1. v \in Seq(made)
      BY <2>4
    <3>2. \A x \in 0 .. h - 1 : x # h /\ x \in 0 .. h
      BY <2>1
    <3> HIDE DEF v
    <3>3. f = [x \in 0 .. h |-> IF x = h THEN v ELSE g[x]]
      BY DEF v
    <3>4. f \in [0 .. h -> Seq(made)]
      BY <2>3, <2>5, <3>1, <3>3
    <3>5. f[h] = v /\ \A x \in 0 .. h - 1 : f[x] = g[x]
      <4>1. h \in 0 .. h
        BY <2>1
      <4> HIDE DEF f
      <4> QED BY <3>2, <3>3, <4>1
    <3> QED BY <3>4, <3>5 DEF v
  <2> HIDE DEF f
  <2>7. ASSUME NEW x \in 0 .. h - 1, x # 0
        PROVE  parent[x] \in 0 .. h - 1 /\ f[parent[x]] = g[parent[x]]
    <3>1. x \in 1 .. k /\ parent[x] \in 0 .. x - 1
      BY <1>1, <2>1, <2>7
    <3>2. parent[x] \in 0 .. h - 1
      BY <2>1, <3>1
    <3> QED BY <2>6, <3>2
  <2>8. parent[h] \in 0 .. h - 1 /\ f[parent[h]] = g[parent[h]]
    BY <1>1, <2>6
  <2>9. ASSUME NEW x \in 0 .. h - 1 PROVE f[x] = Step(f, x)
    BY <2>3, <2>6, <2>7
  <2>10. f[h] = Step(f, h)
    BY <2>1, <2>6, <2>8
  <2>11. Solves(f, h)
    BY <2>5, <2>6, <2>9, <2>10
  <2>12. h \in 0 .. k
    BY <1>1
  <2> QED BY <2>11, <2>12
<1>4. k \in A
  <2>1. 0 .. k \subseteq A
    <3>1. \A h \in 1 .. k : (\A g \in 0 .. h - 1 : g \in A) => h \in A
      BY <1>3
    <3>2. k \in Nat
      BY <1>1
    <3> HIDE DEF A, k
    <3> QED BY <1>2, <3>1, <3>2, BlockInduction
  <2>2. k \in 0 .. k
    BY <1>1
  <2> HIDE DEF A, k
  <2> QED BY <2>1, <2>2
<1>5. PICK g : Solves(g, k)
  BY <1>4
<1>6. g = [h \in {Genesis} \cup Blocks |-> IF h = Genesis THEN << >>
                                           ELSE g[parent[h]] \o content[h]]
  BY <1>1, <1>5
<1> DEFINE path == CHOOSE p : p = [h \in {Genesis} \cup Blocks |->
                                     IF h = Genesis THEN << >>
                                     ELSE p[parent[h]] \o content[h]]
<1>7. path = [h \in {Genesis} \cup Blocks |-> IF h = Genesis THEN << >>
                                             ELSE path[parent[h]] \o content[h]]
  BY <1>6
<1>8. \A b \in {Genesis} \cup Blocks : Branch(b) = path[b]
  BY DEF Branch
<1> HIDE DEF path
<1>9. path[Genesis] = << >> /\ \A b \in Blocks : path[b] = path[parent[b]] \o content[b]
  <2>1. Genesis \notin Blocks
    BY DEF Blocks
  <2> QED BY <1>7, <2>1
<1>10. path \in [{Genesis} \cup Blocks -> Seq(made)]
  <2> DEFINE C == {h \in 0 .. k : path[h] \in Seq(made)}
  <2>1. 0 \in C
    <3>1. << >> \in Seq(made) /\ 0 \in 0 .. k
      BY <1>1
    <3> QED BY <1>9, <3>1
  <2>2. ASSUME NEW h \in 1 .. k, \A x \in 0 .. h - 1 : x \in C PROVE h \in C
    <3>1. path[parent[h]] \in Seq(made) /\ content[h] \in Seq(made)
      BY <1>1, <2>2
    <3>2. path[h] = path[parent[h]] \o content[h]
      BY <1>9 DEF Blocks
    <3>3. path[h] \in Seq(made)
      BY <3>1, <3>2, ConcatSeq
    <3> QED BY <1>1, <3>3
  <2>3. 0 .. k \subseteq C
    <3> HIDE DEF C, k
    <3> QED BY <1>1, <2>1, <2>2, BlockInduction
  <2> QED BY <1>1, <1>7, <2>3
<1> QED BY <1>8, <1>9, <1>10

\* The transactions on the branch of a block are those of the blocks of any closed set the
\* block is in.
LEMMA BranchInClosed ==
    ASSUME Typed, NEW S \in SUBSET Blocks, Closed(S),
           NEW path \in [{Genesis} \cup Blocks -> Seq(made)],
           path[Genesis] = << >>,
           \A b \in Blocks : path[b] = path[parent[b]] \o content[b]
    PROVE  \A b \in S \cup {Genesis} :
              ToSet(path[b]) \subseteq UNION {ToSet(content[h]) : h \in S}
<1> DEFINE k == Len(parent)
           U == UNION {ToSet(content[h]) : h \in S}
           A == {b \in 0 .. k : b \in S \cup {Genesis} => ToSet(path[b]) \subseteq U}
<1>1. /\ k \in Nat /\ Blocks = 1 .. k
      /\ \A h \in 1 .. k : parent[h] \in 0 .. h - 1 /\ content[h] \in Seq(made)
  <2>1. /\ parent \in Seq(Nat) /\ content \in Seq(Seq(made)) /\ Len(content) = Len(parent)
        /\ \A h \in 1 .. Len(parent) : parent[h] < h
    BY DEF Typed, BlocksTyped, Blocks
  <2>2. \A h \in 1 .. k : content[h] \in Seq(made)
    BY <2>1
  <2>3. ASSUME NEW h \in 1 .. k
        PROVE  parent[h] \in 0 .. h - 1
    <3>1. parent[h] \in Nat /\ parent[h] < h /\ h \in Nat
      BY <2>1
    <3> QED BY <3>1
  <2> QED BY <2>1, <2>2, <2>3 DEF Blocks
<1>2. 0 \in A
  <2>1. ToSet(<< >>) = {}
    BY DEF ToSet
  <2> QED BY <1>1, <2>1
<1>3. ASSUME NEW h \in 1 .. k, \A g \in 0 .. h - 1 : g \in A PROVE h \in A
  <2> SUFFICES ASSUME h \in S PROVE ToSet(path[h]) \subseteq U
    BY <1>1
  <2>1. parent[h] \in S \cup {Genesis} /\ parent[h] \in A
    BY <1>1, <1>3 DEF Closed
  <2>2. ToSet(path[parent[h]]) \subseteq U /\ ToSet(content[h]) \subseteq U
    BY <2>1
  <2>3. path[parent[h]] \in Seq(made) /\ content[h] \in Seq(made)
    BY <1>1, <2>1
  <2>4. ToSet(path[h]) = ToSet(path[parent[h]]) \cup ToSet(content[h])
    <3>1. path[h] = path[parent[h]] \o content[h]
      BY <1>1
    <3> QED BY <2>3, <3>1, ConcatSeq
  <2> QED BY <2>2, <2>4
<1>4. 0 .. k \subseteq A
  <2>1. \A h \in 1 .. k : (\A g \in 0 .. h - 1 : g \in A) => h \in A
    BY <1>3
  <2>2. k \in Nat
    BY <1>1
  <2> HIDE DEF A, k
  <2> QED BY <1>2, <2>1, <2>2, BlockInduction
<1>5. \A b \in S \cup {Genesis} : b \in 0 .. k
  BY <1>1
<1> QED BY <1>4, <1>5

\* No branch that the nodes mine holds a transaction twice.
THEOREM NoDuplicates == Spec => []NoDuplicateTx
<1>1. Inv => NoDuplicateTx
  <2> SUFFICES ASSUME Inv PROVE NoDuplicateTx
    OBVIOUS
  <2>1. Typed /\ FreshInv
    BY DEF Inv
  <2>2. PICK path \in [{Genesis} \cup Blocks -> Seq(made)] :
              /\ \A b \in {Genesis} \cup Blocks : Branch(b) = path[b]
              /\ path[Genesis] = << >>
              /\ \A b \in Blocks : path[b] = path[parent[b]] \o content[b]
    BY <2>1, BranchFunction
  <2> DEFINE k == Len(parent)
             A == {b \in 0 .. k : b \notin outside => IsInjective(path[b])}
  <2>3. /\ k \in Nat /\ Blocks = 1 .. k /\ {Genesis} \cup Blocks = 0 .. k
        /\ \A h \in 1 .. k : parent[h] \in 0 .. h - 1 /\ content[h] \in Seq(made)
    BY <2>1 DEF Typed, BlocksTyped, Blocks
  <2>4. 0 \in A
    <3>1. IsInjective(<< >>)
      BY DEF IsInjective
    <3> QED BY <2>2, <2>3, <3>1
  <2>5. ASSUME NEW b \in 1 .. k, \A g \in 0 .. b - 1 : g \in A PROVE b \in A
    <3> SUFFICES ASSUME b \notin outside PROVE IsInjective(path[b])
      BY <2>3
    <3>1. PICK S \in SUBSET Blocks :
             /\ Closed(S) /\ parent[b] \in S \cup {Genesis}
             /\ \A h \in S : ToSet(content[h]) \cap ToSet(content[b]) = {}
      BY <2>1, <2>3 DEF FreshInv, Fresh
    <3>2. ToSet(path[parent[b]]) \subseteq UNION {ToSet(content[h]) : h \in S}
      BY <2>1, <2>2, <3>1, BranchInClosed
    <3>3. ToSet(path[parent[b]]) \cap ToSet(content[b]) = {}
      BY <3>1, <3>2
    <3>4. /\ path[parent[b]] \in Seq(made) /\ content[b] \in Seq(made)
          /\ IsInjective(path[parent[b]]) /\ IsInjective(content[b])
      BY <2>1, <2>2, <2>3, <2>5 DEF FreshInv, Fresh
    <3>5. IsInjective(path[parent[b]] \o content[b])
      BY <3>3, <3>4, ConcatSeq
    <3> QED BY <2>2, <2>3, <3>5
  <2>6. 0 .. k \subseteq A
    <3> HIDE DEF A, k
    <3> QED BY <2>3, <2>4, <2>5, BlockInduction
  <2> QED BY <2>2, <2>3, <2>6 DEF NoDuplicateTx
<1> QED BY <1>1, InvHolds, PTL

=============================================================================
