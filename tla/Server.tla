------------------------------- MODULE Server -------------------------------
(***************************************************************************)
(* The p2p server of one node: src/src/network/server.rs and peer.rs, with  *)
(* the thread of main.rs that connects to the known peers.  The listener,  *)
(* the dispatcher and a reader and a writer per connection are tasks of one *)
(* executor on one thread, so a panic of one task stops them all.  The     *)
(* remote ends, which come, go and reset as they like, are the environment. *)
(***************************************************************************)
EXTENDS Integers, SequencesExt

CONSTANTS
    Clients,        \* addresses peers connect from (remote ip and port)
    KnownPeers,     \* sequence of addresses given with --connect
    ControlCap,     \* capacity of the control channel (10000 in the code)
    InboxCap,       \* capacity of the channel to the workers (10000 in the code)
    NumWorkers,     \* worker threads, --p2p-workers
    MaxConns,       \* bound of the model: connections
    MaxMessages,    \* bound of the model: broadcasts, and messages the remotes send
    Watched         \* the broadcast BroadcastArrives follows

ASSUME ServerAssumption ==
    /\ KnownPeers \in Seq(ToSet(KnownPeers)) /\ Clients \cap ToSet(KnownPeers) = {}
    /\ {ControlCap, InboxCap, NumWorkers} \subseteq Nat \ {0}
    /\ {MaxConns, MaxMessages, Watched} \subseteq Nat

VARIABLES
    conn,        \* the connections there were, in the order they were made
    peers,       \* Context.peers: address -> connection of the handle
    control,     \* the control channel
    open,        \* its receiver exists
    executor,    \* the executor's thread runs
    listening,   \* the listener's task exists
    inbox,       \* new_msg_chan: connections whose messages wait for a worker
    alive,       \* no thread panicked in a broadcast, with its mutexes held
    workers,     \* worker threads that still hold the receiver of inbox
    broadcasts,  \* broadcasts made so far
    inbound,     \* messages the remote ends sent so far
    connector,   \* main's thread: index in KnownPeers, and whether it waits
    dispatched,  \* auxiliary: broadcasts the dispatcher has handed out
    since        \* auxiliary: registered connection -> dispatched when it was registered

aux  == <<dispatched, since>>
vars == <<conn, peers, control, open, executor, listening, inbox, alive, workers,
          broadcasts, inbound, connector, aux>>

Conns == DOMAIN conn
Addr  == Clients \cup ToSet(KnownPeers)
Reply == 0                                 \* a worker's answer; broadcasts count from 1
None  == -1                                \* no message

\* link: "open", "closed" by the remote end, or "reset".  A message is in queue,
\* then in the writer's hand, then in got, what the remote read; unread are messages
\* the remote sent.
NewConn(a, state) ==
    [addr |-> a, link |-> "open", reader |-> state, writer |-> state,
     queue |-> << >>, hand |-> None, got |-> << >>, unread |-> 0]

Init ==
    /\ conn = << >>
    /\ peers = [a \in {} |-> 0]
    /\ control = << >>
    /\ open = TRUE
    /\ executor = TRUE
    /\ listening = TRUE
    /\ inbox = << >>
    /\ alive = TRUE
    /\ workers = NumWorkers
    /\ broadcasts = 0
    /\ inbound = 0
    /\ connector = [next |-> 1, waits |-> FALSE]
    /\ dispatched = 0
    /\ since = [c \in {} |-> 0]

Signal(type, arg) == [type |-> type, arg |-> arg]
Room              == Len(control) < ControlCap
Post(sig)         == control' = Append(control, sig)
Next1(type)       == executor /\ control # << >> /\ Head(control).type = type
Arg               == Head(control).arg

Listed(c)    == conn[c].addr \in DOMAIN peers /\ peers[conn[c].addr] = c
\* Faulty variant: an entry that exists is kept.
EnlistIfNew(a, c) ==
    [x \in DOMAIN peers \cup {a} |-> IF x \in DOMAIN peers THEN peers[x] ELSE c]
Enlist(a, c) == [x \in DOMAIN peers \cup {a} |-> IF x = a THEN c ELSE peers[x]]
Without(a)   == [x \in DOMAIN peers \ {a} |-> peers[x]]

SinceNow(c)  == [d \in DOMAIN since \cup {c} |-> IF d = c THEN dispatched ELSE since[d]]

\* A clone of the handle of c exists: in peers, in the reader, or with a message
\* for the workers.
HasHandle(c) == Listed(c) \/ conn[c].reader = "runs" \/ c \in ToSet(inbox)

InHand(r)    == IF r.hand = None THEN << >> ELSE <<r.hand>>

\* Faulty variant: a bounded queue that drops what does not fit.
EnqueueIfEmpty(r, m) ==
    IF r.writer = "ended" \/ r.queue # << >> THEN r ELSE [r EXCEPT !.queue = <<m>>]

\* Handle::write: a message for a writer that ended is dropped.
Enqueue(r, m) == IF r.writer = "ended" THEN r ELSE [r EXCEPT !.queue = Append(@, m)]

\* The life of a connection: accepted, registered with its two tasks, a message taken by
\* the writer and written, the writer's end.  The first write after the remote closed goes
\* nowhere and is answered by a reset; a write after the reset fails.
Accepted(r) == [r EXCEPT !.reader = "accepted", !.writer = "accepted"]
Started(r)  == [r EXCEPT !.reader = "runs", !.writer = "idle"]
Taken(r)    == [r EXCEPT !.writer = "busy", !.hand = Head(r.queue), !.queue = Tail(@)]
Written(r)  ==
    CASE r.link = "open"   -> [r EXCEPT !.writer = "idle", !.hand = None,
                                        !.got = @ \o InHand(r)]
      [] r.link = "closed" -> [r EXCEPT !.writer = "idle", !.hand = None, !.link = "reset"]
      [] r.link = "reset"  -> [r EXCEPT !.writer = "failed", !.hand = None]
Finished(r) == [r EXCEPT !.writer = "ended", !.queue = << >>]
-----------------------------------------------------------------------------
(* The remote ends, as long as somebody listens. *)

\* A remote address is used again once the earlier connection is gone.
RemoteConnects(a) ==
    /\ executor
    /\ Len(conn) < MaxConns
    /\ \A c \in Conns : conn[c].addr = a => conn[c].link = "reset"
    /\ conn' = Append(conn, NewConn(a, "backlog"))
    /\ UNCHANGED <<peers, control, open, executor, listening, inbox, alive, workers, broadcasts,
                   inbound, connector, aux>>

RemoteSends(c) ==
    /\ executor
    /\ conn[c].link = "open" /\ inbound + broadcasts < MaxMessages
    /\ conn' = [conn EXCEPT ![c].unread = @ + 1]
    /\ inbound' = inbound + 1
    /\ UNCHANGED <<peers, control, open, executor, listening, inbox, alive, workers, broadcasts,
                   connector, aux>>

RemoteCloses(c, how) ==
    /\ executor
    /\ \/ conn[c].link = "open"
       \/ conn[c].link = "closed" /\ how = "reset"
    /\ conn' = [conn EXCEPT ![c].link = how]
    /\ UNCHANGED <<peers, control, open, executor, listening, inbox, alive, workers, broadcasts,
                   inbound, connector, aux>>

-----------------------------------------------------------------------------
(* The listener task, and the threads that use the server's Handle. *)

Accept(c) ==
    /\ executor /\ listening /\ Room
    /\ conn[c].reader = "backlog"
    /\ \A d \in Conns : d < c => conn[d].reader # "backlog"
    /\ conn' = [conn EXCEPT ![c] = Accepted(@)]
    /\ Post(Signal("GetNewPeer", c))
    /\ UNCHANGED <<peers, open, executor, listening, inbox, alive, workers, broadcasts, inbound,
                   connector, aux>>

\* accept() fails, as it does when the process has no file descriptor left: the error ends
\* the listener, and its unwrap the executor's thread.  The dispatcher, and with it the
\* receiver, is left as it is.
AcceptFails ==
    /\ executor /\ listening
    /\ listening' = FALSE
    /\ executor' = FALSE
    /\ UNCHANGED <<conn, peers, control, open, inbox, alive, workers, broadcasts, inbound,
                   connector, aux>>

\* Handle::broadcast by a thread that holds the mutexes; a closed channel panics
\* in it, a full one blocks it.
Broadcast ==
    /\ alive
    /\ inbound + broadcasts < MaxMessages
    /\ IF open THEN /\ Room
                    /\ broadcasts' = broadcasts + 1
                    /\ Post(Signal("BroadcastMessage", broadcasts + 1))
                    /\ UNCHANGED alive
               ELSE alive' = FALSE /\ UNCHANGED <<broadcasts, control>>
    /\ UNCHANGED <<conn, peers, open, executor, listening, inbox, workers, inbound, connector, aux>>

\* Handle::connect by main's thread, for the next known peer or once more.
Connect ==
    /\ open /\ Room
    /\ connector.next <= Len(KnownPeers) /\ ~connector.waits
    /\ connector' = [connector EXCEPT !.waits = TRUE]
    /\ Post(Signal("ConnectNewPeer", KnownPeers[connector.next]))
    /\ UNCHANGED <<conn, peers, open, executor, listening, inbox, alive, workers, broadcasts,
                   inbound, aux>>

\* A worker takes a message and may answer it; it ends if the message does not
\* decode, if its handler panics, or if the mutexes are poisoned (see Locks).
Work ==
    /\ workers > 0
    /\ inbox # << >>
    /\ inbox' = Tail(inbox)
    /\ \/ alive /\ UNCHANGED <<conn, workers>>
       \/ /\ alive
          /\ conn' = [conn EXCEPT ![Head(inbox)] = Enqueue(@, Reply)]
          /\ UNCHANGED workers
       \/ workers' = workers - 1 /\ UNCHANGED conn
    /\ UNCHANGED <<peers, control, open, executor, listening, alive, broadcasts, inbound,
                   connector, aux>>

-----------------------------------------------------------------------------
(* The dispatcher task. *)

\* peer_addr fails on a connection that was reset meanwhile; the error ends the
\* dispatcher, and its unwrap the executor's thread.
DispatchGetNewPeer ==
    /\ Next1("GetNewPeer")
    /\ IF conn[Arg].link = "reset"
       THEN open' = FALSE /\ executor' = FALSE /\ UNCHANGED <<conn, peers, since>>
       ELSE /\ conn' = [conn EXCEPT ![Arg] = Started(@)]
            /\ peers' = Enlist(conn[Arg].addr, Arg)
            /\ since' = SinceNow(Arg)
            /\ UNCHANGED <<open, executor>>
    /\ control' = Tail(control)
    /\ UNCHANGED <<listening, inbox, alive, workers, broadcasts, inbound, connector, dispatched>>

\* The known peer answers: the connection is registered, main goes on.
DispatchConnected ==
    LET c == Len(conn) + 1 IN
    /\ Next1("ConnectNewPeer")
    /\ Len(conn) < MaxConns
    /\ conn' = Append(conn, Started(NewConn(Arg, "backlog")))
    /\ peers' = Enlist(Arg, c)
    /\ since' = SinceNow(c)
    /\ connector' = [next |-> connector.next + 1, waits |-> FALSE]
    /\ control' = Tail(control)
    /\ UNCHANGED <<open, executor, listening, inbox, alive, workers, broadcasts, inbound,
                   dispatched>>

\* Faulty variants: the error ends the dispatcher; the error is not passed on.
DispatchRefusedEnds ==
    /\ Next1("ConnectNewPeer")
    /\ open' = FALSE /\ executor' = FALSE
    /\ control' = Tail(control)
    /\ UNCHANGED <<listening, conn, peers, inbox, alive, workers, broadcasts, inbound, connector,
                   aux>>
DispatchRefusedSilently ==
    /\ Next1("ConnectNewPeer")
    /\ control' = Tail(control)
    /\ UNCHANGED <<conn, peers, open, executor, listening, inbox, alive, workers, broadcasts,
                   inbound, connector, aux>>

\* It does not: main gets the error, and tries again.
DispatchRefused ==
    /\ Next1("ConnectNewPeer")
    /\ connector' = [connector EXCEPT !.waits = FALSE]
    /\ control' = Tail(control)
    /\ UNCHANGED <<conn, peers, open, executor, listening, inbox, alive, workers, broadcasts,
                   inbound, aux>>

DispatchBroadcast ==
    /\ Next1("BroadcastMessage")
    /\ conn' = [c \in Conns |-> IF Listed(c) THEN Enqueue(conn[c], Arg) ELSE conn[c]]
    /\ dispatched' = dispatched + 1
    /\ control' = Tail(control)
    /\ UNCHANGED <<peers, open, executor, listening, inbox, alive, workers, broadcasts, inbound,
                   connector, since>>

DispatchDroppedPeer ==
    /\ Next1("DroppedPeer")
    /\ peers' = Without(Arg)
    /\ control' = Tail(control)
    /\ UNCHANGED <<conn, open, executor, listening, inbox, alive, workers, broadcasts, inbound,
                   connector, aux>>

-----------------------------------------------------------------------------
(* The writer and the reader task of connection c. *)

WriterTakes(c) ==
    /\ executor
    /\ conn[c].writer = "idle" /\ conn[c].queue # << >>
    /\ conn' = [conn EXCEPT ![c] = Taken(@)]
    /\ UNCHANGED <<peers, control, open, executor, listening, inbox, alive, workers, broadcasts,
                   inbound, connector, aux>>

WriterWrites(c) ==
    /\ executor
    /\ conn[c].writer = "busy"
    /\ conn' = [conn EXCEPT ![c] = Written(@)]
    /\ UNCHANGED <<peers, control, open, executor, listening, inbox, alive, workers, broadcasts,
                   inbound, connector, aux>>

\* Faulty variant: a report that does not wait for room.
WriterReportsAnyway(c) ==
    /\ executor
    /\ conn[c].writer = "failed"
    /\ conn' = [conn EXCEPT ![c] = Finished(@)]
    /\ Post(Signal("DroppedPeer", conn[c].addr))
    /\ UNCHANGED <<peers, open, executor, listening, inbox, alive, workers, broadcasts, inbound,
                   connector, aux>>
WriterReports(c) ==
    /\ executor /\ Room
    /\ conn[c].writer = "failed"
    /\ conn' = [conn EXCEPT ![c] = Finished(@)]
    /\ Post(Signal("DroppedPeer", conn[c].addr))
    /\ UNCHANGED <<peers, open, executor, listening, inbox, alive, workers, broadcasts, inbound,
                   connector, aux>>

\* Every handle is gone while the writer waits: next() is None and its unwrap
\* ends the executor's thread.  The dispatcher's receiver is not dropped.
WriterStarves(c) ==
    /\ executor
    /\ conn[c].writer = "idle" /\ conn[c].queue = << >> /\ ~HasHandle(c)
    /\ executor' = FALSE
    /\ UNCHANGED <<conn, peers, control, open, listening, inbox, alive, workers, broadcasts,
                   inbound, connector, aux>>

\* A message for the workers.  When they are all dead their channel is closed
\* and the reader's unwrap ends the executor's thread.
ReaderReads(c) ==
    /\ executor
    /\ conn[c].reader = "runs" /\ conn[c].unread > 0 /\ conn[c].link # "reset"
    /\ conn' = [conn EXCEPT ![c].unread = @ - 1]
    /\ IF workers > 0 THEN /\ Len(inbox) < InboxCap
                           /\ inbox' = Append(inbox, c)
                           /\ UNCHANGED executor
                      ELSE executor' = FALSE /\ UNCHANGED inbox
    /\ UNCHANGED <<peers, control, open, listening, alive, workers, broadcasts, inbound,
                   connector, aux>>

\* End of the stream, or an error.  Nobody is told.
ReaderEnds(c) ==
    /\ executor
    /\ conn[c].reader = "runs"
    /\ \/ conn[c].link = "reset"
       \/ conn[c].link = "closed" /\ conn[c].unread = 0
    /\ conn' = [conn EXCEPT ![c].reader = "ended"]
    /\ UNCHANGED <<peers, control, open, executor, listening, inbox, alive, workers, broadcasts,
                   inbound, connector, aux>>

-----------------------------------------------------------------------------
Dispatch ==
    \/ DispatchGetNewPeer \/ DispatchConnected \/ DispatchRefused
    \/ DispatchBroadcast \/ DispatchDroppedPeer

Writer(c) == WriterTakes(c) \/ WriterWrites(c) \/ WriterReports(c) \/ WriterStarves(c)
Reader(c) == ReaderReads(c) \/ ReaderEnds(c)
Remote(c) == RemoteSends(c) \/ RemoteCloses(c, "closed") \/ RemoteCloses(c, "reset")

Next ==
    \/ Dispatch \/ Broadcast \/ Connect \/ Work \/ AcceptFails
    \/ \E a \in Clients : RemoteConnects(a)
    \/ \E c \in Conns : Accept(c) \/ Writer(c) \/ Reader(c) \/ Remote(c)

Spec == Init /\ [][Next]_vars

\* The executor polls every task that can go on; workers take what arrives; main's
\* thread sleeps a second and calls again.  The remote ends owe nothing.
FairSpec ==
    /\ Spec
    /\ WF_vars(Dispatch) /\ WF_vars(Work) /\ WF_vars(Connect)
    /\ WF_vars(\E c \in Conns : Accept(c) \/ Writer(c) \/ Reader(c))
-----------------------------------------------------------------------------
Registered(c) == conn[c].reader \in {"runs", "ended"}
Superseded(c) == \E d \in Conns \ {c} : /\ conn[d].addr = conn[c].addr
                                        /\ \/ d > c /\ Registered(d)
                                           \/ conn[d].writer = "ended"

\* What was sent on a connection, and what the control channel holds for all of them.
Stream(r)   == r.got \o InHand(r) \o r.queue
Pending     == [i \in DOMAIN control |-> IF control[i].type = "BroadcastMessage"
                                         THEN control[i].arg ELSE Reply]

\* The broadcasts in s are in order, each once; and they are those after the first k,
\* up to some broadcast, none left out.
Sent(s)     == ToSet(s) \ {Reply}
Ordered(s)  == \A i, j \in DOMAIN s : i < j /\ s[i] # Reply /\ s[j] # Reply => s[i] < s[j]
After(s, k) == Ordered(s) /\ \E n \in k .. broadcasts : Sent(s) = k + 1 .. n

TypeOK ==
    /\ \A c \in Conns :
         /\ conn[c].addr \in Addr
         /\ conn[c].link \in {"open", "closed", "reset"}
         /\ conn[c].reader \in {"backlog", "accepted", "runs", "ended"}
         /\ conn[c].writer \in {"backlog", "accepted", "idle", "busy", "failed", "ended"}
         /\ conn[c].queue \in Seq(0 .. broadcasts) /\ conn[c].got \in Seq(0 .. broadcasts)
         /\ conn[c].hand \in {None} \cup 0 .. broadcasts
         /\ conn[c].hand # None <=> conn[c].writer = "busy"
         /\ conn[c].unread \in 0 .. inbound
    /\ DOMAIN peers \subseteq Addr /\ \A a \in DOMAIN peers : conn[peers[a]].addr = a
    /\ Len(control) <= ControlCap /\ Len(inbox) <= InboxCap
    /\ inbox \in Seq(Conns)
    /\ {open, executor, listening, alive, connector.waits} \subseteq BOOLEAN
    /\ workers \in 0 .. NumWorkers
    /\ connector.next \in 1 .. Len(KnownPeers) + 1

\* A connection that works is broadcast to, unless its address is that of another
\* one: then the later replaces it, and the end of one unlists the other.
LiveIsListed ==
    \A c \in Conns : (Registered(c) /\ conn[c].link = "open") => (Listed(c) \/ Superseded(c))

\* A remote reads the broadcasts from its registration on, in order, each once.  While the
\* link holds none of them is lost: those not read yet are in the writer's hand, queued or in
\* the control channel.
NoBroadcastLost ==
    \A c \in Conns : Registered(c) =>
        /\ After(conn[c].got, since[c])
        /\ conn[c].link = "open" => After(Stream(conn[c]), since[c])
        /\ (conn[c].link = "open" /\ ~Superseded(c))
             => /\ Ordered(Stream(conn[c]) \o Pending)
                /\ Sent(Stream(conn[c]) \o Pending) = since[c] + 1 .. broadcasts

\* What register inserts a handle for: whoever is connected and registered is broadcast to.
\* Not kept by the code: the registry goes by address, so that the end of an earlier
\* connection unlists a later one.
RegisteredIsListed ==
    \A c \in Conns : (Registered(c) /\ conn[c].link = "open") => Listed(c)

\* What stops the networking of a node for good: a connection reset before it is
\* registered, two connections with one address, the end of all workers, an accept
\* that fails.
ServerStops ==
    ~executor => \/ ~open /\ \E c \in Conns : ~Registered(c) /\ conn[c].link = "reset"
                 \/ open /\ \E c \in Conns : Superseded(c)
                 \/ open /\ workers = 0
                 \/ open /\ ~listening

\* The end of a writer is always on its way to the dispatcher: nobody stays listed
\* whose messages are dropped for good.
EndedIsReported ==
    \A c \in Conns : (conn[c].writer = "ended" /\ Listed(c))
                       => Signal("DroppedPeer", conn[c].addr) \in ToSet(control)

\* The registry follows the connections: the living are listed, and the dead are
\* about to be struck off.
PeersFollowConnections == LiveIsListed /\ EndedIsReported

\* A call of Handle::connect is answered, unless the executor's thread ended.
ConnectAnswered == connector.waits ~> ~connector.waits \/ ~executor

\* A broadcast reaches every connection that is listed while it is in the channel.
BroadcastArrives ==
    \A c \in 1 .. MaxConns :
        (c \in Conns /\ Listed(c) /\ Watched \in ToSet(Pending))
            ~> (~executor \/ (c \in Conns /\ \/ conn[c].link # "open"
                                             \/ Superseded(c)
                                             \/ Watched \in ToSet(conn[c].got)))
=============================================================================
