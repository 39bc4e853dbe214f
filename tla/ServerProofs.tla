---------------------------- MODULE ServerProofs ----------------------------
(***************************************************************************)
(* Proofs about the server (Server): its types, the registry, what stops   *)
(* the executor, and the way of the broadcasts.                            *)
(*                                                                         *)
(* Typed is the inductive part: the records of the connections, and what   *)
(* ties the registry, the control channel and the inbox to them.  Evolves  *)
(* is what no step undoes.  Each action has a lemma that it keeps the one  *)
(* and satisfies the other; ConnStep, NewStep, PeersStep, ControlStep and  *)
(* PendingStep say, for all actions together, what a step makes of each    *)
(* part, and the remaining invariants follow from them.                    *)
(***************************************************************************)
EXTENDS Server, SequenceTheorems, TLAPS

Links   == {"open", "closed", "reset"}
Readers == {"backlog", "accepted", "runs", "ended"}
Writers == {"backlog", "accepted", "idle", "busy", "failed", "ended"}
Values  == 0 .. broadcasts

ConnRecs == [addr : Addr, link : Links, reader : Readers, writer : Writers,
             queue : Seq(Values), hand : {None} \cup Values, got : Seq(Values),
             unread : 0 .. inbound]

\* What holds of each connection by itself.
Sound(r) ==
    /\ r.hand # None <=> r.writer = "busy"
    /\ r.reader = "backlog" <=> r.writer = "backlog"
    /\ r.reader = "accepted" <=> r.writer = "accepted"
    /\ r.writer \in {"failed", "ended"} => r.link = "reset"
    /\ r.reader \in {"backlog", "accepted"} =>
          r.addr \in Clients /\ r.queue = << >> /\ r.got = << >>

Connections == {r \in ConnRecs : Sound(r)}

Sigs == [type : {"GetNewPeer"}, arg : Conns]
          \cup [type : {"ConnectNewPeer"}, arg : ToSet(KnownPeers)]
          \cup [type : {"BroadcastMessage"}, arg : 1 .. broadcasts]
          \cup [type : {"DroppedPeer"}, arg : Addr]

\* Signals of which one at a time is in the channel.
Clash(x, y) ==
    /\ x.type = y.type
    /\ \/ x.type = "ConnectNewPeer"
       \/ x.type = "GetNewPeer" /\ x.arg = y.arg
Once(s) == \A i, j \in DOMAIN s : Clash(s[i], s[j]) => i = j

RestTyped ==
    /\ open \in BOOLEAN /\ executor \in BOOLEAN /\ alive \in BOOLEAN
    /\ workers \in 0 .. NumWorkers
    /\ broadcasts \in Nat /\ inbound \in Nat
    /\ connector \in [next : 1 .. Len(KnownPeers) + 1, waits : BOOLEAN]

PeersTyped ==
    /\ DOMAIN peers \subseteq Addr
    /\ peers = [a \in DOMAIN peers |-> peers[a]]
    /\ \A a \in DOMAIN peers : /\ peers[a] \in Conns
                               /\ conn[peers[a]].addr = a /\ Registered(peers[a])

ControlOK ==
    /\ control \in Seq(Sigs) /\ Len(control) <= ControlCap
    /\ Once(control)
    /\ \A s \in ToSet(control) :
          /\ s.type = "GetNewPeer" => conn[s.arg].reader = "accepted"
          /\ s.type = "ConnectNewPeer" => connector.waits /\ connector.next <= Len(KnownPeers)
          /\ s.type = "DroppedPeer" =>
                \E d \in Conns : conn[d].addr = s.arg /\ conn[d].writer = "ended"

InboxOK ==
    /\ inbox \in Seq(Conns) /\ Len(inbox) <= InboxCap
    /\ \A c \in ToSet(inbox) : Registered(c)

Typed == conn \in Seq(Connections) /\ RestTyped /\ PeersTyped /\ ControlOK /\ InboxOK

USE DEF Reply, None

LEMMA Constants ==
    /\ KnownPeers \in Seq(ToSet(KnownPeers)) /\ Len(KnownPeers) \in Nat
    /\ Clients \cap ToSet(KnownPeers) = {}
    /\ ControlCap \in Nat \ {0} /\ InboxCap \in Nat \ {0} /\ NumWorkers \in Nat \ {0}
<1>1. KnownPeers \in Seq(ToSet(KnownPeers))
  BY ServerAssumption
<1>2. Len(KnownPeers) \in Nat
  BY <1>1
<1> QED BY <1>1, <1>2, ServerAssumption

-----------------------------------------------------------------------------
\* What a sequence holds after a signal is posted or taken off.
LEMMA AppendSet ==
    ASSUME NEW S, NEW s \in Seq(S), NEW x
    PROVE  /\ ToSet(Append(s, x)) = ToSet(s) \cup {x}
           /\ Once(s) /\ (\A y \in ToSet(s) : ~Clash(x, y) /\ ~Clash(y, x))
                => Once(Append(s, x))
<1> DEFINE t == Append(s, x)
<1>1. /\ DOMAIN t = 1 .. Len(s) + 1 /\ DOMAIN s = 1 .. Len(s) /\ Len(s) \in Nat
      /\ \A i \in 1 .. Len(s) : t[i] = s[i]
      /\ t[Len(s) + 1] = x
  OBVIOUS
<1> HIDE DEF t
<1>2. ToSet(t) = ToSet(s) \cup {x}
  BY <1>1 DEF ToSet
<1>3. ASSUME Once(s), \A y \in ToSet(s) : ~Clash(x, y) /\ ~Clash(y, x)
      PROVE  Once(t)
  <2> SUFFICES ASSUME NEW i \in DOMAIN t, NEW j \in DOMAIN t, Clash(t[i], t[j])
               PROVE  i = j
    BY DEF Once
  <2>1. CASE i = Len(s) + 1 \/ j = Len(s) + 1
    BY <1>1, <1>3, <2>1 DEF ToSet
  <2>2. CASE i \in 1 .. Len(s) /\ j \in 1 .. Len(s)
    BY <1>1, <1>3, <2>2 DEF Once
  <2> QED BY <1>1, <2>1, <2>2
<1> QED BY <1>2, <1>3 DEF t

LEMMA TailSet ==
    ASSUME NEW S, NEW s \in Seq(S), s # << >>
    PROVE  /\ Head(s) \in S /\ Tail(s) \in Seq(S) /\ Len(Tail(s)) = Len(s) - 1
           /\ ToSet(s) = {Head(s)} \cup ToSet(Tail(s))
           /\ Once(s) => Once(Tail(s)) /\ \A y \in ToSet(Tail(s)) : ~Clash(Head(s), y)
<1> DEFINE t == Tail(s)
<1>1. /\ Len(s) \in Nat \ {0} /\ DOMAIN s = 1 .. Len(s) /\ DOMAIN t = 1 .. Len(s) - 1
      /\ Head(s) = s[1] /\ \A i \in 1 .. Len(s) - 1 : t[i] = s[i + 1] /\ i + 1 \in 1 .. Len(s)
      /\ Head(s) \in S /\ t \in Seq(S) /\ Len(t) = Len(s) - 1
  OBVIOUS
<1> HIDE DEF t
<1>2. \A i \in 1 .. Len(s) : i = 1 \/ (i - 1 \in 1 .. Len(s) - 1 /\ s[i] = t[i - 1])
  BY <1>1
<1>3. ToSet(s) \subseteq {Head(s)} \cup ToSet(t)
  <2> SUFFICES ASSUME NEW i \in 1 .. Len(s) PROVE s[i] \in {Head(s)} \cup ToSet(t)
    BY <1>1 DEF ToSet
  <2> QED BY <1>1, <1>2 DEF ToSet
<1>4. {Head(s)} \cup ToSet(t) \subseteq ToSet(s)
  <2>1. 1 \in 1 .. Len(s)
    BY <1>1
  <2> QED BY <1>1, <2>1 DEF ToSet
<1>5. ASSUME Once(s) PROVE Once(t) /\ \A y \in ToSet(t) : ~Clash(Head(s), y)
  <2>1. ASSUME NEW i \in DOMAIN t, NEW j \in DOMAIN t, Clash(t[i], t[j]) PROVE i = j
    <3>1. i + 1 \in DOMAIN s /\ j + 1 \in DOMAIN s /\ Clash(s[i + 1], s[j + 1])
      BY <1>1, <2>1
    <3>2. i + 1 = j + 1
      BY <1>5, <3>1 DEF Once
    <3> QED BY <1>1, <3>2
  <2>2. ASSUME NEW i \in DOMAIN t, Clash(Head(s), t[i]) PROVE FALSE
    <3>1. 1 \in DOMAIN s /\ i + 1 \in DOMAIN s /\ Clash(s[1], s[i + 1]) /\ i + 1 # 1
      BY <1>1, <2>2
    <3> QED BY <1>5, <3>1 DEF Once
  <2> QED BY <2>1, <2>2 DEF Once, ToSet
<1> QED BY <1>1, <1>3, <1>4, <1>5 DEF t

-----------------------------------------------------------------------------
LEMMA InitTyped == ASSUME Init PROVE Typed
<1>1. conn \in Seq(Connections) /\ RestTyped
  BY Constants DEF Init, RestTyped
<1>2. PeersTyped
  BY DEF Init, PeersTyped
<1>3. ToSet(<< >>) = {} /\ Once(<< >>)
  BY DEF ToSet, Once
<1>4. ControlOK /\ InboxOK
  BY <1>3, Constants DEF Init, ControlOK, InboxOK
<1> QED BY <1>1, <1>2, <1>4 DEF Typed

\* One connection changes.
LEMMA Edit ==
    ASSUME Typed, NEW c \in Conns, NEW r \in Connections',
           Connections \subseteq Connections', conn' = [conn EXCEPT ![c] = r]
    PROVE  /\ conn' \in Seq(Connections') /\ Conns' = Conns /\ conn'[c] = r
           /\ \A d \in Conns \ {c} : conn'[d] = conn[d]
<1>1. conn \in Seq(Connections')
  BY SeqMonotonic DEF Typed
<1>2. /\ DOMAIN conn = 1 .. Len(conn) /\ Len(conn) \in Nat
  BY <1>1
<1>3. conn' \in Seq(Connections') /\ DOMAIN conn' = DOMAIN conn
  BY <1>1, <1>2, ElementOfSeq DEF Conns
<1> QED BY <1>1, <1>2, <1>3 DEF Conns

\* A connection is made.
LEMMA Extend ==
    ASSUME Typed, NEW r \in Connections', Connections \subseteq Connections',
           conn' = Append(conn, r)
    PROVE  /\ conn' \in Seq(Connections') /\ Conns' = Conns \cup {Len(conn) + 1}
           /\ conn'[Len(conn) + 1] = r /\ Len(conn) + 1 \in Nat
           /\ \A d \in Conns : conn'[d] = conn[d] /\ d \in Nat /\ d <= Len(conn)
<1>1. conn \in Seq(Connections')
  BY SeqMonotonic DEF Typed
<1> QED BY <1>1 DEF Conns

LEMMA SameKinds ==
    ASSUME UNCHANGED <<broadcasts, inbound>>
    PROVE  Connections' = Connections /\ Values' = Values
  BY DEF Connections, ConnRecs, Values

\* No step undoes a registration, revives a writer or gives a connection another address.
Evolves ==
    /\ Conns \subseteq Conns' /\ broadcasts' \in Nat /\ broadcasts' >= broadcasts
    /\ \A d \in Conns : /\ conn'[d].addr = conn[d].addr
                        /\ Registered(d) => Registered(d)'
                        /\ conn[d].writer = "ended" => conn'[d].writer = "ended"
                        /\ conn[d].link = "reset" => conn'[d].link = "reset"

LEMMA SigsGrow == ASSUME Typed, Evolves PROVE Seq(Sigs) \subseteq Seq(Sigs')
<1>1. Sigs \subseteq Sigs'
  BY DEF Evolves, Sigs, Typed, RestTyped
<1> QED BY <1>1, SeqMonotonic

LEMMA KeepPeers == ASSUME Typed, Evolves, peers' = peers PROVE PeersTyped'
  BY DEF Typed, PeersTyped, Evolves

LEMMA KeepInbox == ASSUME Typed, Evolves, inbox' = inbox PROVE InboxOK'
<1>1. inbox \in Seq(Conns) /\ Len(inbox) <= InboxCap
      /\ \A c \in ToSet(inbox) : c \in Conns /\ Registered(c)
  BY DEF Typed, InboxOK, ToSet
<1>2. inbox \in Seq(Conns')
  BY <1>1, SeqMonotonic DEF Evolves
<1> QED BY <1>1, <1>2 DEF InboxOK, Evolves

\* Signals that were good stay so.
LEMMA SigsKeep ==
    ASSUME Typed, Evolves, NEW s \in ToSet(control),
           s.type = "GetNewPeer" => conn'[s.arg].reader = conn[s.arg].reader,
           s.type = "ConnectNewPeer" => connector' = connector
    PROVE  /\ s.type = "GetNewPeer" => conn'[s.arg].reader = "accepted"
           /\ s.type = "ConnectNewPeer" => connector'.waits /\ connector'.next <= Len(KnownPeers)
           /\ s.type = "DroppedPeer" =>
                 \E d \in Conns' : conn'[d].addr = s.arg /\ conn'[d].writer = "ended"
  BY DEF Typed, ControlOK, Evolves

LEMMA KeepControl ==
    ASSUME Typed, Evolves, control' = control, connector' = connector,
           \A d \in Conns : conn[d].reader = "accepted" => conn'[d].reader = "accepted"
    PROVE  ControlOK'
<1>1. control \in Seq(Sigs) /\ control \in Seq(Sigs')
  BY SigsGrow DEF Typed, ControlOK
<1>2. ASSUME NEW s \in ToSet(control), s.type = "GetNewPeer"
      PROVE  conn'[s.arg].reader = conn[s.arg].reader
  <2>1. s.arg \in Conns
    BY <1>1, <1>2 DEF ToSet, Sigs
  <2> QED BY <1>2, <2>1 DEF Typed, ControlOK
<1> QED BY <1>1, <1>2, SigsKeep DEF Typed, ControlOK

LEMMA PostControl ==
    ASSUME Typed, Evolves, Room, NEW x \in Sigs', control' = Append(control, x),
           \A y \in ToSet(control) : ~Clash(x, y) /\ ~Clash(y, x),
           \A s \in ToSet(control) :
              /\ s.type = "GetNewPeer" => conn'[s.arg].reader = conn[s.arg].reader
              /\ s.type = "ConnectNewPeer" => connector' = connector,
           x.type = "GetNewPeer" => conn'[x.arg].reader = "accepted",
           x.type = "ConnectNewPeer" => connector'.waits /\ connector'.next <= Len(KnownPeers),
           x.type = "DroppedPeer" =>
              \E d \in Conns' : conn'[d].addr = x.arg /\ conn'[d].writer = "ended"
    PROVE  ControlOK'
<1>1. control \in Seq(Sigs) /\ control \in Seq(Sigs')
  BY SigsGrow DEF Typed, ControlOK
<1>2. /\ ToSet(control') = ToSet(control) \cup {x} /\ Once(control')
  BY <1>1, AppendSet DEF Typed, ControlOK
<1>3. control' \in Seq(Sigs') /\ Len(control') = Len(control) + 1
  BY <1>1
<1>4. Len(control') <= ControlCap
  BY <1>1, <1>3, Constants DEF Room
<1> QED BY <1>2, <1>3, <1>4, SigsKeep DEF ControlOK

LEMMA PopControl ==
    ASSUME Typed, Evolves, control # << >>, control' = Tail(control),
           \A s \in ToSet(Tail(control)) :
              /\ s.type = "GetNewPeer" => conn'[s.arg].reader = conn[s.arg].reader
              /\ s.type = "ConnectNewPeer" => connector' = connector
    PROVE  ControlOK'
<1>1. control \in Seq(Sigs) /\ control \in Seq(Sigs')
  BY SigsGrow DEF Typed, ControlOK
<1>2. /\ ToSet(control') \subseteq ToSet(control) /\ Once(control')
      /\ control' \in Seq(Sigs') /\ Len(control') = Len(control) - 1
  BY <1>1, TailSet DEF Typed, ControlOK
<1>3. Len(control') <= ControlCap
  BY <1>1, <1>2, Constants DEF Typed, ControlOK
<1> QED BY <1>2, <1>3, SigsKeep DEF ControlOK

\* A new record for connection c, with its address; none that was registered, ended or
\* reset is anything else after.
LEMMA EditEvolves ==
    ASSUME Typed, NEW c \in Conns, NEW r \in Connections', Connections \subseteq Connections',
           conn' = [conn EXCEPT ![c] = r], broadcasts' = broadcasts,
           r.addr = conn[c].addr,
           Registered(c) => r.reader \in {"runs", "ended"},
           conn[c].writer = "ended" => r.writer = "ended",
           conn[c].link = "reset" => r.link = "reset"
    PROVE  /\ Evolves /\ conn' \in Seq(Connections') /\ Conns' = Conns /\ conn'[c] = r
           /\ \A d \in Conns \ {c} : conn'[d] = conn[d]
<1>1. /\ conn' \in Seq(Connections') /\ Conns' = Conns /\ conn'[c] = r
      /\ \A d \in Conns \ {c} : conn'[d] = conn[d]
  BY Edit
<1>2. broadcasts' \in Nat /\ broadcasts' >= broadcasts
  BY DEF Typed, RestTyped
<1>3. ASSUME NEW d \in Conns
      PROVE  /\ conn'[d].addr = conn[d].addr
             /\ Registered(d) => Registered(d)'
             /\ conn[d].writer = "ended" => conn'[d].writer = "ended"
             /\ conn[d].link = "reset" => conn'[d].link = "reset"
  <2>1. CASE d = c
    BY <1>1, <2>1 DEF Registered
  <2>2. CASE d # c
    BY <1>1, <2>2 DEF Registered
  <2> QED BY <2>1, <2>2
<1> QED BY <1>1, <1>2, <1>3 DEF Evolves

LEMMA ConnFacts ==
    ASSUME Typed, NEW c \in Conns
    PROVE  conn[c] \in Connections /\ conn[c] \in ConnRecs /\ Sound(conn[c])
  BY DEF Typed, Conns, Connections

\* What each step in the life of a connection makes of its record.
LEMMA AcceptedRec ==
    ASSUME NEW q \in Connections, q.reader = "backlog"
    PROVE  LET r == Accepted(q) IN
           /\ r \in Connections /\ r.reader = "accepted" /\ r.writer = "accepted"
           /\ r.addr = q.addr /\ r.link = q.link /\ r.queue = q.queue /\ r.hand = q.hand
           /\ r.got = q.got
<1> DEFINE p == [q EXCEPT !.reader = "accepted"]
           r == Accepted(q)
<1>1. r = [p EXCEPT !.writer = "accepted"]
  BY DEF Connections, ConnRecs, Accepted
<1>2. /\ p \in ConnRecs /\ p.reader = "accepted" /\ p.addr = q.addr /\ p.link = q.link
      /\ p.queue = q.queue /\ p.hand = q.hand /\ p.got = q.got
  BY DEF Connections, ConnRecs, Readers
<1> HIDE DEF p, r
<1>3. /\ r \in ConnRecs /\ r.reader = "accepted" /\ r.writer = "accepted"
      /\ r.addr = q.addr /\ r.link = q.link /\ r.queue = q.queue /\ r.hand = q.hand
      /\ r.got = q.got
  BY <1>1, <1>2 DEF ConnRecs, Writers
<1>4. Sound(r)
  BY <1>3 DEF Connections, Sound
<1> QED BY <1>3, <1>4 DEF Connections, r

LEMMA StartedRec ==
    ASSUME NEW q \in Connections, q.reader \in {"backlog", "accepted"}
    PROVE  LET r == Started(q) IN
           /\ r \in Connections /\ r.reader = "runs" /\ r.writer = "idle"
           /\ r.addr = q.addr /\ r.link = q.link /\ r.queue = << >> /\ r.hand = None
           /\ r.got = << >>
<1> DEFINE p == [q EXCEPT !.reader = "runs"]
           r == Started(q)
<1>1. r = [p EXCEPT !.writer = "idle"]
  BY DEF Connections, ConnRecs, Started
<1>2. /\ p \in ConnRecs /\ p.reader = "runs" /\ p.addr = q.addr /\ p.link = q.link
      /\ p.queue = q.queue /\ p.hand = q.hand /\ p.got = q.got
  BY DEF Connections, ConnRecs, Readers
<1> HIDE DEF p, r
<1>3. /\ r \in ConnRecs /\ r.reader = "runs" /\ r.writer = "idle"
      /\ r.addr = q.addr /\ r.link = q.link /\ r.queue = q.queue /\ r.hand = q.hand
      /\ r.got = q.got
  BY <1>1, <1>2 DEF ConnRecs, Writers
<1>4. q.queue = << >> /\ q.got = << >> /\ q.hand = None
  BY DEF Connections, Sound
<1>5. Sound(r)
  BY <1>3, <1>4 DEF Sound
<1> QED BY <1>3, <1>4, <1>5 DEF Connections, r

LEMMA TakenRec ==
    ASSUME NEW q \in Connections, q.writer = "idle", q.queue # << >>
    PROVE  LET r == Taken(q) IN
           /\ r \in Connections /\ r.reader = q.reader /\ r.writer = "busy"
           /\ r.addr = q.addr /\ r.link = q.link /\ r.queue = Tail(q.queue)
           /\ r.hand = Head(q.queue) /\ r.hand # None /\ q.hand = None /\ r.got = q.got
<1> DEFINE h == Head(q.queue)
           t == Tail(q.queue)
           p1 == [q EXCEPT !.writer = "busy"]
           p2 == [p1 EXCEPT !.hand = h]
           r == Taken(q)
<1>1. q \in ConnRecs /\ Sound(q)
  BY DEF Connections
<1>2. h \in Values /\ t \in Seq(Values) /\ h # None
  <2>1. q.queue \in Seq(Values)
    BY <1>1 DEF ConnRecs
  <2>2. h \in Values /\ t \in Seq(Values)
    BY <2>1
  <2>3. \A v \in Values : v # None
    BY DEF Values
  <2> QED BY <2>2, <2>3
<1>3. r = [p2 EXCEPT !.queue = t]
  BY <1>1 DEF ConnRecs, Taken
<1> HIDE DEF h, t, r
<1>4. /\ p1 \in ConnRecs /\ p1.writer = "busy" /\ p1.reader = q.reader /\ p1.addr = q.addr
      /\ p1.link = q.link /\ p1.got = q.got
  BY <1>1 DEF ConnRecs, Writers
<1> HIDE DEF p1
<1>5. /\ p2 \in ConnRecs /\ p2.writer = "busy" /\ p2.reader = q.reader /\ p2.addr = q.addr
      /\ p2.link = q.link /\ p2.got = q.got /\ p2.hand = h
  BY <1>2, <1>4 DEF ConnRecs
<1> HIDE DEF p2
<1>6. /\ r \in ConnRecs /\ r.writer = "busy" /\ r.reader = q.reader /\ r.addr = q.addr
      /\ r.link = q.link /\ r.got = q.got /\ r.hand = h /\ r.queue = t
  BY <1>2, <1>3, <1>5 DEF ConnRecs
<1>7. Sound(r) /\ q.hand = None
  BY <1>1, <1>2, <1>6 DEF Sound
<1> QED BY <1>2, <1>6, <1>7 DEF Connections, r, h, t

LEMMA WrittenRec ==
    ASSUME NEW q \in Connections, q.writer = "busy"
    PROVE  LET r == Written(q) IN
           /\ r \in Connections /\ r.reader = q.reader /\ r.writer \in {"idle", "failed"}
           /\ r.addr = q.addr /\ r.queue = q.queue /\ r.hand = None /\ q.hand \in Values
           /\ r.link = IF q.link = "open" THEN "open" ELSE "reset"
           /\ r.got = IF q.link = "open" THEN q.got \o <<q.hand>> ELSE q.got
<1> DEFINE w == IF q.link = "reset" THEN "failed" ELSE "idle"
           g == IF q.link = "open" THEN q.got \o <<q.hand>> ELSE q.got
           l == IF q.link = "open" THEN "open" ELSE "reset"
           p1 == [q EXCEPT !.writer = w]
           p2 == [p1 EXCEPT !.hand = None]
           p3 == [p2 EXCEPT !.got = g]
           r == Written(q)
<1>1. q \in ConnRecs /\ Sound(q) /\ q.link \in Links
  BY DEF Connections, ConnRecs
<1>2. q.hand \in Values /\ q.hand # None /\ InHand(q) = <<q.hand>>
  BY <1>1 DEF Sound, ConnRecs, InHand
<1>3. g \in Seq(Values) /\ w \in Writers /\ l \in Links
  <2>1. q.got \in Seq(Values)
    BY <1>1 DEF ConnRecs
  <2> QED BY <1>2, <2>1 DEF Writers, Links
<1>4. r = [p3 EXCEPT !.link = l]
  <2>1. CASE q.link = "open"
    <3>1. r = [q EXCEPT !.writer = w, !.hand = None, !.got = g]
      BY <1>2, <2>1 DEF Written
    <3>2. r = p3
      BY <1>1, <3>1 DEF ConnRecs
    <3>3. p3 = [p3 EXCEPT !.link = l]
      BY <1>1, <2>1 DEF ConnRecs
    <3> QED BY <3>2, <3>3
  <2>2. CASE q.link = "closed"
    <3>1. r = [q EXCEPT !.writer = w, !.hand = None, !.link = l]
      BY <2>2 DEF Written
    <3>2. r = [p2 EXCEPT !.link = l]
      BY <1>1, <3>1 DEF ConnRecs
    <3>3. p2 = p3
      BY <1>1, <2>2 DEF ConnRecs
    <3> QED BY <3>2, <3>3
  <2>3. CASE q.link = "reset"
    <3>1. r = [q EXCEPT !.writer = w, !.hand = None]
      BY <2>3 DEF Written
    <3>2. r = p2
      BY <1>1, <3>1 DEF ConnRecs
    <3>3. p2 = p3 /\ p2 = [p2 EXCEPT !.link = l]
      BY <1>1, <2>3 DEF ConnRecs
    <3> QED BY <3>2, <3>3
  <2> QED BY <1>1, <2>1, <2>2, <2>3 DEF Links
<1>5. w \in {"idle", "failed"} /\ (w = "failed" => l = "reset")
  OBVIOUS
<1> HIDE DEF r, w, g, l
<1>6. /\ p1 \in ConnRecs /\ p1.writer = w /\ p1.reader = q.reader /\ p1.addr = q.addr
      /\ p1.queue = q.queue
  BY <1>1, <1>3 DEF ConnRecs
<1> HIDE DEF p1
<1>7. /\ p2 \in ConnRecs /\ p2.writer = w /\ p2.reader = q.reader /\ p2.addr = q.addr
      /\ p2.queue = q.queue /\ p2.hand = None
  BY <1>6 DEF ConnRecs
<1> HIDE DEF p2
<1>8. /\ p3 \in ConnRecs /\ p3.writer = w /\ p3.reader = q.reader /\ p3.addr = q.addr
      /\ p3.queue = q.queue /\ p3.hand = None /\ p3.got = g
  BY <1>3, <1>7 DEF ConnRecs
<1> HIDE DEF p3
<1>9. /\ r \in ConnRecs /\ r.writer = w /\ r.reader = q.reader /\ r.addr = q.addr
      /\ r.queue = q.queue /\ r.hand = None /\ r.got = g /\ r.link = l
  BY <1>3, <1>4, <1>8 DEF ConnRecs
<1>10. r.reader \notin {"backlog", "accepted"}
  BY <1>1, <1>9 DEF Sound
<1>11. Sound(r)
  BY <1>5, <1>9, <1>10 DEF Sound
<1>12. r \in Connections /\ r.writer \in {"idle", "failed"}
  BY <1>5, <1>9, <1>11 DEF Connections
<1> QED BY <1>2, <1>9, <1>12 DEF r, g, l

LEMMA FinishedRec ==
    ASSUME NEW q \in Connections, q.writer = "failed"
    PROVE  LET r == Finished(q) IN
           /\ r \in Connections /\ r.reader = q.reader /\ r.writer = "ended"
           /\ r.addr = q.addr /\ r.link = q.link /\ r.link = "reset"
           /\ r.queue = << >> /\ r.hand = q.hand /\ r.got = q.got
<1> DEFINE p == [q EXCEPT !.writer = "ended"]
           t == << >>
           r == Finished(q)
<1>1. q \in ConnRecs /\ Sound(q)
  BY DEF Connections
<1>2. r = [p EXCEPT !.queue = t] /\ t \in Seq(Values)
  BY <1>1 DEF ConnRecs, Finished
<1>3. /\ p \in ConnRecs /\ p.writer = "ended" /\ p.reader = q.reader /\ p.addr = q.addr
      /\ p.link = q.link /\ p.hand = q.hand /\ p.got = q.got
  BY <1>1 DEF ConnRecs, Writers
<1> HIDE DEF p, r, t
<1>4. /\ r \in ConnRecs /\ r.writer = "ended" /\ r.reader = q.reader /\ r.addr = q.addr
      /\ r.link = q.link /\ r.hand = q.hand /\ r.got = q.got /\ r.queue = t
  BY <1>2, <1>3 DEF ConnRecs
<1>5. Sound(r) /\ q.link = "reset"
  BY <1>1, <1>4 DEF Sound
<1> QED BY <1>4, <1>5 DEF Connections, r, t

\* A message for a writer that runs is the last of its queue.
LEMMA EnqueueRec ==
    ASSUME NEW q \in Connections, q.reader \in {"runs", "ended"}, NEW m \in Values
    PROVE  LET r == Enqueue(q, m) IN
           /\ r \in Connections /\ r.reader = q.reader /\ r.writer = q.writer
           /\ r.addr = q.addr /\ r.link = q.link /\ r.hand = q.hand /\ r.got = q.got
           /\ r.queue = IF q.writer = "ended" THEN q.queue ELSE Append(q.queue, m)
<1>1. q \in ConnRecs /\ Sound(q)
  BY DEF Connections
<1>2. CASE q.writer = "ended"
  BY <1>2 DEF Enqueue
<1>3. CASE q.writer # "ended"
  <2> DEFINE t == Append(q.queue, m)
             r == Enqueue(q, m)
  <2>1. t \in Seq(Values)
    BY <1>1 DEF ConnRecs
  <2>2. r = [q EXCEPT !.queue = t]
    BY <1>3 DEF Enqueue
  <2> HIDE DEF r, t
  <2>3. /\ r \in ConnRecs /\ r.reader = q.reader /\ r.writer = q.writer
        /\ r.addr = q.addr /\ r.link = q.link /\ r.hand = q.hand /\ r.got = q.got
        /\ r.queue = t
    BY <1>1, <2>1, <2>2 DEF ConnRecs
  <2>4. Sound(r)
    BY <1>1, <2>3 DEF Sound
  <2> QED BY <1>3, <2>3, <2>4 DEF Connections, r, t
<1> QED BY <1>2, <1>3

LEMMA RemoteConnectsTyped ==
    ASSUME Typed, NEW a \in Clients, RemoteConnects(a)
    PROVE  Typed' /\ Evolves
<1> DEFINE r == NewConn(a, "backlog")
<1>1. /\ conn' = Append(conn, r)
      /\ UNCHANGED <<peers, control, open, executor, inbox, alive, workers, broadcasts, inbound,
                     connector>>
  BY DEF RemoteConnects
<1>2. r \in Connections
  BY DEF NewConn, Connections, ConnRecs, Sound, Addr, Links, Readers, Writers, Values, Typed,
         RestTyped
<1>3. Connections' = Connections
  BY <1>1, SameKinds
<1>4. /\ conn' \in Seq(Connections') /\ Conns \subseteq Conns'
      /\ \A d \in Conns : conn'[d] = conn[d]
  BY <1>1, <1>2, <1>3, Extend
<1>5. Evolves
  <2>1. broadcasts' \in Nat /\ broadcasts' >= broadcasts
    BY <1>1 DEF Typed, RestTyped
  <2> QED BY <1>4, <2>1 DEF Evolves, Registered
<1>6. PeersTyped' /\ InboxOK' /\ ControlOK'
  BY <1>1, <1>4, <1>5, KeepPeers, KeepInbox, KeepControl
<1>7. RestTyped'
  BY <1>1 DEF Typed, RestTyped
<1> QED BY <1>4, <1>5, <1>6, <1>7 DEF Typed

LEMMA RemoteSendsTyped ==
    ASSUME Typed, NEW c \in Conns, RemoteSends(c)
    PROVE  Typed' /\ Evolves
<1> DEFINE r == [conn[c] EXCEPT !.unread = @ + 1]
<1>1. /\ conn' = [conn EXCEPT ![c] = r] /\ inbound' = inbound + 1
      /\ UNCHANGED <<peers, control, open, executor, inbox, alive, workers, broadcasts, connector>>
  BY DEF RemoteSends
<1>2. conn[c] \in ConnRecs /\ Sound(conn[c]) /\ inbound \in Nat
  BY ConnFacts DEF Typed, RestTyped
<1>3. Connections \subseteq Connections' /\ r \in Connections'
  <2>1. Values' = Values /\ 0 .. inbound \subseteq 0 .. inbound'
    BY <1>1, <1>2 DEF Values
  <2>2. ConnRecs \subseteq ConnRecs'
    BY <2>1 DEF ConnRecs
  <2>3. r \in ConnRecs'
    <3>1. conn[c] \in ConnRecs' /\ conn[c].unread + 1 \in 0 .. inbound'
      BY <1>1, <1>2, <2>2 DEF ConnRecs
    <3> QED BY <3>1 DEF ConnRecs
  <2>4. Sound(r)
    BY <1>2 DEF ConnRecs, Sound
  <2> QED BY <2>2, <2>3, <2>4 DEF Connections
<1>4. r.addr = conn[c].addr /\ r.reader = conn[c].reader /\ r.writer = conn[c].writer
      /\ r.link = conn[c].link
  BY <1>2 DEF ConnRecs
<1> HIDE DEF r
<1>5. /\ Evolves /\ conn' \in Seq(Connections') /\ Conns' = Conns /\ conn'[c] = r
      /\ \A d \in Conns \ {c} : conn'[d] = conn[d]
  BY <1>1, <1>3, <1>4, EditEvolves DEF Registered
<1>6. PeersTyped' /\ InboxOK' /\ ControlOK'
  BY <1>1, <1>4, <1>5, KeepPeers, KeepInbox, KeepControl
<1>7. RestTyped'
  BY <1>1 DEF Typed, RestTyped
<1> QED BY <1>5, <1>6, <1>7 DEF Typed

LEMMA RemoteClosesTyped ==
    ASSUME Typed, NEW c \in Conns, NEW how \in {"closed", "reset"}, RemoteCloses(c, how)
    PROVE  Typed' /\ Evolves
<1> DEFINE r == [conn[c] EXCEPT !.link = how]
<1>1. /\ conn' = [conn EXCEPT ![c] = r] /\ conn[c].link # "reset"
      /\ UNCHANGED <<peers, control, open, executor, inbox, alive, workers, broadcasts, inbound,
                     connector>>
  BY DEF RemoteCloses
<1>2. conn[c] \in ConnRecs /\ Sound(conn[c])
  BY ConnFacts
<1>3. Connections' = Connections /\ r \in Connections
  BY <1>1, <1>2, SameKinds DEF Connections, ConnRecs, Sound, Links
<1>4. r.addr = conn[c].addr /\ r.reader = conn[c].reader /\ r.writer = conn[c].writer
  BY <1>2 DEF ConnRecs
<1> HIDE DEF r
<1>5. /\ Evolves /\ conn' \in Seq(Connections') /\ Conns' = Conns /\ conn'[c] = r
      /\ \A d \in Conns \ {c} : conn'[d] = conn[d]
  BY <1>1, <1>3, <1>4, EditEvolves DEF Registered
<1>6. PeersTyped' /\ InboxOK' /\ ControlOK'
  BY <1>1, <1>4, <1>5, KeepPeers, KeepInbox, KeepControl
<1>7. RestTyped'
  BY <1>1 DEF Typed, RestTyped
<1> QED BY <1>5, <1>6, <1>7 DEF Typed

LEMMA AcceptTyped == ASSUME Typed, NEW c \in Conns, Accept(c) PROVE Typed' /\ Evolves
<1> DEFINE r == Accepted(conn[c])
           x == Signal("GetNewPeer", c)
<1>1. /\ conn' = [conn EXCEPT ![c] = r] /\ conn[c].reader = "backlog" /\ Room
      /\ control' = Append(control, x)
      /\ UNCHANGED <<peers, open, executor, inbox, alive, workers, broadcasts, inbound, connector>>
  BY DEF Accept, Post
<1>2. conn[c] \in Connections /\ Sound(conn[c])
  BY ConnFacts
<1>3. /\ r \in Connections /\ r.reader = "accepted" /\ r.addr = conn[c].addr
      /\ r.link = conn[c].link
  BY <1>1, <1>2, AcceptedRec
<1> HIDE DEF r
<1>4. Connections' = Connections
  BY <1>1, SameKinds
<1>6. /\ Evolves /\ conn' \in Seq(Connections') /\ Conns' = Conns /\ conn'[c] = r
      /\ \A d \in Conns \ {c} : conn'[d] = conn[d]
  <2>1. ~Registered(c) /\ conn[c].writer # "ended"
    BY <1>1, <1>2 DEF Registered, Sound
  <2> QED BY <1>1, <1>3, <1>4, <2>1, EditEvolves
<1>7. x \in Sigs' /\ x.type = "GetNewPeer" /\ x.arg = c
  BY <1>6 DEF Signal, Sigs
<1>8. ASSUME NEW s \in ToSet(control)
      PROVE  /\ ~Clash(x, s) /\ ~Clash(s, x)
             /\ s.type = "GetNewPeer" => conn'[s.arg].reader = conn[s.arg].reader
  <2>1. s.type = "GetNewPeer" => s.arg \in Conns /\ s.arg # c
    BY <1>1 DEF Typed, ControlOK, ToSet, Sigs
  <2> QED BY <1>6, <1>7, <2>1 DEF Clash
<1>9. ControlOK'
  BY <1>1, <1>3, <1>6, <1>7, <1>8, PostControl
<1>10. PeersTyped' /\ InboxOK' /\ RestTyped'
  BY <1>1, <1>6, KeepPeers, KeepInbox DEF Typed, RestTyped
<1> QED BY <1>6, <1>9, <1>10 DEF Typed

LEMMA BroadcastTyped == ASSUME Typed, Broadcast PROVE Typed' /\ Evolves
<1>1. UNCHANGED <<conn, peers, open, executor, inbox, workers, inbound, connector>>
  BY DEF Broadcast
<1>2. CASE open
  <2> DEFINE x == Signal("BroadcastMessage", broadcasts + 1)
  <2>1. /\ Room /\ broadcasts' = broadcasts + 1 /\ control' = Append(control, x) /\ alive' = alive
    BY <1>2 DEF Broadcast, Post
  <2>2. broadcasts \in Nat
    BY DEF Typed, RestTyped
  <2>3. Evolves
    BY <1>1, <2>1, <2>2 DEF Evolves, Registered, Conns
  <2>4. Connections \subseteq Connections'
    <3>1. Values \subseteq Values'
      BY <2>1, <2>2 DEF Values
    <3>2. Seq(Values) \subseteq Seq(Values')
      BY <3>1, SeqMonotonic
    <3> QED BY <1>1, <3>1, <3>2 DEF Connections, ConnRecs
  <2>5. conn' \in Seq(Connections')
    BY <1>1, <2>4, SeqMonotonic DEF Typed
  <2>6. x \in Sigs' /\ x.type = "BroadcastMessage"
    BY <2>1, <2>2 DEF Signal, Sigs
  <2>7. ControlOK'
    BY <1>1, <2>1, <2>3, <2>6, PostControl DEF Clash
  <2>8. PeersTyped' /\ InboxOK' /\ RestTyped'
    BY <1>1, <2>1, <2>2, <2>3, KeepPeers, KeepInbox DEF Typed, RestTyped
  <2> QED BY <2>3, <2>5, <2>7, <2>8 DEF Typed
<1>3. CASE ~open
  <2>1. UNCHANGED <<broadcasts, control>> /\ alive' = FALSE
    BY <1>3 DEF Broadcast
  <2>2. Evolves
    BY <1>1, <2>1 DEF Evolves, Registered, Conns, Typed, RestTyped
  <2>3. PeersTyped' /\ InboxOK' /\ ControlOK' /\ RestTyped'
    BY <1>1, <2>1, <2>2, KeepPeers, KeepInbox, KeepControl DEF Typed, RestTyped
  <2> QED BY <1>1, <2>1, <2>2, <2>3, SameKinds DEF Typed
<1> QED BY <1>2, <1>3

LEMMA ConnectTyped == ASSUME Typed, Connect PROVE Typed' /\ Evolves
<1> DEFINE a == KnownPeers[connector.next]
           x == Signal("ConnectNewPeer", a)
<1>1. /\ Room /\ connector.next <= Len(KnownPeers) /\ ~connector.waits
      /\ connector' = [connector EXCEPT !.waits = TRUE] /\ control' = Append(control, x)
      /\ UNCHANGED <<conn, peers, open, executor, inbox, alive, workers, broadcasts, inbound>>
  BY DEF Connect, Post
<1>2. connector \in [next : 1 .. Len(KnownPeers) + 1, waits : BOOLEAN]
  BY DEF Typed, RestTyped
<1>3. connector.next \in 1 .. Len(KnownPeers) /\ a \in ToSet(KnownPeers)
  BY <1>1, <1>2, Constants DEF ToSet
<1>4. Evolves
  BY <1>1 DEF Evolves, Registered, Conns, Typed, RestTyped
<1>5. x \in Sigs' /\ x.type = "ConnectNewPeer"
  BY <1>3 DEF Signal, Sigs
<1>6. connector'.waits /\ connector'.next = connector.next
      /\ connector' \in [next : 1 .. Len(KnownPeers) + 1, waits : BOOLEAN]
  BY <1>1, <1>2
<1>7. \A s \in ToSet(control) : s.type # "ConnectNewPeer"
  BY <1>1 DEF Typed, ControlOK
<1>8. ControlOK'
  BY <1>1, <1>4, <1>5, <1>6, <1>7, PostControl DEF Clash
<1>9. PeersTyped' /\ InboxOK' /\ RestTyped'
  BY <1>1, <1>4, <1>6, KeepPeers, KeepInbox DEF Typed, RestTyped
<1> QED BY <1>1, <1>4, <1>8, <1>9, SameKinds DEF Typed

\* The signal the dispatcher takes.
LEMMA HeadFacts ==
    ASSUME Typed, NEW type, Next1(type)
    PROVE  /\ control # << >> /\ Head(control) \in Sigs /\ Head(control).type = type
           /\ Head(control) \in ToSet(control) /\ ToSet(Tail(control)) \subseteq ToSet(control)
           /\ \A s \in ToSet(Tail(control)) : ~Clash(Head(control), s)
           /\ \A s \in ToSet(control) : s \in Sigs
<1>1. control # << >> /\ control \in Seq(Sigs) /\ Once(control) /\ Head(control).type = type
  BY DEF Next1, Typed, ControlOK
<1>2. \A s \in ToSet(control) : s \in Sigs
  BY <1>1 DEF ToSet
<1> QED BY <1>1, <1>2, TailSet

LEMMA EnlistTyped ==
    ASSUME Typed, Evolves, NEW c \in Conns', peers' = Enlist(conn'[c].addr, c),
           conn'[c].addr \in Addr, conn'[c].reader \in {"runs", "ended"}
    PROVE  PeersTyped'
<1> DEFINE a == conn'[c].addr
           ps == peers'
<1>1. c \in Conns' /\ conn'[c].addr = a /\ conn'[c].reader \in {"runs", "ended"} /\ a \in Addr
  OBVIOUS
<1>2. /\ ps = [x \in DOMAIN peers \cup {a} |-> IF x = a THEN c ELSE peers[x]]
      /\ DOMAIN peers \subseteq Addr
  BY DEF Enlist, Typed, PeersTyped
<1> HIDE DEF ps, a
<1>3. DOMAIN ps = DOMAIN peers \cup {a} /\ ps = [x \in DOMAIN ps |-> ps[x]]
  BY <1>2
<1>4. ASSUME NEW x \in DOMAIN ps
      PROVE  ps[x] \in Conns' /\ conn'[ps[x]].addr = x /\ conn'[ps[x]].reader \in {"runs", "ended"}
  <2>1. CASE x = a
    <3>1. ps[x] = c
      BY <1>2, <2>1
    <3> QED BY <2>1, <3>1, <1>1
  <2>2. CASE x # a
    <3>1. x \in DOMAIN peers /\ ps[x] = peers[x]
      BY <1>2, <1>3, <2>2
    <3>2. peers[x] \in Conns /\ conn[peers[x]].addr = x /\ Registered(peers[x])
      BY <3>1 DEF Typed, PeersTyped
    <3> DEFINE d == peers[x]
    <3>3. d \in Conns /\ conn[d].addr = x /\ Registered(d)
      BY <3>2
    <3>4. ps[x] = d
      BY <3>1
    <3> HIDE DEF d
    <3>5. \A b \in Conns : Registered(b) => conn'[b].reader \in {"runs", "ended"}
      BY DEF Evolves, Registered
    <3>6. d \in Conns' /\ conn'[d].addr = x /\ conn'[d].reader \in {"runs", "ended"}
      BY <3>3, <3>5 DEF Evolves
    <3> QED BY <3>4, <3>6
  <2> QED BY <2>1, <2>2
<1>5. DOMAIN ps \subseteq Addr
  BY <1>1, <1>2, <1>3
<1> QED BY <1>3, <1>4, <1>5 DEF PeersTyped, ps, Addr, Registered

LEMMA DispatchGetNewPeerTyped == ASSUME Typed, DispatchGetNewPeer PROVE Typed' /\ Evolves
<1> DEFINE c == Arg
<1>1. /\ Next1("GetNewPeer") /\ control' = Tail(control)
      /\ UNCHANGED <<inbox, alive, workers, broadcasts, inbound, connector>>
  BY DEF DispatchGetNewPeer
<1>2. /\ control # << >> /\ c \in Conns /\ conn[c].reader = "accepted"
      /\ \A s \in ToSet(Tail(control)) :
            s.type = "GetNewPeer" => s.arg # c /\ s.arg \in Conns
  <2>1. /\ Head(control) \in Sigs /\ Head(control) \in ToSet(control)
        /\ Head(control).type = "GetNewPeer"
    BY <1>1, HeadFacts
  <2>2. c \in Conns /\ conn[c].reader = "accepted"
    BY <2>1 DEF Sigs, Arg, Typed, ControlOK
  <2>3. ASSUME NEW s \in ToSet(Tail(control)), s.type = "GetNewPeer"
        PROVE  s.arg # c /\ s.arg \in Conns
    <3>1. s \in Sigs /\ ~Clash(Head(control), s)
      BY <1>1, HeadFacts
    <3> QED BY <2>1, <2>3, <3>1 DEF Sigs, Clash, Arg
  <2> QED BY <1>1, <2>2, <2>3, HeadFacts
<1>3. Connections' = Connections
  BY <1>1, SameKinds
<1>4. CASE conn[c].link = "reset"
  <2>1. open' = FALSE /\ executor' = FALSE /\ UNCHANGED <<conn, peers>>
    BY <1>4 DEF DispatchGetNewPeer
  <2>2. Evolves
    BY <1>1, <2>1 DEF Evolves, Registered, Conns, Typed, RestTyped
  <2>3. ControlOK'
    BY <1>1, <1>2, <2>1, <2>2, PopControl
  <2>4. PeersTyped' /\ InboxOK' /\ RestTyped'
    BY <1>1, <2>1, <2>2, KeepPeers, KeepInbox DEF Typed, RestTyped
  <2> QED BY <1>3, <2>1, <2>2, <2>3, <2>4 DEF Typed
<1>5. CASE conn[c].link # "reset"
  <2> DEFINE r == Started(conn[c])
  <2>1. /\ conn' = [conn EXCEPT ![c] = r] /\ peers' = Enlist(conn[c].addr, c)
        /\ UNCHANGED <<open, executor>>
    BY <1>5 DEF DispatchGetNewPeer
  <2>2. conn[c] \in Connections /\ conn[c] \in ConnRecs /\ Sound(conn[c])
    BY <1>2, ConnFacts
  <2>3. /\ r \in Connections /\ r.reader = "runs" /\ r.addr = conn[c].addr
        /\ r.link = conn[c].link
    BY <1>2, <2>2, StartedRec
  <2> HIDE DEF r
  <2>4. /\ Evolves /\ conn' \in Seq(Connections') /\ Conns' = Conns /\ conn'[c] = r
        /\ \A d \in Conns \ {c} : conn'[d] = conn[d]
    <3>1. ~Registered(c) /\ conn[c].writer # "ended"
      BY <1>2, <2>2 DEF Registered, Sound
    <3> QED BY <1>1, <1>2, <1>3, <2>1, <2>3, <3>1, EditEvolves
  <2>5. ControlOK'
    BY <1>1, <1>2, <2>4, PopControl
  <2>6. PeersTyped'
    <3>1. conn'[c].addr = conn[c].addr /\ conn'[c].addr \in Addr /\ c \in Conns'
          /\ conn'[c].reader \in {"runs", "ended"}
      BY <1>2, <2>2, <2>3, <2>4 DEF ConnRecs
    <3> QED BY <2>1, <2>4, <3>1, EnlistTyped
  <2>7. InboxOK' /\ RestTyped'
    BY <1>1, <2>1, <2>4, KeepInbox DEF Typed, RestTyped
  <2> QED BY <2>4, <2>5, <2>6, <2>7 DEF Typed
<1> QED BY <1>4, <1>5

\* The connection to a known peer, as it is registered.
LEMMA NewRec ==
    ASSUME Typed, NEW a \in Addr
    PROVE  LET r == Started(NewConn(a, "backlog")) IN
           /\ r \in Connections /\ r.reader = "runs" /\ r.writer = "idle"
           /\ r.addr = a /\ r.link = "open" /\ r.queue = << >> /\ r.hand = None /\ r.got = << >>
<1> DEFINE r == Started(NewConn(a, "backlog"))
           e == << >>
           q == NewConn(a, "backlog")
           p == [q EXCEPT !.reader = "runs"]
<1>1. q = [addr |-> a, link |-> "open", reader |-> "backlog", writer |-> "backlog",
           queue |-> e, hand |-> None, got |-> e, unread |-> 0]
  BY DEF NewConn
<1>2. r = [p EXCEPT !.writer = "idle"]
  BY <1>1 DEF Started
<1> HIDE DEF q, r
<1>3. p = [addr |-> a, link |-> "open", reader |-> "runs", writer |-> "backlog",
           queue |-> e, hand |-> None, got |-> e, unread |-> 0]
  BY <1>1
<1> HIDE DEF p
<1>4. r = [addr |-> a, link |-> "open", reader |-> "runs", writer |-> "idle",
           queue |-> e, hand |-> None, got |-> e, unread |-> 0]
  BY <1>2, <1>3
<1>5. e \in Seq(Values) /\ inbound \in Nat
  BY DEF Typed, RestTyped
<1> HIDE DEF e
<1>6. r \in ConnRecs
  BY <1>4, <1>5 DEF ConnRecs, Links, Readers, Writers
<1>7. Sound(r)
  BY <1>4 DEF Sound
<1> QED BY <1>4, <1>6, <1>7 DEF Connections, r, e

LEMMA DispatchConnectedTyped == ASSUME Typed, DispatchConnected PROVE Typed' /\ Evolves
<1> DEFINE c == Len(conn) + 1
           a == Arg
           r == Started(NewConn(a, "backlog"))
<1>1. /\ Next1("ConnectNewPeer") /\ control' = Tail(control)
      /\ conn' = Append(conn, r) /\ peers' = Enlist(a, c)
      /\ connector' = [next |-> connector.next + 1, waits |-> FALSE]
      /\ UNCHANGED <<open, executor, inbox, alive, workers, broadcasts, inbound>>
  BY DEF DispatchConnected
<1>2. /\ control # << >> /\ a \in ToSet(KnownPeers) /\ connector.next <= Len(KnownPeers)
      /\ \A s \in ToSet(Tail(control)) :
            /\ s.type # "ConnectNewPeer"
            /\ s.type = "GetNewPeer" => s.arg \in Conns
  <2>1. /\ Head(control) \in Sigs /\ Head(control) \in ToSet(control)
        /\ Head(control).type = "ConnectNewPeer" /\ control # << >>
    BY <1>1, HeadFacts
  <2>2. a \in ToSet(KnownPeers) /\ connector.next <= Len(KnownPeers)
    BY <2>1 DEF Sigs, Arg, Typed, ControlOK
  <2>3. ASSUME NEW s \in ToSet(Tail(control))
        PROVE  s.type # "ConnectNewPeer" /\ (s.type = "GetNewPeer" => s.arg \in Conns)
    <3>1. s \in Sigs /\ ~Clash(Head(control), s)
      BY <1>1, HeadFacts
    <3> QED BY <2>1, <3>1 DEF Sigs, Clash
  <2> QED BY <2>1, <2>2, <2>3
<1>3. /\ r \in Connections /\ r.reader = "runs" /\ r.addr = a /\ a \in Addr
  BY <1>2, NewRec DEF Addr
<1> HIDE DEF r
<1>4. Connections' = Connections
  BY <1>1, SameKinds
<1>5. /\ conn' \in Seq(Connections') /\ c \in Conns' /\ conn'[c] = r /\ Conns \subseteq Conns'
      /\ \A d \in Conns : conn'[d] = conn[d]
  BY <1>1, <1>3, <1>4, Extend
<1>6. Evolves
  <2>1. broadcasts' \in Nat /\ broadcasts' >= broadcasts
    BY <1>1 DEF Typed, RestTyped
  <2> QED BY <1>5, <2>1 DEF Evolves, Registered
<1>7. ControlOK'
  BY <1>1, <1>2, <1>5, <1>6, PopControl
<1>8. PeersTyped'
  <2>1. conn'[c].addr = a /\ conn'[c].reader \in {"runs", "ended"}
    BY <1>3, <1>5
  <2>2. peers' = Enlist(conn'[c].addr, c) /\ conn'[c].addr \in Addr
    BY <1>1, <1>3, <2>1
  <2> QED BY <1>5, <1>6, <2>1, <2>2, EnlistTyped
<1>9. InboxOK' /\ RestTyped'
  <2>1. connector.next \in 1 .. Len(KnownPeers) + 1 /\ Len(KnownPeers) \in Nat
    BY Constants DEF Typed, RestTyped
  <2>2. connector' \in [next : 1 .. Len(KnownPeers) + 1, waits : BOOLEAN]
    BY <1>1, <1>2, <2>1
  <2> QED BY <1>1, <1>6, <2>2, KeepInbox DEF Typed, RestTyped
<1> QED BY <1>5, <1>6, <1>7, <1>8, <1>9 DEF Typed

\* A step of the dispatcher that changes no connection.
LEMMA DispatchQuietTyped ==
    ASSUME Typed, NEW type, Next1(type), control' = Tail(control), RestTyped', PeersTyped',
           UNCHANGED <<conn, inbox, broadcasts, inbound>>,
           type # "ConnectNewPeer" => connector' = connector
    PROVE  Typed' /\ Evolves
<1>1. Evolves
  BY DEF Evolves, Registered, Conns, Typed, RestTyped
<1>2. \A s \in ToSet(Tail(control)) : s.type = "ConnectNewPeer" => connector' = connector
  BY HeadFacts DEF Clash
<1>3. control # << >>
  BY HeadFacts
<1>4. ControlOK'
  BY <1>1, <1>2, <1>3, PopControl
<1>5. InboxOK'
  BY <1>1, KeepInbox
<1> QED BY <1>1, <1>4, <1>5, SameKinds DEF Typed

LEMMA DispatchRefusedTyped == ASSUME Typed, DispatchRefused PROVE Typed' /\ Evolves
<1>1. /\ Next1("ConnectNewPeer") /\ control' = Tail(control)
      /\ connector' = [connector EXCEPT !.waits = FALSE]
      /\ UNCHANGED <<conn, peers, open, executor, inbox, alive, workers, broadcasts, inbound>>
  BY DEF DispatchRefused
<1>2. RestTyped'
  BY <1>1 DEF Typed, RestTyped
<1>3. PeersTyped'
  BY <1>1 DEF Typed, PeersTyped, Registered, Conns
<1> QED BY <1>1, <1>2, <1>3, DispatchQuietTyped

LEMMA DispatchDroppedPeerTyped == ASSUME Typed, DispatchDroppedPeer PROVE Typed' /\ Evolves
<1>1. /\ Next1("DroppedPeer") /\ control' = Tail(control) /\ peers' = Without(Arg)
      /\ UNCHANGED <<conn, open, executor, inbox, alive, workers, broadcasts, inbound, connector>>
  BY DEF DispatchDroppedPeer
<1>2. RestTyped'
  BY <1>1 DEF Typed, RestTyped
<1>3. PeersTyped'
  <2> DEFINE a == Arg
             ps == peers'
  <2>1. ps = [x \in DOMAIN peers \ {a} |-> peers[x]]
    BY <1>1 DEF Without
  <2> HIDE DEF ps, a
  <2>2. DOMAIN ps \subseteq DOMAIN peers /\ \A x \in DOMAIN ps : ps[x] = peers[x]
    BY <2>1
  <2>3. ps = [x \in DOMAIN ps |-> ps[x]]
    BY <2>1
  <2> QED BY <1>1, <2>2, <2>3 DEF Typed, PeersTyped, Registered, Conns, Addr, ps
<1> QED BY <1>1, <1>2, <1>3, DispatchQuietTyped

LEMMA DispatchBroadcastTyped == ASSUME Typed, DispatchBroadcast PROVE Typed' /\ Evolves
<1> DEFINE m == Arg
<1>1. /\ Next1("BroadcastMessage") /\ control' = Tail(control)
      /\ conn' = [c \in Conns |-> IF Listed(c) THEN Enqueue(conn[c], m) ELSE conn[c]]
      /\ UNCHANGED <<peers, open, executor, inbox, alive, workers, broadcasts, inbound, connector>>
  BY DEF DispatchBroadcast
<1>2. /\ control # << >> /\ m \in Values
      /\ \A s \in ToSet(Tail(control)) : s.type = "GetNewPeer" => s.arg \in Conns
  <2>1. /\ Head(control) \in Sigs /\ Head(control).type = "BroadcastMessage" /\ control # << >>
        /\ \A s \in ToSet(Tail(control)) : s \in Sigs
    BY <1>1, HeadFacts
  <2>2. m \in Values
    BY <2>1 DEF Sigs, Arg, Values
  <2> QED BY <2>1, <2>2 DEF Sigs
<1>3. Connections' = Connections
  BY <1>1, SameKinds
<1>4. ASSUME NEW c \in Conns
      PROVE  /\ conn'[c] \in Connections /\ conn'[c].addr = conn[c].addr
             /\ conn'[c].link = conn[c].link /\ conn'[c].reader = conn[c].reader
             /\ conn'[c].writer = conn[c].writer
  <2>1. conn[c] \in Connections
    BY ConnFacts
  <2>2. CASE Listed(c)
    <3>1. conn'[c] = Enqueue(conn[c], m)
      BY <1>1, <2>2
    <3>2. Registered(c)
      BY <2>2 DEF Listed, Typed, PeersTyped
    <3>3. conn[c].reader \in {"runs", "ended"}
      BY <3>2 DEF Registered
    <3> QED BY <1>2, <2>1, <3>1, <3>3, EnqueueRec
  <2>3. CASE ~Listed(c)
    BY <1>1, <2>1, <2>3
  <2> QED BY <2>2, <2>3
<1>5. Conns' = Conns /\ conn' \in Seq(Connections')
  <2>1. Conns = 1 .. Len(conn) /\ Len(conn) \in Nat
    BY DEF Conns, Typed
  <2>2. Conns' = Conns
    BY <1>1 DEF Conns
  <2>3. conn' = [c \in 1 .. Len(conn) |-> conn'[c]]
    BY <1>1, <2>1
  <2>4. conn' \in [1 .. Len(conn) -> Connections]
    BY <1>4, <2>1, <2>3
  <2> QED BY <1>3, <2>1, <2>2, <2>4, SeqDef
<1>6. Evolves
  BY <1>1, <1>4, <1>5 DEF Evolves, Registered, Typed, RestTyped
<1>7. ControlOK'
  BY <1>1, <1>2, <1>4, <1>6, PopControl
<1>8. PeersTyped' /\ InboxOK' /\ RestTyped'
  BY <1>1, <1>6, KeepPeers, KeepInbox DEF Typed, RestTyped
<1> QED BY <1>5, <1>6, <1>7, <1>8 DEF Typed

\* A step of a task on one connection, that leaves the registry and the channel alone.
LEMMA TaskTyped ==
    ASSUME Typed, NEW c \in Conns, NEW r \in Connections, conn' = [conn EXCEPT ![c] = r],
           UNCHANGED <<peers, control, broadcasts, inbound, connector>>, RestTyped',
           r.addr = conn[c].addr, Registered(c), r.reader \in {"runs", "ended"},
           conn[c].writer = "ended" => r.writer = "ended",
           conn[c].link = "reset" => r.link = "reset"
    PROVE  Evolves /\ (InboxOK' => Typed') /\ (inbox' = inbox => Typed')
<1>1. Connections' = Connections
  BY SameKinds
<1>2. /\ Evolves /\ conn' \in Seq(Connections') /\ Conns' = Conns /\ conn'[c] = r
      /\ \A d \in Conns \ {c} : conn'[d] = conn[d]
  BY <1>1, EditEvolves
<1>3. ControlOK'
  BY <1>2, KeepControl DEF Registered
<1>4. PeersTyped' /\ (inbox' = inbox => InboxOK')
  BY <1>2, KeepPeers, KeepInbox
<1> QED BY <1>2, <1>3, <1>4 DEF Typed

\* Whose writer got further than accepted is registered.
LEMMA WritersRegistered ==
    ASSUME Typed, NEW c \in Conns, conn[c].writer \in {"idle", "busy", "failed", "ended"}
    PROVE  Registered(c)
  BY ConnFacts DEF ConnRecs, Sound, Registered, Readers

LEMMA WriterTakesTyped == ASSUME Typed, NEW c \in Conns, WriterTakes(c) PROVE Typed' /\ Evolves
<1> DEFINE r == Taken(conn[c])
<1>1. /\ conn[c].writer = "idle" /\ conn[c].queue # << >> /\ conn' = [conn EXCEPT ![c] = r]
      /\ UNCHANGED <<peers, control, open, executor, inbox, alive, workers, broadcasts, inbound,
                     connector>>
  BY DEF WriterTakes
<1>2. /\ r \in Connections /\ r.reader = conn[c].reader /\ r.addr = conn[c].addr
      /\ r.link = conn[c].link /\ r.writer = "busy"
  BY <1>1, TakenRec, ConnFacts
<1> HIDE DEF r
<1>3. RestTyped' /\ Registered(c)
  BY <1>1, WritersRegistered DEF Typed, RestTyped
<1> QED BY <1>1, <1>2, <1>3, TaskTyped DEF Registered

LEMMA WriterWritesTyped == ASSUME Typed, NEW c \in Conns, WriterWrites(c) PROVE Typed' /\ Evolves
<1> DEFINE r == Written(conn[c])
<1>1. /\ conn[c].writer = "busy" /\ conn' = [conn EXCEPT ![c] = r]
      /\ UNCHANGED <<peers, control, open, executor, inbox, alive, workers, broadcasts, inbound,
                     connector>>
  BY DEF WriterWrites
<1>2. /\ r \in Connections /\ r.reader = conn[c].reader /\ r.addr = conn[c].addr
      /\ r.link = IF conn[c].link = "open" THEN "open" ELSE "reset"
  BY <1>1, WrittenRec, ConnFacts
<1> HIDE DEF r
<1>3. RestTyped' /\ Registered(c)
  BY <1>1, WritersRegistered DEF Typed, RestTyped
<1> QED BY <1>1, <1>2, <1>3, TaskTyped DEF Registered

LEMMA WriterReportsTyped ==
    ASSUME Typed, NEW c \in Conns, WriterReports(c) PROVE Typed' /\ Evolves
<1> DEFINE r == Finished(conn[c])
           x == Signal("DroppedPeer", conn[c].addr)
<1>1. /\ conn[c].writer = "failed" /\ conn' = [conn EXCEPT ![c] = r] /\ Room
      /\ control' = Append(control, x)
      /\ UNCHANGED <<peers, open, executor, inbox, alive, workers, broadcasts, inbound, connector>>
  BY DEF WriterReports, Post
<1>2. /\ r \in Connections /\ r.reader = conn[c].reader /\ r.addr = conn[c].addr
      /\ r.link = "reset" /\ r.writer = "ended"
  BY <1>1, FinishedRec, ConnFacts
<1> HIDE DEF r
<1>3. RestTyped' /\ Registered(c) /\ Connections' = Connections
  BY <1>1, WritersRegistered, SameKinds DEF Typed, RestTyped
<1>4. /\ Evolves /\ conn' \in Seq(Connections') /\ Conns' = Conns /\ conn'[c] = r
      /\ \A d \in Conns \ {c} : conn'[d] = conn[d]
  BY <1>1, <1>2, <1>3, EditEvolves DEF Registered
<1>5. x \in Sigs' /\ x.type = "DroppedPeer" /\ x.arg = conn[c].addr
  BY ConnFacts DEF Signal, Sigs, ConnRecs, Addr
<1>6. ASSUME NEW s \in ToSet(control), s.type = "GetNewPeer"
      PROVE  conn'[s.arg].reader = conn[s.arg].reader
  <2>1. s.arg \in Conns
    BY <1>6 DEF Typed, ControlOK, ToSet, Sigs
  <2> QED BY <1>2, <1>4, <2>1
<1>7. \E d \in Conns' : conn'[d].addr = x.arg /\ conn'[d].writer = "ended"
  BY <1>2, <1>4, <1>5
<1>8. ControlOK'
  BY <1>1, <1>4, <1>5, <1>6, <1>7, PostControl DEF Clash
<1> QED BY <1>1, <1>3, <1>4, <1>8, KeepPeers, KeepInbox DEF Typed

LEMMA ReaderReadsTyped == ASSUME Typed, NEW c \in Conns, ReaderReads(c) PROVE Typed' /\ Evolves
<1> DEFINE r == [conn[c] EXCEPT !.unread = @ - 1]
<1>1. /\ conn[c].reader = "runs" /\ conn[c].unread > 0 /\ conn' = [conn EXCEPT ![c] = r]
      /\ UNCHANGED <<peers, control, open, alive, workers, broadcasts, inbound, connector>>
  BY DEF ReaderReads
<1>2. conn[c] \in ConnRecs /\ Sound(conn[c]) /\ inbound \in Nat
  BY ConnFacts DEF Typed, RestTyped
<1>3. r \in Connections
  BY <1>1, <1>2 DEF Connections, ConnRecs, Sound
<1>4. r.addr = conn[c].addr /\ r.reader = conn[c].reader /\ r.writer = conn[c].writer
      /\ r.link = conn[c].link
  BY <1>2 DEF ConnRecs
<1> HIDE DEF r
<1>5. Registered(c) /\ r.reader \in {"runs", "ended"}
  BY <1>1, <1>4 DEF Registered
<1>6. CASE workers > 0
  <2>1. Len(inbox) < InboxCap /\ inbox' = Append(inbox, c) /\ executor' = executor
    BY <1>6 DEF ReaderReads
  <2>2. inbox \in Seq(Conns) /\ \A d \in ToSet(inbox) : Registered(d)
    BY DEF Typed, InboxOK
  <2>3. RestTyped'
    BY <1>1, <2>1 DEF Typed, RestTyped
  <2>4. Evolves /\ (InboxOK' => Typed')
    BY <1>1, <1>3, <1>4, <1>5, <2>3, TaskTyped
  <2>5. /\ inbox' \in Seq(Conns) /\ Len(inbox') <= InboxCap
    BY <2>1, <2>2, Constants
  <2>6. ToSet(inbox') = ToSet(inbox) \cup {c}
    BY <2>1, <2>2, AppendSet
  <2>7. Seq(Conns) \subseteq Seq(Conns')
    BY <2>4, SeqMonotonic DEF Evolves
  <2>8. ToSet(inbox) \subseteq Conns
    BY <2>2 DEF ToSet
  <2>9. InboxOK'
    BY <1>5, <2>2, <2>4, <2>5, <2>6, <2>7, <2>8 DEF Evolves, InboxOK
  <2> QED BY <2>4, <2>9
<1>7. CASE ~(workers > 0)
  <2>1. executor' = FALSE /\ inbox' = inbox
    BY <1>7 DEF ReaderReads
  <2>2. RestTyped'
    BY <1>1, <2>1 DEF Typed, RestTyped
  <2> QED BY <1>1, <1>3, <1>4, <1>5, <2>1, <2>2, TaskTyped
<1> QED BY <1>6, <1>7

LEMMA ReaderEndsTyped == ASSUME Typed, NEW c \in Conns, ReaderEnds(c) PROVE Typed' /\ Evolves
<1> DEFINE r == [conn[c] EXCEPT !.reader = "ended"]
<1>1. /\ conn[c].reader = "runs" /\ conn' = [conn EXCEPT ![c] = r]
      /\ UNCHANGED <<peers, control, open, executor, inbox, alive, workers, broadcasts, inbound,
                     connector>>
  BY DEF ReaderEnds
<1>2. conn[c] \in ConnRecs /\ Sound(conn[c])
  BY ConnFacts
<1>3. r \in Connections
  BY <1>1, <1>2 DEF Connections, ConnRecs, Sound, Readers
<1>4. r.addr = conn[c].addr /\ r.reader = "ended" /\ r.writer = conn[c].writer
      /\ r.link = conn[c].link
  BY <1>2 DEF ConnRecs
<1> HIDE DEF r
<1>5. Registered(c) /\ RestTyped'
  BY <1>1 DEF Registered, Typed, RestTyped
<1> QED BY <1>1, <1>3, <1>4, <1>5, TaskTyped

LEMMA WorkTyped == ASSUME Typed, Work PROVE Typed' /\ Evolves
<1> DEFINE c == Head(inbox)
<1>1. /\ workers > 0 /\ inbox # << >> /\ inbox' = Tail(inbox)
      /\ UNCHANGED <<peers, control, open, executor, alive, broadcasts, inbound, connector>>
  BY DEF Work
<1>2. /\ inbox \in Seq(Conns) /\ Len(inbox) <= InboxCap
      /\ \A d \in ToSet(inbox) : Registered(d)
  BY DEF Typed, InboxOK
<1>3. /\ c \in Conns /\ c \in ToSet(inbox) /\ Tail(inbox) \in Seq(Conns)
      /\ Len(Tail(inbox)) <= InboxCap
      /\ \A d \in ToSet(Tail(inbox)) : d \in Conns /\ Registered(d)
  <2>1. /\ c \in Conns /\ c \in ToSet(inbox) /\ Tail(inbox) \in Seq(Conns)
        /\ Len(Tail(inbox)) = Len(inbox) - 1 /\ ToSet(Tail(inbox)) \subseteq ToSet(inbox)
    BY <1>1, <1>2, TailSet
  <2>2. ToSet(inbox) \subseteq Conns
    BY <1>2 DEF ToSet
  <2>3. Len(Tail(inbox)) <= InboxCap
    BY <1>2, <2>1, Constants
  <2> QED BY <1>2, <2>1, <2>2, <2>3
<1>4. ASSUME Evolves PROVE InboxOK'
  <2>1. Seq(Conns) \subseteq Seq(Conns')
    BY <1>4, SeqMonotonic DEF Evolves
  <2> QED BY <1>1, <1>3, <1>4, <2>1 DEF InboxOK, Evolves
<1>5. RestTyped'
  <2>1. workers' \in 0 .. NumWorkers
    <3>1. workers \in 0 .. NumWorkers /\ NumWorkers \in Nat
      BY Constants DEF Typed, RestTyped
    <3>2. workers' = workers \/ workers' = workers - 1
      BY DEF Work
    <3> QED BY <1>1, <3>1, <3>2
  <2> QED BY <1>1, <2>1 DEF Typed, RestTyped
<1>6. CASE conn' = conn
  <2>1. Evolves
    BY <1>1, <1>6 DEF Evolves, Registered, Conns, Typed, RestTyped
  <2> QED BY <1>1, <1>4, <1>5, <1>6, <2>1, KeepPeers, KeepControl, SameKinds DEF Typed
<1>7. CASE conn' # conn
  <2> DEFINE r == Enqueue(conn[c], Reply)
  <2>1. conn' = [conn EXCEPT ![c] = r]
    BY <1>7 DEF Work
  <2>2. Registered(c) /\ conn[c].reader \in {"runs", "ended"} /\ Reply \in Values
    BY <1>2, <1>3 DEF Registered, Values, Typed, RestTyped
  <2>3. /\ r \in Connections /\ r.reader = conn[c].reader /\ r.addr = conn[c].addr
        /\ r.link = conn[c].link /\ r.writer = conn[c].writer
    BY <1>3, <2>2, EnqueueRec, ConnFacts
  <2> HIDE DEF r, c
  <2>4. Evolves /\ (InboxOK' => Typed')
    BY <1>1, <1>3, <1>5, <2>1, <2>2, <2>3, TaskTyped
  <2> QED BY <1>4, <2>4
<1> QED BY <1>6, <1>7

\* The steps at which only the executor's thread, or nothing at all, changes.
LEMMA QuietTyped ==
    ASSUME Typed, executor' \in BOOLEAN,
           UNCHANGED <<conn, peers, control, open, inbox, alive, workers, broadcasts, inbound,
                       connector>>
    PROVE  Typed' /\ Evolves
<1>1. Evolves
  BY DEF Evolves, Registered, Conns, Typed, RestTyped
<1>2. RestTyped'
  BY DEF Typed, RestTyped
<1> QED BY <1>1, <1>2, KeepPeers, KeepInbox, KeepControl, SameKinds DEF Typed

LEMMA NextTyped == ASSUME Typed, [Next]_vars PROVE Typed' /\ Evolves
<1>1. CASE Dispatch
  BY <1>1, DispatchGetNewPeerTyped, DispatchConnectedTyped, DispatchRefusedTyped,
     DispatchBroadcastTyped, DispatchDroppedPeerTyped DEF Dispatch
<1>2. CASE Broadcast \/ Connect \/ Work \/ AcceptFails
  BY <1>2, BroadcastTyped, ConnectTyped, WorkTyped, QuietTyped DEF AcceptFails
<1>3. CASE \E a \in Clients : RemoteConnects(a)
  BY <1>3, RemoteConnectsTyped
<1>4. ASSUME NEW c \in Conns, Accept(c) \/ Writer(c) \/ Reader(c) \/ Remote(c)
      PROVE  Typed' /\ Evolves
  <2>1. CASE Accept(c)
    BY <2>1, AcceptTyped
  <2>2. CASE WriterStarves(c)
    BY <2>2, QuietTyped DEF WriterStarves
  <2>3. CASE WriterTakes(c) \/ WriterWrites(c) \/ WriterReports(c)
    BY <2>3, WriterTakesTyped, WriterWritesTyped, WriterReportsTyped
  <2>4. CASE Reader(c)
    BY <2>4, ReaderReadsTyped, ReaderEndsTyped DEF Reader
  <2>5. CASE RemoteSends(c)
    BY <2>5, RemoteSendsTyped
  <2>6. CASE RemoteCloses(c, "closed") \/ RemoteCloses(c, "reset")
    BY <2>6, RemoteClosesTyped
  <2> QED BY <1>4, <2>1, <2>2, <2>3, <2>4, <2>5, <2>6 DEF Writer, Remote
<1>5. CASE UNCHANGED vars
  BY <1>5, QuietTyped DEF vars, Typed, RestTyped
<1> QED BY <1>1, <1>2, <1>3, <1>4, <1>5 DEF Next

LEMMA TypedGivesTypeOK == ASSUME Typed, listening \in BOOLEAN PROVE TypeOK
<1>1. ASSUME NEW c \in Conns
      PROVE  /\ conn[c].addr \in Addr
             /\ conn[c].link \in {"open", "closed", "reset"}
             /\ conn[c].reader \in {"backlog", "accepted", "runs", "ended"}
             /\ conn[c].writer \in {"backlog", "accepted", "idle", "busy", "failed", "ended"}
             /\ conn[c].queue \in Seq(0 .. broadcasts) /\ conn[c].got \in Seq(0 .. broadcasts)
             /\ conn[c].hand \in {None} \cup 0 .. broadcasts
             /\ conn[c].hand # None <=> conn[c].writer = "busy"
             /\ conn[c].unread \in 0 .. inbound
  BY ConnFacts DEF ConnRecs, Sound, Links, Readers, Writers, Values
<1>2. DOMAIN peers \subseteq Addr /\ \A a \in DOMAIN peers : conn[peers[a]].addr = a
  BY DEF Typed, PeersTyped
<1>3. Len(control) <= ControlCap /\ Len(inbox) <= InboxCap /\ inbox \in Seq(Conns)
  BY DEF Typed, ControlOK, InboxOK
<1>4. /\ {open, executor, listening, alive, connector.waits} \subseteq BOOLEAN
      /\ workers \in 0 .. NumWorkers
      /\ connector.next \in 1 .. Len(KnownPeers) + 1
  BY DEF Typed, RestTyped
<1> QED BY <1>1, <1>2, <1>3, <1>4 DEF TypeOK

-----------------------------------------------------------------------------
\* What a step makes of a connection.
Same(q, r) == /\ r.got = q.got /\ r.hand = q.hand /\ r.queue = q.queue
              /\ r.writer = "ended" => q.writer = "ended"
              /\ r.link = "open" => q.link = "open"

Moves(d) ==
    \/ Same(conn[d], conn'[d])
    \/ /\ conn'[d] = Taken(conn[d]) /\ conn[d].writer = "idle" /\ conn[d].queue # << >>
    \/ /\ conn'[d] = Written(conn[d]) /\ conn[d].writer = "busy"
    \/ /\ conn'[d] = Finished(conn[d]) /\ conn[d].writer = "failed" /\ control # control'
       /\ Signal("DroppedPeer", conn[d].addr) \in ToSet(control')
    \/ /\ conn'[d] = Enqueue(conn[d], Reply) /\ Registered(d) /\ ~DispatchBroadcast
    \/ /\ conn'[d] = Enqueue(conn[d], Arg) /\ Listed(d) /\ DispatchBroadcast

Registers(d) == DispatchGetNewPeer /\ d = Arg /\ conn[d].link # "reset"

LEMMA EditFacts ==
    ASSUME Typed, NEW c \in Conns, NEW r, conn' = [conn EXCEPT ![c] = r]
    PROVE  Conns' = Conns /\ conn'[c] = r /\ \A d \in Conns \ {c} : conn'[d] = conn[d]
<1>1. conn = [d \in Conns |-> conn[d]]
  BY DEF Typed, Conns
<1> QED BY <1>1 DEF Conns

LEMMA EditMoves ==
    ASSUME Typed, NEW c \in Conns, NEW r, conn' = [conn EXCEPT ![c] = r], Moves(c),
           r.reader \in {"runs", "ended"} => Registered(c) \/ Registers(c)
    PROVE  Conns' = Conns /\ \A d \in Conns : /\ Moves(d)
                                              /\ Registered(d)' => Registered(d) \/ Registers(d)
<1>1. Conns' = Conns /\ conn'[c] = r /\ \A d \in Conns \ {c} : conn'[d] = conn[d]
  BY EditFacts
<1>2. ASSUME NEW d \in Conns
      PROVE  Moves(d) /\ (Registered(d)' => Registered(d) \/ Registers(d))
  <2>1. CASE d = c
    BY <1>1, <2>1 DEF Registered
  <2>2. CASE d # c
    BY <1>1, <2>2 DEF Moves, Same, Registered
  <2> QED BY <2>1, <2>2
<1> QED BY <1>1, <1>2

\* The first of them: any step on a connection there was.
LEMMA ConnStep ==
    ASSUME Typed, [Next]_vars
    PROVE  \A d \in Conns : Moves(d) /\ (Registered(d)' => Registered(d) \/ Registers(d))
<1>0. ASSUME UNCHANGED conn
      PROVE  \A d \in Conns : Moves(d) /\ (Registered(d)' => Registered(d) \/ Registers(d))
  BY <1>0 DEF Moves, Same, Registered
<1>1. CASE DispatchGetNewPeer
  <2> DEFINE c == Arg
             r == Started(conn[c])
  <2>1. CASE conn[c].link = "reset"
    BY <1>0, <1>1, <2>1 DEF DispatchGetNewPeer
  <2>2. CASE conn[c].link # "reset"
    <3>1. conn' = [conn EXCEPT ![c] = r]
      BY <1>1, <2>2 DEF DispatchGetNewPeer
    <3>2. c \in Conns /\ conn[c].reader = "accepted"
      BY <1>1, HeadFacts DEF DispatchGetNewPeer, Sigs, Arg, Typed, ControlOK
    <3>3. /\ r.writer = "idle" /\ r.link = conn[c].link /\ r.queue = << >> /\ r.hand = None
          /\ r.got = << >>
      BY <3>2, StartedRec, ConnFacts
    <3>4. conn[c].queue = << >> /\ conn[c].hand = None /\ conn[c].got = << >>
      BY <3>2, ConnFacts DEF Sound
    <3>5. Registers(c)
      BY <1>1, <2>2 DEF Registers
    <3> HIDE DEF c, r
    <3>6. conn'[c] = r
      BY <3>1, <3>2, EditFacts
    <3>7. Moves(c)
      BY <3>3, <3>4, <3>6 DEF Moves, Same
    <3> QED BY <3>1, <3>2, <3>5, <3>7, EditMoves
  <2> QED BY <2>1, <2>2
<1>2. CASE DispatchConnected \/ \E a \in Clients : RemoteConnects(a)
  <2>1. PICK r : conn' = Append(conn, r)
    BY <1>2 DEF DispatchConnected, RemoteConnects
  <2>2. \A d \in Conns : conn'[d] = conn[d]
    BY <2>1 DEF Conns, Typed
  <2> QED BY <2>2 DEF Moves, Same, Registered
<1>3. CASE DispatchBroadcast
  <2>1. conn' = [c \in Conns |-> IF Listed(c) THEN Enqueue(conn[c], Arg) ELSE conn[c]]
    BY <1>3 DEF DispatchBroadcast
  <2>2. ASSUME NEW d \in Conns
        PROVE  Moves(d) /\ (Registered(d)' => Registered(d))
    <3>1. CASE ~Listed(d)
      BY <2>1, <3>1 DEF Moves, Same, Registered
    <3>2. CASE Listed(d)
      <4>1. conn'[d] = Enqueue(conn[d], Arg)
        BY <2>1, <3>2
      <4>2. Registered(d)
        BY <3>2 DEF Listed, Typed, PeersTyped
      <4> QED BY <1>3, <3>2, <4>1, <4>2 DEF Moves
    <3> QED BY <3>1, <3>2
  <2> QED BY <2>2
<1>4. CASE DispatchRefused \/ DispatchDroppedPeer \/ Broadcast \/ Connect \/ AcceptFails
           \/ UNCHANGED vars
  BY <1>0, <1>4 DEF DispatchRefused, DispatchDroppedPeer, Broadcast, Connect, AcceptFails, vars
<1>5. CASE Work
  <2> DEFINE c == Head(inbox)
             r == Enqueue(conn[c], Reply)
  <2>1. CASE conn' = conn
    BY <1>0, <2>1
  <2>2. CASE conn' # conn
    <3>1. conn' = [conn EXCEPT ![c] = r] /\ inbox # << >> /\ control' = control
      BY <1>5, <2>2 DEF Work
    <3>2. c \in Conns /\ Registered(c)
      <4>1. inbox \in Seq(Conns) /\ \A d \in ToSet(inbox) : Registered(d)
        BY DEF Typed, InboxOK
      <4>2. c \in Conns /\ c \in ToSet(inbox)
        BY <3>1, <4>1, TailSet
      <4> QED BY <4>1, <4>2
    <3>3. ~DispatchBroadcast
      <4>1. SUFFICES ASSUME DispatchBroadcast PROVE FALSE
        OBVIOUS
      <4>2. control' = Tail(control) /\ control # << >> /\ control \in Seq(Sigs)
        BY <4>1, HeadFacts DEF DispatchBroadcast, Typed, ControlOK
      <4> QED BY <3>1, <4>2
    <3> HIDE DEF c
    <3>4. conn'[c] = r
      BY <3>1, <3>2, EditFacts
    <3>5. Moves(c)
      BY <3>2, <3>3, <3>4 DEF Moves
    <3> HIDE DEF r
    <3> QED BY <3>1, <3>2, <3>5, EditMoves
  <2> QED BY <2>1, <2>2
<1>6. ASSUME NEW c \in Conns, Accept(c) \/ Writer(c) \/ Reader(c) \/ Remote(c)
      PROVE  \A d \in Conns : Moves(d) /\ (Registered(d)' => Registered(d) \/ Registers(d))
  <2>0. ASSUME NEW r, conn' = [conn EXCEPT ![c] = r], Same(conn[c], r), r.reader = conn[c].reader
        PROVE  \A d \in Conns : Moves(d) /\ (Registered(d)' => Registered(d) \/ Registers(d))
    <3>1. Moves(c)
      BY <2>0, EditFacts DEF Moves
    <3>2. r.reader \in {"runs", "ended"} => Registered(c)
      BY <2>0 DEF Registered
    <3> QED BY <2>0, <3>1, <3>2, EditMoves
  <2>1. CASE Accept(c)
    <3> DEFINE r == Accepted(conn[c])
    <3>1. conn' = [conn EXCEPT ![c] = r] /\ conn[c].reader = "backlog"
      BY <2>1 DEF Accept
    <3>2. Same(conn[c], r) /\ r.reader = "accepted"
      BY <3>1, AcceptedRec, ConnFacts DEF Same
    <3> HIDE DEF r
    <3>3. Moves(c)
      BY <3>1, <3>2, EditFacts DEF Moves
    <3> QED BY <3>1, <3>2, <3>3, EditMoves
  <2>2. CASE WriterTakes(c)
    <3> DEFINE r == Taken(conn[c])
    <3>1. /\ conn' = [conn EXCEPT ![c] = r] /\ conn[c].writer = "idle" /\ conn[c].queue # << >>
      BY <2>2 DEF WriterTakes
    <3>2. r.reader = conn[c].reader
      BY <3>1, TakenRec, ConnFacts
    <3>3. Moves(c)
      BY <3>1, EditFacts DEF Moves
    <3> HIDE DEF r
    <3> QED BY <3>1, <3>2, <3>3, EditMoves DEF Registered
  <2>3. CASE WriterWrites(c)
    <3> DEFINE r == Written(conn[c])
    <3>1. /\ conn' = [conn EXCEPT ![c] = r] /\ conn[c].writer = "busy"
      BY <2>3 DEF WriterWrites
    <3>2. r.reader = conn[c].reader
      BY <3>1, WrittenRec, ConnFacts
    <3>3. Moves(c)
      BY <3>1, EditFacts DEF Moves
    <3> HIDE DEF r
    <3> QED BY <3>1, <3>2, <3>3, EditMoves DEF Registered
  <2>4. CASE WriterReports(c)
    <3> DEFINE r == Finished(conn[c])
               x == Signal("DroppedPeer", conn[c].addr)
    <3>1. /\ conn' = [conn EXCEPT ![c] = r] /\ conn[c].writer = "failed"
          /\ control' = Append(control, x)
      BY <2>4 DEF WriterReports, Post
    <3>2. r.reader = conn[c].reader
      BY <3>1, FinishedRec, ConnFacts
    <3>3. control # control' /\ x \in ToSet(control')
      <4>1. control \in Seq(Sigs)
        BY DEF Typed, ControlOK
      <4>2. Len(control') = Len(control) + 1 /\ Len(control) \in Nat
        BY <3>1, <4>1
      <4> QED BY <3>1, <4>1, <4>2, AppendSet
    <3>4. Moves(c)
      BY <3>1, <3>3, EditFacts DEF Moves
    <3> HIDE DEF r
    <3> QED BY <3>1, <3>2, <3>4, EditMoves DEF Registered
  <2>5. CASE WriterStarves(c)
    BY <1>0, <2>5 DEF WriterStarves
  <2>6. CASE ReaderReads(c)
    <3> DEFINE r == [conn[c] EXCEPT !.unread = @ - 1]
    <3>1. conn' = [conn EXCEPT ![c] = r]
      BY <2>6 DEF ReaderReads
    <3>2. Same(conn[c], r) /\ r.reader = conn[c].reader
      BY ConnFacts DEF Same, ConnRecs
    <3> QED BY <2>0, <3>1, <3>2
  <2>7. CASE ReaderEnds(c)
    <3> DEFINE r == [conn[c] EXCEPT !.reader = "ended"]
    <3>1. conn' = [conn EXCEPT ![c] = r] /\ conn[c].reader = "runs"
      BY <2>7 DEF ReaderEnds
    <3>2. Same(conn[c], r)
      BY ConnFacts DEF Same, ConnRecs
    <3> HIDE DEF r
    <3>3. Moves(c) /\ Registered(c)
      BY <3>1, <3>2, EditFacts DEF Moves, Registered
    <3> QED BY <3>1, <3>3, EditMoves
  <2>8. CASE RemoteSends(c)
    <3> DEFINE r == [conn[c] EXCEPT !.unread = @ + 1]
    <3>1. conn' = [conn EXCEPT ![c] = r]
      BY <2>8 DEF RemoteSends
    <3>2. Same(conn[c], r) /\ r.reader = conn[c].reader
      BY ConnFacts DEF Same, ConnRecs
    <3> QED BY <2>0, <3>1, <3>2
  <2>9. ASSUME NEW how \in {"closed", "reset"}, RemoteCloses(c, how)
        PROVE  \A d \in Conns : Moves(d) /\ (Registered(d)' => Registered(d) \/ Registers(d))
    <3> DEFINE r == [conn[c] EXCEPT !.link = how]
    <3>1. conn' = [conn EXCEPT ![c] = r]
      BY <2>9 DEF RemoteCloses
    <3>2. Same(conn[c], r) /\ r.reader = conn[c].reader
      BY ConnFacts DEF Same, ConnRecs
    <3> QED BY <2>0, <3>1, <3>2
  <2> QED BY <1>6, <2>1, <2>2, <2>3, <2>4, <2>5, <2>6, <2>7, <2>8, <2>9 DEF Writer, Reader, Remote
<1> QED BY <1>1, <1>2, <1>3, <1>4, <1>5, <1>6 DEF Next, Dispatch

\* A step on a connection that is new.
LEMMA NewStep ==
    ASSUME Typed, [Next]_vars, NEW d \in Conns' \ Conns
    PROVE  /\ d = Len(conn) + 1 /\ \A c \in Conns : c < d
           /\ conn'[d].got = << >> /\ conn'[d].queue = << >> /\ conn'[d].hand = None
           /\ conn'[d].writer # "ended"
           /\ \/ /\ \E a \in Clients : RemoteConnects(a) /\ conn'[d].addr = a
                 /\ conn'[d].reader = "backlog"
              \/ DispatchConnected /\ conn'[d].addr = Arg /\ conn'[d].reader = "runs"
<1>1. Conns' # Conns
  OBVIOUS
<1>2. ASSUME NEW c \in Conns, Accept(c) \/ Writer(c) \/ Reader(c) \/ Remote(c)
      PROVE  Conns' = Conns
  <2>1. CASE conn' = conn
    BY <2>1 DEF Conns
  <2>2. CASE \E r : conn' = [conn EXCEPT ![c] = r]
    BY <2>2, EditFacts
  <2>3. (\E r : conn' = [conn EXCEPT ![c] = r]) \/ conn' = conn
    BY <1>2 DEF Accept, Writer, Reader, Remote, WriterTakes, WriterWrites, WriterReports,
                WriterStarves, ReaderReads, ReaderEnds, RemoteSends, RemoteCloses
  <2> QED BY <2>1, <2>2, <2>3
<1>3. Work => Conns' = Conns
  BY DEF Work, Conns, Typed
<1>4. DispatchGetNewPeer \/ DispatchBroadcast => Conns' = Conns
  BY DEF DispatchGetNewPeer, DispatchBroadcast, Conns, Typed
<1>5. DispatchRefused \/ DispatchDroppedPeer \/ Broadcast \/ Connect \/ AcceptFails
         \/ UNCHANGED vars => Conns' = Conns
  BY DEF DispatchRefused, DispatchDroppedPeer, Broadcast, Connect, AcceptFails, vars, Conns
<1>6. DispatchConnected \/ \E a \in Clients : RemoteConnects(a)
  BY <1>1, <1>2, <1>3, <1>4, <1>5 DEF Next, Dispatch
<1>7. ASSUME NEW r, conn' = Append(conn, r)
      PROVE  d = Len(conn) + 1 /\ conn'[d] = r /\ \A c \in Conns : c < d
  BY <1>7 DEF Conns, Typed
<1>8. CASE DispatchConnected
  <2> DEFINE r == Started(NewConn(Arg, "backlog"))
  <2>1. conn' = Append(conn, r)
    BY <1>8 DEF DispatchConnected
  <2>2. Arg \in Addr
    BY <1>8, HeadFacts DEF DispatchConnected, Sigs, Arg, Addr
  <2>3. /\ r.reader = "runs" /\ r.writer = "idle" /\ r.addr = Arg /\ r.queue = << >>
        /\ r.hand = None /\ r.got = << >>
    BY <2>2, NewRec
  <2> HIDE DEF r
  <2> QED BY <1>7, <1>8, <2>1, <2>3
<1>9. ASSUME NEW a \in Clients, RemoteConnects(a)
      PROVE  /\ d = Len(conn) + 1 /\ \A c \in Conns : c < d
             /\ conn'[d].got = << >> /\ conn'[d].queue = << >> /\ conn'[d].hand = None
             /\ conn'[d].writer # "ended" /\ conn'[d].addr = a /\ conn'[d].reader = "backlog"
  BY <1>7, <1>9 DEF RemoteConnects, NewConn
<1> QED BY <1>6, <1>8, <1>9

\* What a step makes of the registry.
LEMMA PeersStep ==
    ASSUME Typed, [Next]_vars
    PROVE  \/ /\ peers' = peers /\ \A c \in Conns : ~Registers(c)
              /\ ~DispatchConnected /\ ~DispatchDroppedPeer
           \/ \E c \in Conns : /\ Registers(c) /\ peers' = Enlist(conn[c].addr, c)
                               /\ conn[c].reader = "accepted" /\ conn'[c].writer # "ended"
                               /\ conn'[c].reader = "runs"
           \/ /\ DispatchConnected /\ peers' = Enlist(Arg, Len(conn) + 1)
           \/ /\ DispatchDroppedPeer /\ peers' = Without(Arg)
<1>1. CASE DispatchGetNewPeer /\ conn[Arg].link # "reset"
  <2> DEFINE c == Arg
             r == Started(conn[c])
  <2>1. conn' = [conn EXCEPT ![c] = r] /\ peers' = Enlist(conn[c].addr, c)
    BY <1>1 DEF DispatchGetNewPeer
  <2>2. c \in Conns /\ conn[c].reader = "accepted"
    BY <1>1, HeadFacts DEF DispatchGetNewPeer, Sigs, Arg, Typed, ControlOK
  <2>3. r.writer = "idle" /\ r.reader = "runs"
    BY <2>2, StartedRec, ConnFacts
  <2>4. Registers(c)
    BY <1>1 DEF Registers
  <2> HIDE DEF c, r
  <2>5. conn'[c] = r
    BY <2>1, <2>2, EditFacts
  <2> QED BY <2>1, <2>2, <2>3, <2>4, <2>5
<1>2. CASE DispatchConnected \/ DispatchDroppedPeer
  BY <1>2 DEF DispatchConnected, DispatchDroppedPeer
<1>3. CASE ~(DispatchGetNewPeer /\ conn[Arg].link # "reset") /\ ~DispatchConnected
           /\ ~DispatchDroppedPeer
  <2>1. \A c \in Conns : ~Registers(c)
    BY <1>3 DEF Registers
  <2>2. peers' = peers
    BY <1>3 DEF Next, Dispatch, DispatchGetNewPeer, DispatchRefused, DispatchBroadcast,
       Broadcast, Connect, Work, AcceptFails, RemoteConnects, Accept, Writer, Reader, Remote, WriterTakes,
       WriterWrites, WriterReports, WriterStarves, ReaderReads, ReaderEnds, RemoteSends,
       RemoteCloses, vars
  <2> QED BY <1>3, <2>1, <2>2
<1> QED BY <1>1, <1>2, <1>3

\* What a step makes of the control channel.
LEMMA ControlStep ==
    ASSUME Typed, [Next]_vars
    PROVE  \/ ~Dispatch /\ ToSet(control) \subseteq ToSet(control')
           \/ /\ Dispatch /\ control' = Tail(control) /\ control # << >>
              /\ ToSet(control) = {Head(control)} \cup ToSet(control')
<1>1. control \in Seq(Sigs)
  BY DEF Typed, ControlOK
<1>2. CASE Dispatch
  <2>1. control # << >> /\ control' = Tail(control)
    BY <1>2 DEF Dispatch, DispatchGetNewPeer, DispatchConnected, DispatchRefused,
       DispatchBroadcast, DispatchDroppedPeer, Next1
  <2> QED BY <1>1, <1>2, <2>1, TailSet
<1>3. CASE ~Dispatch
  <2>1. control' = control \/ \E x : control' = Append(control, x)
    BY <1>3 DEF Next, Broadcast, Connect, Work, AcceptFails, RemoteConnects, Accept, Writer, Reader, Remote,
       WriterTakes, WriterWrites, WriterReports, WriterStarves, ReaderReads, ReaderEnds,
       RemoteSends, RemoteCloses, vars, Post
  <2>2. ASSUME NEW x, control' = Append(control, x)
        PROVE  ToSet(control) \subseteq ToSet(control')
    BY <1>1, <2>2, AppendSet
  <2> QED BY <1>3, <2>1, <2>2
<1> QED BY <1>2, <1>3

-----------------------------------------------------------------------------
(* The registry. *)

\* Two connections from one address: the earlier is gone.
OneAtATime ==
    \A c, d \in Conns : (c < d /\ conn[c].addr = conn[d].addr)
        => conn[c].link = "reset" \/ conn[d].addr \in ToSet(KnownPeers)

\* As LiveIsListed, for every connection whose writer has not ended.
RunningIsListed ==
    \A c \in Conns : (Registered(c) /\ conn[c].writer # "ended") => (Listed(c) \/ Superseded(c))

Registry == OneAtATime /\ RunningIsListed /\ EndedIsReported

LEMMA SupersededStays ==
    ASSUME Evolves, NEW c \in Conns, Superseded(c) PROVE Superseded(c)'
  BY DEF Evolves, Superseded

LEMMA EnlistFacts ==
    ASSUME NEW a, NEW c, peers' = Enlist(a, c)
    PROVE  /\ a \in DOMAIN peers' /\ peers'[a] = c
           /\ \A x \in DOMAIN peers : x # a => x \in DOMAIN peers' /\ peers'[x] = peers[x]
           /\ \A x \in DOMAIN peers' : x # a => x \in DOMAIN peers /\ peers'[x] = peers[x]
  BY DEF Enlist

LEMMA WithoutFacts ==
    ASSUME NEW a, peers' = Without(a)
    PROVE  /\ \A x \in DOMAIN peers : x # a => x \in DOMAIN peers' /\ peers'[x] = peers[x]
           /\ \A x \in DOMAIN peers' : x # a /\ x \in DOMAIN peers /\ peers'[x] = peers[x]
  BY DEF Without

LEMMA OneAtATimeStep ==
    ASSUME Typed, [Next]_vars, OneAtATime PROVE OneAtATime'
<1>1. Evolves
  BY NextTyped
<1> SUFFICES ASSUME NEW c \in Conns', NEW d \in Conns', c < d, conn'[c].addr = conn'[d].addr
             PROVE  conn'[c].link = "reset" \/ conn'[d].addr \in ToSet(KnownPeers)
  BY DEF OneAtATime
<1>2. CASE c \in Conns /\ d \in Conns
  BY <1>1, <1>2 DEF Evolves, OneAtATime
<1>3. \A b \in Conns : b \in Nat
  BY DEF Conns, Typed
<1>4. CASE c \notin Conns
  <2>1. c = Len(conn) + 1 /\ (d \in Conns => d < c) /\ (d \notin Conns => d = c)
    BY <1>4, NewStep
  <2>2. Len(conn) \in Nat
    BY DEF Typed
  <2> QED BY <1>3, <2>1, <2>2
<1>5. CASE c \in Conns /\ d \notin Conns
  <2>1. conn'[c].addr = conn[c].addr /\ (conn[c].link = "reset" => conn'[c].link = "reset")
    BY <1>1, <1>5 DEF Evolves
  <2>2. CASE \E a \in Clients : RemoteConnects(a) /\ conn'[d].addr = a
    BY <1>5, <2>1, <2>2 DEF RemoteConnects
  <2>3. CASE DispatchConnected /\ conn'[d].addr = Arg
    <3>1. Head(control) \in Sigs /\ Head(control).type = "ConnectNewPeer"
      BY <2>3, HeadFacts DEF DispatchConnected
    <3>2. Arg \in ToSet(KnownPeers)
      BY <3>1 DEF Sigs, Arg
    <3> QED BY <2>3, <3>2
  <2> QED BY <1>5, <2>2, <2>3, NewStep
<1> QED BY <1>2, <1>4, <1>5

LEMMA RunningIsListedStep ==
    ASSUME Typed, [Next]_vars, OneAtATime, RunningIsListed PROVE RunningIsListed'
<1>1. Evolves /\ Typed'
  BY NextTyped
<1> SUFFICES ASSUME NEW c \in Conns', Registered(c)', conn'[c].writer # "ended"
             PROVE  Listed(c)' \/ Superseded(c)'
  BY DEF RunningIsListed
<1>2. CASE c \notin Conns
  <2>1. DispatchConnected /\ conn'[c].addr = Arg /\ c = Len(conn) + 1
    BY <1>2, NewStep DEF Registered
  <2>2. peers' = Enlist(conn'[c].addr, c)
    BY <2>1 DEF DispatchConnected
  <2> QED BY <2>2, EnlistFacts DEF Listed
<1>3. CASE c \in Conns /\ Registers(c)
  <2>1. peers' = Enlist(conn[c].addr, c) /\ conn'[c].addr = conn[c].addr
    BY <1>1, <1>3 DEF Registers, DispatchGetNewPeer, Evolves
  <2> QED BY <2>1, EnlistFacts DEF Listed
<1>4. CASE c \in Conns /\ ~Registers(c)
  <2>1. /\ Registered(c) /\ conn[c].writer # "ended" /\ conn'[c].addr = conn[c].addr
        /\ c \in Nat
    BY <1>1, <1>4, ConnStep DEF Evolves, Conns, Typed
  <2>2. CASE Superseded(c)
    BY <1>1, <1>4, <2>2, SupersededStays
  <2>3. CASE Listed(c)
    <3>0. conn[c].addr \in DOMAIN peers /\ peers[conn[c].addr] = c
      BY <2>3 DEF Listed
    <3>1. CASE peers' = peers
      BY <2>1, <2>3, <3>1 DEF Listed
    <3>2. ASSUME NEW e \in Conns, Registers(e), peers' = Enlist(conn[e].addr, e),
                 conn[e].reader = "accepted", conn'[e].reader = "runs"
          PROVE  Listed(c)' \/ Superseded(c)'
      <4>1. CASE conn[e].addr # conn[c].addr
        BY <2>1, <3>0, <3>2, <4>1, EnlistFacts DEF Listed
      <4>2. CASE conn[e].addr = conn[c].addr
        <5>1. e # c /\ e \in Nat
          BY <1>4, <3>2 DEF Conns, Typed
        <5>2. conn[e].link # "reset" /\ conn[e].addr \in Clients
          BY <3>2, ConnFacts DEF Registers, Sound
        <5>3. ~(e < c)
          BY <1>4, <4>2, <5>2, Constants DEF OneAtATime
        <5>4. e > c
          BY <2>1, <5>1, <5>3
        <5>5. /\ e \in Conns' /\ conn'[e].addr = conn'[c].addr
              /\ conn'[e].reader \in {"runs", "ended"}
          BY <1>1, <1>4, <3>2, <4>2 DEF Evolves
        <5> QED BY <5>1, <5>4, <5>5 DEF Superseded, Registered
      <4> QED BY <4>1, <4>2
    <3>3. CASE DispatchConnected /\ peers' = Enlist(Arg, Len(conn) + 1)
      <4> DEFINE e == Len(conn) + 1
                 a == Arg
      <4>1. CASE a # conn[c].addr
        BY <2>1, <3>0, <3>3, <4>1, EnlistFacts DEF Listed
      <4>2. CASE a = conn[c].addr
        <5>1. /\ e \in Conns' /\ e \notin Conns
          BY <3>3 DEF DispatchConnected, Conns, Typed
        <5>2. /\ conn'[e].addr = a /\ conn'[e].reader = "runs" /\ c < e
          <6>1. ~ \E x \in Clients : RemoteConnects(x)
            <7>1. control' = Tail(control) /\ control # << >> /\ control \in Seq(Sigs)
              BY <3>3, HeadFacts DEF DispatchConnected, Typed, ControlOK
            <7>2. control' # control
              BY <7>1
            <7> QED BY <7>2 DEF RemoteConnects
          <6> QED BY <1>4, <5>1, <6>1, NewStep
        <5>3. e > c /\ e # c
          BY <2>1, <5>2 DEF Typed
        <5> HIDE DEF e, a
        <5> QED BY <2>1, <4>2, <5>1, <5>2, <5>3 DEF Superseded, Registered
      <4> QED BY <4>1, <4>2
    <3>4. CASE DispatchDroppedPeer /\ peers' = Without(Arg)
      <4>1. CASE Arg # conn[c].addr
        BY <2>1, <3>0, <3>4, <4>1, WithoutFacts DEF Listed
      <4>2. CASE Arg = conn[c].addr
        <5>1. PICK d \in Conns : conn[d].addr = Arg /\ conn[d].writer = "ended"
          BY <3>4, HeadFacts DEF DispatchDroppedPeer, Arg, Typed, ControlOK
        <5>2. Superseded(c)
          BY <2>1, <4>2, <5>1 DEF Superseded
        <5> QED BY <1>1, <1>4, <5>2, SupersededStays
      <4> QED BY <4>1, <4>2
    <3> QED BY <3>1, <3>2, <3>3, <3>4, PeersStep
  <2> QED BY <1>4, <2>1, <2>2, <2>3 DEF RunningIsListed
<1> QED BY <1>2, <1>3, <1>4

LEMMA EndedIsReportedStep ==
    ASSUME Typed, [Next]_vars, EndedIsReported PROVE EndedIsReported'
<1>1. Evolves /\ Typed'
  BY NextTyped
<1> SUFFICES ASSUME NEW c \in Conns', conn'[c].writer = "ended", Listed(c)'
             PROVE  Signal("DroppedPeer", conn'[c].addr) \in ToSet(control')
  BY DEF EndedIsReported
<1>2. c \in Conns /\ conn'[c].addr = conn[c].addr
  BY <1>1, NewStep DEF Evolves
<1> DEFINE x == Signal("DroppedPeer", conn[c].addr)
<1>3. CASE conn[c].writer = "ended"
  <2>1. Listed(c) /\ ~(DispatchDroppedPeer /\ Arg = conn[c].addr)
    <3>0. conn[c].addr \in DOMAIN peers' /\ peers'[conn[c].addr] = c
      BY <1>2 DEF Listed
    <3>1. CASE peers' = peers /\ ~DispatchDroppedPeer
      BY <3>0, <3>1 DEF Listed
    <3>2. ASSUME NEW e \in Conns, peers' = Enlist(conn[e].addr, e), conn'[e].writer # "ended",
                 Registers(e)
          PROVE  Listed(c) /\ ~DispatchDroppedPeer
      <4>1. conn[e].addr # conn[c].addr
        BY <3>0, <3>2, EnlistFacts
      <4>2. ~DispatchDroppedPeer
        BY <3>2 DEF DispatchDroppedPeer, Registers, DispatchGetNewPeer, Next1
      <4> QED BY <3>0, <3>2, <4>1, <4>2, EnlistFacts DEF Listed
    <3>3. CASE DispatchConnected /\ peers' = Enlist(Arg, Len(conn) + 1)
      <4>1. Len(conn) + 1 # c
        BY <1>2 DEF Conns, Typed
      <4>2. Arg # conn[c].addr
        BY <3>0, <3>3, <4>1, EnlistFacts
      <4>3. ~DispatchDroppedPeer
        BY <3>3 DEF DispatchDroppedPeer, DispatchConnected, Next1
      <4> QED BY <3>0, <3>3, <4>2, <4>3, EnlistFacts DEF Listed
    <3>4. CASE DispatchDroppedPeer /\ peers' = Without(Arg)
      BY <3>0, <3>4, WithoutFacts DEF Listed
    <3> QED BY <3>1, <3>2, <3>3, <3>4, PeersStep
  <2>2. x \in ToSet(control)
    BY <1>2, <1>3, <2>1 DEF EndedIsReported
  <2>3. CASE ~Dispatch /\ ToSet(control) \subseteq ToSet(control')
    BY <1>2, <2>2, <2>3
  <2>4. CASE Dispatch /\ ToSet(control) = {Head(control)} \cup ToSet(control')
    <3>1. CASE x = Head(control)
      <4>1. Head(control).type = "DroppedPeer" /\ Arg = conn[c].addr
        BY <3>1 DEF Signal, Arg
      <4>2. DispatchDroppedPeer
        BY <2>4, <4>1 DEF Dispatch, DispatchGetNewPeer, DispatchConnected, DispatchRefused,
           DispatchBroadcast, Next1
      <4> QED BY <2>1, <4>1, <4>2
    <3>2. CASE x # Head(control)
      BY <1>2, <2>2, <2>4, <3>2
    <3> QED BY <3>1, <3>2
  <2> QED BY <2>3, <2>4, ControlStep
<1>4. CASE conn[c].writer # "ended"
  <2>1. CASE Same(conn[c], conn'[c])
    BY <1>4, <2>1 DEF Same
  <2>2. CASE conn'[c] = Taken(conn[c]) /\ conn[c].writer = "idle" /\ conn[c].queue # << >>
    BY <1>2, <2>2, TakenRec, ConnFacts
  <2>3. CASE conn'[c] = Written(conn[c]) /\ conn[c].writer = "busy"
    BY <1>2, <2>3, WrittenRec, ConnFacts
  <2>4. ASSUME NEW m, conn'[c] = Enqueue(conn[c], m)
        PROVE  FALSE
    <3>1. conn'[c] = [conn[c] EXCEPT !.queue = Append(@, m)]
      BY <1>4, <2>4 DEF Enqueue
    <3> QED BY <1>2, <1>4, <3>1, ConnFacts DEF ConnRecs
  <2> QED BY <1>2, <2>1, <2>2, <2>3, <2>4, ConnStep DEF Moves
<1> QED BY <1>3, <1>4

\* The dispatcher lives as long as the executor.
OpenWhileRunning == executor => open

LEMMA StopsStep ==
    ASSUME Typed, [Next]_vars, OpenWhileRunning, RunningIsListed, ServerStops
    PROVE  OpenWhileRunning' /\ ServerStops'
<1>1. Evolves /\ Typed'
  BY NextTyped
<1>2. CASE ~executor
  <2>1. Broadcast \/ Connect \/ Work \/ UNCHANGED vars
    BY <1>2 DEF Next, Dispatch, DispatchGetNewPeer, DispatchConnected, DispatchRefused,
       DispatchBroadcast, DispatchDroppedPeer, Next1, RemoteConnects, Accept, AcceptFails, Writer,
       Reader, Remote, WriterTakes, WriterWrites, WriterReports, WriterStarves, ReaderReads, ReaderEnds,
       RemoteSends, RemoteCloses
  <2>2. executor' = executor /\ open' = open /\ listening' = listening
    BY <2>1 DEF Broadcast, Connect, Work, vars
  <2>3. \A c \in Conns : conn'[c].link = conn[c].link /\ (Registered(c)' => Registered(c))
    <3>1. CASE conn' = conn
      BY <3>1 DEF Registered
    <3>2. CASE conn' # conn
      <4> DEFINE b == Head(inbox)
                 r == Enqueue(conn[b], Reply)
      <4>1. Work
        BY <2>1, <3>2 DEF Broadcast, Connect, vars
      <4>2. conn' = [conn EXCEPT ![b] = r] /\ inbox # << >>
        BY <3>2, <4>1 DEF Work
      <4>3. b \in Conns
        BY <4>2 DEF Typed, InboxOK
      <4>4. r.link = conn[b].link /\ r.reader = conn[b].reader
        BY <4>3, ConnFacts DEF Enqueue, ConnRecs
      <4> HIDE DEF b, r
      <4>5. conn'[b] = r /\ \A d \in Conns \ {b} : conn'[d] = conn[d]
        BY <4>2, <4>3, EditFacts
      <4>6. ASSUME NEW c \in Conns
            PROVE  conn'[c].link = conn[c].link /\ (Registered(c)' => Registered(c))
        BY <4>4, <4>5 DEF Registered
      <4> QED BY <4>6
    <3> QED BY <3>1, <3>2
  <2>4. CASE ~open /\ \E c \in Conns : ~Registered(c) /\ conn[c].link = "reset"
    <3>1. PICK c \in Conns : ~Registered(c) /\ conn[c].link = "reset"
      BY <2>4
    <3>2. c \in Conns' /\ ~Registered(c)' /\ conn'[c].link = "reset"
      BY <1>1, <2>3, <3>1 DEF Evolves
    <3> QED BY <1>2, <2>2, <2>4, <3>2 DEF OpenWhileRunning, ServerStops, Registered
  <2>5. CASE open /\ \E c \in Conns : Superseded(c)
    <3>1. PICK c \in Conns : Superseded(c)
      BY <2>5
    <3>2. c \in Conns' /\ Superseded(c)'
      BY <1>1, <3>1, SupersededStays DEF Evolves
    <3>3. \E d \in Conns' : Superseded(d)'
      BY <3>2
    <3> QED BY <1>2, <2>2, <2>5, <3>3 DEF OpenWhileRunning, ServerStops
  <2>6. CASE open /\ workers = 0
    <3>0. ~Work
      BY <2>6 DEF Work
    <3>1. workers' = workers
      BY <2>1, <3>0 DEF Broadcast, Connect, vars
    <3> QED BY <1>2, <2>2, <2>6, <3>1 DEF OpenWhileRunning, ServerStops
  <2>7. CASE open /\ ~listening
    BY <1>2, <2>2, <2>7 DEF OpenWhileRunning, ServerStops
  <2> QED BY <1>2, <2>4, <2>5, <2>6, <2>7 DEF ServerStops
<1>3. CASE executor /\ executor' = executor
  <2>1. open' = open
    BY <1>3 DEF Next, Dispatch, DispatchGetNewPeer, DispatchConnected, DispatchRefused,
       DispatchBroadcast, DispatchDroppedPeer, Broadcast, Connect, Work, AcceptFails, RemoteConnects, Accept,
       Writer, Reader, Remote, WriterTakes, WriterWrites, WriterReports, WriterStarves,
       ReaderReads, ReaderEnds, RemoteSends, RemoteCloses, vars
  <2> QED BY <1>3, <2>1 DEF OpenWhileRunning, ServerStops
<1>4. CASE executor /\ executor' # executor
  <2>1. open /\ executor' = FALSE
    BY <1>1, <1>4 DEF OpenWhileRunning, Typed, RestTyped
  <2>2. CASE DispatchGetNewPeer
    <3>1. open' = FALSE /\ conn' = conn /\ conn[Arg].link = "reset"
      BY <1>4, <2>2 DEF DispatchGetNewPeer
    <3>2. PICK c \in Conns : conn[c].reader = "accepted" /\ conn[c].link = "reset"
      BY <2>2, <3>1, HeadFacts DEF DispatchGetNewPeer, Sigs, Arg, Typed, ControlOK
    <3>3. c \in Conns' /\ ~Registered(c)' /\ conn'[c].link = "reset"
      BY <3>1, <3>2 DEF Registered, Conns
    <3>4. \E d \in Conns' : ~Registered(d)' /\ conn'[d].link = "reset"
      BY <3>3
    <3> QED BY <2>1, <3>1, <3>4 DEF OpenWhileRunning, ServerStops, Registered
  <2>3. ASSUME NEW c \in Conns, WriterStarves(c)
        PROVE  OpenWhileRunning' /\ ServerStops'
    <3>1. conn[c].writer = "idle" /\ ~Listed(c) /\ open' = open
      BY <2>3 DEF WriterStarves, HasHandle
    <3>2. Registered(c)
      BY <3>1, WritersRegistered
    <3>3. Superseded(c)
      BY <3>1, <3>2 DEF RunningIsListed
    <3>4. c \in Conns' /\ Superseded(c)'
      BY <1>1, <3>3, SupersededStays DEF Evolves
    <3>5. \E d \in Conns' : Superseded(d)'
      BY <3>4
    <3> QED BY <2>1, <3>1, <3>5 DEF OpenWhileRunning, ServerStops
  <2>4. ASSUME NEW c \in Conns, ReaderReads(c)
        PROVE  OpenWhileRunning' /\ ServerStops'
    <3>1. ~(workers > 0) /\ workers' = workers /\ open' = open
      BY <1>4, <2>4 DEF ReaderReads
    <3>2. workers = 0
      BY <3>1, Constants DEF Typed, RestTyped
    <3> QED BY <2>1, <3>1, <3>2 DEF OpenWhileRunning, ServerStops
  <2>5. CASE AcceptFails
    BY <2>1, <2>5 DEF AcceptFails, OpenWhileRunning, ServerStops
  <2>6. DispatchGetNewPeer \/ AcceptFails \/ \E c \in Conns : WriterStarves(c) \/ ReaderReads(c)
    BY <1>4 DEF Next, Dispatch, DispatchConnected, DispatchRefused,
       DispatchBroadcast, DispatchDroppedPeer, Broadcast, Connect, Work, AcceptFails, RemoteConnects, Accept,
       Writer, Reader, Remote, WriterTakes, WriterWrites, WriterReports,
       ReaderEnds, RemoteSends, RemoteCloses, vars
  <2> QED BY <2>2, <2>3, <2>4, <2>5, <2>6
<1> QED BY <1>2, <1>3, <1>4

-----------------------------------------------------------------------------
(* Sequences of messages. *)

\* Everything broadcast in s is less than everything broadcast in t.
Before(S, T) == \A x \in S, y \in T : x < y

LEMMA CatFacts ==
    ASSUME NEW s \in Seq(Int), NEW t \in Seq(Int)
    PROVE  /\ s \o t \in Seq(Int)
           /\ Sent(s \o t) = Sent(s) \cup Sent(t)
           /\ Ordered(s \o t) <=> Ordered(s) /\ Ordered(t) /\ Before(Sent(s), Sent(t))
<1> DEFINE m == Len(s)
           n == Len(t)
           u == s \o t
<1>1. /\ m \in Nat /\ n \in Nat /\ DOMAIN s = 1 .. m /\ DOMAIN t = 1 .. n /\ DOMAIN u = 1 .. m + n
      /\ u \in Seq(Int)
  OBVIOUS
<1>2. \A i \in 1 .. m : u[i] = s[i] /\ i \in 1 .. m + n
  OBVIOUS
<1>3. \A j \in 1 .. n : u[m + j] = t[j] /\ m + j \in 1 .. m + n
  OBVIOUS
<1>4. /\ \A i \in 1 .. m : s[i] \in Int
      /\ \A i \in 1 .. n : t[i] \in Int
  OBVIOUS
<1> HIDE DEF m, n, u
<1>5. \A k \in 1 .. m + n : k \in 1 .. m \/ (k - m \in 1 .. n /\ m + (k - m) = k)
  BY <1>1
<1>6. ToSet(u) = ToSet(s) \cup ToSet(t)
  <2>1. ASSUME NEW k \in 1 .. m + n PROVE u[k] \in ToSet(s) \cup ToSet(t)
    <3>1. CASE k \in 1 .. m
      BY <1>1, <1>2, <3>1 DEF ToSet
    <3>2. CASE k - m \in 1 .. n /\ m + (k - m) = k
      <4>1. u[k] = t[k - m]
        BY <1>3, <3>2
      <4> QED BY <1>1, <3>2, <4>1 DEF ToSet
    <3> QED BY <1>5, <3>1, <3>2
  <2>2. ASSUME NEW i \in 1 .. m PROVE s[i] \in ToSet(u)
    BY <1>1, <1>2 DEF ToSet
  <2>3. ASSUME NEW j \in 1 .. n PROVE t[j] \in ToSet(u)
    BY <1>1, <1>3 DEF ToSet
  <2> QED BY <1>1, <2>1, <2>2, <2>3 DEF ToSet
<1>7. Sent(u) = Sent(s) \cup Sent(t)
  BY <1>6 DEF Sent
<1>8. ASSUME Ordered(u) PROVE Ordered(s) /\ Ordered(t) /\ Before(Sent(s), Sent(t))
  <2>1. Ordered(s)
    <3> SUFFICES ASSUME NEW i \in 1 .. m, NEW j \in 1 .. m, i < j, s[i] # Reply, s[j] # Reply
                 PROVE  s[i] < s[j]
      BY <1>1 DEF Ordered
    <3>1. i \in DOMAIN u /\ j \in DOMAIN u /\ u[i] = s[i] /\ u[j] = s[j]
      BY <1>1, <1>2
    <3> QED BY <1>8, <3>1 DEF Ordered
  <2>2. Ordered(t)
    <3> SUFFICES ASSUME NEW i \in 1 .. n, NEW j \in 1 .. n, i < j, t[i] # Reply, t[j] # Reply
                 PROVE  t[i] < t[j]
      BY <1>1 DEF Ordered
    <3>1. m + i \in DOMAIN u /\ m + j \in DOMAIN u /\ u[m + i] = t[i] /\ u[m + j] = t[j]
      BY <1>1, <1>3
    <3>2. m + i < m + j
      BY <1>1
    <3> QED BY <1>8, <3>1, <3>2 DEF Ordered
  <2>3. Before(Sent(s), Sent(t))
    <3> SUFFICES ASSUME NEW i \in 1 .. m, NEW j \in 1 .. n, s[i] # Reply, t[j] # Reply
                 PROVE  s[i] < t[j]
      BY <1>1 DEF Before, Sent, ToSet
    <3>1. i \in DOMAIN u /\ m + j \in DOMAIN u /\ u[i] = s[i] /\ u[m + j] = t[j]
      BY <1>1, <1>2, <1>3
    <3>2. i < m + j
      BY <1>1
    <3> QED BY <1>8, <3>1, <3>2 DEF Ordered
  <2> QED BY <2>1, <2>2, <2>3
<1>9. ASSUME Ordered(s), Ordered(t), Before(Sent(s), Sent(t)) PROVE Ordered(u)
  <2> SUFFICES ASSUME NEW i \in 1 .. m + n, NEW j \in 1 .. m + n, i < j,
                      u[i] # Reply, u[j] # Reply
               PROVE  u[i] < u[j]
    BY <1>1 DEF Ordered
  <2>1. CASE i \in 1 .. m /\ j \in 1 .. m
    BY <1>1, <1>2, <1>9, <2>1 DEF Ordered
  <2>2. CASE i \in 1 .. m /\ j - m \in 1 .. n /\ m + (j - m) = j
    <3>1. u[i] = s[i] /\ u[j] = t[j - m]
      BY <1>2, <1>3, <2>2
    <3>2. s[i] \in Sent(s) /\ t[j - m] \in Sent(t)
      BY <1>1, <2>2, <3>1 DEF Sent, ToSet
    <3> QED BY <1>9, <3>1, <3>2 DEF Before
  <2>3. CASE i - m \in 1 .. n /\ m + (i - m) = i /\ j - m \in 1 .. n /\ m + (j - m) = j
    <3>1. u[i] = t[i - m] /\ u[j] = t[j - m] /\ i - m < j - m
      BY <1>1, <1>3, <2>3
    <3> QED BY <1>1, <1>9, <2>3, <3>1 DEF Ordered
  <2>4. CASE j \in 1 .. m
    <3>1. i \in 1 .. m
      BY <1>1, <2>4
    <3> QED BY <2>1, <2>4, <3>1
  <2> QED BY <1>5, <2>1, <2>2, <2>3, <2>4
<1> QED BY <1>1, <1>7, <1>8, <1>9 DEF u

LEMMA OneFacts ==
    ASSUME NEW x \in Int
    PROVE  /\ <<x>> \in Seq(Int) /\ Sent(<<x>>) = {x} \ {Reply} /\ Ordered(<<x>>)
           /\ << >> \in Seq(Int) /\ Sent(<< >>) = {} /\ Ordered(<< >>)
<1>1. DOMAIN <<x>> = {1} /\ <<x>>[1] = x /\ DOMAIN << >> = {}
  OBVIOUS
<1>2. ToSet(<<x>>) = {x} /\ ToSet(<< >>) = {}
  BY <1>1 DEF ToSet
<1>3. Ordered(<<x>>)
  BY <1>1 DEF Ordered
<1>4. Ordered(<< >>)
  BY <1>1 DEF Ordered
<1> QED BY <1>2, <1>3, <1>4 DEF Sent

\* The first message and the rest.
LEMMA HeadTailFacts ==
    ASSUME NEW s \in Seq(Int), s # << >>
    PROVE  /\ Head(s) \in Int /\ Tail(s) \in Seq(Int)
           /\ Sent(s) = ({Head(s)} \ {Reply}) \cup Sent(Tail(s))
           /\ Ordered(s) <=> Ordered(Tail(s)) /\ Before({Head(s)} \ {Reply}, Sent(Tail(s)))
<1> DEFINE h == Head(s)
           t == Tail(s)
           o == <<h>>
<1>1. h \in Int /\ t \in Seq(Int) /\ s = o \o t
  OBVIOUS
<1>2. o \in Seq(Int) /\ Sent(o) = {h} \ {Reply} /\ Ordered(o)
  BY <1>1, OneFacts
<1> HIDE DEF h, t, o
<1>3. /\ Sent(o \o t) = Sent(o) \cup Sent(t)
      /\ Ordered(o \o t) <=> Ordered(o) /\ Ordered(t) /\ Before(Sent(o), Sent(t))
  BY <1>1, <1>2, CatFacts
<1> QED BY <1>1, <1>2, <1>3 DEF h, t

LEMMA LastFacts ==
    ASSUME NEW s \in Seq(Int), NEW x \in Int
    PROVE  /\ Append(s, x) \in Seq(Int)
           /\ Sent(Append(s, x)) = Sent(s) \cup ({x} \ {Reply})
           /\ Ordered(Append(s, x)) <=> Ordered(s) /\ Before(Sent(s), {x} \ {Reply})
<1> DEFINE o == <<x>>
<1>1. Append(s, x) = s \o o
  OBVIOUS
<1>2. o \in Seq(Int) /\ Sent(o) = {x} \ {Reply} /\ Ordered(o)
  BY OneFacts
<1> HIDE DEF o
<1>3. /\ s \o o \in Seq(Int) /\ Sent(s \o o) = Sent(s) \cup Sent(o)
      /\ Ordered(s \o o) <=> Ordered(s) /\ Ordered(o) /\ Before(Sent(s), Sent(o))
  BY <1>2, CatFacts
<1> QED BY <1>1, <1>2, <1>3

-----------------------------------------------------------------------------
(* The messages of a connection. *)

Held(r)   == {r.hand} \ {Reply, None}

LEMMA StreamFacts ==
    ASSUME Typed, NEW r \in Connections
    PROVE  /\ r.got \in Seq(Int) /\ r.queue \in Seq(Int) /\ Stream(r) \in Seq(Int)
           /\ Sent(r.got) \subseteq 1 .. broadcasts /\ Sent(r.queue) \subseteq 1 .. broadcasts
           /\ Held(r) \subseteq 1 .. broadcasts
           /\ Sent(Stream(r)) = Sent(r.got) \cup Held(r) \cup Sent(r.queue)
           /\ Ordered(Stream(r)) <=> /\ Ordered(r.got) /\ Ordered(r.queue)
                                     /\ Before(Sent(r.got), Held(r))
                                     /\ Before(Sent(r.got) \cup Held(r), Sent(r.queue))
<1> DEFINE g == r.got
           h == InHand(r)
           q == r.queue
<1>1. g \in Seq(Values) /\ q \in Seq(Values) /\ r.hand \in {None} \cup Values /\ broadcasts \in Nat
  BY DEF Connections, ConnRecs, Typed, RestTyped
<1>2. g \in Seq(Int) /\ q \in Seq(Int)
  <2>1. Values \subseteq Int
    BY DEF Values
  <2> QED BY <1>1, <2>1, SeqMonotonic
<1>3. Sent(g) \subseteq 1 .. broadcasts /\ Sent(q) \subseteq 1 .. broadcasts
  <2>1. ASSUME NEW s \in Seq(Values) PROVE Sent(s) \subseteq 1 .. broadcasts
    <3>1. \A i \in DOMAIN s : s[i] \in Values
      OBVIOUS
    <3>2. \A x \in Values : x # Reply => x \in 1 .. broadcasts
      BY <1>1 DEF Values
    <3> QED BY <3>1, <3>2 DEF Sent, ToSet
  <2> QED BY <1>1, <2>1
<1>4. h \in Seq(Int) /\ Sent(h) = Held(r) /\ Ordered(h) /\ Held(r) \subseteq 1 .. broadcasts
  <2>1. CASE r.hand = None
    <3>1. h = << >> /\ Held(r) = {}
      BY <2>1 DEF InHand, Held
    <3>2. 0 \in Int
      OBVIOUS
    <3>3. << >> \in Seq(Int) /\ Sent(<< >>) = {} /\ Ordered(<< >>)
      BY <3>2, OneFacts
    <3> QED BY <3>1, <3>3
  <2>2. CASE r.hand # None
    <3>1. r.hand \in Values /\ r.hand \in Int /\ h = <<r.hand>>
      BY <1>1, <2>2 DEF InHand, Values
    <3>2. h \in Seq(Int) /\ Sent(h) = {r.hand} \ {Reply} /\ Ordered(h)
      BY <3>1, OneFacts
    <3> QED BY <1>1, <2>2, <3>1, <3>2 DEF Held, Values
  <2> QED BY <2>1, <2>2
<1>5. Stream(r) = (g \o h) \o q
  BY DEF Stream
<1> HIDE DEF g, h, q
<1>6. /\ g \o h \in Seq(Int) /\ Sent(g \o h) = Sent(g) \cup Sent(h)
      /\ Ordered(g \o h) <=> Ordered(g) /\ Ordered(h) /\ Before(Sent(g), Sent(h))
  BY <1>2, <1>4, CatFacts
<1> DEFINE f == g \o h
<1> HIDE DEF f
<1>7. f \in Seq(Int) /\ q \in Seq(Int)
  BY <1>2, <1>6 DEF f
<1>8. /\ Sent(f \o q) = Sent(f) \cup Sent(q)
      /\ Ordered(f \o q) <=> Ordered(f) /\ Ordered(q) /\ Before(Sent(f), Sent(q))
  BY <1>7, CatFacts
<1>9. Stream(r) \in Seq(Int)
  BY <1>5, <1>7 DEF f
<1>10. /\ Sent(Stream(r)) = Sent(g) \cup Held(r) \cup Sent(q)
       /\ Ordered(Stream(r)) <=> /\ Ordered(g) /\ Ordered(q) /\ Before(Sent(g), Held(r))
                                 /\ Before(Sent(g) \cup Held(r), Sent(q))
  BY <1>4, <1>5, <1>6, <1>8 DEF f
<1> QED BY <1>2, <1>3, <1>4, <1>9, <1>10 DEF g, q

\* The writer takes a message: what was sent is what it was.
LEMMA TakenStream ==
    ASSUME Typed, NEW q \in Connections, q.writer = "idle", q.queue # << >>
    PROVE  /\ Sent(Stream(Taken(q))) = Sent(Stream(q))
           /\ Ordered(Stream(q)) => Ordered(Stream(Taken(q)))
<1> DEFINE r == Taken(q)
           h == Head(q.queue)
           t == Tail(q.queue)
<1>1. /\ r \in Connections /\ r.queue = t /\ r.hand = h /\ h # None /\ q.hand = None
      /\ r.got = q.got
  BY TakenRec
<1>2. /\ q.queue \in Seq(Int)
      /\ Sent(Stream(q)) = Sent(q.got) \cup Held(q) \cup Sent(q.queue)
      /\ Ordered(Stream(q)) <=> /\ Ordered(q.got) /\ Ordered(q.queue)
                                /\ Before(Sent(q.got), Held(q))
                                /\ Before(Sent(q.got) \cup Held(q), Sent(q.queue))
  BY StreamFacts
<1> HIDE DEF r
<1>3. /\ Sent(Stream(r)) = Sent(r.got) \cup Held(r) \cup Sent(r.queue)
      /\ Ordered(Stream(r)) <=> /\ Ordered(r.got) /\ Ordered(r.queue)
                                /\ Before(Sent(r.got), Held(r))
                                /\ Before(Sent(r.got) \cup Held(r), Sent(r.queue))
  BY <1>1, StreamFacts
<1>4. /\ Sent(q.queue) = ({h} \ {Reply}) \cup Sent(t)
      /\ Ordered(q.queue) <=> Ordered(t) /\ Before({h} \ {Reply}, Sent(t))
  BY <1>2, HeadTailFacts
<1> HIDE DEF h, t
<1>5. Held(q) = {} /\ Held(r) = {h} \ {Reply}
  BY <1>1 DEF Held
<1>6. Sent(Stream(r)) = Sent(Stream(q))
  BY <1>1, <1>2, <1>3, <1>4, <1>5
<1>7. ASSUME Ordered(Stream(q)) PROVE Ordered(Stream(r))
  <2>1. Ordered(q.got) /\ Ordered(t) /\ Before({h} \ {Reply}, Sent(t))
        /\ Before(Sent(q.got), ({h} \ {Reply}) \cup Sent(t))
    BY <1>2, <1>4, <1>5, <1>7
  <2> QED BY <1>1, <1>3, <1>5, <2>1 DEF Before
<1> QED BY <1>6, <1>7 DEF r

\* It writes it on a link that is open: so it is, and the remote has one more of it.
LEMMA WrittenStream ==
    ASSUME Typed, NEW q \in Connections, q.writer = "busy", q.link = "open",
           Ordered(Stream(q))
    PROVE  /\ Ordered(Written(q).got) /\ Sent(Written(q).got) = Sent(q.got) \cup Held(q)
           /\ Ordered(Stream(Written(q))) /\ Sent(Stream(Written(q))) = Sent(Stream(q))
<1> DEFINE r == Written(q)
           h == q.hand
           o == <<h>>
<1>1. /\ r \in Connections /\ r.queue = q.queue /\ r.hand = None /\ h \in Values
      /\ r.got = q.got \o o
  BY WrittenRec
<1>2. /\ q.got \in Seq(Int)
      /\ Sent(Stream(q)) = Sent(q.got) \cup Held(q) \cup Sent(q.queue)
      /\ Ordered(Stream(q)) <=> /\ Ordered(q.got) /\ Ordered(q.queue)
                                /\ Before(Sent(q.got), Held(q))
                                /\ Before(Sent(q.got) \cup Held(q), Sent(q.queue))
      /\ Sent(q.queue) \subseteq 1 .. broadcasts
  BY StreamFacts
<1> HIDE DEF r
<1>3. /\ Sent(Stream(r)) = Sent(r.got) \cup Held(r) \cup Sent(r.queue)
      /\ Ordered(Stream(r)) <=> /\ Ordered(r.got) /\ Ordered(r.queue)
                                /\ Before(Sent(r.got), Held(r))
                                /\ Before(Sent(r.got) \cup Held(r), Sent(r.queue))
      /\ Sent(r.got) \subseteq 1 .. broadcasts
  BY <1>1, StreamFacts
<1>4. h \in Int /\ Held(r) = {} /\ Held(q) = {h} \ {Reply}
  BY <1>1 DEF Held, Values
<1>5. o \in Seq(Int) /\ Sent(o) = Held(q) /\ Ordered(o)
  BY <1>4, OneFacts
<1> HIDE DEF o
<1>6. /\ Sent(r.got) = Sent(q.got) \cup Sent(o)
      /\ Ordered(r.got) <=> Ordered(q.got) /\ Ordered(o) /\ Before(Sent(q.got), Sent(o))
  BY <1>1, <1>2, <1>5, CatFacts
<1>7. Sent(Stream(r)) = Sent(Stream(q))
  BY <1>1, <1>2, <1>3, <1>4, <1>5, <1>6
<1>8. Ordered(r.got) /\ Before(Sent(r.got), Sent(q.queue)) /\ Ordered(q.queue)
  BY <1>2, <1>5, <1>6
<1>9. Ordered(Stream(r))
  BY <1>1, <1>3, <1>4, <1>8 DEF Before
<1> QED BY <1>5, <1>6, <1>7, <1>8, <1>9 DEF r

\* A message is enqueued: it is the last of the stream.
LEMMA EnqueueStream ==
    ASSUME Typed, NEW q \in Connections, q.reader \in {"runs", "ended"}, q.writer # "ended",
           NEW m \in Values
    PROVE  /\ Sent(Stream(Enqueue(q, m))) = Sent(Stream(q)) \cup ({m} \ {Reply})
           /\ Ordered(Stream(Enqueue(q, m)))
                <=> Ordered(Stream(q)) /\ Before(Sent(Stream(q)), {m} \ {Reply})
<1> DEFINE r == Enqueue(q, m)
           M == {m} \ {Reply}
<1>1. /\ r \in Connections /\ r.queue = Append(q.queue, m) /\ r.hand = q.hand /\ r.got = q.got
  BY EnqueueRec
<1>0. m \in Int
  BY DEF Values
<1>2. /\ q.queue \in Seq(Int)
      /\ Sent(Stream(q)) = Sent(q.got) \cup Held(q) \cup Sent(q.queue)
      /\ Ordered(Stream(q)) <=> /\ Ordered(q.got) /\ Ordered(q.queue)
                                /\ Before(Sent(q.got), Held(q))
                                /\ Before(Sent(q.got) \cup Held(q), Sent(q.queue))
  BY StreamFacts
<1> HIDE DEF r
<1>3. /\ Sent(Stream(r)) = Sent(r.got) \cup Held(r) \cup Sent(r.queue)
      /\ Ordered(Stream(r)) <=> /\ Ordered(r.got) /\ Ordered(r.queue)
                                /\ Before(Sent(r.got), Held(r))
                                /\ Before(Sent(r.got) \cup Held(r), Sent(r.queue))
  BY <1>1, StreamFacts
<1>4. /\ Sent(r.queue) = Sent(q.queue) \cup M
      /\ Ordered(r.queue) <=> Ordered(q.queue) /\ Before(Sent(q.queue), M)
  <2> DEFINE k == q.queue
  <2>1. k \in Seq(Int)
    BY <1>2
  <2> HIDE DEF k, M
  <2>2. /\ Sent(Append(k, m)) = Sent(k) \cup ({m} \ {Reply})
        /\ Ordered(Append(k, m)) <=> Ordered(k) /\ Before(Sent(k), {m} \ {Reply})
    BY <1>0, <2>1, LastFacts
  <2> QED BY <1>1, <2>2 DEF k, M
<1>5. Held(r) = Held(q)
  BY <1>1 DEF Held
<1> HIDE DEF M
<1>6. Sent(Stream(r)) = Sent(Stream(q)) \cup M
  BY <1>1, <1>2, <1>3, <1>4, <1>5
<1>7. ASSUME Ordered(Stream(r)) PROVE Ordered(Stream(q)) /\ Before(Sent(Stream(q)), M)
  BY <1>1, <1>2, <1>3, <1>4, <1>5, <1>7 DEF Before
<1>8. ASSUME Ordered(Stream(q)), Before(Sent(Stream(q)), M) PROVE Ordered(Stream(r))
  BY <1>1, <1>2, <1>3, <1>4, <1>5, <1>8 DEF Before
<1> QED BY <1>6, <1>7, <1>8 DEF r, M

-----------------------------------------------------------------------------
(* The broadcasts in the control channel. *)

Carries(x) == IF x.type = "BroadcastMessage" THEN x.arg ELSE Reply
Carried(s) == [i \in DOMAIN s |-> Carries(s[i])]

LEMMA CarriedAppend ==
    ASSUME NEW S, NEW s \in Seq(S), NEW x, \A y \in S : Carries(y) \in Int, Carries(x) \in Int
    PROVE  /\ Carried(s) \in Seq(Int)
           /\ Carried(Append(s, x)) = Append(Carried(s), Carries(x))
<1> DEFINE u == Carried(s)
           t == Append(s, x)
           c == Carries(x)
           v == Append(u, c)
<1>1. /\ Len(s) \in Nat /\ DOMAIN s = 1 .. Len(s) /\ \A i \in 1 .. Len(s) : s[i] \in S
      /\ DOMAIN t = 1 .. Len(s) + 1 /\ t[Len(s) + 1] = x
      /\ \A i \in 1 .. Len(s) : t[i] = s[i]
  OBVIOUS
<1>2. u = [i \in 1 .. Len(s) |-> Carries(s[i])]
  BY <1>1 DEF Carried
<1>3. u \in [1 .. Len(s) -> Int]
  BY <1>1, <1>2
<1>4. u \in Seq(Int) /\ Len(u) = Len(s)
  BY <1>1, <1>3, SeqDef, LenProperties
<1> HIDE DEF u, t, c
<1>5. /\ v = [i \in 1 .. Len(s) + 1 |-> IF i = Len(s) + 1 THEN c ELSE u[i]]
  <2>1. v \in Seq(Int) /\ Len(v) = Len(s) + 1 /\ DOMAIN v = 1 .. Len(s) + 1
    BY <1>4 DEF c
  <2>2. \A i \in 1 .. Len(s) + 1 : v[i] = IF i = Len(s) + 1 THEN c ELSE u[i]
    BY <1>1, <1>4
  <2> HIDE DEF v
  <2>3. v = [i \in DOMAIN v |-> v[i]]
    BY <2>1
  <2> QED BY <2>1, <2>2, <2>3
<1>6. Carried(t) = [i \in 1 .. Len(s) + 1 |-> Carries(t[i])]
  BY <1>1 DEF Carried
<1>7. \A i \in 1 .. Len(s) + 1 : Carries(t[i]) = IF i = Len(s) + 1 THEN c ELSE u[i]
  BY <1>1, <1>2 DEF c
<1>8. Carried(t) = v
  BY <1>5, <1>6, <1>7
<1> QED BY <1>4, <1>8 DEF u, t, c, v

LEMMA CarriedTail ==
    ASSUME NEW S, NEW s \in Seq(S), s # << >>, \A y \in S : Carries(y) \in Int
    PROVE  /\ Carried(s) \in Seq(Int) /\ Carried(s) # << >>
           /\ Head(Carried(s)) = Carries(Head(s))
           /\ Tail(Carried(s)) = Carried(Tail(s))
<1> DEFINE u == Carried(s)
           t == Tail(s)
           v == Tail(u)
<1>1. /\ Len(s) \in Nat \ {0} /\ DOMAIN s = 1 .. Len(s) /\ \A i \in 1 .. Len(s) : s[i] \in S
      /\ DOMAIN t = 1 .. Len(s) - 1 /\ Head(s) = s[1]
      /\ \A i \in 1 .. Len(s) - 1 : t[i] = s[i + 1]
  OBVIOUS
<1>2. u = [i \in 1 .. Len(s) |-> Carries(s[i])]
  BY <1>1 DEF Carried
<1>3. u \in [1 .. Len(s) -> Int]
  BY <1>1, <1>2
<1>4. u \in Seq(Int) /\ Len(u) = Len(s) /\ u # << >>
  BY <1>1, <1>3, SeqDef, LenProperties
<1>5. Head(u) = Carries(Head(s))
  BY <1>1, <1>2, <1>4
<1> HIDE DEF u, t
<1>6. v = [i \in 1 .. Len(s) - 1 |-> u[i + 1]]
  <2>1. v \in Seq(Int) /\ Len(v) = Len(s) - 1 /\ DOMAIN v = 1 .. Len(s) - 1
    BY <1>1, <1>4
  <2>2. \A i \in 1 .. Len(s) - 1 : v[i] = u[i + 1]
    BY <1>1, <1>4
  <2> HIDE DEF v
  <2>3. v = [i \in DOMAIN v |-> v[i]]
    BY <2>1
  <2> QED BY <2>1, <2>2, <2>3
<1>7. Carried(t) = [i \in 1 .. Len(s) - 1 |-> Carries(t[i])]
  BY <1>1 DEF Carried
<1>8. \A i \in 1 .. Len(s) - 1 : Carries(t[i]) = u[i + 1]
  BY <1>1, <1>2
<1>9. Carried(t) = v
  BY <1>6, <1>7, <1>8
<1> QED BY <1>4, <1>5, <1>9 DEF u, t

LEMMA SigsCarry == ASSUME Typed PROVE \A y \in Sigs : Carries(y) \in 0 .. broadcasts
  BY DEF Sigs, Carries, Typed, RestTyped

LEMMA PendingFacts ==
    ASSUME Typed
    PROVE  /\ Pending \in Seq(Int) /\ Sent(Pending) \subseteq 1 .. broadcasts
           /\ Pending = Carried(control) /\ Pending' = Carried(control')
<1>1. control \in Seq(Sigs) /\ \A y \in Sigs : Carries(y) \in 0 .. broadcasts
  BY SigsCarry DEF Typed, ControlOK
<1>2. Pending = Carried(control) /\ Pending' = Carried(control')
  BY DEF Pending, Carried, Carries
<1>3. Carried(control) = [i \in 1 .. Len(control) |-> Carries(control[i])]
      /\ Len(control) \in Nat /\ \A i \in 1 .. Len(control) : control[i] \in Sigs
  BY <1>1 DEF Carried
<1>4. Carried(control) \in [1 .. Len(control) -> 0 .. broadcasts]
  BY <1>1, <1>3
<1>5. Carried(control) \in Seq(0 .. broadcasts)
  BY <1>3, <1>4, SeqDef
<1> DEFINE w == Carried(control)
<1> HIDE DEF w
<1>6. w \in Seq(0 .. broadcasts) /\ w \in Seq(Int)
  <2>1. 0 .. broadcasts \subseteq Int
    OBVIOUS
  <2> QED BY <1>5, <2>1, SeqMonotonic DEF w
<1>7. Sent(w) \subseteq 1 .. broadcasts
  <2>1. \A i \in DOMAIN w : w[i] \in 0 .. broadcasts
    <3> DEFINE V == 0 .. broadcasts
    <3>1. w \in Seq(V)
      BY <1>6
    <3> HIDE DEF V
    <3>2. \A i \in DOMAIN w : w[i] \in V
      BY <3>1
    <3> QED BY <3>2 DEF V
  <2>2. \A x \in 0 .. broadcasts : x # Reply => x \in 1 .. broadcasts
    OBVIOUS
  <2> QED BY <2>1, <2>2 DEF Sent, ToSet
<1> QED BY <1>2, <1>6, <1>7 DEF w

\* A signal that carries no broadcast is posted.
LEMMA PendingPost ==
    ASSUME Typed, NEW x, Carries(x) \in Int, control' = Append(control, x)
    PROVE  /\ Sent(Pending') = Sent(Pending) \cup ({Carries(x)} \ {Reply})
           /\ Ordered(Pending') <=> Ordered(Pending)
                                      /\ Before(Sent(Pending), {Carries(x)} \ {Reply})
<1>1. /\ control \in Seq(Sigs) /\ \A y \in Sigs : Carries(y) \in Int
  BY SigsCarry DEF Typed, ControlOK
<1>2. Carried(control') = Append(Carried(control), Carries(x)) /\ Carried(control) \in Seq(Int)
  BY <1>1, CarriedAppend
<1>3. Pending' = Append(Pending, Carries(x)) /\ Pending \in Seq(Int)
  BY <1>2, PendingFacts
<1> QED BY <1>3, LastFacts

LEMMA PendingStep ==
    ASSUME Typed, [Next]_vars
    PROVE  \/ /\ ~DispatchBroadcast /\ broadcasts' = broadcasts /\ dispatched' = dispatched
              /\ Sent(Pending') = Sent(Pending) /\ (Ordered(Pending) => Ordered(Pending'))
           \/ /\ ~DispatchBroadcast /\ broadcasts' = broadcasts + 1 /\ dispatched' = dispatched
              /\ UNCHANGED <<conn, peers>>
              /\ Sent(Pending') = Sent(Pending) \cup {broadcasts + 1}
              /\ Ordered(Pending) => Ordered(Pending')
           \/ /\ DispatchBroadcast /\ broadcasts' = broadcasts /\ dispatched' = dispatched + 1
              /\ Arg \in 1 .. broadcasts
              /\ Sent(Pending) = {Arg} \cup Sent(Pending')
              /\ Ordered(Pending) => Ordered(Pending') /\ Before({Arg}, Sent(Pending'))
<1>0. broadcasts \in Nat /\ control \in Seq(Sigs) /\ \A y \in Sigs : Carries(y) \in 0 .. broadcasts
  BY SigsCarry DEF Typed, RestTyped, ControlOK
<1>1. ~DispatchBroadcast => dispatched' = dispatched
  BY DEF Next, Dispatch, DispatchGetNewPeer, DispatchConnected, DispatchRefused,
     DispatchDroppedPeer, Broadcast, Connect, Work, AcceptFails, RemoteConnects, Accept, Writer,
     Reader, Remote, WriterTakes, WriterWrites, WriterReports, WriterStarves, ReaderReads,
     ReaderEnds, RemoteSends, RemoteCloses, vars, aux
<1>2. DispatchBroadcast => dispatched' = dispatched + 1
  BY DEF DispatchBroadcast
<1>3. CASE Dispatch
  <2>1. control # << >> /\ control' = Tail(control) /\ broadcasts' = broadcasts
    BY <1>3 DEF Dispatch, DispatchGetNewPeer, DispatchConnected, DispatchRefused,
       DispatchBroadcast, DispatchDroppedPeer, Next1
  <2> DEFINE k == Carries(Head(control))
  <2>2. /\ Pending \in Seq(Int) /\ Pending # << >> /\ Head(Pending) = k /\ Tail(Pending) = Pending'
    <3>1. \A y \in Sigs : Carries(y) \in Int
      BY <1>0
    <3>2. /\ Carried(control) \in Seq(Int) /\ Carried(control) # << >>
          /\ Head(Carried(control)) = Carries(Head(control))
          /\ Tail(Carried(control)) = Carried(Tail(control))
      BY <1>0, <2>1, <3>1, CarriedTail
    <3> QED BY <2>1, <3>2, PendingFacts
  <2>3. /\ Sent(Pending) = ({k} \ {Reply}) \cup Sent(Pending')
        /\ Ordered(Pending) <=> Ordered(Pending') /\ Before({k} \ {Reply}, Sent(Pending'))
    BY <2>2, HeadTailFacts
  <2>4. CASE DispatchBroadcast
    <3>1. Head(control).type = "BroadcastMessage" /\ Head(control) \in Sigs
      BY <2>4, HeadFacts DEF DispatchBroadcast
    <3>2. k = Arg /\ Arg \in 1 .. broadcasts
      BY <3>1 DEF Carries, Arg, Sigs
    <3>3. {k} \ {Reply} = {Arg}
      BY <3>2
    <3> QED BY <1>2, <2>1, <2>3, <2>4, <3>2, <3>3
  <2>5. CASE ~DispatchBroadcast
    <3>1. Head(control).type # "BroadcastMessage"
      BY <1>3, <2>5 DEF Dispatch, DispatchGetNewPeer, DispatchConnected, DispatchRefused,
         DispatchDroppedPeer, Next1
    <3>2. {k} \ {Reply} = {}
      BY <3>1 DEF Carries
    <3> QED BY <1>1, <2>1, <2>3, <2>5, <3>2
  <2> QED BY <1>1, <1>2, <2>4, <2>5
<1>4. CASE ~Dispatch
  <2>0. ~DispatchBroadcast
    BY <1>4 DEF Dispatch
  <2>1. CASE control' = control
    <3>1. broadcasts' = broadcasts
      <4>1. CASE Broadcast /\ open
        <5>1. Len(control') = Len(control) + 1 /\ Len(control) \in Nat
          BY <1>0, <4>1 DEF Broadcast, Post
        <5> QED BY <2>1, <5>1
      <4>2. CASE ~(Broadcast /\ open)
        BY <1>4, <4>2 DEF Next, Broadcast, Connect, Work, AcceptFails, RemoteConnects, Accept, Writer, Reader,
           Remote, WriterTakes, WriterWrites, WriterReports, WriterStarves, ReaderReads,
           ReaderEnds, RemoteSends, RemoteCloses, vars
      <4> QED BY <4>1, <4>2
    <3>2. Pending' = Pending
      BY <2>1, PendingFacts
    <3> QED BY <1>1, <2>0, <3>1, <3>2
  <2>2. CASE Broadcast /\ open
    <3> DEFINE x == Signal("BroadcastMessage", broadcasts + 1)
    <3>1. control' = Append(control, x) /\ broadcasts' = broadcasts + 1 /\ UNCHANGED <<conn, peers>>
      BY <2>2 DEF Broadcast, Post
    <3>2. Carries(x) = broadcasts + 1 /\ Carries(x) \in Int /\ {Carries(x)} \ {Reply} = {broadcasts + 1}
      BY <1>0 DEF Carries, Signal
    <3> HIDE DEF x
    <3>3. /\ Sent(Pending') = Sent(Pending) \cup ({Carries(x)} \ {Reply})
          /\ Ordered(Pending') <=> Ordered(Pending)
                                     /\ Before(Sent(Pending), {Carries(x)} \ {Reply})
      BY <3>1, <3>2, PendingPost
    <3>4. Before(Sent(Pending), {broadcasts + 1})
      BY <1>0, PendingFacts DEF Before
    <3> QED BY <1>1, <2>0, <3>1, <3>2, <3>3, <3>4
  <2>3. CASE control' # control /\ ~(Broadcast /\ open)
    <3>1. broadcasts' = broadcasts
      BY <1>4, <2>3 DEF Next, Broadcast, Connect, Work, AcceptFails, RemoteConnects, Accept, Writer, Reader,
           Remote, WriterTakes, WriterWrites, WriterReports, WriterStarves, ReaderReads,
           ReaderEnds, RemoteSends, RemoteCloses, vars
    <3>2. \E type \in {"GetNewPeer", "ConnectNewPeer", "DroppedPeer"} :
             \E arg : control' = Append(control, Signal(type, arg))
      BY <1>4, <2>3 DEF Next, Broadcast, Connect, Work, AcceptFails, RemoteConnects, Accept, Writer, Reader,
           Remote, WriterTakes, WriterWrites, WriterReports, WriterStarves, ReaderReads,
           ReaderEnds, RemoteSends, RemoteCloses, vars, Post
    <3>3. PICK type, arg : /\ type \in {"GetNewPeer", "ConnectNewPeer", "DroppedPeer"}
                           /\ control' = Append(control, Signal(type, arg))
      BY <3>2
    <3> DEFINE x == Signal(type, arg)
    <3>4. Carries(x) \in Int /\ {Carries(x)} \ {Reply} = {}
      BY <3>3 DEF Carries, Signal
    <3>5. control' = Append(control, x)
      BY <3>3
    <3> HIDE DEF x
    <3>6. /\ Sent(Pending') = Sent(Pending) \cup ({Carries(x)} \ {Reply})
          /\ Ordered(Pending') <=> Ordered(Pending)
                                     /\ Before(Sent(Pending), {Carries(x)} \ {Reply})
      BY <3>4, <3>5, PendingPost
    <3>7. Before(Sent(Pending), {})
      BY DEF Before
    <3> QED BY <1>1, <2>0, <3>1, <3>4, <3>6, <3>7
  <2> QED BY <2>1, <2>2, <2>3
<1> QED BY <1>3, <1>4

-----------------------------------------------------------------------------
(* The broadcasts on their way. *)

\* As After, for any number of broadcasts.
Reaches(s, k, b) == Ordered(s) /\ \E n \in k .. b : Sent(s) = k + 1 .. n

\* Where a connection's broadcasts begin, and that those dispatched since are on it.
Follows(c) ==
    /\ c \in DOMAIN since /\ since[c] \in 0 .. dispatched
    /\ Reaches(conn[c].got, since[c], broadcasts)
    /\ conn[c].link = "open" => Reaches(Stream(conn[c]), since[c], broadcasts)
    /\ conn[c].link = "open" /\ Listed(c)
         => Sent(Stream(conn[c])) = since[c] + 1 .. dispatched

Streams ==
    /\ dispatched \in 0 .. broadcasts
    /\ Ordered(Pending) /\ Sent(Pending) = dispatched + 1 .. broadcasts
    /\ \A c \in Conns : Registered(c) => Follows(c)

LEMMA ListedBefore ==
    ASSUME Typed, [Next]_vars, NEW c \in Conns, Listed(c)' PROVE Listed(c) \/ Registers(c)
<1>1. conn'[c].addr = conn[c].addr
  BY NextTyped DEF Evolves
<1>2. conn[c].addr \in DOMAIN peers' /\ peers'[conn[c].addr] = c
  BY <1>1 DEF Listed
<1>3. CASE peers' = peers
  BY <1>2, <1>3 DEF Listed
<1>4. ASSUME NEW e \in Conns, Registers(e), peers' = Enlist(conn[e].addr, e)
      PROVE  Listed(c) \/ Registers(c)
  <2>1. CASE conn[e].addr = conn[c].addr
    BY <1>2, <1>4, <2>1, EnlistFacts
  <2>2. CASE conn[e].addr # conn[c].addr
    BY <1>2, <1>4, <2>2, EnlistFacts DEF Listed
  <2> QED BY <2>1, <2>2
<1>5. CASE peers' = Enlist(Arg, Len(conn) + 1)
  <2>1. Len(conn) + 1 # c
    BY DEF Conns, Typed
  <2>2. Arg # conn[c].addr
    BY <1>2, <1>5, <2>1, EnlistFacts
  <2> QED BY <1>2, <1>5, <2>2, EnlistFacts DEF Listed
<1>6. CASE peers' = Without(Arg)
  BY <1>2, <1>6, WithoutFacts DEF Listed
<1> QED BY <1>3, <1>4, <1>5, <1>6, PeersStep

LEMMA StreamMoves ==
    ASSUME Typed, [Next]_vars, NEW c \in Conns, conn'[c].link = "open",
           conn[c].link = "open" => Ordered(Stream(conn[c]))
    PROVE  /\ conn[c].link = "open"
           /\ \/ /\ ~(DispatchBroadcast /\ Listed(c))
                 /\ Sent(Stream(conn'[c])) = Sent(Stream(conn[c])) /\ Ordered(Stream(conn'[c]))
              \/ /\ DispatchBroadcast /\ Listed(c)
                 /\ Sent(Stream(conn'[c])) = Sent(Stream(conn[c])) \cup {Arg}
                 /\ Before(Sent(Stream(conn[c])), {Arg}) => Ordered(Stream(conn'[c]))
<1> DEFINE q == conn[c]
           r == conn'[c]
<1>1. q \in Connections /\ Sound(q)
  BY ConnFacts
<1>2. q.link = "open" => Ordered(Stream(q)) /\ q.writer # "ended"
  BY <1>1 DEF Sound
<1>3. CASE Same(q, r) /\ ~(DispatchBroadcast /\ Listed(c))
  <2>1. Stream(r) = Stream(q) /\ q.link = "open"
    BY <1>3 DEF Same, Stream, InHand
  <2> QED BY <1>2, <1>3, <2>1
<1>4. CASE r = Taken(q) /\ q.writer = "idle" /\ q.queue # << >> /\ ~(DispatchBroadcast /\ Listed(c))
  <2>1. q.link = "open"
    BY <1>1, <1>4, TakenRec
  <2> QED BY <1>1, <1>2, <1>4, <2>1, TakenStream
<1>5. CASE r = Written(q) /\ q.writer = "busy" /\ ~(DispatchBroadcast /\ Listed(c))
  <2>1. q.link = "open"
    BY <1>1, <1>5, WrittenRec
  <2>2. Ordered(Stream(r)) /\ Sent(Stream(r)) = Sent(Stream(q))
    BY <1>1, <1>2, <1>5, <2>1, WrittenStream
  <2> QED BY <1>5, <2>1, <2>2
<1>6. CASE r = Finished(q) /\ q.writer = "failed"
  BY <1>1, <1>6, FinishedRec
<1>7. CASE r = Enqueue(q, Reply) /\ Registered(c) /\ ~DispatchBroadcast
  <2>1. q.reader \in {"runs", "ended"} /\ Reply \in Values
    BY <1>7 DEF Registered, Values, Typed, RestTyped
  <2>2. q.link = "open"
    BY <1>1, <1>7, <2>1, EnqueueRec
  <2>3. /\ Sent(Stream(Enqueue(q, Reply))) = Sent(Stream(q)) \cup ({Reply} \ {Reply})
        /\ Ordered(Stream(Enqueue(q, Reply)))
             <=> Ordered(Stream(q)) /\ Before(Sent(Stream(q)), {Reply} \ {Reply})
    BY <1>1, <1>2, <2>1, <2>2, EnqueueStream
  <2>4. Before(Sent(Stream(q)), {Reply} \ {Reply}) /\ {Reply} \ {Reply} = {}
    BY DEF Before
  <2> QED BY <1>2, <1>7, <2>2, <2>3, <2>4
<1>8. CASE DispatchBroadcast /\ Listed(c)
  <2>1. r = Enqueue(q, Arg)
    BY <1>8 DEF DispatchBroadcast
  <2>2. q.reader \in {"runs", "ended"}
    BY <1>8 DEF Listed, Typed, PeersTyped, Registered
  <2>3. Arg \in Values /\ Arg # Reply
    <3>1. Head(control) \in Sigs /\ Head(control).type = "BroadcastMessage"
      BY <1>8, HeadFacts DEF DispatchBroadcast
    <3> QED BY <3>1 DEF Sigs, Arg, Values, Typed, RestTyped
  <2>4. q.link = "open"
    BY <1>1, <2>1, <2>2, <2>3, EnqueueRec
  <2> DEFINE m == Arg
  <2>5. m \in Values /\ {m} \ {Reply} = {m}
    BY <2>3
  <2> HIDE DEF m
  <2>6. /\ Sent(Stream(Enqueue(q, m))) = Sent(Stream(q)) \cup ({m} \ {Reply})
        /\ Ordered(Stream(Enqueue(q, m)))
             <=> Ordered(Stream(q)) /\ Before(Sent(Stream(q)), {m} \ {Reply})
    BY <1>1, <1>2, <2>2, <2>4, <2>5, EnqueueStream
  <2> QED BY <1>2, <1>8, <2>1, <2>4, <2>5, <2>6 DEF m
<1> QED BY <1>3, <1>4, <1>5, <1>6, <1>7, <1>8, ConnStep DEF Moves

\* What comes next after k + 1 .. g in k + 1 .. n is g + 1.
LEMMA NextOne ==
    ASSUME NEW k \in Nat, NEW n \in Int, NEW g \in Int, g >= k, NEW h \in Int, NEW Q,
           Before(k + 1 .. g, {h}), Before((k + 1 .. g) \cup {h}, Q),
           (k + 1 .. g) \cup {h} \cup Q = k + 1 .. n
    PROVE  (k + 1 .. g) \cup {h} = k + 1 .. g + 1 /\ g + 1 \in k .. n
<1>1. h \in k + 1 .. n
  OBVIOUS
<1>2. h >= g + 1
  BY <1>1 DEF Before
<1>3. g + 1 \in k + 1 .. n
  BY <1>1, <1>2
<1>4. g + 1 \notin k + 1 .. g
  OBVIOUS
<1>5. g + 1 \notin Q
  <2> SUFFICES ASSUME g + 1 \in Q PROVE FALSE
    OBVIOUS
  <2>1. h < g + 1
    BY DEF Before
  <2> QED BY <1>2, <2>1
<1>6. h = g + 1
  BY <1>3, <1>4, <1>5
<1> QED BY <1>3, <1>6

LEMMA GotMoves ==
    ASSUME Typed, [Next]_vars, NEW c \in Conns, NEW k \in Nat,
           Reaches(conn[c].got, k, broadcasts),
           conn[c].link = "open" => Reaches(Stream(conn[c]), k, broadcasts)
    PROVE  Reaches(conn'[c].got, k, broadcasts)
<1> DEFINE q == conn[c]
           r == conn'[c]
<1>1. q \in Connections /\ Sound(q) /\ broadcasts \in Nat
  BY ConnFacts DEF Typed, RestTyped
<1>2. CASE Same(q, r)
  BY <1>2 DEF Same
<1>3. CASE r = Taken(q) /\ q.writer = "idle" /\ q.queue # << >>
  BY <1>1, <1>3, TakenRec
<1>4. CASE r = Written(q) /\ q.writer = "busy"
  <2>1. CASE q.link = "open"
    <3>1. Ordered(Stream(q))
      BY <2>1 DEF Reaches
    <3>2. Ordered(r.got) /\ Sent(r.got) = Sent(q.got) \cup Held(q)
      BY <1>1, <1>4, <2>1, <3>1, WrittenStream
    <3>3. /\ Sent(Stream(q)) = Sent(q.got) \cup Held(q) \cup Sent(q.queue)
          /\ Before(Sent(q.got), Held(q)) /\ Before(Sent(q.got) \cup Held(q), Sent(q.queue))
          /\ Held(q) \subseteq 1 .. broadcasts
      BY <1>1, <3>1, StreamFacts
    <3>4. PICK g \in k .. broadcasts : Sent(q.got) = k + 1 .. g
      BY DEF Reaches
    <3>5. PICK n \in k .. broadcasts : Sent(Stream(q)) = k + 1 .. n
      BY <2>1 DEF Reaches
    <3>6. CASE Held(q) = {}
      BY <3>2, <3>4, <3>6 DEF Reaches
    <3>7. CASE Held(q) # {}
      <4> DEFINE h == q.hand
                 Q == Sent(q.queue)
      <4>1. Held(q) = {h} /\ h \in Int
        BY <3>3, <3>7 DEF Held
      <4>2. /\ (k + 1 .. g) \cup {h} \cup Q = k + 1 .. n
            /\ Before(k + 1 .. g, {h}) /\ Before((k + 1 .. g) \cup {h}, Q)
        BY <3>3, <3>4, <3>5, <4>1
      <4> HIDE DEF h, Q
      <4>3. (k + 1 .. g) \cup {h} = k + 1 .. g + 1 /\ g + 1 \in k .. n
        <5>1. n \in Int /\ g \in Int /\ g >= k
          BY <1>1
        <5> QED BY <4>1, <4>2, <5>1, NextOne
      <4>4. Sent(r.got) = k + 1 .. g + 1 /\ g + 1 \in k .. broadcasts
        BY <1>1, <3>2, <3>4, <4>1, <4>3
      <4> QED BY <3>2, <4>4 DEF Reaches
    <3> QED BY <3>6, <3>7
  <2>2. CASE q.link # "open"
    <3>1. Written(q).got = IF q.link = "open" THEN q.got \o <<q.hand>> ELSE q.got
      BY <1>1, <1>4, WrittenRec
    <3>2. r.got = q.got
      BY <1>4, <2>2, <3>1
    <3> QED BY <3>2
  <2> QED BY <2>1, <2>2
<1>5. CASE r = Finished(q) /\ q.writer = "failed"
  BY <1>1, <1>5, FinishedRec
<1>6. ASSUME NEW m, r = Enqueue(q, m)
      PROVE  Reaches(r.got, k, broadcasts)
  <2>1. r.got = q.got
    BY <1>1, <1>6 DEF Enqueue, Connections, ConnRecs
  <2> QED BY <2>1
<1> QED BY <1>2, <1>3, <1>4, <1>5, <1>6, ConnStep DEF Moves

\* A connection on which nothing was sent.
LEMMA EmptyStream ==
    ASSUME NEW r, r.got = << >>, r.queue = << >>, r.hand = None
    PROVE  /\ Sent(Stream(r)) = {} /\ Ordered(Stream(r))
           /\ Sent(r.got) = {} /\ Ordered(r.got)
<1>1. 0 \in Int
  OBVIOUS
<1>2. Sent(<< >>) = {} /\ Ordered(<< >>)
  BY <1>1, OneFacts
<1>3. Stream(r) = << >>
  BY DEF Stream, InHand
<1> QED BY <1>2, <1>3

\* A connection that is registered starts with what is dispatched next; one that was
\* registered keeps its start.
LEMMA SinceStep ==
    ASSUME Typed, [Next]_vars, NEW c \in Conns, Registered(c), c \in DOMAIN since
    PROVE  c \in DOMAIN since' /\ since'[c] = since[c]
<1>1. CASE since' = since
  BY <1>1
<1>2. ASSUME NEW e, e # c, since' = SinceNow(e)
      PROVE  c \in DOMAIN since' /\ since'[c] = since[c]
  BY <1>2 DEF SinceNow
<1>3. CASE DispatchGetNewPeer
  <2>1. Arg \in Conns /\ conn[Arg].reader = "accepted"
    BY <1>3, HeadFacts DEF DispatchGetNewPeer, Sigs, Arg, Typed, ControlOK
  <2>2. Arg # c
    BY <2>1 DEF Registered
  <2> QED BY <1>1, <1>2, <1>3, <2>2 DEF DispatchGetNewPeer
<1>4. CASE DispatchConnected
  <2>1. Len(conn) + 1 # c
    BY DEF Conns, Typed
  <2> QED BY <1>2, <1>4, <2>1 DEF DispatchConnected
<1>5. CASE ~DispatchGetNewPeer /\ ~DispatchConnected
  <2>1. since' = since
    BY <1>5 DEF Next, Dispatch, DispatchRefused, DispatchBroadcast, DispatchDroppedPeer,
       Broadcast, Connect, Work, AcceptFails, RemoteConnects, Accept, Writer, Reader, Remote,
       WriterTakes, WriterWrites, WriterReports, WriterStarves, ReaderReads, ReaderEnds,
       RemoteSends, RemoteCloses, vars, aux
  <2> QED BY <1>1, <2>1
<1> QED BY <1>3, <1>4, <1>5

LEMMA SinceNowFacts ==
    ASSUME NEW c, since' = SinceNow(c) PROVE c \in DOMAIN since' /\ since'[c] = dispatched
  BY DEF SinceNow

LEMMA StartStep ==
    ASSUME Typed, [Next]_vars, NEW c \in Conns', Registered(c)', ~(c \in Conns /\ Registered(c))
    PROVE  /\ c \in DOMAIN since' /\ since'[c] = dispatched
           /\ ~DispatchBroadcast
           /\ conn'[c].got = << >> /\ conn'[c].queue = << >> /\ conn'[c].hand = None
<1>1. CASE c \in Conns
  <2>1. Registers(c)
    BY <1>1, ConnStep
  <2>2. /\ DispatchGetNewPeer /\ c = Arg /\ since' = SinceNow(c)
        /\ conn' = [conn EXCEPT ![c] = Started(conn[c])]
    BY <2>1 DEF Registers, DispatchGetNewPeer
  <2>3. conn[c].reader = "accepted"
    BY <2>2, HeadFacts DEF DispatchGetNewPeer, Arg, Typed, ControlOK
  <2>4. conn[c].got = << >> /\ conn[c].queue = << >> /\ conn[c].hand = None
    BY <1>1, <2>3, ConnFacts DEF Sound
  <2> DEFINE r == Started(conn[c])
  <2>5. r.got = << >> /\ r.queue = << >> /\ r.hand = None
    BY <1>1, <2>3, <2>4, StartedRec, ConnFacts
  <2> HIDE DEF r
  <2>6. conn'[c] = r
    BY <1>1, <2>2, EditFacts DEF r
  <2>7. ~DispatchBroadcast
    BY <2>2 DEF DispatchGetNewPeer, DispatchBroadcast, Next1
  <2> QED BY <2>2, <2>5, <2>6, <2>7, SinceNowFacts
<1>2. CASE c \notin Conns
  <2>1. /\ c = Len(conn) + 1 /\ DispatchConnected
        /\ conn'[c].got = << >> /\ conn'[c].queue = << >> /\ conn'[c].hand = None
    BY <1>2, NewStep DEF Registered
  <2>2. since' = SinceNow(c)
    BY <2>1 DEF DispatchConnected
  <2>3. ~DispatchBroadcast
    BY <2>1 DEF DispatchConnected, DispatchBroadcast, Next1
  <2> QED BY <2>1, <2>2, <2>3, SinceNowFacts
<1> QED BY <1>1, <1>2

\* The channel holds what is not dispatched yet.
LEMMA PendingStreams ==
    ASSUME Typed, [Next]_vars, Streams
    PROVE  /\ dispatched' \in 0 .. broadcasts' /\ dispatched' >= dispatched
           /\ Ordered(Pending') /\ Sent(Pending') = dispatched' + 1 .. broadcasts'
           /\ DispatchBroadcast => Arg = dispatched + 1 /\ dispatched' = dispatched + 1
           /\ ~DispatchBroadcast => dispatched' = dispatched
<1> DEFINE P == Sent(Pending)
           Q == Sent(Pending')
<1>1. broadcasts \in Nat /\ dispatched \in 0 .. broadcasts /\ Ordered(Pending)
      /\ P = dispatched + 1 .. broadcasts
  BY DEF Streams, Typed, RestTyped
<1>2. CASE ~DispatchBroadcast /\ broadcasts' = broadcasts /\ dispatched' = dispatched
           /\ Q = P /\ (Ordered(Pending) => Ordered(Pending'))
  BY <1>1, <1>2
<1>3. CASE ~DispatchBroadcast /\ broadcasts' = broadcasts + 1 /\ dispatched' = dispatched
           /\ Q = P \cup {broadcasts + 1} /\ (Ordered(Pending) => Ordered(Pending'))
  BY <1>1, <1>3
<1>4. CASE /\ DispatchBroadcast /\ broadcasts' = broadcasts /\ dispatched' = dispatched + 1
           /\ Arg \in 1 .. broadcasts /\ P = {Arg} \cup Q
           /\ Ordered(Pending) => Ordered(Pending') /\ Before({Arg}, Q)
  <2> DEFINE m == Arg
  <2>1. m \in 1 .. broadcasts /\ {m} \cup Q = dispatched + 1 .. broadcasts /\ Before({m}, Q)
    BY <1>1, <1>4
  <2> HIDE DEF m, P, Q
  <2>2. m >= dispatched + 1 /\ dispatched + 1 \in {m} \cup Q
    BY <1>1, <2>1
  <2>3. m = dispatched + 1
    BY <1>1, <2>1, <2>2 DEF Before
  <2>4. m \notin Q
    BY <2>1 DEF Before
  <2>5. Q = dispatched + 2 .. broadcasts
    <3>1. Q = ({m} \cup Q) \ {m}
      BY <2>4
    <3>2. Q = (dispatched + 1 .. broadcasts) \ {dispatched + 1}
      BY <2>1, <2>3, <3>1
    <3> QED BY <1>1, <3>2
  <2> QED BY <1>1, <1>4, <2>1, <2>3, <2>5 DEF m, Q
<1> QED BY <1>2, <1>3, <1>4, PendingStep

\* One more broadcast made, nothing else changed.
LEMMA ReachesMore ==
    ASSUME NEW s, NEW k \in Nat, NEW b \in Nat, NEW d \in Nat, b <= d, Reaches(s, k, b)
    PROVE  Reaches(s, k, d)
  BY DEF Reaches

LEMMA FollowsStep ==
    ASSUME Typed, [Next]_vars, Streams, NEW c \in Conns', Registered(c)'
    PROVE  Follows(c)'
<1>0. /\ broadcasts \in Nat /\ broadcasts' \in Nat /\ broadcasts <= broadcasts'
      /\ dispatched \in 0 .. broadcasts
  BY NextTyped DEF Streams, Typed, RestTyped, Evolves
<1>1. /\ dispatched' \in 0 .. broadcasts' /\ dispatched' >= dispatched
      /\ DispatchBroadcast => Arg = dispatched + 1 /\ dispatched' = dispatched + 1
      /\ ~DispatchBroadcast => dispatched' = dispatched
  BY PendingStreams
<1>2. CASE ~(c \in Conns /\ Registered(c))
  <2>1. c \in DOMAIN since' /\ since'[c] = dispatched /\ ~DispatchBroadcast
    BY <1>2, StartStep
  <2>2. /\ Sent(Stream(conn'[c])) = {} /\ Ordered(Stream(conn'[c]))
        /\ Sent(conn'[c].got) = {} /\ Ordered(conn'[c].got)
    BY <1>2, StartStep, EmptyStream
  <2>3. {} = dispatched + 1 .. dispatched /\ dispatched \in dispatched .. broadcasts'
    BY <1>0
  <2>4. Reaches(Stream(conn'[c]), since'[c], broadcasts')
        /\ Reaches(conn'[c].got, since'[c], broadcasts')
    BY <2>1, <2>2, <2>3 DEF Reaches
  <2> QED BY <1>0, <1>1, <2>1, <2>2, <2>3, <2>4 DEF Follows
<1>3. CASE c \in Conns /\ Registered(c)
  <2> DEFINE k == since[c]
  <2>1. /\ c \in DOMAIN since /\ k \in 0 .. dispatched
        /\ Reaches(conn[c].got, k, broadcasts)
        /\ conn[c].link = "open" => Reaches(Stream(conn[c]), k, broadcasts)
        /\ conn[c].link = "open" /\ Listed(c) => Sent(Stream(conn[c])) = k + 1 .. dispatched
    BY <1>3 DEF Streams, Follows
  <2>2. c \in DOMAIN since' /\ since'[c] = k
    BY <1>3, <2>1, SinceStep
  <2> HIDE DEF k
  <2>3. k \in Nat /\ k \in 0 .. dispatched'
    BY <1>0, <1>1, <2>1
  <2>4. Reaches(conn'[c].got, k, broadcasts')
    BY <1>0, <1>3, <2>1, <2>3, GotMoves, ReachesMore
  <2>5. conn[c].link = "open" => Ordered(Stream(conn[c]))
    BY <2>1 DEF Reaches
  <2>6. ASSUME conn'[c].link = "open"
        PROVE  /\ Reaches(Stream(conn'[c]), k, broadcasts')
               /\ Listed(c)' => Sent(Stream(conn'[c])) = k + 1 .. dispatched'
    <3> DEFINE A == Sent(Stream(conn[c]))
               B == Sent(Stream(conn'[c]))
    <3>1. conn[c].link = "open"
      BY <1>3, <2>5, <2>6, StreamMoves
    <3>2. Listed(c)' => Listed(c)
      <4>1. ~Registers(c)
        <5>1. Registers(c) => conn[c].reader = "accepted"
          BY HeadFacts DEF Registers, DispatchGetNewPeer, Arg, Typed, ControlOK
        <5> QED BY <1>3, <5>1 DEF Registered
      <4> QED BY <1>3, <4>1, ListedBefore
    <3>3. CASE DispatchBroadcast /\ Listed(c)
      <4>1. B = A \cup {Arg} /\ (Before(A, {Arg}) => Ordered(Stream(conn'[c])))
        BY <1>3, <2>5, <2>6, <3>3, StreamMoves
      <4>2. A = k + 1 .. dispatched /\ Arg = dispatched + 1 /\ dispatched' = dispatched + 1
        BY <1>1, <2>1, <3>1, <3>3
      <4> HIDE DEF A, B
      <4>3. Before(A, {Arg})
        BY <1>0, <2>3, <4>2 DEF Before
      <4>4. B = k + 1 .. dispatched' /\ dispatched' \in k .. broadcasts'
        BY <1>0, <1>1, <2>1, <2>3, <4>1, <4>2
      <4> QED BY <4>1, <4>3, <4>4 DEF Reaches, B
    <3>4. CASE ~(DispatchBroadcast /\ Listed(c))
      <4>1. B = A /\ Ordered(Stream(conn'[c]))
        BY <1>3, <2>5, <2>6, <3>4, StreamMoves
      <4>2. Reaches(Stream(conn'[c]), k, broadcasts)
        BY <2>1, <3>1, <4>1 DEF Reaches
      <4>3. Reaches(Stream(conn'[c]), k, broadcasts')
        BY <1>0, <2>3, <4>2, ReachesMore
      <4>4. ASSUME Listed(c)' PROVE B = k + 1 .. dispatched'
        <5>1. Listed(c) /\ ~DispatchBroadcast
          BY <3>2, <3>4, <4>4
        <5>2. dispatched' = dispatched
          BY <1>1, <5>1
        <5> QED BY <2>1, <3>1, <4>1, <5>1, <5>2
      <4> QED BY <4>3, <4>4
    <3> QED BY <3>3, <3>4
  <2> QED BY <2>2, <2>3, <2>4, <2>6 DEF Follows
<1> QED BY <1>2, <1>3

LEMMA StreamsStep ==
    ASSUME Typed, [Next]_vars, Streams PROVE Streams'
<1>1. dispatched' \in 0 .. broadcasts' /\ Ordered(Pending')
      /\ Sent(Pending') = dispatched' + 1 .. broadcasts'
  BY PendingStreams
<1>2. \A c \in Conns' : Registered(c)' => Follows(c)'
  BY FollowsStep
<1> QED BY <1>1, <1>2 DEF Streams

-----------------------------------------------------------------------------
(* The inductive invariant, and what follows from it. *)

Inv == /\ Typed /\ listening \in BOOLEAN
       /\ OneAtATime /\ RunningIsListed /\ EndedIsReported
       /\ OpenWhileRunning /\ ServerStops
       /\ Streams

LEMMA InvInit == ASSUME Init PROVE Inv
<1>1. Typed /\ listening \in BOOLEAN
  BY InitTyped DEF Init
<1>2. Conns = {} /\ executor = TRUE /\ open = TRUE
  BY DEF Init, Conns
<1>3. Pending = << >>
  BY DEF Init, Pending
<1>4. Ordered(Pending) /\ Sent(Pending) = {}
  <2>1. 0 \in Int
    OBVIOUS
  <2> QED BY <1>3, <2>1, OneFacts
<1>5. Streams
  <2>1. dispatched = 0 /\ broadcasts = 0
    BY DEF Init
  <2> QED BY <1>2, <1>4, <2>1 DEF Streams
<1> QED BY <1>1, <1>2, <1>5 DEF Inv, OneAtATime, RunningIsListed, EndedIsReported,
           OpenWhileRunning, ServerStops

LEMMA InvNext == ASSUME Inv, [Next]_vars PROVE Inv'
<1>1. Typed' /\ listening' \in BOOLEAN
  <2>1. listening' = listening \/ listening' = FALSE
    BY DEF Next, Dispatch, DispatchGetNewPeer, DispatchConnected, DispatchRefused,
       DispatchBroadcast, DispatchDroppedPeer, Broadcast, Connect, Work, AcceptFails,
       RemoteConnects, Accept, Writer, Reader, Remote, WriterTakes, WriterWrites, WriterReports,
       WriterStarves, ReaderReads, ReaderEnds, RemoteSends, RemoteCloses, vars
  <2> QED BY <2>1, NextTyped DEF Inv
<1>2. OneAtATime' /\ RunningIsListed'
  BY OneAtATimeStep, RunningIsListedStep DEF Inv
<1>3. EndedIsReported'
  BY EndedIsReportedStep DEF Inv
<1>4. OpenWhileRunning' /\ ServerStops'
  BY StopsStep DEF Inv
<1>5. Streams'
  BY StreamsStep DEF Inv
<1> QED BY <1>1, <1>2, <1>3, <1>4, <1>5 DEF Inv

LEMMA InvHolds == Spec => []Inv
<1>1. Init => Inv
  BY InvInit
<1>2. Inv /\ [Next]_vars => Inv'
  BY InvNext
<1> QED BY <1>1, <1>2, PTL DEF Spec

\* Every variable of the server stays in its range: the channels within their capacities, a
\* message in the writer's hand exactly while it writes, and an address of the registry
\* that of the connection it stands for (server.rs, Context and its tasks).
THEOREM TypesHold == Spec => []TypeOK
<1>1. Inv => TypeOK
  BY TypedGivesTypeOK DEF Inv
<1> QED BY <1>1, InvHolds, PTL

\* A connection that works is listed unless another one has its address, and an entry whose
\* writer ended has its removal in the control channel: dispatch's inserts and removals and
\* the writers' reports fit in every interleaving (server.rs, register and dispatch).
THEOREM RegistryFollows == Spec => []PeersFollowConnections
<1>1. ASSUME Inv PROVE PeersFollowConnections
  <2>1. ASSUME NEW c \in Conns, Registered(c), conn[c].link = "open"
        PROVE  Listed(c) \/ Superseded(c)
    <3>1. conn[c].writer # "ended"
      BY <1>1, <2>1, ConnFacts DEF Inv, Sound
    <3> QED BY <1>1, <2>1, <3>1 DEF Inv, RunningIsListed
  <2> QED BY <1>1, <2>1 DEF PeersFollowConnections, LiveIsListed, Inv
<1> QED BY <1>1, InvHolds, PTL

\* The executor's thread ends only by a connection that is reset before it is registered, by
\* two connections with one address, by the end of all workers, or by an accept that fails
\* (the unwraps and the errors of server.rs).
THEOREM OnlyTheseStop == Spec => []ServerStops
<1>1. Inv => ServerStops
  BY DEF Inv
<1> QED BY <1>1, InvHolds, PTL

\* What a remote reads of the broadcasts is those from its registration on, in order, each
\* once and none left out; all the others since then are in the writer's hand, queued, or in
\* the control channel (Handle::broadcast, dispatch, peer.rs Handle::write and the writers).
THEOREM BroadcastsKept == Spec => []NoBroadcastLost
<1>1. ASSUME Inv PROVE NoBroadcastLost
  <2> SUFFICES ASSUME NEW c \in Conns, Registered(c)
               PROVE  /\ After(conn[c].got, since[c])
                      /\ conn[c].link = "open" => After(Stream(conn[c]), since[c])
                      /\ (conn[c].link = "open" /\ ~Superseded(c))
                           => /\ Ordered(Stream(conn[c]) \o Pending)
                              /\ Sent(Stream(conn[c]) \o Pending) = since[c] + 1 .. broadcasts
    BY DEF NoBroadcastLost
  <2>1. Follows(c) /\ Ordered(Pending) /\ Sent(Pending) = dispatched + 1 .. broadcasts
        /\ dispatched \in 0 .. broadcasts
    BY <1>1 DEF Inv, Streams
  <2>2. /\ After(conn[c].got, since[c])
        /\ conn[c].link = "open" => After(Stream(conn[c]), since[c])
    BY <2>1 DEF Follows, Reaches, After
  <2>3. ASSUME conn[c].link = "open", ~Superseded(c)
        PROVE  /\ Ordered(Stream(conn[c]) \o Pending)
               /\ Sent(Stream(conn[c]) \o Pending) = since[c] + 1 .. broadcasts
    <3> DEFINE s == Stream(conn[c])
               t == Pending
               u == s \o t
               k == since[c]
    <3>1. conn[c].writer # "ended" /\ conn[c] \in Connections
      BY <1>1, <2>3, ConnFacts DEF Inv, Sound
    <3>2. Listed(c)
      BY <1>1, <2>3, <3>1 DEF Inv, RunningIsListed
    <3>3. s \in Seq(Int) /\ t \in Seq(Int) /\ broadcasts \in Nat
      BY <1>1, <3>1, StreamFacts, PendingFacts DEF Inv, Typed, RestTyped
    <3>4. /\ Ordered(s) /\ Ordered(t) /\ k \in 0 .. dispatched
          /\ Sent(s) = k + 1 .. dispatched /\ Sent(t) = dispatched + 1 .. broadcasts
      BY <2>1, <2>3, <3>2 DEF Follows, Reaches
    <3> HIDE DEF s, t, k
    <3>5. Before(Sent(s), Sent(t))
      BY <2>1, <3>3, <3>4 DEF Before
    <3>6. Sent(u) = Sent(s) \cup Sent(t) /\ Ordered(u)
      BY <3>3, <3>4, <3>5, CatFacts
    <3>7. Sent(u) = k + 1 .. broadcasts
      BY <2>1, <3>3, <3>4, <3>6
    <3> QED BY <3>6, <3>7 DEF s, t, k
  <2> QED BY <2>2, <2>3
<1> QED BY <1>1, InvHolds, PTL
=============================================================================
