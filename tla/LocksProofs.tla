---------------------------- MODULE LocksProofs ----------------------------
(***************************************************************************)
(* Safety of the locking of Locks.tla, for any set of threads in any roles, *)
(* any threads that may panic and any capacity of the control channel.     *)
(***************************************************************************)
EXTENDS Locks, TLAPS

\* A thread holds the first taken[t] mutexes of its order and no other; all of
\* them in its body, none while it waits for work or after it died.
HoldsPrefix ==
    /\ \A t \in Threads : taken[t] <= Len(LockOrder(t))
    /\ \A t \in Threads : phase[t] \in {"waiting", "dead", "returned"} => taken[t] = 0
    /\ \A t \in Threads : phase[t] = "body" => taken[t] = Len(LockOrder(t))
    /\ \A t \in Threads, l \in Mutexes :
          owner[l] = {t} <=> \E i \in 1 .. taken[t] : LockOrder(t)[i] = l

IInv == TypeOK /\ HoldsPrefix /\ PoisonIsTotal

-----------------------------------------------------------------------------
\* Every order is one to three distinct mutexes and begins with blockchain.
LEMMA OrderFacts ==
    ASSUME NEW t \in Threads
    PROVE  /\ Len(LockOrder(t)) \in 1 .. 3
           /\ LockOrder(t)[1] = Blockchain
           /\ \A i \in 1 .. Len(LockOrder(t)) : LockOrder(t)[i] \in Mutexes
           /\ \A i, j \in 1 .. Len(LockOrder(t)) :
                 LockOrder(t)[i] = LockOrder(t)[j] => i = j
<1> USE DEF LockOrder, Orders, Mutexes, Blockchain, Mempool, BlockState
<1>1. Role[t] \in Roles
  BY LocksAssumption
<1>2. CASE Role[t] = "worker"       BY <1>2
<1>3. CASE Role[t] = "miner"        BY <1>3
<1>4. CASE Role[t] = "miner_worker" BY <1>4
<1>5. CASE Role[t] = "generator"    BY <1>5
<1>6. CASE Role[t] = "api_chain"    BY <1>6
<1>7. CASE Role[t] = "api_state"    BY <1>7
<1> QED BY <1>1, <1>2, <1>3, <1>4, <1>5, <1>6, <1>7 DEF Roles

LEMMA SendsFacts == ASSUME NEW t \in Threads PROVE MaxSends(t) \in 0 .. 2
<1>1. Role[t] \in Roles
  BY LocksAssumption
<1> QED BY <1>1 DEF MaxSends, Roles

\* A holder is told by its singleton.
LEMMA Singletons ==
    ASSUME NEW t, NEW u
    PROVE  ({t} = {u} => t = u) /\ {t} # Free
BY DEF Free

\* What a thread that has some mutex has: blockchain.
LEMMA PrefixGate ==
    ASSUME TypeOK, HoldsPrefix, NEW t \in Threads
    PROVE  /\ taken[t] \in Nat
           /\ taken[t] > 0 <=> owner[Blockchain] = {t}
           /\ \A l \in Mutexes : owner[l] = {t} => owner[Blockchain] = {t}
<1>1. taken[t] \in Nat
  BY DEF TypeOK
<1>2. Blockchain \in Mutexes /\ LockOrder(t)[1] = Blockchain
  BY OrderFacts DEF Mutexes
<1>3. taken[t] > 0 => owner[Blockchain] = {t}
  BY <1>1, <1>2 DEF HoldsPrefix
<1>4. \A l \in Mutexes : owner[l] = {t} => taken[t] > 0
  BY <1>1 DEF HoldsPrefix
<1> QED BY <1>1, <1>2, <1>3, <1>4

\* The invariant gives the properties.
LEMMA PrefixGateHeld == TypeOK /\ HoldsPrefix => GateHeld
<1> SUFFICES ASSUME TypeOK, HoldsPrefix, NEW l \in Mutexes, owner[l] # Free
             PROVE  owner[Blockchain] = owner[l]
  BY DEF GateHeld
<1>1. PICK t \in Threads : owner[l] = {t}
  BY DEF TypeOK
<1> QED BY <1>1, PrefixGate

LEMMA PrefixOneBody == TypeOK /\ HoldsPrefix => OneBodyAtATime
<1> SUFFICES ASSUME TypeOK, HoldsPrefix, NEW t \in Threads, NEW u \in Threads,
                    phase[t] = "body", phase[u] = "body"
             PROVE  t = u
  BY DEF OneBodyAtATime
<1>1. taken[t] > 0 /\ taken[u] > 0
  BY OrderFacts DEF HoldsPrefix
<1>2. owner[Blockchain] = {t} /\ owner[Blockchain] = {u}
  BY <1>1, PrefixGate
<1> QED BY <1>2, Singletons

\* In a circle of waits a thread would wait for a mutex it has.
LEMMA PrefixNoCircle == TypeOK /\ HoldsPrefix => NoCircularWait
<1> SUFFICES ASSUME TypeOK, HoldsPrefix, NEW S \in SUBSET Threads, S # {},
                    \A t \in S : \E u \in S : WaitsFor(t, u)
             PROVE  FALSE
  BY DEF NoCircularWait
<1>1. ASSUME NEW t \in Threads, NEW u \in Threads, WaitsFor(t, u)
      PROVE  owner[Blockchain] = {u}
  <2>1. taken[t] + 1 \in 1 .. Len(LockOrder(t))
    <3>1. taken[t] \in Nat /\ Len(LockOrder(t)) \in Nat
      BY OrderFacts DEF TypeOK
    <3>2. taken[t] < Len(LockOrder(t))
      BY <1>1 DEF WaitsFor
    <3> QED BY <3>1, <3>2
  <2>2. Wanted(t) \in Mutexes
    BY <2>1, OrderFacts DEF Wanted
  <2> QED BY <1>1, <2>2, PrefixGate DEF WaitsFor
<1>2. PICK t \in S, u \in S : WaitsFor(t, u)
  OBVIOUS
<1>3. PICK v \in S : WaitsFor(u, v)
  OBVIOUS
<1>4. v = u
  BY <1>1, <1>2, <1>3, Singletons
<1>5. taken[u] \in Nat /\ taken[u] + 1 \in 1 .. Len(LockOrder(u))
  <2> u \in Threads
    OBVIOUS
  <2>1. taken[u] \in Nat /\ Len(LockOrder(u)) \in Nat
    BY OrderFacts DEF TypeOK
  <2>2. taken[u] < Len(LockOrder(u))
    BY <1>3 DEF WaitsFor
  <2> QED BY <2>1, <2>2
<1>6. LockOrder(u)[taken[u] + 1] \in Mutexes
  BY <1>5, OrderFacts
<1>7. PICK i \in 1 .. taken[u] : LockOrder(u)[i] = LockOrder(u)[taken[u] + 1]
  BY <1>3, <1>4, <1>6 DEF WaitsFor, Wanted, HoldsPrefix
<1> QED BY <1>5, <1>7, OrderFacts

-----------------------------------------------------------------------------
\* A signal is sent or taken, a paused thread runs, or the receiver is dropped.
LEMMA ControlTypes ==
    ASSUME ControlOK, serving' \in {"runs", "stalls", "closed"}, NEW t \in Threads
    PROVE  /\ UNCHANGED <<running, signals>> => ControlOK'
           /\ Leave(t) => ControlOK'
           /\ (/\ signals[t] # << >> /\ Taken(t)
               /\ running' = running \/ running' = [running EXCEPT ![t] = TRUE])
                 => ControlOK'
           /\ \A s \in Signals(t) :
                 running' = running /\ signals' = [signals EXCEPT ![t] = Append(@, s)]
                   => ControlOK'
<1> DEFINE Any == Seq({"Start", "Update", "Exit"})
<1>1. signals \in [Threads -> Any] /\ running \in [Threads -> BOOLEAN]
  BY DEF ControlOK
<1>2. signals[t] # << >> => Tail(signals[t]) \in Any
  BY <1>1
<1>3. << >> \in Any
  OBVIOUS
<1>4. \A s \in Signals(t) : Append(signals[t], s) \in Any
  BY <1>1 DEF Signals
<1> HIDE DEF Any
<1>5. \A q \in Any : [signals EXCEPT ![t] = q] \in [Threads -> Any]
  BY <1>1
<1>6. \A b \in BOOLEAN : [running EXCEPT ![t] = b] \in [Threads -> BOOLEAN]
  BY <1>1, Zenon
<1>7. signals' \in [Threads -> Any] /\ running' \in [Threads -> BOOLEAN] => ControlOK'
  BY Zenon DEF ControlOK, Any
<1>8. UNCHANGED <<running, signals>> => ControlOK'
  BY <1>1, <1>7, Zenon
<1>9. Leave(t) => ControlOK'
  BY <1>3, <1>5, <1>6, <1>7, Zenon DEF Leave
<1>10. (/\ signals[t] # << >> /\ Taken(t)
        /\ running' = running \/ running' = [running EXCEPT ![t] = TRUE]) => ControlOK'
  BY <1>1, <1>2, <1>5, <1>6, <1>7, Zenon DEF Taken
<1>11. \A s \in Signals(t) :
          running' = running /\ signals' = [signals EXCEPT ![t] = Append(@, s)]
            => ControlOK'
  BY <1>1, <1>4, <1>5, <1>7, Zenon
<1> QED BY <1>8, <1>9, <1>10, <1>11

LEMMA InitIInv == Init => IInv
<1> SUFFICES ASSUME Init PROVE IInv
  OBVIOUS
<1>1. TypeOK
  <2>1. ControlOK
    BY DEF Init, ControlOK
  <2> QED BY <2>1, LocksAssumption DEF Init, TypeOK, Free
<1>2. HoldsPrefix
  <2>1. \A t \in Threads : taken[t] = 0 /\ phase[t] = "waiting" /\ 0 <= Len(LockOrder(t))
    BY OrderFacts DEF Init
  <2>2. \A t \in Threads, l \in Mutexes : owner[l] # {t}
    BY DEF Init, Free
  <2> QED BY <2>1, <2>2 DEF HoldsPrefix
<1>3. PoisonIsTotal
  BY DEF Init, PoisonIsTotal
<1> QED BY <1>1, <1>2, <1>3 DEF IInv

\* A thread takes its next mutex: none is poisoned, or blockchain would be, and
\* with it in hand no thread could have another.
LEMMA AcquireIInv ==
    ASSUME IInv, NEW t \in Threads, Acquire(t)
    PROVE  IInv'
<1> USE DEF Acquire, IInv
<1>1. taken[t] \in Nat /\ taken[t] + 1 \in 1 .. Len(LockOrder(t)) /\ taken[t] + 1 <= 3
  <2>1. taken[t] \in 0 .. 3 /\ taken[t] < Len(LockOrder(t))
    BY DEF TypeOK
  <2> QED BY <2>1, OrderFacts
<1>2. Wanted(t) \in Mutexes
  BY <1>1, OrderFacts DEF Wanted
<1>3. TypeOK'
  <2>1. ControlOK'
    BY ControlTypes DEF TypeOK, ControlOK, handleVars
  <2> QED BY <1>1, <1>2, <2>1 DEF TypeOK
<1>4. poisoned = {}
  <2>1. CASE taken[t] = 0
    BY <2>1, OrderFacts DEF PoisonIsTotal, Wanted
  <2>2. CASE taken[t] > 0
    BY <2>2, PrefixGate, Singletons DEF PoisonIsTotal, Mutexes
  <2> QED BY <1>1, <2>1, <2>2
<1>5. ASSUME NEW u \in Threads, NEW l \in Mutexes
      PROVE  owner'[l] = {u} <=> \E i \in 1 .. taken'[u] : LockOrder(u)[i] = l
  <2>1. owner[l] = {u} <=> \E i \in 1 .. taken[u] : LockOrder(u)[i] = l
    BY DEF HoldsPrefix
  <2>2. CASE u = t
    <3>1. taken'[u] = taken[t] + 1
      BY <2>2 DEF TypeOK
    <3>2. (\E i \in 1 .. taken[t] + 1 : LockOrder(t)[i] = l)
            <=> (\E i \in 1 .. taken[t] : LockOrder(t)[i] = l) \/ l = Wanted(t)
      BY <1>1 DEF Wanted
    <3>3. owner'[l] = {t} <=> owner[l] = {t} \/ l = Wanted(t)
      BY <1>2 DEF TypeOK
    <3> QED BY <2>1, <2>2, <3>1, <3>2, <3>3
  <2>3. CASE u # t
    <3>1. taken'[u] = taken[u]
      BY <2>3 DEF TypeOK
    <3>2. owner'[l] = {u} <=> owner[l] = {u}
      BY <1>2, <2>3, Singletons DEF TypeOK
    <3> QED BY <2>1, <3>1, <3>2
  <2> QED BY <2>2, <2>3
<1>6. HoldsPrefix'
  <2>1. \A u \in Threads : taken'[u] <= Len(LockOrder(u))
    BY <1>1 DEF HoldsPrefix, TypeOK
  <2>2. \A u \in Threads : phase'[u] \in {"waiting", "dead", "returned"} => taken'[u] = 0
    BY DEF HoldsPrefix, TypeOK
  <2>3. \A u \in Threads : phase'[u] = "body" => taken'[u] = Len(LockOrder(u))
    BY DEF HoldsPrefix, TypeOK
  <2> QED BY <1>5, <2>1, <2>2, <2>3 DEF HoldsPrefix, LockOrder
<1>7. PoisonIsTotal'
  BY <1>4 DEF PoisonIsTotal
<1> QED BY <1>3, <1>6, <1>7

\* The guards of a thread are dropped: those it has are its prefix.
LEMMA DropPrefix ==
    ASSUME IInv, NEW t \in Threads, NEW newPhase \in {"waiting", "dead"},
           phase' = [phase EXCEPT ![t] = newPhase],
           taken' = [taken EXCEPT ![t] = 0],
           owner' = [l \in Mutexes |-> IF l \in HeldBy(t) THEN Free ELSE owner[l]]
    PROVE  HoldsPrefix'
<1> USE DEF IInv
<1>1. ASSUME NEW u \in Threads, NEW l \in Mutexes
      PROVE  owner'[l] = {u} <=> \E i \in 1 .. taken'[u] : LockOrder(u)[i] = l
  <2>1. owner[l] = {u} <=> \E i \in 1 .. taken[u] : LockOrder(u)[i] = l
    BY DEF HoldsPrefix
  <2>2. CASE u = t
    <3>1. taken'[u] = 0
      BY <2>2 DEF TypeOK
    <3>2. owner'[l] # {t}
      BY Singletons DEF HeldBy
    <3> QED BY <2>2, <3>1, <3>2
  <2>3. CASE u # t
    <3>1. taken'[u] = taken[u]
      BY <2>3 DEF TypeOK
    <3>2. owner'[l] = {u} <=> owner[l] = {u}
      BY <2>3, Singletons DEF HeldBy
    <3> QED BY <2>1, <3>1, <3>2
  <2> QED BY <2>2, <2>3
<1>2. \A u \in Threads : taken'[u] <= Len(LockOrder(u))
  BY OrderFacts DEF HoldsPrefix, TypeOK
<1>3. \A u \in Threads : phase'[u] \in {"waiting", "dead", "returned"} => taken'[u] = 0
  BY DEF HoldsPrefix, TypeOK
<1>4. \A u \in Threads : phase'[u] = "body" => taken'[u] = Len(LockOrder(u))
  BY DEF HoldsPrefix, TypeOK
<1> QED BY <1>1, <1>2, <1>3, <1>4 DEF HoldsPrefix, LockOrder

LEMMA ReleaseIInv ==
    ASSUME IInv, NEW t \in Threads, Release(t)
    PROVE  IInv'
<1> USE DEF Release, IInv
<1>1. TypeOK'
  <2>1. ControlOK'
    BY ControlTypes DEF TypeOK, ControlOK, handleVars
  <2> QED BY <2>1 DEF TypeOK, HeldBy, Free
<1>2. HoldsPrefix'
  BY DropPrefix
<1>3. PoisonIsTotal'
  BY DEF PoisonIsTotal
<1> QED BY <1>1, <1>2, <1>3

\* A thread that dies with a mutex has blockchain, and nobody else has any.
LEMMA DieIInv ==
    ASSUME IInv, NEW t \in Threads, Die(t)
    PROVE  IInv'
<1> USE DEF Die, IInv
<1>1. TypeOK'
  <2>1. ControlOK'
    BY ControlTypes DEF TypeOK, ControlOK
  <2> QED BY <2>1 DEF TypeOK, HeldBy, Free
<1>2. HoldsPrefix'
  BY DropPrefix
<1>3. PoisonIsTotal'
  <2>1. CASE HeldBy(t) = {}
    BY <2>1 DEF PoisonIsTotal
  <2>2. CASE HeldBy(t) # {}
    <3>1. owner[Blockchain] = {t} /\ Blockchain \in Mutexes
      BY <2>2, PrefixGate DEF HeldBy, Mutexes
    <3>2. \A l \in Mutexes : owner[l] = Free \/ owner[l] = {t}
      BY <3>1, PrefixGateHeld DEF GateHeld
    <3>3. Blockchain \in poisoned'
      BY <3>1 DEF HeldBy
    <3>4. \A l \in Mutexes : owner'[l] = Free
      BY <3>2 DEF HeldBy
    <3> QED BY <3>3, <3>4 DEF PoisonIsTotal
  <2> QED BY <2>1, <2>2
<1> QED BY <1>1, <1>2, <1>3

\* The other steps of a thread leave mutexes and prefixes alone.
LEMMA OtherIInv ==
    ASSUME IInv, NEW t \in Threads, Wake(t) \/ Enter(t) \/ Send(t)
    PROVE  IInv'
<1> USE DEF IInv
<1>1. taken' = taken /\ owner' = owner /\ poisoned' = poisoned
  BY DEF Wake, Enter, Send
<1>2. TypeOK'
  <2>1. sends' \in [Threads -> 0 .. 2]
    BY SendsFacts DEF TypeOK, Wake, Enter, Send
  <2>2. phase' \in [Threads -> {"waiting", "locking", "body", "dead", "returned"}]
    BY DEF TypeOK, Wake, Enter, Send
  <2>3. control' \in 0 .. ControlCap
    BY LocksAssumption DEF TypeOK, Wake, Enter, Send
  <2>4. ControlOK'
    BY ControlTypes DEF Wake, Enter, Send, handleVars, TypeOK, ControlOK
  <2> QED BY <1>1, <2>1, <2>2, <2>3, <2>4 DEF TypeOK
<1>3. \A u \in Threads : /\ phase'[u] \in {"waiting", "dead", "returned"} => taken[u] = 0
                         /\ phase'[u] = "body" => taken[u] = Len(LockOrder(u))
  BY DEF Wake, Enter, Send, TypeOK, HoldsPrefix
<1>4. HoldsPrefix'
  BY <1>1, <1>3 DEF HoldsPrefix, LockOrder
<1>5. PoisonIsTotal'
  BY <1>1 DEF PoisonIsTotal
<1> QED BY <1>2, <1>4, <1>5

\* So do the signals of a Handle, except an Update met by a poisoned mutex.
LEMMA SignalIInv ==
    ASSUME IInv, NEW t \in Threads,
           Obey(t) \/ (\E s \in Signals(t) : Tell(t, s))
    PROVE  IInv'
<1> USE DEF IInv
<1>1. CASE ObeyUpdate(t) /\ Blockchain \in poisoned
  BY <1>1, DieIInv DEF ObeyUpdate
<1>2. CASE ~(ObeyUpdate(t) /\ Blockchain \in poisoned)
  <2> USE DEF lockVars, Signalled, ObeyExit, ObeyStart, IgnoreUpdate, ObeyUpdate, Obey, Tell
  <2>1. /\ taken' = taken /\ owner' = owner /\ poisoned' = poisoned
        /\ sends' = sends /\ control' = control /\ serving' = serving
    BY <1>2
  <2>2. phase' \in [Threads -> {"waiting", "locking", "body", "dead", "returned"}]
    BY <1>2 DEF TypeOK
  <2>3. ControlOK'
    <3>1. ControlOK /\ serving' \in {"runs", "stalls", "closed"}
      BY <2>1 DEF TypeOK, ControlOK
    <3>2. CASE ObeyExit(t)
      BY <3>1, <3>2, ControlTypes
    <3>3. CASE ObeyStart(t) \/ IgnoreUpdate(t) \/ ObeyUpdate(t)
      BY <1>2, <3>1, <3>3, ControlTypes
    <3>4. CASE \E s \in Signals(t) : Tell(t, s)
      BY <3>1, <3>4, ControlTypes
    <3> QED BY <3>2, <3>3, <3>4
  <2>4. TypeOK'
    BY <2>1, <2>2, <2>3 DEF TypeOK
  <2>5. \A u \in Threads :
           /\ phase'[u] \in {"waiting", "dead", "returned"} => taken[u] = 0
           /\ phase'[u] = "body" => taken[u] = Len(LockOrder(u))
    BY <1>2 DEF TypeOK, HoldsPrefix
  <2>6. HoldsPrefix'
    BY <2>1, <2>5 DEF HoldsPrefix, LockOrder
  <2> QED BY <2>1, <2>4, <2>6 DEF PoisonIsTotal
<1> QED BY <1>1, <1>2

LEMMA NextIInv == IInv /\ [Next]_vars => IInv'
<1> SUFFICES ASSUME IInv, [Next]_vars PROVE IInv'
  OBVIOUS
<1>1. CASE UNCHANGED vars
  BY <1>1 DEF vars, lockVars, handleVars, IInv, TypeOK, ControlOK, HoldsPrefix, PoisonIsTotal, LockOrder
<1>2. ASSUME NEW t \in Threads, Wake(t) \/ Panics(t) \/ Step(t) PROVE IInv'
  <2>1. CASE Acquire(t) BY <2>1, AcquireIInv
  <2>2. CASE Release(t) BY <2>2, ReleaseIInv
  <2>3. CASE FindPoison(t) \/ SendFails(t) \/ Panics(t)
    BY <2>3, DieIInv DEF FindPoison, SendFails, Panics, BodyPanics, LookupPanics, LosesMiner
  <2>4. CASE Wake(t) \/ Enter(t) \/ Send(t) BY <2>4, OtherIInv
  <2>5. CASE Obey(t) BY <2>5, SignalIInv
  <2> QED BY <1>2, <2>1, <2>2, <2>3, <2>4, <2>5 DEF Step
<1>3. ASSUME NEW t \in Threads, \E s \in Signals(t) : Tell(t, s) PROVE IInv'
  BY <1>3, SignalIInv
<1>4. CASE Dispatch \/ ServerCloses \/ ServerStalls \/ Ping
  <2> USE <1>4 DEF Dispatch, ServerCloses, ServerStalls, Ping, lockVars, handleVars
  <2>1. control' \in 0 .. ControlCap
    BY LocksAssumption DEF IInv, TypeOK
  <2>2. UNCHANGED <<phase, taken, sends, owner, poisoned, running, signals>>
    OBVIOUS
  <2>3. ControlOK'
    BY DEF IInv, TypeOK, ControlOK
  <2>4. TypeOK'
    BY <2>1, <2>2, <2>3 DEF IInv, TypeOK
  <2> QED BY <2>2, <2>4 DEF IInv, HoldsPrefix, PoisonIsTotal, LockOrder
<1> QED BY <1>1, <1>2, <1>3, <1>4 DEF Next

LEMMA Invariance == Spec => []IInv
BY InitIInv, NextIInv, PTL DEF Spec

-----------------------------------------------------------------------------
\* Types: at most three mutexes per thread, the control channel within bounds.
THEOREM LocksTypeCorrect == Spec => []TypeOK
<1>1. IInv => TypeOK BY DEF IInv
<1> QED BY <1>1, Invariance, PTL

\* Who holds any mutex holds blockchain (the first lock() of every loop).
THEOREM BlockchainIsGate == Spec => []GateHeld
<1>1. IInv => GateHeld BY PrefixGateHeld DEF IInv
<1> QED BY <1>1, Invariance, PTL

\* Loop bodies exclude each other, so that a handler can be seen as one step.
THEOREM BodiesExclude == Spec => []OneBodyAtATime
<1>1. IInv => OneBodyAtATime BY PrefixOneBody DEF IInv
<1> QED BY <1>1, Invariance, PTL

\* The mutexes of a node never deadlock, although threads take mempool and
\* block_state in different orders.
THEOREM NoDeadlockOnMutexes == Spec => []NoCircularWait
<1>1. IInv => NoCircularWait BY PrefixNoCircle DEF IInv
<1> QED BY <1>1, Invariance, PTL

\* Whichever thread panics with a mutex, blockchain is poisoned, so that every
\* later lock() of the node panics as well.
THEOREM OnePanicEndsAll == Spec => []PoisonIsTotal
<1>1. IInv => PoisonIsTotal BY DEF IInv
<1> QED BY <1>1, Invariance, PTL
=============================================================================
