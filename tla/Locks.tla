------------------------------- MODULE Locks -------------------------------
(***************************************************************************)
(* The threads of one node, how they are controlled and the mutexes they   *)
(* take.  Each thread loops: it waits for work without a mutex, takes its  *)
(* mutexes one by one, does its work, broadcasts through the server's      *)
(* bounded control channel and sleeps while it holds them, and drops them  *)
(* together at the end of the loop body.  A panic poisons every mutex the  *)
(* thread holds; lock() of a poisoned mutex is unwrapped, so it panics too. *)
(* The miner and the generator run when their Handle has sent Start, as     *)
(* the API server does, and return on Exit.                                 *)
(* This is why the actions of Node are whole loop bodies and why a node    *)
(* there is either alive or poisoned.                                      *)
(***************************************************************************)
EXTENDS Integers, FiniteSets, Sequences

CONSTANTS Threads,      \* the threads of the node that take mutexes
          Role,         \* which loop each of them runs
          MayPanic,     \* threads whose body can panic: an unwrap, an overflow
          ControlCap,   \* capacity of the control channel (10000 in the code)
          MaxSignals    \* bound of the model: how many signals wait for each thread

Blockchain == "blockchain"
Mempool    == "mempool"
BlockState == "block_state"
Mutexes    == {Blockchain, Mempool, BlockState}

Roles == {"worker", "miner", "miner_worker", "generator", "api_chain", "api_state"}

\* The order of the lock() calls in each loop.
Orders ==
    [worker       |-> <<Blockchain, Mempool, BlockState>>,
     miner        |-> <<Blockchain, Mempool>>,
     miner_worker |-> <<Blockchain, BlockState>>,
     generator    |-> <<Blockchain, BlockState, Mempool>>,
     api_chain    |-> <<Blockchain>>,
     api_state    |-> <<Blockchain, BlockState>>]

\* Faulty variants: the generator's lines 130 and 131 swapped; the miner without
\* the blockchain guard of line 164, which its body does not use.
SwappedOrder(t) ==
    IF Role[t] = "generator" THEN <<BlockState, Blockchain, Mempool>> ELSE Orders[Role[t]]
NarrowOrder(t) == IF Role[t] = "miner" THEN <<Mempool>> ELSE Orders[Role[t]]

LockOrder(t) == Orders[Role[t]]

\* What the methods of a Handle send.  The API sends Start only; exit() and
\* update() are there for whoever else holds the Handle.
Signals(t) == IF Role[t] = "miner" THEN {"Start", "Update", "Exit"}
              ELSE IF Role[t] = "generator" THEN {"Start", "Exit"} ELSE {}
Controlled == {t \in Threads : Role[t] \in {"miner", "generator"}}

\* Broadcasts one loop body can make.
MaxSends(t) == IF Role[t] = "worker" THEN 2
               ELSE IF Role[t] \in {"miner_worker", "generator"} THEN 1 ELSE 0

ASSUME LocksAssumption ==
    /\ Role \in [Threads -> Roles]
    /\ MayPanic \subseteq Threads
    /\ ControlCap \in Nat \ {0} /\ MaxSignals \in [Threads -> Nat]

VARIABLES
    phase,      \* per thread: "waiting", "locking", "body", "dead" or "returned"
    taken,      \* per thread: how many of its mutexes it has
    sends,      \* per thread: broadcasts left in this body
    owner,      \* per mutex: its holder, or the empty set
    poisoned,   \* the poisoned mutexes
    control,    \* signals in the server's control channel
    serving,    \* the server: it "runs", "stalls" with its channel open, or is "closed"
    running,    \* per thread: operating_state is Run, not Paused
    signals     \* per thread: the unbounded channel from its Handle

lockVars == <<phase, taken, sends, owner, poisoned>>
handleVars == <<running, signals>>
vars == <<lockVars, control, serving, handleVars>>

Free == {}

Init ==
    /\ phase = [t \in Threads |-> "waiting"]
    /\ taken = [t \in Threads |-> 0]
    /\ sends = [t \in Threads |-> 0]
    /\ owner = [l \in Mutexes |-> Free]
    /\ poisoned = {}
    /\ control = 0
    /\ serving = "runs"
    /\ running = [t \in Threads |-> t \notin Controlled]
    /\ signals = [t \in Threads |-> << >>]

Wanted(t)  == LockOrder(t)[taken[t] + 1]
HeldBy(t)  == {l \in Mutexes : owner[l] = {t}}

Gone(t)    == phase[t] \in {"dead", "returned"}

\* The thread drops the receiver of its signals, and what they would change.
Leave(t) ==
    /\ running' = [running EXCEPT ![t] = FALSE]
    /\ signals' = [signals EXCEPT ![t] = << >>]

\* Unwinding drops the guards and poisons their mutexes.
Die(t) ==
    /\ phase' = [phase EXCEPT ![t] = "dead"]
    /\ taken' = [taken EXCEPT ![t] = 0]
    /\ sends' = [sends EXCEPT ![t] = 0]
    /\ owner' = [l \in Mutexes |-> IF l \in HeldBy(t) THEN Free ELSE owner[l]]
    /\ poisoned' = poisoned \cup HeldBy(t)
    /\ Leave(t)
    /\ UNCHANGED <<control, serving>>

\* Handle::start, exit and update.  Once the thread is gone the caller's unwrap
\* fails, and with it a thread without a mutex.
Tell(t, s) ==
    /\ s \in Signals(t)
    /\ ~Gone(t)
    /\ Len(signals[t]) < MaxSignals[t]
    /\ signals' = [signals EXCEPT ![t] = Append(@, s)]
    /\ UNCHANGED <<lockVars, control, serving, running>>

\* A message, a block, a request or the next iteration.
Wake(t) ==
    /\ phase[t] = "waiting"
    /\ running[t]
    /\ signals[t] = << >>
    /\ phase' = [phase EXCEPT ![t] = "locking"]
    /\ UNCHANGED <<taken, sends, owner, poisoned, control, serving, handleVars>>

\* The loop looks at one signal per iteration; paused, it waits for the next one.
Signalled(t, s) ==
    /\ phase[t] = "waiting"
    /\ signals[t] # << >> /\ Head(signals[t]) = s
Taken(t) == signals' = [signals EXCEPT ![t] = Tail(@)]

ObeyExit(t) ==
    /\ Signalled(t, "Exit")
    /\ phase' = [phase EXCEPT ![t] = "returned"]
    /\ Leave(t)
    /\ UNCHANGED <<taken, sends, owner, poisoned, control, serving>>

\* Faulty variant: a paused thread takes Start for Update.
StartIgnored(t) ==
    /\ Signalled(t, "Start")
    /\ Taken(t)
    /\ phase' = [phase EXCEPT ![t] = IF running[t] THEN "locking" ELSE "waiting"]
    /\ UNCHANGED <<taken, sends, owner, poisoned, control, serving, running>>
ObeyStart(t) ==
    /\ Signalled(t, "Start")
    /\ Taken(t)
    /\ running' = [running EXCEPT ![t] = TRUE]
    /\ phase' = [phase EXCEPT ![t] = IF running[t] THEN "locking" ELSE "waiting"]
    /\ UNCHANGED <<taken, sends, owner, poisoned, control, serving>>

\* Update does nothing in a paused miner; a running one locks blockchain, reads
\* the tip and unlocks it, then mines.
IgnoreUpdate(t) ==
    /\ Signalled(t, "Update")
    /\ ~running[t]
    /\ Taken(t)
    /\ UNCHANGED <<lockVars, control, serving, running>>

ObeyUpdate(t) ==
    /\ Signalled(t, "Update")
    /\ running[t]
    /\ owner[Blockchain] = Free
    /\ IF Blockchain \in poisoned THEN Die(t)
       ELSE /\ phase' = [phase EXCEPT ![t] = "locking"]
            /\ Taken(t)
            /\ UNCHANGED <<taken, sends, owner, poisoned, control, serving, running>>

Obey(t) == ObeyExit(t) \/ ObeyStart(t) \/ IgnoreUpdate(t) \/ ObeyUpdate(t)

\* lock() returns; with the last mutex the body starts.
Acquire(t) ==
    /\ phase[t] = "locking"
    /\ taken[t] < Len(LockOrder(t))
    /\ owner[Wanted(t)] = Free
    /\ Wanted(t) \notin poisoned
    /\ owner' = [owner EXCEPT ![Wanted(t)] = {t}]
    /\ taken' = [taken EXCEPT ![t] = @ + 1]
    /\ UNCHANGED <<phase, sends, poisoned, control, serving, handleVars>>

Enter(t) ==
    /\ phase[t] = "locking"
    /\ taken[t] = Len(LockOrder(t))
    /\ phase' = [phase EXCEPT ![t] = "body"]
    /\ \E k \in 0 .. MaxSends(t) : sends' = [sends EXCEPT ![t] = k]
    /\ UNCHANGED <<taken, owner, poisoned, control, serving, handleVars>>

\* Faulty variant: the channel's bound not respected.
SendUnbounded(t) ==
    /\ phase[t] = "body"
    /\ sends[t] > 0
    /\ serving # "closed"
    /\ sends' = [sends EXCEPT ![t] = @ - 1]
    /\ control' = control + 1
    /\ UNCHANGED <<phase, taken, owner, poisoned, serving, handleVars>>

\* server.broadcast blocks while the channel is full.
Send(t) ==
    /\ phase[t] = "body"
    /\ sends[t] > 0
    /\ serving # "closed"
    /\ control < ControlCap
    /\ sends' = [sends EXCEPT ![t] = @ - 1]
    /\ control' = control + 1
    /\ UNCHANGED <<phase, taken, owner, poisoned, serving, handleVars>>

\* Once its receiver is gone it fails, for those who wait there too: unwrap.
SendFails(t) ==
    /\ phase[t] = "body"
    /\ sends[t] > 0
    /\ serving = "closed"
    /\ Die(t)

\* The guards go out of scope together.
Release(t) ==
    /\ phase[t] = "body"
    /\ sends[t] = 0
    /\ phase' = [phase EXCEPT ![t] = "waiting"]
    /\ taken' = [taken EXCEPT ![t] = 0]
    /\ owner' = [l \in Mutexes |-> IF l \in HeldBy(t) THEN Free ELSE owner[l]]
    /\ UNCHANGED <<sends, poisoned, control, serving, handleVars>>

\* lock().unwrap() of a poisoned mutex.
FindPoison(t) ==
    /\ phase[t] = "locking"
    /\ taken[t] < Len(LockOrder(t))
    /\ owner[Wanted(t)] = Free
    /\ Wanted(t) \in poisoned
    /\ Die(t)

\* The body fails.
BodyPanics(t) ==
    /\ t \in MayPanic
    /\ phase[t] = "body"
    /\ Die(t)

\* A request for the state of a block past the tip fails between its two locks.
LookupPanics(t) ==
    /\ t \in MayPanic
    /\ Role[t] = "api_state"
    /\ phase[t] = "locking"
    /\ taken[t] = 1
    /\ Die(t)

\* recv().expect of the miner worker: nobody can send it a block any more.
LosesMiner(t) ==
    /\ Role[t] = "miner_worker"
    /\ phase[t] = "waiting"
    /\ \A u \in Threads : Role[u] = "miner" => Gone(u)
    /\ Die(t)

\* Faulty variant: the dispatcher looks at the chain for what it hands out.
DispatchLocked ==
    /\ serving = "runs"
    /\ control > 0
    /\ owner[Blockchain] = Free
    /\ control' = control - 1
    /\ UNCHANGED <<lockVars, serving, handleVars>>

\* The dispatcher takes no mutex.
Dispatch ==
    /\ serving = "runs"
    /\ control > 0
    /\ control' = control - 1
    /\ UNCHANGED <<lockVars, serving, handleVars>>

\* An error of its own ends it; a panic of another task of the executor stops it,
\* and its receiver stays (see ServerStops in Server).
ServerCloses ==
    /\ serving = "runs"
    /\ serving' = "closed"
    /\ control' = 0
    /\ UNCHANGED <<lockVars, handleVars>>
ServerStalls ==
    /\ serving = "runs"
    /\ serving' = "stalls"
    /\ UNCHANGED <<lockVars, control, handleVars>>

\* A request to /network/ping broadcasts without a mutex.
Ping ==
    /\ serving # "closed"
    /\ control < ControlCap
    /\ control' = control + 1
    /\ UNCHANGED <<lockVars, serving, handleVars>>

Step(t) == \/ Acquire(t) \/ Enter(t) \/ Send(t) \/ SendFails(t) \/ Release(t)
           \/ FindPoison(t) \/ Obey(t)

Panics(t) == BodyPanics(t) \/ LookupPanics(t) \/ LosesMiner(t)

Next ==
    \/ Dispatch \/ ServerCloses \/ ServerStalls \/ Ping
    \/ \E t \in Threads : \/ Wake(t) \/ Panics(t) \/ Step(t)
                          \/ \E s \in Signals(t) : Tell(t, s)

Spec == Init /\ [][Next]_vars

\* The dispatcher, while it is polled, and the threads run on.  Weak fairness only:
\* std::sync::Mutex promises a waiting thread no turn when another one releases a
\* mutex and locks it again, as the miner does.
FairSpec == Spec /\ WF_vars(Dispatch) /\ \A t \in Threads : WF_vars(Step(t))

-----------------------------------------------------------------------------
ControlOK ==
    /\ serving \in {"runs", "stalls", "closed"}
    /\ running \in [Threads -> BOOLEAN]
    /\ signals \in [Threads -> Seq({"Start", "Update", "Exit"})]

TypeOK ==
    /\ phase \in [Threads -> {"waiting", "locking", "body", "dead", "returned"}]
    /\ taken \in [Threads -> 0 .. 3]
    /\ sends \in [Threads -> 0 .. 2]
    /\ owner \in [Mutexes -> {Free} \cup {{t} : t \in Threads}]
    /\ poisoned \subseteq Mutexes
    /\ control \in 0 .. ControlCap
    /\ ControlOK

\* blockchain is the gate: who holds another mutex holds it too.
GateHeld ==
    \A l \in Mutexes : owner[l] # Free => owner[Blockchain] = owner[l]

\* At most one thread is inside its loop body.
OneBodyAtATime ==
    \A t, u \in Threads : phase[t] = "body" /\ phase[u] = "body" => t = u

\* t is stopped by a mutex that u holds.
WaitsFor(t, u) ==
    /\ phase[t] = "locking"
    /\ taken[t] < Len(LockOrder(t))
    /\ owner[Wanted(t)] = {u}

\* No set of threads in which every one waits for another of the set.
NoCircularWait ==
    \A S \in SUBSET Threads : S # {} => \E t \in S : \A u \in S : ~WaitsFor(t, u)

\* A panic ends the node: whichever mutex was poisoned, blockchain is, and no
\* thread holds a mutex any more.
PoisonIsTotal ==
    poisoned # {} => Blockchain \in poisoned /\ \A l \in Mutexes : owner[l] = Free

\* Who holds blockchain gives it back, also when it blocks on the full control
\* channel.  Two things stop it: a stalled server, and pings without end, which may
\* take every place the dispatcher frees.
GateReopens ==
    (<>[][~Ping]_vars) => []<>(owner[Blockchain] = Free \/ serving = "stalls")

\* A Start sent to a paused thread is not lost behind or among its other signals,
\* and does not wait forever: the thread runs, or ends.  A paused thread needs no
\* mutex, so that a stalled server does not matter.
Unstarted(t) ==
    /\ "Start" \in {signals[t][k] : k \in DOMAIN signals[t]}
    /\ ~running[t] /\ ~Gone(t)
StartsOrEnds ==
    /\ [][\A t \in Controlled : Unstarted(t) => Unstarted(t)' \/ running'[t] \/ Gone(t)']_vars
    /\ \A t \in Controlled : []<>~Unstarted(t)

=============================================================================
