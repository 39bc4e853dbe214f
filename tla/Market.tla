------------------------------- MODULE Market -------------------------------
(***************************************************************************)
(* Both contracts on one chain, as the course project sets them up: the    *)
(* asset that Mint issues is token 0 of a Swap pool, against another token *)
(* of fixed supply.  Calls of the users come in any order, one at a time.  *)
(***************************************************************************)
EXTENDS Mint

CONSTANTS Owner, Pool,      \* the pool's deployer and account
          Others,           \* units of the other token each user has at the start
          Sends,            \* bound of the model: amounts users send to anyone
          MaxCalls          \* bound of the model

ASSUME MarketAssumption ==
    /\ Owner \in Users /\ Pool \in Accounts \ (Users \cup {Vault})
    /\ {Others, MaxCalls} \cup Sends \subseteq Nat

VARIABLES other,            \* balances of the other token
          reserve0, reserve1, shares, totalShares,
          given, given0, given1,    \* auxiliary: EUSD sent to the vault, and tokens to
                                    \* the pool, by transfers of their own
          calls             \* calls so far

pool  == <<reserve0, reserve1, shares, totalShares>>
debt  == <<eusd, registered, positions, mispaid>>
gifts == <<given, given0, given1>>
all   == <<eusd, asset, registered, positions, mispaid, other, pool, gifts, calls>>

Exchange == INSTANCE Swap WITH token0 <- asset, token1 <- other

MarketInit ==
    /\ Init
    /\ other = [a \in Accounts |-> IF a \in Users THEN Others ELSE 0]
    /\ Exchange!PoolInit
    /\ given = 0 /\ given0 = 0 /\ given1 = 0
    /\ calls = 0

\* What an account is given when n units are sent to receiver.
Sent(receiver, account, n) == IF receiver = account THEN n ELSE 0

\* A user sends a token to anyone: another user, the vault or the pool.  The contracts
\* are not called and do not record it.
transfer(u, to, n) ==
    /\ \/ /\ eusd[u] >= n /\ eusd' = Move(eusd, u, to, n)
          /\ given' = given + Sent(to, Vault, n)
          /\ UNCHANGED <<asset, other, given0, given1>>
       \/ /\ asset[u] >= n /\ asset' = Move(asset, u, to, n)
          /\ given0' = given0 + Sent(to, Pool, n)
          /\ UNCHANGED <<eusd, other, given, given1>>
       \/ /\ other[u] >= n /\ other' = Move(other, u, to, n)
          /\ given1' = given1 + Sent(to, Pool, n)
          /\ UNCHANGED <<eusd, asset, given, given0>>
    /\ UNCHANGED <<registered, positions, mispaid, pool>>

\* One transaction.
MarketNext ==
    /\ calls < MaxCalls
    /\ calls' = calls + 1
    /\ \/ Next /\ UNCHANGED <<other, pool, gifts>>
       \/ Exchange!Next /\ UNCHANGED <<debt, gifts>>
       \/ \E u \in Users, to \in Accounts, n \in Sends : u # to /\ transfer(u, to, n)

MarketSpec == MarketInit /\ [][MarketNext]_all

\* Type invariant.
MarketTypeOK ==
    /\ TypeOK /\ other \in [Accounts -> Nat] /\ Exchange!PoolTypeOK
    /\ {given, given0, given1} \subseteq Nat

\* The vault holds the collateral of the positions and what it was sent besides, until
\* a withdrawal pays another amount than it was asked for.
CollateralHeld == mispaid \/ eusd[Vault] = Collateral + given

\* The pool holds its reserves and what it was sent besides, whatever was traded, added
\* and removed.
ReservesHeld == asset[Pool] = reserve0 + given0 /\ other[Pool] = reserve1 + given1

\* Both contracts hold what they record and what they were sent, and the shares add up,
\* also in a pool that was opened again.
BooksBalance == CollateralHeld /\ ReservesHeld /\ Exchange!SharesAddUp

\* Providers get fair shares: init's are the rounded square root that sqrt's loop is to
\* find, and addLiquidity and removeLiquidity take nothing from the others.
SharesFair == [][Exchange!FirstShares /\ Exchange!NotDiluted]_all

\* token0To1 and token1To0 keep the product of the reserves, but for rounding.  That is
\* little in a deep pool only: a trade may drain a reserve of a few units.
ProductKept == [][Exchange!ProductKept]_all

\* The invariant of the pool never shrinks in a trade, as the fee is added to it.  Not
\* kept by the code, for the same rounding.
ProductGrows == [][Exchange!ProductGrows]_all
=============================================================================
