-------------------------------- MODULE Swap --------------------------------
(***************************************************************************)
(* The exchange of FinalProject/Part3/contracts/Swap.sol: a pool of two     *)
(* tokens, traded at a constant product less a fee, and shares of the       *)
(* providers.  Divisions truncate; a failed require, a division by zero or  *)
(* a transfer without the balance reverts the call and is a guard.          *)
(***************************************************************************)
EXTENDS Tokens

CONSTANTS
    Users,          \* accounts that call the contract
    Accounts,       \* every account that may hold tokens
    Owner,          \* the user that deployed it
    Pool,           \* the account of this contract
    Amounts         \* bound of the model: amounts given to a call

VARIABLES token0, token1,       \* balances of the two tokens
          reserve0, reserve1, shares, totalShares

pool == <<reserve0, reserve1, shares, totalShares>>
vars == <<token0, token1, pool>>

PoolInit ==
    /\ reserve0 = 0 /\ reserve1 = 0
    /\ shares = [u \in Users |-> 0]
    /\ totalShares = 0

\* The Babylonian loop of sqrt, from its second turn on: y / 2 + 1 is below y.
sqrt(y) ==
    LET Loop[z \in 1 .. y] ==
            LET x == (y \div z + z) \div 2
            IN  IF x < z THEN Loop[x] ELSE z
    IN  IF y > 3 THEN Loop[y \div 2 + 1] ELSE IF y # 0 THEN 1 ELSE 0

\* The part of the amount that is traded: all but 0.3%.
Exchanged(amount) == (amount * 997) \div 1000

\* Faulty variants: shares and amounts rounded up, no slippage.
RoundUp(total, part, whole)     == (total * part + whole - 1) \div whole
ReturnLinear(from, to, amount) ==
    IF from = 0 THEN 0 ELSE (to * Exchanged(amount)) \div from

Proportion(total, part, whole) == (total * part) \div whole

\* Tokens returned for amount: what keeps the product of the reserves.
Return(from, to, amount) == to - (from * to) \div (from + Exchanged(amount))

init(amount0, amount1) ==
    /\ reserve0 = 0 /\ reserve1 = 0
    /\ amount0 > 0 /\ amount1 > 0
    /\ token0[Owner] >= amount0 /\ token1[Owner] >= amount1
    /\ token0' = Move(token0, Owner, Pool, amount0)
    /\ token1' = Move(token1, Owner, Pool, amount1)
    /\ reserve0' = amount0 /\ reserve1' = amount1
    /\ totalShares' = sqrt(amount0 * amount1)
    /\ shares' = [shares EXCEPT ![Owner] = sqrt(amount0 * amount1)]

\* Accepted only where the rate asks for as many of token 1.
addLiquidity(u, amount) ==
    LET new == Proportion(totalShares, amount, reserve0) IN
    /\ reserve0 > 0
    /\ amount = Proportion(reserve1, amount, reserve0)
    /\ token0[u] >= amount /\ token1[u] >= amount
    /\ token0' = Move(token0, u, Pool, amount)
    /\ token1' = Move(token1, u, Pool, amount)
    /\ totalShares' = totalShares + new
    /\ shares' = [shares EXCEPT ![u] = @ + new]
    /\ reserve0' = reserve0 + amount /\ reserve1' = reserve1 + amount

token0To1(u, amount) ==
    LET back == Return(reserve0, reserve1, amount) IN
    /\ reserve0 + Exchanged(amount) > 0
    /\ token0[u] >= amount /\ token1[Pool] >= back
    /\ token0' = Move(token0, u, Pool, amount)
    /\ token1' = Move(token1, Pool, u, back)
    /\ reserve0' = reserve0 + amount /\ reserve1' = reserve1 - back
    /\ UNCHANGED <<shares, totalShares>>

\* Faulty variant: the fee stays outside the reserves.
token1To0FeeKept(u, amount) ==
    LET back == Return(reserve1, reserve0, amount) IN
    /\ reserve1 + Exchanged(amount) > 0
    /\ token1[u] >= amount /\ token0[Pool] >= back
    /\ token1' = Move(token1, u, Pool, amount)
    /\ token0' = Move(token0, Pool, u, back)
    /\ reserve1' = reserve1 + Exchanged(amount) /\ reserve0' = reserve0 - back
    /\ UNCHANGED <<shares, totalShares>>
token1To0(u, amount) ==
    LET back == Return(reserve1, reserve0, amount) IN
    /\ reserve1 + Exchanged(amount) > 0
    /\ token1[u] >= amount /\ token0[Pool] >= back
    /\ token1' = Move(token1, u, Pool, amount)
    /\ token0' = Move(token0, Pool, u, back)
    /\ reserve1' = reserve1 + amount /\ reserve0' = reserve0 - back
    /\ UNCHANGED <<shares, totalShares>>

removeLiquidity(u, part) ==
    LET amount0 == Proportion(reserve0, part, totalShares)
        amount1 == Proportion(reserve1, part, totalShares)
    IN
    /\ shares[u] >= part /\ totalShares >= part /\ totalShares > 0
    /\ amount0 <= reserve0 /\ amount1 <= reserve1
    /\ token0[Pool] >= amount0 /\ token1[Pool] >= amount1
    /\ token0' = Move(token0, Pool, u, amount0)
    /\ token1' = Move(token1, Pool, u, amount1)
    /\ totalShares' = totalShares - part
    /\ shares' = [shares EXCEPT ![u] = @ - part]
    /\ reserve0' = reserve0 - amount0 /\ reserve1' = reserve1 - amount1

Next ==
    \/ \E amount0, amount1 \in Amounts : init(amount0, amount1)
    \/ \E u \in Users, amount \in Amounts :
         \/ addLiquidity(u, amount) \/ removeLiquidity(u, amount)
         \/ token0To1(u, amount) \/ token1To0(u, amount)
-----------------------------------------------------------------------------
PoolTypeOK ==
    /\ reserve0 \in Nat /\ reserve1 \in Nat
    /\ shares \in [Users -> Nat] /\ totalShares \in Nat

\* Shares add up, also when the pool was emptied and opened again: init overwrites.
SharesAddUp == Total(shares) = totalShares

\* The first shares are the geometric mean of the deposit, rounded down.
FirstShares ==
    (totalShares = 0 /\ totalShares' > 0)
        => /\ totalShares' * totalShares' <= reserve0' * reserve1'
           /\ (totalShares' + 1) * (totalShares' + 1) > reserve0' * reserve1'

\* Whoever joins or leaves, the others' part of the reserves does not shrink: not at
\* all in token 0, by less than a unit in token 1 (the deposit is rounded down).
NotDiluted ==
    totalShares' # totalShares
        => /\ reserve0' * totalShares >= reserve0 * totalShares'
           /\ (reserve1' + 1) * totalShares >= reserve1 * totalShares'

\* A trade keeps the product of the reserves but for rounding, which loses at most the
\* larger reserve after it: a few units in a deep pool, all of the product in a shallow
\* one, where (3, 3) becomes (0, 13) when 10 of token 1 come in.
ProductKept ==
    totalShares' = totalShares
        => \E larger \in {reserve0', reserve1'} :
             reserve0' * reserve1' + larger >= reserve0 * reserve1

\* A trade does not lower the product: the fee stays in the reserves.  Not kept by the
\* code, for the division rounds in favour of the trader.
ProductGrows == totalShares' = totalShares => reserve0' * reserve1' >= reserve0 * reserve1
=============================================================================
