-------------------------------- MODULE Mint --------------------------------
(***************************************************************************)
(* The collateralized debt positions of FinalProject/Part2/contracts/       *)
(* Mint.sol, with one registered asset.  A call is one transaction: it      *)
(* takes effect as a whole or reverts, so every require, every checked      *)
(* subtraction and division and every transfer is a guard.                  *)
(***************************************************************************)
EXTENDS Tokens, SequencesExt

CONSTANTS
    Users,          \* accounts that call the contracts
    Accounts,       \* every account that may hold tokens
    Vault,          \* the account of this contract
    NoOne,          \* address(0)
    Unit, Price,    \* 10^decimals of the asset, and its price in EUSD units
    MinRatio,       \* minCollateralRatio it is registered with
    Ratios,         \* ratios positions are opened with
    Funds,          \* EUSD of each user at the start
    Amounts,        \* bound of the model: amounts given to a call
    MaxPositions    \* bound of the model

ASSUME MintAssumption ==
    /\ IsFiniteSet(Accounts)
    /\ Vault \notin Users /\ Users \cup {Vault} \subseteq Accounts /\ NoOne \notin Accounts
    /\ {Unit, Price, MinRatio} \cup Ratios \subseteq Nat \ {0}
    /\ Amounts \cup {Funds, MaxPositions} \subseteq Nat

VARIABLES
    eusd, asset,    \* balances of the two tokens
    registered,     \* minCollateralRatio of the asset, 0 before it is registered
    positions,      \* _idxPositionMap, numbered from 1
    mispaid         \* auxiliary: a withdrawal paid another amount than it was asked for

vars == <<eusd, asset, registered, positions, mispaid>>

Init ==
    /\ eusd = [a \in Accounts |-> IF a \in Users THEN Funds ELSE 0]
    /\ asset = [a \in Accounts |-> 0]
    /\ registered = 0
    /\ positions = << >>
    /\ mispaid = FALSE

Deleted    == [owner |-> NoOne, collateralAmount |-> 0, assetAmount |-> 0]
Owns(u, i) == positions[i].owner = u

\* Faulty variant: a ratio that need not be kept.
AnyRatio(collateral, debt)        == debt > 0

getMintAmount(amount, ratio) == ((amount * Unit) \div Price) \div ratio

\* collateralAmount / assetAmount >= minCollateralRatio; a division by zero reverts.
RatioHolds(collateral, debt) == debt > 0 /\ collateral \div debt >= registered

registerAsset ==
    /\ registered = 0
    /\ registered' = MinRatio
    /\ UNCHANGED <<eusd, asset, positions, mispaid>>

\* Faulty variant: the position is the contract's, not the sender's.
openForContract(u, amount, ratio) ==
    LET minted == getMintAmount(amount, ratio) IN
    /\ registered # 0 /\ ratio >= registered
    /\ eusd[u] >= amount
    /\ Len(positions) < MaxPositions
    /\ eusd' = Move(eusd, u, Vault, amount)
    /\ asset' = Create(asset, u, minted)
    /\ positions' = Append(positions, [owner |-> Vault, collateralAmount |-> amount,
                                       assetAmount |-> minted])
    /\ UNCHANGED <<registered, mispaid>>
openPosition(u, amount, ratio) ==
    LET minted == getMintAmount(amount, ratio) IN
    /\ registered # 0 /\ ratio >= registered
    /\ eusd[u] >= amount
    /\ Len(positions) < MaxPositions
    /\ eusd' = Move(eusd, u, Vault, amount)
    /\ asset' = Create(asset, u, minted)
    /\ positions' = Append(positions, [owner |-> u, collateralAmount |-> amount,
                                       assetAmount |-> minted])
    /\ UNCHANGED <<registered, mispaid>>

\* Faulty variant: the debt of the position is not burned.
closeWithoutBurn(u, i) ==
    /\ Owns(u, i)
    /\ eusd[Vault] >= positions[i].collateralAmount
    /\ eusd' = Move(eusd, Vault, u, positions[i].collateralAmount)
    /\ positions' = [positions EXCEPT ![i] = Deleted]
    /\ UNCHANGED <<asset, registered, mispaid>>
closePosition(u, i) ==
    /\ Owns(u, i)
    /\ asset[u] >= positions[i].assetAmount
    /\ eusd[Vault] >= positions[i].collateralAmount
    /\ asset' = Destroy(asset, u, positions[i].assetAmount)
    /\ eusd' = Move(eusd, Vault, u, positions[i].collateralAmount)
    /\ positions' = [positions EXCEPT ![i] = Deleted]
    /\ UNCHANGED <<registered, mispaid>>

deposit(u, i, amount) ==
    /\ Owns(u, i)
    /\ eusd[u] >= amount
    /\ eusd' = Move(eusd, u, Vault, amount)
    /\ positions' = [positions EXCEPT ![i].collateralAmount = @ + amount]
    /\ UNCHANGED <<asset, registered, mispaid>>

\* The transfer is of the remaining collateral, not of the amount.
withdraw(u, i, amount) ==
    LET remaining == positions[i].collateralAmount - amount IN
    /\ Owns(u, i)
    /\ remaining >= 0
    /\ RatioHolds(remaining, positions[i].assetAmount)
    /\ eusd[Vault] >= remaining
    /\ eusd' = Move(eusd, Vault, u, remaining)
    /\ positions' = [positions EXCEPT ![i].collateralAmount = remaining]
    /\ mispaid' = (mispaid \/ remaining # amount)
    /\ UNCHANGED <<asset, registered>>

mint(u, i, amount) ==
    /\ Owns(u, i)
    /\ RatioHolds(positions[i].collateralAmount, positions[i].assetAmount + amount)
    /\ asset' = Create(asset, u, amount)
    /\ positions' = [positions EXCEPT ![i].assetAmount = @ + amount]
    /\ UNCHANGED <<eusd, registered, mispaid>>

burn(u, i, amount) ==
    /\ Owns(u, i)
    /\ positions[i].assetAmount >= amount /\ asset[u] >= amount
    /\ asset' = Destroy(asset, u, amount)
    /\ positions' = [positions EXCEPT ![i].assetAmount = @ - amount]
    /\ UNCHANGED <<eusd, registered, mispaid>>

Next ==
    \/ registerAsset
    \/ \E u \in Users, amount \in Amounts :
         \/ \E ratio \in Ratios : openPosition(u, amount, ratio)
         \/ \E i \in DOMAIN positions :
              deposit(u, i, amount) \/ withdraw(u, i, amount)
                \/ mint(u, i, amount) \/ burn(u, i, amount)
    \/ \E u \in Users, i \in DOMAIN positions : closePosition(u, i)

Spec == Init /\ [][Next]_vars
-----------------------------------------------------------------------------
Debts      == Total([i \in DOMAIN positions |-> positions[i].assetAmount])
Collateral == Total([i \in DOMAIN positions |-> positions[i].collateralAmount])

\* Type invariant.
TypeOK ==
    /\ eusd \in [Accounts -> Nat] /\ asset \in [Accounts -> Nat]
    /\ registered \in {0, MinRatio}
    /\ positions \in Seq([owner : Users \cup {NoOne}, collateralAmount : Nat,
                          assetAmount : Nat])
    /\ mispaid \in BOOLEAN

\* Every asset token in circulation, wherever it was traded to, is the debt of a
\* position, so the owners of all positions together could buy their way out.
SupplyIsDebt == Total(asset) = Debts

\* A position with debt keeps the ratio that withdraw and mint check, of units of EUSD to
\* units of the asset, through every sequence of calls at a price of at least one unit.
\* It is the ratio of their values at a price of one unit only.
UnitRatioKept ==
    Price >= Unit =>
        \A i \in DOMAIN positions :
            positions[i].assetAmount > 0 =>
                positions[i].collateralAmount >= MinRatio * positions[i].assetAmount

\* A position with debt keeps its ratio by value: what its collateral is worth, to what
\* its debt is worth at the price (in units of EUSD for Unit units of the asset).  Not kept
\* by the code: withdraw and mint compare amounts, whatever the price.
ValueRatioKept ==
    \A i \in DOMAIN positions :
        positions[i].assetAmount > 0 =>
            positions[i].collateralAmount * Unit >= MinRatio * positions[i].assetAmount * Price

\* The vault can pay out every position.
Solvent == eusd[Vault] >= Collateral
=============================================================================
