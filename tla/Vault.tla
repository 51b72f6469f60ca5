------------------------------- MODULE Vault -------------------------------
(***************************************************************************)
(* The LP vault (contracts/src/liquidity/LiquidityVault_V3.sol): an        *)
(* ERC-4626 pool whose assets are lent to authorised markets, with a       *)
(* reserve fund that is kept out of the LPs' assets.                       *)
(*                                                                         *)
(* One action per external function; a guard is a revert condition.  The   *)
(* caller's own tokens are not part of this module: a composing module     *)
(* moves them.  Access roles are represented by who calls: the market m    *)
(* of Borrow(m, ...) is the msg.sender that holds MARKET_ROLE.             *)
(***************************************************************************)
EXTENDS Integers

CONSTANTS
    Markets,        \* addresses of markets that may be authorised
    LPs,            \* liquidity providers
    VirtualShares   \* 10 ^ _decimalsOffset(): 10^6 in the code

ASSUME VaultAssumption == VirtualShares \in Nat \ {0}

BASIS_POINTS              == 10000
MAX_UTILIZATION_BPS       == 9000
MAX_SINGLE_MARKET_BPS     == 2000
DEFAULT_MAX_LIABILITY_BPS == 500
MAX_RESERVE_RATIO_BPS     == 5000

VARIABLES
    vaultCash,      \* asset().balanceOf(vault)
    reserve,        \* _reserveFund
    principal,      \* _borrowInfo[m].principal
    liabilityBps,   \* _borrowInfo[m].maxLiabilityBps
    active,         \* the markets with _borrowInfo[m].active (and MARKET_ROLE)
    totalBorrowed,  \* _totalBorrowed
    reserveRatio,   \* reserveRatioBps
    profits,        \* totalProfitAccumulated
    losses,         \* totalLossAccumulated
    lpShares,       \* balanceOf(lp) of the vault's own ERC-20
    totalSupply,    \* totalSupply() of the vault's own ERC-20
    vaultPaused     \* Pausable

borrowVars  == <<principal, liabilityBps, active, totalBorrowed>>
tallyVars   == <<profits, losses>>
configVars  == <<reserveRatio, vaultPaused>>
shareVars   == <<lpShares, totalSupply>>
vaultVars   == <<vaultCash, reserve, principal, liabilityBps, active,
                 totalBorrowed, reserveRatio, profits, losses, lpShares,
                 totalSupply, vaultPaused>>

(***************************************************************************)
(* Amounts.                                                                *)
(***************************************************************************)

\* Mutant: the saturation is forgotten.
MonusUnchecked(a, b) == a - b

\* Solidity's "a > b ? a - b : 0".
Monus(a, b) == IF a > b THEN a - b ELSE 0

CeilDiv(a, b) == (a + b - 1) \div b

MulBps(a, bps) == (a * bps) \div BASIS_POINTS

\* Mutant: the reserve counts as the LPs' money.
LpCashWithReserve == vaultCash

\* The part of the balance that belongs to the LPs.
LpCash == Monus(vaultCash, reserve)

totalAssets == LpCash + totalBorrowed

AvailableToBorrow == Monus(MulBps(totalAssets, MAX_UTILIZATION_BPS), totalBorrowed)

MaxSingleMarketBorrow == MulBps(totalAssets, MAX_SINGLE_MARKET_BPS)

MaxLiability(m) == MulBps(principal[m], liabilityBps[m])

\* What a settling market transfers in: principal plus profit, or what is
\* left of the principal after the loss.
SettlementTransfer(p, pnl) == IF pnl >= 0 THEN p + pnl ELSE Monus(p, -pnl)

(***************************************************************************)
(* OpenZeppelin's ERC-4626 conversions with virtual shares.                *)
(***************************************************************************)

SharesDown(assets) == (assets * (totalSupply + VirtualShares)) \div (totalAssets + 1)
SharesUp(assets)   == CeilDiv(assets * (totalSupply + VirtualShares), totalAssets + 1)
AssetsDown(shares) == (shares * (totalAssets + 1)) \div (totalSupply + VirtualShares)
AssetsUp(shares)   == CeilDiv(shares * (totalAssets + 1), totalSupply + VirtualShares)

Smaller(a, b) == IF a <= b THEN a ELSE b

maxWithdraw(lp) == Smaller(AssetsDown(lpShares[lp]), LpCash)
maxRedeem(lp)   == Smaller(lpShares[lp], SharesDown(LpCash))

-----------------------------------------------------------------------------
VaultInit ==
    /\ vaultCash = 0
    /\ reserve = 0
    /\ principal = [m \in Markets |-> 0]
    /\ liabilityBps = [m \in Markets |-> 0]
    /\ active = {}
    /\ totalBorrowed = 0
    /\ reserveRatio = 1000
    /\ profits = 0
    /\ losses = 0
    /\ lpShares = [lp \in LPs |-> 0]
    /\ totalSupply = 0
    /\ vaultPaused = FALSE

(***************************************************************************)
(* Operator and admin functions.                                           *)
(***************************************************************************)

authorizeMarket(m, bps) ==
    /\ m \notin active
    /\ active' = active \union {m}
    /\ principal' = [principal EXCEPT ![m] = 0]
    /\ liabilityBps' = [liabilityBps EXCEPT ![m] =
                          IF bps > 0 THEN bps ELSE DEFAULT_MAX_LIABILITY_BPS]
    /\ UNCHANGED <<vaultCash, reserve, totalBorrowed, shareVars>>
    /\ UNCHANGED <<tallyVars, configVars>>

revokeMarket(m) ==
    /\ m \in active
    /\ principal[m] = 0
    /\ active' = active \ {m}
    /\ UNCHANGED <<vaultCash, reserve, principal, liabilityBps, totalBorrowed>>
    /\ UNCHANGED <<shareVars, tallyVars, configVars>>

updateMaxLiabilityBps(m, bps) ==
    /\ m \in active
    /\ bps <= BASIS_POINTS
    /\ liabilityBps' = [liabilityBps EXCEPT ![m] = bps]
    /\ UNCHANGED <<vaultCash, reserve, principal, active, totalBorrowed>>
    /\ UNCHANGED <<shareVars, tallyVars, configVars>>

setReserveRatio(bps) ==
    /\ bps <= MAX_RESERVE_RATIO_BPS
    /\ reserveRatio' = bps
    /\ UNCHANGED <<vaultCash, reserve, borrowVars, tallyVars, shareVars, vaultPaused>>

depositReserve(amount) ==
    /\ vaultCash' = vaultCash + amount
    /\ reserve' = reserve + amount
    /\ UNCHANGED <<borrowVars, tallyVars, configVars, shareVars>>

withdrawReserve(amount) ==
    /\ amount <= reserve
    /\ amount <= vaultCash
    /\ reserve' = reserve - amount
    /\ vaultCash' = vaultCash - amount
    /\ UNCHANGED <<borrowVars, tallyVars, configVars, shareVars>>

pauseVault ==
    /\ ~vaultPaused
    /\ vaultPaused' = TRUE
    /\ UNCHANGED <<vaultCash, reserve, borrowVars, tallyVars, reserveRatio, shareVars>>

unpauseVault ==
    /\ vaultPaused
    /\ vaultPaused' = FALSE
    /\ UNCHANGED <<vaultCash, reserve, borrowVars, tallyVars, reserveRatio, shareVars>>

(***************************************************************************)
(* Calls of the markets.                                                   *)
(***************************************************************************)

\* Mutant: _totalBorrowed is not updated.
borrowUntallied(m, amount) ==
    /\ m \in active
    /\ ~vaultPaused
    /\ amount > 0
    /\ amount <= AvailableToBorrow
    /\ principal[m] + amount <= MaxSingleMarketBorrow
    /\ amount <= vaultCash
    /\ principal' = [principal EXCEPT ![m] = @ + amount]
    /\ vaultCash' = vaultCash - amount
    /\ UNCHANGED <<reserve, liabilityBps, active, totalBorrowed, tallyVars, configVars, shareVars>>

borrow(m, amount) ==
    /\ m \in active
    /\ ~vaultPaused
    /\ amount > 0
    /\ amount <= AvailableToBorrow
    /\ principal[m] + amount <= MaxSingleMarketBorrow
    /\ amount <= vaultCash
    /\ principal' = [principal EXCEPT ![m] = @ + amount]
    /\ totalBorrowed' = totalBorrowed + amount
    /\ vaultCash' = vaultCash - amount
    /\ UNCHANGED <<reserve, liabilityBps, active, tallyVars, configVars, shareVars>>

\* Mutant: only the total is reduced.
RepayTotalOnly(m, p) ==
    /\ p <= totalBorrowed
    /\ totalBorrowed' = totalBorrowed - p
    /\ UNCHANGED principal

\* info.principal -= p; _totalBorrowed -= p, with checked subtractions.
RepayPrincipal(m, p) ==
    /\ p <= principal[m]
    /\ p <= totalBorrowed
    /\ principal' = [principal EXCEPT ![m] = @ - p]
    /\ totalBorrowed' = totalBorrowed - p

\* _distributeProfits: a share of the profit goes to the reserve.
DistributeProfits(profit) ==
    LET toReserve == MulBps(profit, reserveRatio)
    IN  /\ reserve' = reserve + toReserve
        /\ profits' = profits + (profit - toReserve)
        /\ UNCHANGED losses

\* _handleLoss: the reserve is used up first; fund is what it holds then.
HandleLoss(fund, loss) ==
    /\ reserve' = Monus(fund, loss)
    /\ losses' = losses + loss
    /\ UNCHANGED profits

settle(m, p, pnl) ==
    /\ m \in active
    /\ ~vaultPaused
    /\ pnl \in Int
    /\ pnl < 0 => -pnl <= MaxLiability(m)
    /\ vaultCash' = vaultCash + SettlementTransfer(p, pnl)
    /\ IF pnl >= 0 THEN DistributeProfits(pnl) ELSE HandleLoss(reserve, -pnl)
    /\ RepayPrincipal(m, p)
    /\ UNCHANGED <<liabilityBps, active, configVars, shareVars>>

\* The reserve left once it has paid what a loss exceeds the limit by.
ReserveAfterExcess(m, loss) == Monus(reserve, Monus(loss, MaxLiability(m)))

settleWithReserve(m, p, pnl) ==
    /\ m \in active
    /\ ~vaultPaused
    /\ pnl \in Int
    /\ vaultCash' = vaultCash + SettlementTransfer(p, pnl)
    /\ IF pnl >= 0 THEN DistributeProfits(pnl)
                   ELSE HandleLoss(ReserveAfterExcess(m, -pnl), -pnl)
    /\ RepayPrincipal(m, p)
    /\ UNCHANGED <<liabilityBps, active, configVars, shareVars>>

returnPrincipal(m, p) ==
    /\ m \in active
    /\ ~vaultPaused
    /\ vaultCash' = vaultCash + p
    /\ RepayPrincipal(m, p)
    /\ UNCHANGED <<reserve, liabilityBps, active, tallyVars, configVars, shareVars>>

(***************************************************************************)
(* ERC-4626 entry points of the LPs.                                       *)
(***************************************************************************)

MoveIn(lp, assets, shares) ==
    /\ vaultCash' = vaultCash + assets
    /\ lpShares' = [lpShares EXCEPT ![lp] = @ + shares]
    /\ totalSupply' = totalSupply + shares
    /\ UNCHANGED <<reserve, borrowVars, tallyVars, configVars>>

MoveOut(lp, assets, shares) ==
    /\ assets <= vaultCash
    /\ shares <= lpShares[lp]
    /\ shares <= totalSupply
    /\ vaultCash' = vaultCash - assets
    /\ lpShares' = [lpShares EXCEPT ![lp] = @ - shares]
    /\ totalSupply' = totalSupply - shares
    /\ UNCHANGED <<reserve, borrowVars, tallyVars, configVars>>

deposit(lp, assets) ==
    /\ ~vaultPaused
    /\ MoveIn(lp, assets, SharesDown(assets))

mint(lp, shares) ==
    /\ ~vaultPaused
    /\ MoveIn(lp, AssetsUp(shares), shares)

\* Mutant: the shares a withdrawal burns are rounded in the caller's favour.
withdrawFloored(lp, assets) ==
    /\ ~vaultPaused
    /\ assets <= maxWithdraw(lp)
    /\ MoveOut(lp, assets, SharesDown(assets))

withdraw(lp, assets) ==
    /\ ~vaultPaused
    /\ assets <= LpCash
    /\ assets <= maxWithdraw(lp)
    /\ MoveOut(lp, assets, SharesUp(assets))

redeemShares(lp, shares) ==
    /\ ~vaultPaused
    /\ AssetsDown(shares) <= LpCash
    /\ shares <= maxRedeem(lp)
    /\ MoveOut(lp, AssetsDown(shares), shares)

=============================================================================
