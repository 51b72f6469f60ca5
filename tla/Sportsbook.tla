----------------------------- MODULE Sportsbook -----------------------------
(***************************************************************************)
(* Markets and vault together with everybody who calls them: bettors (by   *)
(* the router), LPs, the operator and admin, keepers and the oracle.  The  *)
(* blockchain executes one transaction at a time, so an interleaving of    *)
(* transactions is a behaviour of Next.                                    *)
(***************************************************************************)
EXTENDS Market

CONSTANTS
    BetAmounts,     \* net amounts of bets
    MinShareChoices,\* slippage bounds of bets
    LpAssets,       \* assets of deposit and withdraw
    LpShares,       \* shares of mint and redeem
    ReserveAmounts, \* reserve deposits and withdrawals
    Liabilities,    \* maxLiabilityBps arguments
    ReserveRatios,  \* setReserveRatio arguments
    ScaleChoices,   \* non-zero arguments of finalize
    MapperResults,  \* answers of the result mapper
    Pausable        \* contracts the run lets somebody pause: markets, "vault"

ASSUME SportsbookAssumption ==
    /\ BetAmounts \subseteq Nat
    /\ LpAssets \subseteq Nat /\ LpShares \subseteq Nat
    /\ ReserveAmounts \subseteq Nat
    /\ Liabilities \subseteq Nat
    /\ ReserveRatios \subseteq Nat
    /\ ScaleChoices \subseteq Nat
    /\ \A r \in MapperResults : r \in [DOMAIN r -> Nat]

\* Everything but the vault and the wallets.
bookVars == <<lifeVars, betVars, holderVars, payVars, borrowed, cash>>

-----------------------------------------------------------------------------
\* An account pays tokens to the vault, or receives them from it.
Pays(a, amount) ==
    /\ amount <= wallet[a]
    /\ wallet' = [wallet EXCEPT ![a] = @ - amount]

Receives(a, amount) == wallet' = [wallet EXCEPT ![a] = @ + amount]

LpDeposit(lp, assets) ==
    deposit(lp, assets) /\ Pays(lp, assets) /\ UNCHANGED bookVars

LpMint(lp, shares) ==
    mint(lp, shares) /\ Pays(lp, AssetsUp(shares)) /\ UNCHANGED bookVars

LpWithdraw(lp, assets) ==
    withdraw(lp, assets) /\ Receives(lp, assets) /\ UNCHANGED bookVars

LpRedeem(lp, shares) ==
    redeemShares(lp, shares) /\ Receives(lp, AssetsDown(shares)) /\ UNCHANGED bookVars

FundReserve(amount) ==
    depositReserve(amount) /\ Pays(Treasury, amount) /\ UNCHANGED bookVars

DefundReserve(amount) ==
    withdrawReserve(amount) /\ Receives(Treasury, amount) /\ UNCHANGED bookVars

\* Calls that move no token of an account and no state of a market.
Administer(m) ==
    /\ \/ \E bps \in Liabilities : authorizeMarket(m, bps) \/ updateMaxLiabilityBps(m, bps)
       \/ revokeMarket(m)
       \/ \E bps \in ReserveRatios : setReserveRatio(bps)
       \/ "vault" \in Pausable /\ (pauseVault \/ unpauseVault)
    /\ UNCHANGED <<bookVars, wallet>>

-----------------------------------------------------------------------------
Init == MarketInit

LpStep ==
    \/ \E lp \in LPs, n \in LpAssets : LpDeposit(lp, n) \/ LpWithdraw(lp, n)
    \/ \E lp \in LPs, n \in LpShares : LpMint(lp, n) \/ LpRedeem(lp, n)
    \/ \E n \in ReserveAmounts : FundReserve(n) \/ DefundReserve(n)

BettorStep(m) ==
    \/ \E u \in Users, o \in Outcomes, n \in BetAmounts, min \in MinShareChoices :
           placeBetFor(m, u, o, n, min)
    \/ \E u, v \in Users, o \in Outcomes : \E n \in 1 .. sharesOf[m][u][o] :
           transferPosition(m, u, v, o, n)
    \/ \E u \in Users, o \in Outcomes : \E n \in 1 .. sharesOf[m][u][o] :
           redeem(m, u, o, n) \/ refundFor(m, u, o, n)

KeeperStep(m) ==
    \/ Kickoff(m)
    \/ lock(m)
    \/ \E r \in MapperResults : resolve(m, r)
    \/ finalizeExact(m)
    \/ \E bps \in ScaleChoices : finalizeScaled(m, bps)

OperatorStep(m) ==
    \/ fundFromVault(m)
    \/ cancel(m)
    \/ cancelResolved(m)
    \/ m \in Pausable /\ (pauseMarket(m) \/ unpauseMarket(m))
    \/ Administer(m)

Next ==
    \/ LpStep
    \/ \E m \in Markets : BettorStep(m) \/ KeeperStep(m) \/ OperatorStep(m)

Spec == Init /\ [][Next]_vars

-----------------------------------------------------------------------------
(***************************************************************************)
(* Invariants.                                                             *)
(***************************************************************************)

VaultTypeOK ==
    /\ vaultCash \in Nat /\ reserve \in Nat /\ totalBorrowed \in Nat
    /\ principal \in [Markets -> Nat]
    /\ liabilityBps \in [Markets -> Nat]
    /\ active \subseteq Markets
    /\ reserveRatio \in 0 .. MAX_RESERVE_RATIO_BPS
    /\ profits \in Nat /\ losses \in Nat
    /\ lpShares \in [LPs -> Nat] /\ totalSupply \in Nat
    /\ vaultPaused \in BOOLEAN

BookTypeOK ==
    /\ status \in [Markets -> Statuses]
    /\ kickedOff \in [Markets -> BOOLEAN]
    /\ marketPaused \in [Markets -> BOOLEAN]
    /\ borrowed \in [Markets -> Nat]
    /\ totalLiquidity \in [Markets -> Nat]
    /\ cash \in [Markets -> Nat]
    /\ sharesOf \in [Markets -> [Users -> [Outcomes -> Nat]]]
    /\ outcomeShares \in [Markets -> [Outcomes -> Nat]]
    /\ outcomeBets \in [Markets -> [Outcomes -> Nat]]
    /\ exposure \in [Markets -> [Users -> Nat]]
    /\ scale \in [Markets -> 1 .. BASIS_POINTS]
    /\ claimed \in [Markets -> Nat]
    /\ wallet \in [Accounts -> Nat]

ResultTypeOK == DOMAIN result = Markets

\* Every balance, share count, debt and parameter of the two contracts stays
\* an unsigned number: no checked subtraction of the code can underflow in a
\* call that passes its guards.
TypeOK == VaultTypeOK /\ BookTypeOK /\ ResultTypeOK

\* The reserve is always held in tokens: no LP withdrawal, loan or loss lets
\* the reserve exceed the vault's balance.
ReserveBacked == reserve <= vaultCash

\* _totalBorrowed is the sum of the markets' principals.
DebtLedger == totalBorrowed = SumFunction(principal)

\* Vault and market agree on the debt of a market: until a market is settled
\* or cancelled the vault's principal is the market's borrowedAmount, and
\* afterwards nothing is owed.  It is why finalize and cancel never revert
\* with InsufficientBorrowBalance and why cancelResolved never has a loss to
\* report.
DebtAgrees ==
    \A m \in Markets :
        principal[m] = IF status[m] \in Unsettled THEN borrowed[m] ELSE 0

\* Until it is settled or cancelled a market holds its loan and every bet.
StakesHeld ==
    \A m \in Markets :
        status[m] \in Unsettled => cash[m] = borrowed[m] + BetTotal(m)

\* A market that owes principal is an authorised one, so its settlement
\* cannot be refused for want of MARKET_ROLE.
DebtorsActive == \A m \in Markets : principal[m] > 0 => m \in active

Claims(m) ==
    SumFunction([u \in Users |->
        SumFunction([o \in DOMAIN result[m] |-> Payout(m, o, sharesOf[m][u][o])])])

\* A funded market (or one that needs no funding) can pay every winning
\* share that is still held, whatever was redeemed before and in which parts.
WinnersCovered ==
    \A m \in Markets :
        status[m] = "Finalized" /\ borrowed[m] = InitialLiquidity[m]
            => Claims(m) <= cash[m]

Refunds(m) ==
    SumFunction([u \in Users |->
        SumFunction([o \in Outcomes |-> RefundAmount(m, o, sharesOf[m][u][o])])])

\* A cancelled market can refund every share, even one cancelled after it
\* was resolved.
RefundsCovered ==
    \A m \in Markets : status[m] = "Cancelled" => Refunds(m) <= cash[m]

PositionOf(m, u) == SumFunction(sharesOf[m][u])

\* Positions can be transferred without their exposure, and a redemption
\* then lowers the exposure of somebody else or of nobody: taken over all
\* users the exposures still cover every share that is held.
ExposureCoversAll ==
    \A m \in WithController :
        SumFunction([u \in Users |-> PositionOf(m, u)]) <= SumFunction(exposure[m])

\* A resolved market can always pay what the vault will pull from it.
SettlementCovered ==
    \A m \in Markets :
        status[m] = "Resolved" /\ Indebted(m) =>
            \A pnl \in {PnL(m)} \union {ScaledPnL(m, bps) : bps \in ScaleChoices} :
                SettlementTransfer(borrowed[m], pnl) <= cash[m]

\* An exact settlement with the vault leaves a market what its winners are
\* owed, not a token more or less; a market without a loan keeps the pool.
WinnersPotExact ==
    \A m \in Markets :
        status[m] = "Finalized" /\ scale[m] = BASIS_POINTS =>
            cash[m] + claimed[m] =
                IF Indebted(m) THEN ExpectedPayout(m) ELSE BetTotal(m)

-----------------------------------------------------------------------------
(***************************************************************************)
(* Action properties.                                                      *)
(***************************************************************************)

\* LP calls never lower the value of the shares of the others: assets per
\* share, with the virtual share and asset, do not fall in a step that
\* mints or burns vault shares.
ShareValueKept ==
    [][lpShares' # lpShares =>
          (totalAssets' + 1) * (totalSupply + VirtualShares)
              >= (totalAssets + 1) * (totalSupply' + VirtualShares)]_vars

\* In a step without LP flows, the LPs lose at most the principal that
\* leaves the vault's books: the reserve and other markets' loans are never
\* charged to them.
LpLossWithinPrincipal ==
    [][lpShares' = lpShares =>
          totalAssets - totalAssets' <= Monus(totalBorrowed, totalBorrowed')]_vars

\* What is paid out of a market is fixed when it is finalized: pool, shares,
\* result and scale do not move any more, so the order of redemptions does
\* not change what anybody gets.
PayoutTermsFrozen ==
    [][\A m \in Markets : status[m] = "Finalized" =>
          /\ status'[m] = "Finalized"
          /\ totalLiquidity'[m] = totalLiquidity[m]
          /\ outcomeShares'[m] = outcomeShares[m]
          /\ result'[m] = result[m]
          /\ scale'[m] = scale[m]]_vars

-----------------------------------------------------------------------------
(***************************************************************************)
(* Every market implements the escrow.  Locked and resolved markets are    *)
(* closed; the loan is what the vault's books say, not the market's.       *)
(***************************************************************************)

EscrowPhase ==
    [Open |-> "open", Locked |-> "closed", Resolved |-> "closed",
     Finalized |-> "paying", Cancelled |-> "refunding"]

EscrowOf(m) == INSTANCE Escrow WITH
    phase  <- EscrowPhase[status[m]],
    held   <- cash[m],
    stakes <- BetTotal(m),
    loan   <- principal[m]

EscrowStep(m) == [EscrowOf(m)!Next]_(EscrowOf(m)!evars)

ImplementsEscrow ==
    /\ \A m \in Markets : EscrowOf(m)!Init
    /\ [][\A m \in Markets : EscrowStep(m)]_vars

=============================================================================
