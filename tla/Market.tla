------------------------------- MODULE Market -------------------------------
(***************************************************************************)
(* The markets (contracts/src/core/Market_V3.sol) and the tokens they      *)
(* hold, on top of the LP vault they borrow from.  Every action is one     *)
(* transaction: the calls it makes into the vault are conjuncts of it, and *)
(* a revert of the callee is a conjunct that is false.                     *)
(*                                                                         *)
(* Pricing strategies are abstracted to what a market reads of them: how   *)
(* many shares a bet buys and what shares pay.  "parimutuel" is            *)
(* ParimutuelStrategy; "amm" stands for CPMMStrategy and LMSRStrategy,     *)
(* whose curve decides the number of shares (any member of ShareAmounts)   *)
(* and whose payout and refund formulas agree.                             *)
(***************************************************************************)
EXTENDS Vault, FiniteSetsExt

CONSTANTS
    Users,              \* bettors
    Treasury,           \* the admin's account that feeds the reserve
    Outcomes,           \* outcome ids
    PushOutcomes,       \* outcomes whose rule has payoutType REFUND
    Strategy,           \* [Markets -> {"parimutuel", "amm"}]
    InitialLiquidity,   \* [Markets -> Nat]: config.initialLiquidity
    WithVault,          \* markets created with config.vault # 0
    WithController,     \* markets created with config.paramController # 0
    MinOdds, MaxOdds,   \* MIN_ODDS, MAX_ODDS (10000 = 1.0x)
    UserExposureLimit,  \* USER_EXPOSURE_LIMIT
    MarketPayoutCap,    \* MARKET_PAYOUT_CAP
    ShareAmounts,       \* share counts an AMM curve may return
    Endowment           \* tokens each account starts with

Accounts == Users \union LPs \union {Treasury}

ASSUME MarketAssumption ==
    /\ IsFiniteSet(Markets) /\ IsFiniteSet(Users) /\ IsFiniteSet(LPs) /\ IsFiniteSet(Outcomes)
    /\ Strategy \in [Markets -> {"parimutuel", "amm"}]
    /\ InitialLiquidity \in [Markets -> Nat]
    /\ WithVault \subseteq Markets
    /\ WithController \subseteq Markets
    /\ PushOutcomes \subseteq Outcomes
    /\ ShareAmounts \subseteq Nat
    /\ Endowment \in [Accounts -> Nat]
    /\ MinOdds \in Nat /\ MaxOdds \in Nat
    /\ UserExposureLimit \in Nat /\ MarketPayoutCap \in Nat

Statuses == {"Open", "Locked", "Resolved", "Finalized", "Cancelled"}
Unsettled == {"Open", "Locked", "Resolved"}
NoResult == [o \in {} |-> 0]

VARIABLES
    status,         \* status
    kickedOff,      \* block.timestamp >= kickoffTime
    marketPaused,   \* Pausable
    borrowed,       \* borrowedAmount
    totalLiquidity, \* totalLiquidity
    cash,           \* settlementToken.balanceOf(market)
    sharesOf,       \* ERC-1155 balanceOf(user, outcome)
    outcomeShares,  \* totalSharesPerOutcome
    outcomeBets,    \* totalBetAmountPerOutcome
    exposure,       \* userExposure
    result,         \* settlementResult: winning outcome -> weight in bps
    scale,          \* payoutScaleBps
    claimed,        \* totalPayoutClaimed
    wallet          \* tokens held by everybody else

lifeVars   == <<status, kickedOff, marketPaused>>
betVars    == <<totalLiquidity, outcomeShares, outcomeBets>>
holderVars == <<sharesOf, exposure>>
payVars    == <<result, scale, claimed>>
vars       == <<vaultVars, lifeVars, betVars, holderVars, payVars,
                borrowed, cash, wallet>>

-----------------------------------------------------------------------------
(***************************************************************************)
(* What the strategies compute.                                            *)
(***************************************************************************)

\* calculateShares: the number of shares a net amount may buy.
SharesFor(m, amount) ==
    IF Strategy[m] = "parimutuel" THEN {amount} ELSE ShareAmounts

AllShares(m) == SumFunctionOnSet(outcomeShares[m], Outcomes)

\* Mutant: the payout is rounded up.
BasePayoutRoundedUp(m, o, shares) ==
    IF outcomeShares[m][o] = 0 THEN 0
    ELSE CeilDiv(shares * totalLiquidity[m], outcomeShares[m][o])

\* calculatePayout: a winner gets its part of the whole pool, a REFUND
\* outcome its stake (parimutuel) or its part of all shares (amm).
BasePayout(m, o, shares) ==
    IF o \notin PushOutcomes
    THEN IF outcomeShares[m][o] = 0 THEN 0
         ELSE (shares * totalLiquidity[m]) \div outcomeShares[m][o]
    ELSE IF Strategy[m] = "parimutuel" THEN shares
         ELSE IF AllShares(m) = 0 THEN 0
         ELSE (shares * totalLiquidity[m]) \div AllShares(m)

\* calculateRefund
RefundAmount(m, o, shares) ==
    IF outcomeShares[m][o] = 0 THEN 0
    ELSE IF Strategy[m] = "parimutuel" THEN shares
    ELSE (shares * outcomeBets[m][o]) \div outcomeShares[m][o]

\* What _redeemForInternal pays for shares of a winning outcome.
Payout(m, o, shares) ==
    LET weighted == MulBps(BasePayout(m, o, shares), result[m][o])
    IN  IF scale[m] < BASIS_POINTS THEN MulBps(weighted, scale[m]) ELSE weighted

\* _calculateTotalExpectedPayout and _calculatePnL
ExpectedPayout(m) ==
    SumFunction([o \in DOMAIN result[m] |->
                    MulBps(BasePayout(m, o, outcomeShares[m][o]), result[m][o])])

BetTotal(m) == totalLiquidity[m] - InitialLiquidity[m]

\* Mutant: the initial liquidity is taken for bets.
PnLOfPool(m) == totalLiquidity[m] - ExpectedPayout(m)

PnL(m) == BetTotal(m) - ExpectedPayout(m)

\* Mutant: the sign of the loss is lost.
ScaledPnLUnsigned(m, bps) == IF PnL(m) < 0 THEN MulBps(-PnL(m), bps) ELSE PnL(m)

\* The loss a scaled settlement reports to the vault.
ScaledPnL(m, bps) == IF PnL(m) < 0 THEN -MulBps(-PnL(m), bps) ELSE PnL(m)

-----------------------------------------------------------------------------
(***************************************************************************)
(* initialize: every market of the model has been created, none is funded. *)
(***************************************************************************)
MarketInit ==
    /\ VaultInit
    /\ status = [m \in Markets |-> "Open"]
    /\ kickedOff = [m \in Markets |-> FALSE]
    /\ marketPaused = [m \in Markets |-> FALSE]
    /\ borrowed = [m \in Markets |-> 0]
    /\ totalLiquidity = InitialLiquidity
    /\ cash = [m \in Markets |-> 0]
    /\ sharesOf = [m \in Markets |-> [u \in Users |-> [o \in Outcomes |-> 0]]]
    /\ outcomeShares = [m \in Markets |-> [o \in Outcomes |-> 0]]
    /\ outcomeBets = [m \in Markets |-> [o \in Outcomes |-> 0]]
    /\ exposure = [m \in Markets |-> [u \in Users |-> 0]]
    /\ result = [m \in Markets |-> NoResult]
    /\ scale = [m \in Markets |-> BASIS_POINTS]
    /\ claimed = [m \in Markets |-> 0]
    /\ wallet = Endowment

\* The match starts: placeBetFor reverts with AfterKickoff from now on.
Kickoff(m) ==
    /\ ~kickedOff[m]
    /\ kickedOff' = [kickedOff EXCEPT ![m] = TRUE]
    /\ UNCHANGED <<status, marketPaused, betVars, holderVars, payVars>>
    /\ UNCHANGED <<borrowed, cash, wallet, vaultVars>>

-----------------------------------------------------------------------------
(***************************************************************************)
(* Betting.                                                                *)
(***************************************************************************)

\* The parameter controller's checks of a bet that buys shares for amount.
WithinLimits(m, u, amount, shares) ==
    m \in WithController =>
        /\ (shares * 10000) \div amount \in MinOdds .. MaxOdds
        /\ exposure[m][u] + shares <= UserExposureLimit
        /\ Strategy[m] = "amm" =>
               totalLiquidity[m] + amount + shares <= MarketPayoutCap

\* The router pulls the net amount from the user into the market and calls
\* placeBetFor in the same transaction.
placeBetFor(m, u, o, amount, minShares) ==
    /\ ~marketPaused[m]
    /\ status[m] = "Open"
    /\ ~kickedOff[m]
    /\ amount \in 1 .. wallet[u]
    /\ \E shares \in SharesFor(m, amount) :
        /\ shares >= minShares
        /\ WithinLimits(m, u, amount, shares)
        /\ exposure' = IF m \in WithController
                       THEN [exposure EXCEPT ![m][u] = @ + shares] ELSE exposure
        /\ outcomeShares' = [outcomeShares EXCEPT ![m][o] = @ + shares]
        /\ sharesOf' = [sharesOf EXCEPT ![m][u][o] = @ + shares]
    /\ totalLiquidity' = [totalLiquidity EXCEPT ![m] = @ + amount]
    /\ outcomeBets' = [outcomeBets EXCEPT ![m][o] = @ + amount]
    /\ cash' = [cash EXCEPT ![m] = @ + amount]
    /\ wallet' = [wallet EXCEPT ![u] = @ - amount]
    /\ UNCHANGED <<lifeVars, payVars, borrowed, vaultVars>>

\* ERC-1155 safeTransferFrom: positions are transferable and userExposure
\* does not follow them.
transferPosition(m, u, v, o, shares) ==
    /\ u # v
    /\ shares \in 1 .. sharesOf[m][u][o]
    /\ sharesOf' = [sharesOf EXCEPT ![m][u][o] = @ - shares, ![m][v][o] = @ + shares]
    /\ UNCHANGED <<lifeVars, betVars, exposure, payVars, borrowed, cash, wallet, vaultVars>>

\* Mutant: no check that the market was not funded before.
fundFromVaultAgain(m) ==
    /\ m \in WithVault
    /\ InitialLiquidity[m] > 0
    /\ status[m] = "Open"
    /\ borrow(m, InitialLiquidity[m])
    /\ borrowed' = [borrowed EXCEPT ![m] = InitialLiquidity[m]]
    /\ cash' = [cash EXCEPT ![m] = @ + InitialLiquidity[m]]
    /\ UNCHANGED <<lifeVars, betVars, holderVars, payVars, wallet>>

fundFromVault(m) ==
    /\ m \in WithVault
    /\ borrowed[m] = 0
    /\ InitialLiquidity[m] > 0
    /\ status[m] = "Open"
    /\ borrow(m, InitialLiquidity[m])
    /\ borrowed' = [borrowed EXCEPT ![m] = InitialLiquidity[m]]
    /\ cash' = [cash EXCEPT ![m] = @ + InitialLiquidity[m]]
    /\ UNCHANGED <<lifeVars, betVars, holderVars, payVars, wallet>>

-----------------------------------------------------------------------------
(***************************************************************************)
(* Lifecycle.                                                              *)
(***************************************************************************)

lock(m) ==
    /\ status[m] = "Open"
    /\ status' = [status EXCEPT ![m] = "Locked"]
    /\ UNCHANGED <<kickedOff, marketPaused, betVars, holderVars, payVars>>
    /\ UNCHANGED <<borrowed, cash, wallet, vaultVars>>

\* What resolve requires of the mapper's answer, a function from outcome
\* ids to weights.
ValidResult(r) ==
    /\ DOMAIN r # {}
    /\ DOMAIN r \subseteq Outcomes
    /\ \A o \in DOMAIN r : r[o] > 0
    /\ SumFunction(r) <= BASIS_POINTS

\* Mutant: no NotLocked check.
resolveAnyTime(m, r) ==
    /\ ValidResult(r)
    /\ result' = [result EXCEPT ![m] = r]
    /\ status' = [status EXCEPT ![m] = "Resolved"]
    /\ UNCHANGED <<kickedOff, marketPaused, betVars, holderVars, scale, claimed>>
    /\ UNCHANGED <<borrowed, cash, wallet, vaultVars>>

resolve(m, r) ==
    /\ status[m] = "Locked"
    /\ ValidResult(r)
    /\ result' = [result EXCEPT ![m] = r]
    /\ status' = [status EXCEPT ![m] = "Resolved"]
    /\ UNCHANGED <<kickedOff, marketPaused, betVars, holderVars, scale, claimed>>
    /\ UNCHANGED <<borrowed, cash, wallet, vaultVars>>

Indebted(m) == m \in WithVault /\ borrowed[m] > 0

\* The market approves and the vault pulls the settlement transfer.
PayVault(m, amount) ==
    /\ amount \in 0 .. cash[m]
    /\ cash' = [cash EXCEPT ![m] = @ - amount]

\* finalize(0): the vault refuses a loss above the market's liability limit.
finalizeExact(m) ==
    /\ status[m] = "Resolved"
    /\ IF Indebted(m)
       THEN /\ settle(m, borrowed[m], PnL(m))
            /\ PayVault(m, SettlementTransfer(borrowed[m], PnL(m)))
       ELSE UNCHANGED <<cash, vaultVars>>
    /\ status' = [status EXCEPT ![m] = "Finalized"]
    /\ UNCHANGED <<kickedOff, marketPaused, betVars, holderVars, payVars, borrowed, wallet>>

\* finalize(bps), 1 <= bps <= 10000: payouts and the reported loss shrink.
finalizeScaled(m, bps) ==
    /\ bps \in 1 .. BASIS_POINTS
    /\ status[m] = "Resolved"
    /\ IF Indebted(m)
       THEN /\ settleWithReserve(m, borrowed[m], ScaledPnL(m, bps))
            /\ PayVault(m, SettlementTransfer(borrowed[m], ScaledPnL(m, bps)))
            /\ scale' = [scale EXCEPT ![m] = bps]
       ELSE UNCHANGED <<cash, scale, vaultVars>>
    /\ status' = [status EXCEPT ![m] = "Finalized"]
    /\ UNCHANGED <<kickedOff, marketPaused, betVars, holderVars, result, claimed, borrowed, wallet>>

\* Mutant: a finalized market may be cancelled too.
cancelAnyTime(m) ==
    /\ status[m] # "Cancelled"
    /\ IF Indebted(m)
       THEN returnPrincipal(m, borrowed[m]) /\ PayVault(m, borrowed[m])
       ELSE UNCHANGED <<cash, vaultVars>>
    /\ status' = [status EXCEPT ![m] = "Cancelled"]
    /\ UNCHANGED <<kickedOff, marketPaused, betVars, holderVars, payVars, borrowed, wallet>>

cancel(m) ==
    /\ status[m] \in {"Open", "Locked"}
    /\ IF Indebted(m)
       THEN returnPrincipal(m, borrowed[m]) /\ PayVault(m, borrowed[m])
       ELSE UNCHANGED <<cash, vaultVars>>
    /\ status' = [status EXCEPT ![m] = "Cancelled"]
    /\ UNCHANGED <<kickedOff, marketPaused, betVars, holderVars, payVars, borrowed, wallet>>

\* Returns what the market has, up to the principal.
cancelResolved(m) ==
    LET returned == Smaller(cash[m], borrowed[m])
    IN  /\ status[m] = "Resolved"
        /\ IF Indebted(m) /\ returned > 0
           THEN returnPrincipal(m, returned) /\ PayVault(m, returned)
           ELSE UNCHANGED <<cash, vaultVars>>
        /\ status' = [status EXCEPT ![m] = "Cancelled"]
        /\ UNCHANGED <<kickedOff, marketPaused, betVars, holderVars, payVars, borrowed, wallet>>

pauseMarket(m) ==
    /\ ~marketPaused[m]
    /\ marketPaused' = [marketPaused EXCEPT ![m] = TRUE]
    /\ UNCHANGED <<status, kickedOff, betVars, holderVars, payVars>>
    /\ UNCHANGED <<borrowed, cash, wallet, vaultVars>>

unpauseMarket(m) ==
    /\ marketPaused[m]
    /\ marketPaused' = [marketPaused EXCEPT ![m] = FALSE]
    /\ UNCHANGED <<status, kickedOff, betVars, holderVars, payVars>>
    /\ UNCHANGED <<borrowed, cash, wallet, vaultVars>>

-----------------------------------------------------------------------------
(***************************************************************************)
(* Redemption and refund.  The batch entry points repeat the same internal *)
(* step for each pair of their arrays.                                     *)
(***************************************************************************)

\* Mutant: the exposure falls by the tokens paid, not by the shares burnt.
BurnAndPayExposed(m, u, o, shares, amount) ==
    /\ shares \in 1 .. sharesOf[m][u][o]
    /\ amount \in 0 .. cash[m]
    /\ sharesOf' = [sharesOf EXCEPT ![m][u][o] = @ - shares]
    /\ exposure' = [exposure EXCEPT ![m][u] = Monus(@, amount)]
    /\ cash' = [cash EXCEPT ![m] = @ - amount]
    /\ wallet' = [wallet EXCEPT ![u] = @ + amount]

\* _burn, the exposure's saturating decrease and the token transfer.
BurnAndPay(m, u, o, shares, amount) ==
    /\ shares \in 1 .. sharesOf[m][u][o]
    /\ amount \in 0 .. cash[m]
    /\ sharesOf' = [sharesOf EXCEPT ![m][u][o] = @ - shares]
    /\ exposure' = [exposure EXCEPT ![m][u] = Monus(@, shares)]
    /\ cash' = [cash EXCEPT ![m] = @ - amount]
    /\ wallet' = [wallet EXCEPT ![u] = @ + amount]

redeem(m, u, o, shares) ==
    /\ ~marketPaused[m]
    /\ status[m] = "Finalized"
    /\ o \in DOMAIN result[m]
    /\ BurnAndPay(m, u, o, shares, Payout(m, o, shares))
    /\ claimed' = [claimed EXCEPT ![m] = @ + Payout(m, o, shares)]
    /\ UNCHANGED <<lifeVars, betVars, result, scale, borrowed, vaultVars>>

\* Mutant: no NotCancelled check.
refundForEarly(m, u, o, shares) ==
    /\ ~marketPaused[m]
    /\ BurnAndPay(m, u, o, shares, RefundAmount(m, o, shares))
    /\ UNCHANGED <<lifeVars, betVars, payVars, borrowed, vaultVars>>

refundFor(m, u, o, shares) ==
    /\ ~marketPaused[m]
    /\ status[m] = "Cancelled"
    /\ BurnAndPay(m, u, o, shares, RefundAmount(m, o, shares))
    /\ UNCHANGED <<lifeVars, betVars, payVars, borrowed, vaultVars>>

=============================================================================
