-------------------------- MODULE SportsbookProofs --------------------------
(*****************************************************************************)
(* Theorems about Sportsbook, for any markets, users, LPs and amounts.  In   *)
(* this order: arithmetic of the contracts; types; the debts of the markets; *)
(* every market is an escrow; what a share of the vault is worth; the books  *)
(* of bets, shares and results; payments; exposures; tokens and supply.      *)
(*****************************************************************************)
EXTENDS Sportsbook, SumTheorems, TLAPS

-----------------------------------------------------------------------------
(***************************************************************************)
(* Arithmetic.                                                             *)
(***************************************************************************)

\* Integer division of naturals gives a natural.
LEMMA DivNat ==
    ASSUME NEW a \in Nat, NEW b \in Nat \ {0}
    PROVE  a \div b \in Nat
  OBVIOUS

\* A product of naturals is a natural.
LEMMA TimesNat ==
    ASSUME NEW a \in Nat, NEW b \in Nat
    PROVE  a * b \in Nat
  OBVIOUS

\* A share in basis points of a natural is a natural.
LEMMA MulBpsNat ==
    ASSUME NEW a \in Nat, NEW bps \in Nat
    PROVE  MulBps(a, bps) \in Nat
  BY TimesNat DEF MulBps, BASIS_POINTS

\* Dividing a natural that is at most n * a by n gives at most a.
LEMMA DivPart ==
    ASSUME NEW a \in Nat, NEW x \in Nat, x <= a * 10000
    PROVE  x \div 10000 \in 0 .. a
  OBVIOUS

\* A share of at most 10000 basis points is a part of the whole.
LEMMA MulBpsPart ==
    ASSUME NEW a \in Nat, NEW bps \in 0 .. BASIS_POINTS
    PROVE  MulBps(a, bps) \in 0 .. a
  <1>1. a * bps \in Nat /\ a * bps <= a * 10000
    BY DEF BASIS_POINTS
  <1>2. (a * bps) \div 10000 \in 0 .. a
    BY <1>1, DivPart
  <1> QED
    BY <1>2 DEF MulBps, BASIS_POINTS

\* The saturating difference is a natural and at most the minuend.
LEMMA MonusNat ==
    ASSUME NEW a \in Nat, NEW b \in Nat
    PROVE  Monus(a, b) \in 0 .. a
  BY DEF Monus

\* Rounding up a quotient of naturals gives a natural.
LEMMA CeilDivNat ==
    ASSUME NEW a \in Nat, NEW b \in Nat \ {0}
    PROVE  CeilDiv(a, b) \in Nat
  BY DivNat DEF CeilDiv

-----------------------------------------------------------------------------
(***************************************************************************)
(* The vault's operations keep its types.                                  *)
(***************************************************************************)

\* The amounts derived from the vault's balance are naturals.
LEMMA AssetTypes ==
    ASSUME VaultTypeOK
    PROVE  LpCash \in 0 .. vaultCash /\ totalAssets \in Nat
  BY MonusNat DEF VaultTypeOK, LpCash, totalAssets

\* The ERC-4626 conversions give naturals.
LEMMA ConversionTypes ==
    ASSUME VaultTypeOK, NEW n \in Nat
    PROVE  /\ SharesDown(n) \in Nat /\ SharesUp(n) \in Nat
           /\ AssetsDown(n) \in Nat /\ AssetsUp(n) \in Nat
  <1>1. totalSupply + VirtualShares \in Nat \ {0}
    BY VaultAssumption DEF VaultTypeOK
  <1>2. totalAssets + 1 \in Nat \ {0}
    BY AssetTypes
  <1>3. n * (totalSupply + VirtualShares) \in Nat /\ n * (totalAssets + 1) \in Nat
    BY <1>1, <1>2, TimesNat
  <1> QED
    BY <1>1, <1>2, <1>3, DivNat, CeilDivNat
    DEF SharesDown, SharesUp, AssetsDown, AssetsUp

\* ERC-4626 calls.
LEMMA LpCallTypes ==
    ASSUME VaultTypeOK, NEW lp \in LPs, NEW n \in Nat,
           deposit(lp, n) \/ mint(lp, n) \/ withdraw(lp, n) \/ redeemShares(lp, n)
    PROVE  VaultTypeOK'
  <1>1. \E assets, shares \in Nat : MoveIn(lp, assets, shares) \/ MoveOut(lp, assets, shares)
    BY ConversionTypes DEF deposit, mint, withdraw, redeemShares
  <1>2. PICK assets \in Nat, shares \in Nat :
            MoveIn(lp, assets, shares) \/ MoveOut(lp, assets, shares)
    BY <1>1
  <1>3. CASE MoveIn(lp, assets, shares)
    BY <1>3 DEF VaultTypeOK, MoveIn, borrowVars, tallyVars, configVars
  <1>4. CASE MoveOut(lp, assets, shares)
    BY <1>4 DEF VaultTypeOK, MoveOut, borrowVars, tallyVars, configVars
  <1> QED
    BY <1>2, <1>3, <1>4

\* Reserve deposits and withdrawals.
LEMMA ReserveCallTypes ==
    ASSUME VaultTypeOK, NEW n \in Nat, depositReserve(n) \/ withdrawReserve(n)
    PROVE  VaultTypeOK'
  BY DEF VaultTypeOK, depositReserve, withdrawReserve, borrowVars, tallyVars,
         configVars, shareVars

\* The operator's and the admin's calls.
LEMMA AdminCallTypes ==
    ASSUME VaultTypeOK, NEW m \in Markets, NEW bps \in Nat,
           \/ authorizeMarket(m, bps) \/ revokeMarket(m)
           \/ updateMaxLiabilityBps(m, bps) \/ setReserveRatio(bps)
           \/ pauseVault \/ unpauseVault
    PROVE  VaultTypeOK'
  <1>1. CASE authorizeMarket(m, bps)
    BY <1>1 DEF VaultTypeOK, authorizeMarket, tallyVars, configVars, shareVars,
                DEFAULT_MAX_LIABILITY_BPS
  <1>2. CASE revokeMarket(m)
    BY <1>2 DEF VaultTypeOK, revokeMarket, tallyVars, configVars, shareVars
  <1>3. CASE updateMaxLiabilityBps(m, bps)
    BY <1>3 DEF VaultTypeOK, updateMaxLiabilityBps, tallyVars, configVars, shareVars
  <1>4. CASE setReserveRatio(bps)
    BY <1>4 DEF VaultTypeOK, setReserveRatio, borrowVars, tallyVars, shareVars
  <1>5. CASE pauseVault \/ unpauseVault
    BY <1>5 DEF VaultTypeOK, pauseVault, unpauseVault, borrowVars, tallyVars, shareVars
  <1> QED
    BY <1>1, <1>2, <1>3, <1>4, <1>5

\* Borrowing.
LEMMA BorrowTypes ==
    ASSUME VaultTypeOK, NEW m \in Markets, NEW n \in Nat, borrow(m, n)
    PROVE  VaultTypeOK'
  BY DEF VaultTypeOK, borrow, tallyVars, configVars, shareVars

\* Reducing the debt of a market keeps the two ledgers natural.
LEMMA RepayTypes ==
    ASSUME VaultTypeOK, NEW m \in Markets, NEW p \in Nat, RepayPrincipal(m, p)
    PROVE  totalBorrowed' \in Nat /\ principal' \in [Markets -> Nat]
  BY DEF VaultTypeOK, RepayPrincipal

\* What _distributeProfits does to the reserve: it grows by a part of the
\* profit.
LEMMA ProfitTypes ==
    ASSUME VaultTypeOK, NEW profit \in Nat, DistributeProfits(profit)
    PROVE  /\ reserve' \in reserve .. reserve + profit
           /\ profits' \in Nat /\ losses' \in Nat
  <1>1. reserveRatio \in 0 .. BASIS_POINTS
    BY DEF VaultTypeOK, MAX_RESERVE_RATIO_BPS, BASIS_POINTS
  <1>2. MulBps(profit, reserveRatio) \in 0 .. profit
    BY <1>1, MulBpsPart
  <1> QED
    BY <1>2 DEF VaultTypeOK, DistributeProfits

\* What _handleLoss does to the reserve: it falls.
LEMMA LossTypes ==
    ASSUME VaultTypeOK, NEW fund \in 0 .. reserve, NEW loss \in Nat, HandleLoss(fund, loss)
    PROVE  reserve' \in 0 .. reserve /\ profits' \in Nat /\ losses' \in Nat
  <1>1. Monus(fund, loss) \in 0 .. fund
    BY MonusNat DEF VaultTypeOK
  <1> QED
    BY <1>1 DEF VaultTypeOK, HandleLoss

\* What a settlement transfers covers what the reserve gains by it.
LEMMA SettlementEffect ==
    ASSUME VaultTypeOK, NEW m \in Markets, NEW p \in Nat, NEW pnl,
           settle(m, p, pnl) \/ settleWithReserve(m, p, pnl)
    PROVE  /\ SettlementTransfer(p, pnl) \in Nat
           /\ reserve' \in 0 .. reserve + SettlementTransfer(p, pnl)
           /\ profits' \in Nat /\ losses' \in Nat
  <1>1. pnl \in Int
    BY DEF settle, settleWithReserve
  <1>2. SettlementTransfer(p, pnl) \in Nat
    BY <1>1 DEF SettlementTransfer, Monus
  <1>3. CASE pnl >= 0
    <2>1. DistributeProfits(pnl) /\ pnl \in Nat
      BY <1>1, <1>3 DEF settle, settleWithReserve
    <2>2. SettlementTransfer(p, pnl) = p + pnl
      BY <1>3 DEF SettlementTransfer
    <2> QED
      BY <1>2, <2>1, <2>2, ProfitTypes DEF VaultTypeOK
  <1>4. CASE pnl < 0
    <2>1. MaxLiability(m) \in Nat
      BY MulBpsNat DEF VaultTypeOK, MaxLiability
    <2>2. Monus(-pnl, MaxLiability(m)) \in Nat
      BY <1>1, <1>4, <2>1 DEF Monus
    <2>3. ReserveAfterExcess(m, -pnl) \in 0 .. reserve
      BY <2>2, MonusNat DEF VaultTypeOK, ReserveAfterExcess
    <2>4. \E fund \in 0 .. reserve : HandleLoss(fund, -pnl)
      BY <1>1, <1>4, <2>3 DEF settle, settleWithReserve, VaultTypeOK
    <2> QED
      BY <1>1, <1>2, <1>4, <2>4, LossTypes DEF VaultTypeOK
  <1> QED
    BY <1>1, <1>3, <1>4

\* Settlements, with and without the reserve, and returns of principal.
LEMMA SettleTypes ==
    ASSUME VaultTypeOK, NEW m \in Markets, NEW p \in Nat, NEW pnl,
           settle(m, p, pnl) \/ settleWithReserve(m, p, pnl) \/ returnPrincipal(m, p)
    PROVE  VaultTypeOK'
  <1>1. totalBorrowed' \in Nat /\ principal' \in [Markets -> Nat]
    BY RepayTypes DEF settle, settleWithReserve, returnPrincipal
  <1>2. CASE returnPrincipal(m, p)
    BY <1>1, <1>2 DEF VaultTypeOK, returnPrincipal, tallyVars, configVars, shareVars
  <1>3. CASE settle(m, p, pnl) \/ settleWithReserve(m, p, pnl)
    BY <1>1, <1>3, SettlementEffect
    DEF VaultTypeOK, settle, settleWithReserve, configVars, shareVars
  <1> QED
    BY <1>2, <1>3

-----------------------------------------------------------------------------
(***************************************************************************)
(* The vault's operations keep the reserve backed by tokens.               *)
(***************************************************************************)

\* Less than the LPs' part of the balance may be lent.
LEMMA AvailableIsLpCash ==
    ASSUME VaultTypeOK
    PROVE  AvailableToBorrow \in 0 .. LpCash
  <1>1. totalAssets \in Nat /\ LpCash \in Nat /\ totalBorrowed \in Nat
    BY AssetTypes DEF VaultTypeOK
  <1>2. MAX_UTILIZATION_BPS \in 0 .. BASIS_POINTS
    BY DEF MAX_UTILIZATION_BPS, BASIS_POINTS
  <1>3. MulBps(totalAssets, MAX_UTILIZATION_BPS) \in 0 .. LpCash + totalBorrowed
    BY <1>1, <1>2, MulBpsPart DEF totalAssets
  <1> QED
    BY <1>1, <1>3 DEF AvailableToBorrow, Monus

\* Lending and ERC-4626 withdrawals take only the LPs' part; the other LP
\* calls bring tokens in.
LEMMA LpFlowsKeepReserve ==
    ASSUME VaultTypeOK, ReserveBacked, NEW n \in Nat,
           \/ \E m \in Markets : borrow(m, n)
           \/ \E lp \in LPs : deposit(lp, n) \/ mint(lp, n) \/ withdraw(lp, n) \/ redeemShares(lp, n)
    PROVE  ReserveBacked'
  <1>1. LpCash = vaultCash - reserve
    BY DEF VaultTypeOK, ReserveBacked, LpCash, Monus
  <1>2. CASE \E m \in Markets : borrow(m, n)
    <2>1. n <= LpCash
      BY <1>2, AvailableIsLpCash, AssetTypes DEF borrow, VaultTypeOK
    <2> QED
      BY <1>1, <1>2, <2>1 DEF borrow, ReserveBacked, VaultTypeOK
  <1>3. CASE \E lp \in LPs : deposit(lp, n) \/ mint(lp, n)
    BY <1>3, ConversionTypes DEF deposit, mint, MoveIn, ReserveBacked, VaultTypeOK
  <1>4. CASE \E lp \in LPs : withdraw(lp, n) \/ redeemShares(lp, n)
    BY <1>1, <1>4, ConversionTypes DEF withdraw, redeemShares, MoveOut, ReserveBacked, VaultTypeOK
  <1> QED
    BY <1>2, <1>3, <1>4

\* Settlements move into the reserve less than the market transfers.
LEMMA SettleKeepsReserve ==
    ASSUME VaultTypeOK, ReserveBacked, NEW m \in Markets, NEW p \in Nat, NEW pnl,
           settle(m, p, pnl) \/ settleWithReserve(m, p, pnl) \/ returnPrincipal(m, p)
    PROVE  ReserveBacked'
  <1>1. CASE returnPrincipal(m, p)
    BY <1>1 DEF returnPrincipal, ReserveBacked, VaultTypeOK
  <1>2. CASE settle(m, p, pnl) \/ settleWithReserve(m, p, pnl)
    BY <1>2, SettlementEffect DEF settle, settleWithReserve, ReserveBacked, VaultTypeOK
  <1> QED
    BY <1>1, <1>2

\* The reserve's own calls move the same amount in both ledgers, and the
\* administration touches neither.
LEMMA ReserveCallsKeepReserve ==
    ASSUME VaultTypeOK, ReserveBacked, NEW n \in Nat,
           \/ depositReserve(n) \/ withdrawReserve(n)
           \/ UNCHANGED <<vaultCash, reserve>>
    PROVE  ReserveBacked'
  BY DEF depositReserve, withdrawReserve, ReserveBacked, VaultTypeOK

-----------------------------------------------------------------------------
(***************************************************************************)
(* Types of the markets' state.                                            *)
(***************************************************************************)

\* Bets and transfers of positions.
LEMMA BetTypes ==
    ASSUME BookTypeOK, NEW m \in Markets, NEW u \in Users, NEW o \in Outcomes, NEW n \in Nat,
           \/ \E min \in MinShareChoices : placeBetFor(m, u, o, n, min)
           \/ \E v \in Users : transferPosition(m, u, v, o, n)
    PROVE  BookTypeOK'
  <1>1. CASE \E min \in MinShareChoices : placeBetFor(m, u, o, n, min)
    <2>1. SharesFor(m, n) \subseteq Nat
      BY MarketAssumption DEF SharesFor
    <2>2. PICK shares \in Nat :
            /\ exposure' = IF m \in WithController
                           THEN [exposure EXCEPT ![m][u] = @ + shares] ELSE exposure
            /\ outcomeShares' = [outcomeShares EXCEPT ![m][o] = @ + shares]
            /\ sharesOf' = [sharesOf EXCEPT ![m][u][o] = @ + shares]
      BY <1>1, <2>1 DEF placeBetFor
    <2>3. n <= wallet[u] /\ u \in Accounts
      BY <1>1 DEF placeBetFor, BookTypeOK, Accounts
    <2>4. wallet' \in [Accounts -> Nat]
      BY <1>1, <2>3 DEF placeBetFor, BookTypeOK
    <2>5. /\ exposure' \in [Markets -> [Users -> Nat]]
          /\ outcomeShares' \in [Markets -> [Outcomes -> Nat]]
          /\ sharesOf' \in [Markets -> [Users -> [Outcomes -> Nat]]]
      BY <2>2 DEF BookTypeOK
    <2> QED
      BY <1>1, <2>4, <2>5 DEF placeBetFor, BookTypeOK, lifeVars, payVars
  <1>2. CASE \E v \in Users : transferPosition(m, u, v, o, n)
    <2>1. PICK v \in Users : transferPosition(m, u, v, o, n)
      BY <1>2
    <2>2. sharesOf' \in [Markets -> [Users -> [Outcomes -> Nat]]]
      BY <2>1 DEF transferPosition, BookTypeOK
    <2> QED
      BY <2>1, <2>2 DEF transferPosition, BookTypeOK, lifeVars, betVars, payVars
  <1> QED
    BY <1>1, <1>2

\* Redemptions and refunds.
LEMMA PayTypes ==
    ASSUME BookTypeOK, NEW m \in Markets, NEW u \in Users, NEW o \in Outcomes, NEW n \in Nat,
           redeem(m, u, o, n) \/ refundFor(m, u, o, n)
    PROVE  BookTypeOK'
  <1>1. PICK amount : /\ BurnAndPay(m, u, o, n, amount)
                      /\ \/ claimed' = [claimed EXCEPT ![m] = @ + amount]
                         \/ claimed' = claimed
    BY DEF redeem, refundFor, payVars
  <1>2. amount \in Nat /\ amount <= cash[m] /\ n <= sharesOf[m][u][o] /\ u \in Accounts
    BY <1>1 DEF BurnAndPay, BookTypeOK, Accounts
  <1>3. claimed' \in [Markets -> Nat] /\ cash' \in [Markets -> Nat] /\ wallet' \in [Accounts -> Nat]
    <2>1. claimed' \in [Markets -> Nat]
      <3>1. claimed \in [Markets -> Nat] /\ amount \in Nat
        BY <1>2 DEF BookTypeOK
      <3>2. CASE claimed' = [claimed EXCEPT ![m] = @ + amount]
        BY <3>1, <3>2
      <3> QED
        BY <1>1, <3>1, <3>2
    <2>2. cash' \in [Markets -> Nat]
      BY <1>1, <1>2 DEF BurnAndPay, BookTypeOK
    <2>3. wallet' \in [Accounts -> Nat]
      BY <1>1, <1>2 DEF BurnAndPay, BookTypeOK
    <2> QED
      BY <2>1, <2>2, <2>3
  <1>4. exposure' \in [Markets -> [Users -> Nat]]
    <2>0. exposure[m][u] \in Nat
      BY DEF BookTypeOK
    <2>1. Monus(exposure[m][u], n) \in Nat
      BY <2>0 DEF Monus
    <2>2. exposure' = [exposure EXCEPT ![m] = [@ EXCEPT ![u] = Monus(exposure[m][u], n)]]
      BY <1>1 DEF BurnAndPay, BookTypeOK
    <2> QED
      BY <2>1, <2>2 DEF BookTypeOK
  <1>5. sharesOf' \in [Markets -> [Users -> [Outcomes -> Nat]]]
    BY <1>1, <1>2 DEF BurnAndPay, BookTypeOK
  <1> QED
    BY <1>3, <1>4, <1>5 DEF redeem, refundFor, BookTypeOK, lifeVars, betVars, payVars

\* Paying the vault leaves a market with a natural balance.
LEMMA PayVaultTypes ==
    ASSUME BookTypeOK, NEW m \in Markets, NEW amount, PayVault(m, amount)
    PROVE  cash' \in [Markets -> Nat]
  BY DEF PayVault, BookTypeOK

\* Changes of a market's status, with what they move between market and vault.
LEMMA LifecycleTypes ==
    ASSUME BookTypeOK, NEW m \in Markets,
           \/ Kickoff(m) \/ lock(m) \/ pauseMarket(m) \/ unpauseMarket(m)
           \/ \E r \in MapperResults : resolve(m, r)
           \/ fundFromVault(m) \/ cancel(m) \/ cancelResolved(m) \/ finalizeExact(m)
           \/ \E bps \in ScaleChoices : finalizeScaled(m, bps)
    PROVE  BookTypeOK'
  <1>1. CASE Kickoff(m) \/ lock(m) \/ pauseMarket(m) \/ unpauseMarket(m)
    BY <1>1 DEF Kickoff, lock, pauseMarket, unpauseMarket, BookTypeOK,
                lifeVars, betVars, holderVars, payVars, Statuses
  <1>2. CASE \E r \in MapperResults : resolve(m, r)
    BY <1>2 DEF resolve, BookTypeOK, betVars, holderVars, Statuses
  <1>3. CASE fundFromVault(m)
    <2>1. InitialLiquidity[m] \in Nat
      BY MarketAssumption
    <2> QED
      BY <1>3, <2>1 DEF fundFromVault, BookTypeOK, lifeVars, betVars, holderVars, payVars
  <1>4. CASE cancel(m) \/ cancelResolved(m)
    <2>1. cash' \in [Markets -> Nat]
      BY <1>4, PayVaultTypes DEF cancel, cancelResolved, BookTypeOK
    <2> QED
      BY <1>4, <2>1 DEF cancel, cancelResolved, BookTypeOK, betVars, holderVars, payVars, Statuses
  <1>5. CASE finalizeExact(m) \/ \E bps \in ScaleChoices : finalizeScaled(m, bps)
    <2>1. cash' \in [Markets -> Nat]
      BY <1>5, PayVaultTypes DEF finalizeExact, finalizeScaled, BookTypeOK
    <2>2. scale' \in [Markets -> 1 .. BASIS_POINTS]
      BY <1>5 DEF finalizeExact, finalizeScaled, BookTypeOK, payVars
    <2>3. status' \in [Markets -> Statuses]
      BY <1>5 DEF finalizeExact, finalizeScaled, BookTypeOK, Statuses
    <2>4. UNCHANGED <<kickedOff, marketPaused, betVars, holderVars, result, claimed, borrowed, wallet>>
      BY <1>5 DEF finalizeExact, finalizeScaled, payVars
    <2> QED
      BY <2>1, <2>2, <2>3, <2>4 DEF BookTypeOK, betVars, holderVars
  <1> QED
    BY <1>1, <1>2, <1>3, <1>4, <1>5

\* Calls of the LPs, the treasury and the administration.
LEMMA AccountTypes ==
    ASSUME TypeOK, LpStep \/ \E m \in Markets : Administer(m)
    PROVE  BookTypeOK'
  <1> USE DEF BookTypeOK, bookVars, lifeVars, betVars, holderVars, payVars
  <1>1. UNCHANGED bookVars
    BY DEF LpStep, LpDeposit, LpMint, LpWithdraw, LpRedeem, FundReserve, DefundReserve, Administer
  <1>2. \/ UNCHANGED wallet
        \/ \E a \in Accounts, n \in Nat : Pays(a, n) \/ Receives(a, n)
    <2>1. LPs \subseteq Accounts /\ Treasury \in Accounts
      BY DEF Accounts
    <2>2. \A n \in LpShares : AssetsUp(n) \in Nat /\ AssetsDown(n) \in Nat
      BY ConversionTypes, SportsbookAssumption DEF TypeOK
    <2> QED
      BY <2>1, <2>2, SportsbookAssumption
      DEF LpStep, LpDeposit, LpMint, LpWithdraw, LpRedeem, FundReserve, DefundReserve, Administer
  <1>3. wallet' \in [Accounts -> Nat]
    BY <1>2 DEF Pays, Receives, TypeOK
  <1> QED
    BY <1>1, <1>3 DEF TypeOK

\* The operations of the vault, with the arguments its callers use.
LpCall ==
    \E lp \in LPs, n \in Nat :
        deposit(lp, n) \/ mint(lp, n) \/ withdraw(lp, n) \/ redeemShares(lp, n)
ReserveCall == \E n \in Nat : depositReserve(n) \/ withdrawReserve(n)
AdminCall ==
    \E m \in Markets, bps \in Nat :
        \/ authorizeMarket(m, bps) \/ revokeMarket(m)
        \/ updateMaxLiabilityBps(m, bps) \/ setReserveRatio(bps)
        \/ pauseVault \/ unpauseVault
BorrowCall == \E m \in Markets, n \in Nat : borrow(m, n)
SettleCall ==
    \E m \in Markets, p \in Nat : \E pnl :
        settle(m, p, pnl) \/ settleWithReserve(m, p, pnl) \/ returnPrincipal(m, p)

\* Whatever is called, the vault executes one of its operations or none.
LEMMA VaultStep ==
    ASSUME TypeOK, Next
    PROVE  UNCHANGED vaultVars \/ LpCall \/ ReserveCall \/ AdminCall \/ BorrowCall \/ SettleCall
  <1>1. CASE LpStep
    <2>1. CASE \E lp \in LPs, n \in LpAssets : LpDeposit(lp, n) \/ LpWithdraw(lp, n)
      BY <2>1, SportsbookAssumption DEF LpCall, LpDeposit, LpWithdraw
    <2>2. CASE \E lp \in LPs, n \in LpShares : LpMint(lp, n) \/ LpRedeem(lp, n)
      BY <2>2, SportsbookAssumption DEF LpCall, LpMint, LpRedeem
    <2>3. CASE \E n \in ReserveAmounts : FundReserve(n) \/ DefundReserve(n)
      BY <2>3, SportsbookAssumption DEF ReserveCall, FundReserve, DefundReserve
    <2> QED
      BY <1>1, <2>1, <2>2, <2>3 DEF LpStep
  <1>2. ASSUME NEW m \in Markets, BettorStep(m)
        PROVE  UNCHANGED vaultVars
    BY <1>2 DEF BettorStep, placeBetFor, transferPosition, redeem, refundFor
  <1>3. ASSUME NEW m \in Markets, KeeperStep(m)
        PROVE  UNCHANGED vaultVars \/ SettleCall
    <2>1. borrowed[m] \in Nat
      BY DEF TypeOK, BookTypeOK
    <2> QED
      BY <1>3, <2>1 DEF SettleCall, KeeperStep, Kickoff, lock, resolve, finalizeExact, finalizeScaled
  <1>4. ASSUME NEW m \in Markets, OperatorStep(m)
        PROVE  UNCHANGED vaultVars \/ AdminCall \/ BorrowCall \/ SettleCall
    <2>1. InitialLiquidity[m] \in Nat /\ borrowed[m] \in Nat /\ cash[m] \in Nat
      BY MarketAssumption DEF TypeOK, BookTypeOK
    <2>2. CASE Administer(m)
      BY <2>2, SportsbookAssumption DEF Administer, AdminCall
    <2>3. CASE fundFromVault(m)
      BY <2>1, <2>3 DEF fundFromVault, BorrowCall
    <2>4. CASE cancel(m) \/ cancelResolved(m)
      BY <2>1, <2>4 DEF cancel, cancelResolved, Smaller, SettleCall
    <2>5. CASE pauseMarket(m) \/ unpauseMarket(m)
      BY <2>5 DEF pauseMarket, unpauseMarket
    <2> QED
      BY <1>4, <2>2, <2>3, <2>4, <2>5 DEF OperatorStep
  <1> QED
    BY <1>1, <1>2, <1>3, <1>4 DEF Next

\* The vault's part of a step keeps the vault's types.
LEMMA VaultStepTypes ==
    ASSUME TypeOK, Next
    PROVE  VaultTypeOK'
  <1>1. VaultTypeOK
    BY DEF TypeOK
  <1>2. CASE UNCHANGED vaultVars
    BY <1>1, <1>2 DEF VaultTypeOK, vaultVars
  <1>3. CASE LpCall \/ ReserveCall
    BY <1>1, <1>3, LpCallTypes, ReserveCallTypes DEF LpCall, ReserveCall
  <1>4. CASE AdminCall
    BY <1>1, <1>4, AdminCallTypes DEF AdminCall
  <1>5. CASE BorrowCall \/ SettleCall
    BY <1>1, <1>5, BorrowTypes, SettleTypes DEF BorrowCall, SettleCall
  <1> QED
    BY <1>2, <1>3, <1>4, <1>5, VaultStep

\* Results are set for one market at a time.
LEMMA ResultTypes ==
    ASSUME ResultTypeOK, [Next]_vars
    PROVE  ResultTypeOK'
  <1>1. \/ UNCHANGED result
        \/ \E m \in Markets, r \in MapperResults : result' = [result EXCEPT ![m] = r]
    <2>1. CASE LpStep \/ \E m \in Markets : Administer(m)
      BY <2>1 DEF LpStep, LpDeposit, LpMint, LpWithdraw, LpRedeem, FundReserve, DefundReserve,
                  Administer, bookVars, payVars
    <2>2. ASSUME NEW m \in Markets, BettorStep(m)
          PROVE  UNCHANGED result
      BY <2>2 DEF BettorStep, placeBetFor, transferPosition, redeem, refundFor, payVars
    <2>3. ASSUME NEW m \in Markets, KeeperStep(m)
          PROVE  \/ UNCHANGED result
                 \/ \E r \in MapperResults : result' = [result EXCEPT ![m] = r]
      BY <2>3 DEF KeeperStep, Kickoff, lock, resolve, finalizeExact, finalizeScaled, payVars
    <2>4. ASSUME NEW m \in Markets, OperatorStep(m), ~Administer(m)
          PROVE  UNCHANGED result
      BY <2>4 DEF OperatorStep, fundFromVault, cancel, cancelResolved, pauseMarket,
                  unpauseMarket, payVars
    <2> QED
      BY <2>1, <2>2, <2>3, <2>4 DEF Next, vars, payVars
  <1> QED
    BY <1>1 DEF ResultTypeOK

\* Every step keeps the types.
LEMMA StepTypes ==
    ASSUME TypeOK, [Next]_vars
    PROVE  TypeOK'
  <1>1. CASE Next
    <2>1. VaultTypeOK' /\ ResultTypeOK'
      BY <1>1, VaultStepTypes, ResultTypes DEF TypeOK
    <2>2. CASE LpStep \/ \E m \in Markets : Administer(m)
      BY <2>1, <2>2, AccountTypes DEF TypeOK
    <2>3. CASE \E m \in Markets : BettorStep(m)
      <3>1. PICK m \in Markets : BettorStep(m)
        BY <2>3
      <3>2. \A u \in Users, o \in Outcomes : 1 .. sharesOf[m][u][o] \subseteq Nat
        BY DEF TypeOK, BookTypeOK
      <3> QED
        BY <2>1, <3>1, <3>2, BetTypes, PayTypes, SportsbookAssumption DEF TypeOK, BettorStep
    <2>4. CASE \E m \in Markets : KeeperStep(m) \/ OperatorStep(m)
      BY <2>1, <2>2, <2>4, LifecycleTypes DEF TypeOK, KeeperStep, OperatorStep
    <2> QED
      BY <1>1, <2>2, <2>3, <2>4 DEF Next
  <1>2. CASE UNCHANGED vars
    BY <1>2 DEF vars, vaultVars, lifeVars, betVars, holderVars, payVars,
                TypeOK, VaultTypeOK, BookTypeOK, ResultTypeOK
  <1> QED
    BY <1>1, <1>2

\* All balances, debts, shares and parameters stay unsigned numbers in their
\* ranges, so no checked subtraction of the contracts underflows behind its
\* guards.
THEOREM TypeCorrect == Spec => []TypeOK
  <1>1. Init => TypeOK
    <2>1. VaultInit => VaultTypeOK
      <3>1. VaultInit => vaultPaused \in BOOLEAN /\ active \subseteq Markets
        BY Zenon DEF VaultInit
      <3>2. VaultInit => /\ principal \in [Markets -> Nat]
                         /\ liabilityBps \in [Markets -> Nat]
                         /\ lpShares \in [LPs -> Nat]
        BY DEF VaultInit
      <3> QED
        BY <3>1, <3>2 DEF VaultInit, VaultTypeOK, MAX_RESERVE_RATIO_BPS
    <2>2. Init => BookTypeOK
      BY MarketAssumption DEF Init, MarketInit, BookTypeOK, Statuses, BASIS_POINTS
    <2> QED
      BY <2>1, <2>2 DEF TypeOK, Init, MarketInit, ResultTypeOK
  <1>2. TypeOK /\ [Next]_vars => TypeOK'
    BY StepTypes
  <1> QED
    BY <1>1, <1>2, PTL DEF Spec

-----------------------------------------------------------------------------
(***************************************************************************)
(* The reserve.                                                            *)
(***************************************************************************)

\* Every step keeps the reserve backed by tokens.
LEMMA StepReserve ==
    ASSUME TypeOK, ReserveBacked, [Next]_vars
    PROVE  ReserveBacked'
  <1>1. VaultTypeOK
    BY DEF TypeOK
  <1>2. CASE UNCHANGED vaultVars
    BY <1>2 DEF ReserveBacked, vaultVars
  <1>3. CASE LpCall
    BY <1>1, <1>3, LpFlowsKeepReserve DEF LpCall
  <1>4. CASE BorrowCall
    BY <1>1, <1>4, LpFlowsKeepReserve DEF BorrowCall
  <1>5. CASE ReserveCall
    BY <1>1, <1>5, ReserveCallsKeepReserve DEF ReserveCall
  <1>6. CASE AdminCall
    <2>1. UNCHANGED <<vaultCash, reserve>>
      BY <1>6 DEF AdminCall, authorizeMarket, revokeMarket, updateMaxLiabilityBps,
                  setReserveRatio, pauseVault, unpauseVault
    <2> QED
      BY <2>1 DEF ReserveBacked
  <1>7. CASE SettleCall
    BY <1>1, <1>7, SettleKeepsReserve DEF SettleCall
  <1>8. CASE UNCHANGED vars
    BY <1>2, <1>8 DEF vars
  <1> QED
    BY <1>2, <1>3, <1>4, <1>5, <1>6, <1>7, <1>8, VaultStep

\* The reserve fund never exceeds the tokens of the vault: no loan, LP
\* withdrawal, profit or loss spends it.
THEOREM ReserveIsBacked == Spec => []ReserveBacked
  <1>1. Init => ReserveBacked
    BY DEF Init, MarketInit, VaultInit, ReserveBacked
  <1>2. TypeOK /\ ReserveBacked /\ [Next]_vars => ReserveBacked'
    BY StepReserve
  <1> QED
    BY <1>1, <1>2, TypeCorrect, PTL DEF Spec

-----------------------------------------------------------------------------
(***************************************************************************)
(* Debts and stakes.                                                       *)
(***************************************************************************)

\* What DebtAgrees and StakesHeld need to be inductive: the pool never falls
\* below the initial liquidity it starts from, a market without a vault has
\* no loan, and only authorised markets owe anything.
PoolCounted ==
    \A m \in Markets :
        /\ totalLiquidity[m] >= InitialLiquidity[m]
        /\ m \notin WithVault => borrowed[m] = 0

LedgerInv == DebtAgrees /\ StakesHeld /\ DebtorsActive /\ PoolCounted

\* The variables of the ledgers.
ledgerVars == <<status, borrowed, totalLiquidity, cash, principal, active>>

\* Steps that leave the ledgers alone.
LEMMA LedgerFrame ==
    ASSUME LedgerInv, UNCHANGED ledgerVars
    PROVE  LedgerInv'
  BY DEF LedgerInv, DebtAgrees, StakesHeld, DebtorsActive, PoolCounted, BetTotal, ledgerVars

\* A bet adds the same amount to the pool and to the balance.
LEMMA LedgerBet ==
    ASSUME TypeOK, LedgerInv, NEW m \in Markets,
           NEW u \in Users, NEW o \in Outcomes, NEW n \in Nat, NEW min,
           placeBetFor(m, u, o, n, min)
    PROVE  LedgerInv'
  <1>1. /\ totalLiquidity' = [totalLiquidity EXCEPT ![m] = @ + n]
        /\ cash' = [cash EXCEPT ![m] = @ + n]
        /\ UNCHANGED <<status, borrowed, principal, active>>
    BY DEF placeBetFor, lifeVars, vaultVars
  <1>2. \A k \in Markets : /\ InitialLiquidity[k] \in Nat /\ totalLiquidity[k] \in Nat
                           /\ cash[k] \in Nat /\ borrowed[k] \in Nat
    BY MarketAssumption DEF TypeOK, BookTypeOK
  <1>3. \A k \in Markets :
            \E d \in Nat : totalLiquidity'[k] = totalLiquidity[k] + d /\ cash'[k] = cash[k] + d
    <2>1. TAKE k \in Markets
    <2>2. CASE k = m
      <3>1. totalLiquidity'[k] = totalLiquidity[k] + n /\ cash'[k] = cash[k] + n
        BY <1>1, <2>2 DEF TypeOK, BookTypeOK
      <3> QED
        BY <3>1
    <2>3. CASE k # m
      <3>1. totalLiquidity'[k] = totalLiquidity[k] + 0 /\ cash'[k] = cash[k] + 0
        BY <1>1, <1>2, <2>3 DEF TypeOK, BookTypeOK
      <3> QED
        BY <3>1
    <2> QED
      BY <2>2, <2>3
  <1>4. DebtAgrees' /\ DebtorsActive'
    BY <1>1 DEF LedgerInv, DebtAgrees, DebtorsActive
  <1>5. StakesHeld' /\ PoolCounted'
    BY <1>1, <1>2, <1>3 DEF LedgerInv, StakesHeld, PoolCounted, BetTotal
  <1> QED
    BY <1>4, <1>5 DEF LedgerInv

\* Paying out happens after the settlement only.
LEMMA LedgerPay ==
    ASSUME TypeOK, LedgerInv, NEW m \in Markets,
           NEW u \in Users, NEW o \in Outcomes, NEW n \in Nat,
           redeem(m, u, o, n) \/ refundFor(m, u, o, n)
    PROVE  LedgerInv'
  <1>1. /\ status[m] \notin Unsettled
        /\ \A k \in Markets \ {m} : cash'[k] = cash[k]
        /\ UNCHANGED <<status, borrowed, totalLiquidity, principal, active>>
    BY DEF redeem, refundFor, BurnAndPay, lifeVars, betVars, vaultVars, Unsettled, TypeOK, BookTypeOK
  <1> QED
    BY <1>1 DEF LedgerInv, DebtAgrees, StakesHeld, DebtorsActive, PoolCounted, BetTotal

\* The loan enters the books of vault and market together.
LEMMA LedgerFund ==
    ASSUME TypeOK, LedgerInv, NEW m \in Markets, fundFromVault(m)
    PROVE  LedgerInv'
  <1>1. InitialLiquidity \in [Markets -> Nat]
    BY MarketAssumption
  <1>2. /\ m \in WithVault /\ m \in active /\ borrowed[m] = 0 /\ status[m] = "Open"
        /\ borrowed' = [borrowed EXCEPT ![m] = InitialLiquidity[m]]
        /\ cash' = [cash EXCEPT ![m] = @ + InitialLiquidity[m]]
        /\ principal' = [principal EXCEPT ![m] = @ + InitialLiquidity[m]]
        /\ UNCHANGED <<status, totalLiquidity, active>>
    BY DEF fundFromVault, borrow, lifeVars, betVars
  <1> QED
    BY <1>1, <1>2 DEF TypeOK, BookTypeOK, VaultTypeOK, LedgerInv, DebtAgrees, StakesHeld,
                      DebtorsActive, PoolCounted, BetTotal, Unsettled

\* Locking and resolving move no money.
LEMMA LedgerLock ==
    ASSUME TypeOK, LedgerInv, NEW m \in Markets,
           lock(m) \/ \E r \in MapperResults : resolve(m, r)
    PROVE  LedgerInv'
  <1>1. /\ status[m] \in Unsettled /\ status'[m] \in Unsettled
        /\ \A k \in Markets \ {m} : status'[k] = status[k]
        /\ UNCHANGED <<borrowed, totalLiquidity, cash, principal, active>>
    BY DEF lock, resolve, betVars, vaultVars, Unsettled, TypeOK, BookTypeOK
  <1> QED
    BY <1>1 DEF LedgerInv, DebtAgrees, StakesHeld, DebtorsActive, PoolCounted, BetTotal

\* A market that ends owes nothing any more, and the other markets' ledgers
\* stay as they are.
LEMMA MarketEnds ==
    ASSUME TypeOK, LedgerInv, NEW m \in Markets,
           status'[m] \notin Unsettled, principal'[m] = 0,
           \A k \in Markets \ {m} :
               status'[k] = status[k] /\ principal'[k] = principal[k] /\ cash'[k] = cash[k],
           UNCHANGED <<borrowed, totalLiquidity, active>>
    PROVE  LedgerInv'
  BY DEF LedgerInv, DebtAgrees, StakesHeld, DebtorsActive, PoolCounted, BetTotal

\* Settling and returning the whole loan: what finalize and both
\* cancellations do to the ledgers.
ClosesLedger(m) ==
    /\ status[m] \in Unsettled /\ status'[m] \notin Unsettled /\ principal'[m] = 0
    /\ cash' \in [Markets -> Nat] /\ cash'[m] <= cash[m]
    /\ \A k \in Markets \ {m} :
           status'[k] = status[k] /\ principal'[k] = principal[k] /\ cash'[k] = cash[k]
    /\ UNCHANGED <<borrowed, totalLiquidity, active>>

\* A market that is not indebted has no principal in the vault's books.
LEMMA NotIndebted ==
    ASSUME TypeOK, LedgerInv, NEW m \in Markets, status[m] \in Unsettled, ~Indebted(m)
    PROVE  principal[m] = 0 /\ borrowed[m] = 0
  BY DEF TypeOK, BookTypeOK, LedgerInv, DebtAgrees, PoolCounted, Indebted

\* finalize closes the market's ledger.
LEMMA FinalizeCloses ==
    ASSUME TypeOK, LedgerInv, NEW m \in Markets,
           finalizeExact(m) \/ \E bps \in ScaleChoices : finalizeScaled(m, bps)
    PROVE  ClosesLedger(m) /\ status[m] = "Resolved" /\ status'[m] = "Finalized"
  <1>1. /\ status[m] = "Resolved"
        /\ status' = [status EXCEPT ![m] = "Finalized"]
        /\ UNCHANGED <<borrowed, totalLiquidity>>
    BY DEF finalizeExact, finalizeScaled, betVars
  <1>2. principal[m] = borrowed[m] /\ borrowed[m] \in Nat
    BY <1>1 DEF LedgerInv, DebtAgrees, Unsettled, TypeOK, BookTypeOK
  <1>3. CASE Indebted(m)
    <2>1. \E pnl : /\ RepayPrincipal(m, borrowed[m])
                   /\ PayVault(m, SettlementTransfer(borrowed[m], pnl))
                   /\ UNCHANGED active
      BY <1>3 DEF finalizeExact, finalizeScaled, settle, settleWithReserve
    <2>2. /\ principal' = [principal EXCEPT ![m] = 0]
          /\ UNCHANGED active
      <3>1. principal' = [principal EXCEPT ![m] = principal[m] - borrowed[m]]
        BY <2>1 DEF RepayPrincipal
      <3>2. principal[m] - borrowed[m] = 0
        BY <1>2
      <3> QED
        BY <2>1, <3>1, <3>2
    <2>3. \E amount \in 0 .. cash[m] : cash' = [cash EXCEPT ![m] = @ - amount]
      BY <2>1 DEF PayVault
    <2> QED
      BY <1>1, <2>2, <2>3 DEF ClosesLedger, Unsettled, TypeOK, BookTypeOK, VaultTypeOK
  <1>4. CASE ~Indebted(m)
    <2>1. UNCHANGED <<cash, principal, active>>
      BY <1>4 DEF finalizeExact, finalizeScaled, vaultVars
    <2>2. principal[m] = 0
      BY <1>1, <1>4, NotIndebted DEF Unsettled
    <2> QED
      BY <1>1, <2>1, <2>2 DEF ClosesLedger, Unsettled, TypeOK, BookTypeOK, VaultTypeOK
  <1> QED
    BY <1>3, <1>4

\* Both cancellations close the market's ledger and leave it the stakes:
\* what cancelResolved can return, the smaller of balance and loan, is the
\* whole loan, because the stakes come on top of it.
LEMMA CancelCloses ==
    ASSUME TypeOK, LedgerInv, NEW m \in Markets, cancel(m) \/ cancelResolved(m)
    PROVE  ClosesLedger(m) /\ status'[m] = "Cancelled" /\ cash'[m] = BetTotal(m)
  <1>1. /\ status[m] \in Unsettled
        /\ status' = [status EXCEPT ![m] = "Cancelled"]
        /\ UNCHANGED <<borrowed, totalLiquidity>>
    BY DEF cancel, cancelResolved, betVars, Unsettled
  <1>2. /\ principal[m] = borrowed[m] /\ cash[m] = borrowed[m] + BetTotal(m)
        /\ BetTotal(m) \in Nat /\ cash[m] \in Nat /\ borrowed[m] \in Nat
    <2>1. InitialLiquidity[m] \in Nat /\ totalLiquidity[m] \in Nat
      BY MarketAssumption DEF TypeOK, BookTypeOK
    <2>2. BetTotal(m) \in Nat
      BY <2>1 DEF LedgerInv, PoolCounted, BetTotal
    <2> QED
      BY <1>1, <2>2 DEF LedgerInv, DebtAgrees, StakesHeld, TypeOK, BookTypeOK
  <1>3. CASE Indebted(m)
    <2>1. Smaller(cash[m], borrowed[m]) = borrowed[m] /\ borrowed[m] > 0
      BY <1>2, <1>3 DEF Smaller, Indebted
    <2>2. returnPrincipal(m, borrowed[m]) /\ PayVault(m, borrowed[m])
      BY <1>3, <2>1 DEF cancel, cancelResolved
    <2>3. /\ principal' = [principal EXCEPT ![m] = 0]
          /\ UNCHANGED active
      <3>1. /\ principal' = [principal EXCEPT ![m] = principal[m] - borrowed[m]]
            /\ UNCHANGED active
        BY <2>2 DEF returnPrincipal, RepayPrincipal
      <3>2. principal[m] - borrowed[m] = 0
        BY <1>2
      <3> QED
        BY <3>1, <3>2
    <2>4. cash' = [cash EXCEPT ![m] = @ - borrowed[m]]
      BY <2>2 DEF PayVault
    <2> QED
      BY <1>1, <1>2, <2>3, <2>4 DEF ClosesLedger, Unsettled, TypeOK, BookTypeOK, VaultTypeOK
  <1>4. CASE ~Indebted(m)
    <2>1. UNCHANGED <<cash, principal, active>>
      BY <1>4 DEF cancel, cancelResolved, vaultVars
    <2>2. principal[m] = 0 /\ borrowed[m] = 0
      BY <1>1, <1>4, NotIndebted
    <2> QED
      BY <1>1, <1>2, <2>1, <2>2 DEF ClosesLedger, Unsettled, TypeOK, BookTypeOK, VaultTypeOK
  <1> QED
    BY <1>3, <1>4

\* Administration: a market is authorised with no principal, which it has
\* not got anyway, and revoked only without any.
LEMMA AdminKeepsLedger ==
    ASSUME TypeOK, LedgerInv, NEW m \in Markets, Administer(m)
    PROVE  LedgerInv'
  <1>1. UNCHANGED <<status, borrowed, totalLiquidity, cash>>
    BY DEF Administer, bookVars, lifeVars, betVars
  <1>2. CASE \E bps \in Liabilities : authorizeMarket(m, bps)
    <2>1. m \notin active /\ principal' = [principal EXCEPT ![m] = 0] /\ active' = active \union {m}
      BY <1>2 DEF authorizeMarket
    <2>2. principal[m] = 0
      BY <2>1 DEF TypeOK, VaultTypeOK, LedgerInv, DebtorsActive
    <2>3. principal' = principal
      BY <2>1, <2>2 DEF TypeOK, VaultTypeOK
    <2> QED
      BY <1>1, <2>1, <2>3 DEF LedgerInv, DebtAgrees, StakesHeld, DebtorsActive, PoolCounted, BetTotal
  <1>3. CASE revokeMarket(m)
    <2>1. principal[m] = 0 /\ principal' = principal /\ active' = active \ {m}
      BY <1>3 DEF revokeMarket
    <2> QED
      BY <1>1, <2>1 DEF LedgerInv, DebtAgrees, StakesHeld, DebtorsActive, PoolCounted, BetTotal
  <1>4. CASE UNCHANGED <<principal, active>>
    BY <1>1, <1>4, LedgerFrame DEF ledgerVars
  <1>5. \/ \E bps \in Liabilities : authorizeMarket(m, bps)
        \/ revokeMarket(m)
        \/ UNCHANGED <<principal, active>>
    BY DEF Administer, updateMaxLiabilityBps, setReserveRatio, pauseVault, unpauseVault, borrowVars
  <1> QED
    BY <1>2, <1>3, <1>4, <1>5

\* Every step keeps the ledgers.
LEMMA StepLedger ==
    ASSUME TypeOK, LedgerInv, [Next]_vars
    PROVE  LedgerInv'
  <1>1. CASE UNCHANGED vars
    BY <1>1, LedgerFrame DEF vars, vaultVars, lifeVars, betVars, ledgerVars
  <1>2. CASE LpStep
    <2>1. UNCHANGED ledgerVars
      BY <1>2 DEF LpStep, LpDeposit, LpMint, LpWithdraw, LpRedeem, FundReserve, DefundReserve,
                  deposit, mint, withdraw, redeemShares, MoveIn, MoveOut, depositReserve,
                  withdrawReserve, bookVars, lifeVars, betVars, borrowVars, ledgerVars
    <2> QED
      BY <2>1, LedgerFrame
  <1>3. ASSUME NEW m \in Markets, Administer(m)
        PROVE  LedgerInv'
    BY <1>3, AdminKeepsLedger
  <1>4. ASSUME NEW m \in Markets, BettorStep(m)
        PROVE  LedgerInv'
    <2>1. CASE \E u, v \in Users, o \in Outcomes : \E n \in 1 .. sharesOf[m][u][o] :
                   transferPosition(m, u, v, o, n)
      <3>1. UNCHANGED ledgerVars
        BY <2>1 DEF transferPosition, lifeVars, betVars, vaultVars, ledgerVars
      <3> QED
        BY <3>1, LedgerFrame
    <2>2. \A u \in Users, o \in Outcomes : 1 .. sharesOf[m][u][o] \subseteq Nat
      BY DEF TypeOK, BookTypeOK
    <2> QED
      BY <1>4, <2>1, <2>2, LedgerBet, LedgerPay, SportsbookAssumption DEF BettorStep
  <1>5. ASSUME NEW m \in Markets, ClosesLedger(m)
        PROVE  LedgerInv'
    BY <1>5, MarketEnds DEF ClosesLedger
  <1>6. ASSUME NEW m \in Markets, Kickoff(m) \/ pauseMarket(m) \/ unpauseMarket(m)
        PROVE  LedgerInv'
    <2>1. UNCHANGED ledgerVars
      BY <1>6 DEF Kickoff, pauseMarket, unpauseMarket, betVars, vaultVars, ledgerVars
    <2> QED
      BY <2>1, LedgerFrame
  <1>7. ASSUME NEW m \in Markets, KeeperStep(m) \/ OperatorStep(m)
        PROVE  LedgerInv'
    BY <1>3, <1>5, <1>6, <1>7, LedgerLock, LedgerFund, FinalizeCloses, CancelCloses
    DEF KeeperStep, OperatorStep
  <1> QED
    BY <1>1, <1>2, <1>4, <1>7 DEF Next

\* The ledgers hold in every reachable state.
THEOREM LedgerCorrect == Spec => []LedgerInv
  <1>1. Init => LedgerInv
    BY MarketAssumption
    DEF Init, MarketInit, VaultInit, LedgerInv, DebtAgrees, StakesHeld, DebtorsActive,
        PoolCounted, BetTotal, Unsettled
  <1>2. TypeOK /\ LedgerInv /\ [Next]_vars => LedgerInv'
    BY StepLedger
  <1> QED
    BY <1>1, <1>2, TypeCorrect, PTL DEF Spec

\* Vault and market agree on every market's debt until the market ends, and
\* then nothing is owed: borrow, settle, settleWithReserve and
\* returnPrincipal keep _borrowInfo and borrowedAmount in step.
THEOREM DebtsAgree == Spec => []DebtAgrees
  BY LedgerCorrect, PTL DEF LedgerInv

\* A market that has not ended holds its loan and all its stakes: no call
\* takes tokens out of it before finalize or cancel.
THEOREM StakesAreHeld == Spec => []StakesHeld
  BY LedgerCorrect, PTL DEF LedgerInv

\* Whoever owes principal still has the role its settlement needs: the
\* operator cannot revoke a market in debt.
THEOREM DebtorsAreActive == Spec => []DebtorsActive
  BY LedgerCorrect, PTL DEF LedgerInv

-----------------------------------------------------------------------------
(*****************************************************************************)
(* Escrow.  Every market implements the escrow: initial states map to        *)
(* initial states, and every step is one of the escrow's or a stutter.       *)
(*****************************************************************************)

(***************************************************************************)
(* Every market of Sportsbook implements the escrow: initial states map to *)
(* initial states, and every step is one of the escrow's or a stutter.     *)
(***************************************************************************)

\* Steps that leave a market's part of the ledgers alone are stutters.
LEMMA EscrowFrame ==
    ASSUME NEW m \in Markets,
           EscrowPhase[status'[m]] = EscrowPhase[status[m]],
           cash'[m] = cash[m], principal'[m] = principal[m],
           totalLiquidity'[m] = totalLiquidity[m]
    PROVE  EscrowStep(m)
  BY DEF EscrowStep, EscrowOf!evars, BetTotal

\* A bet is a stake, for the other markets a stutter.
LEMMA BetIsStake ==
    ASSUME TypeOK, NEW m \in Markets, NEW k \in Markets,
           NEW u \in Users, NEW o \in Outcomes, NEW n \in Nat, NEW min,
           placeBetFor(m, u, o, n, min)
    PROVE  EscrowStep(k)
  <1>1. /\ totalLiquidity' = [totalLiquidity EXCEPT ![m] = @ + n]
        /\ cash' = [cash EXCEPT ![m] = @ + n]
        /\ n \in 1 .. wallet[u] /\ status[m] = "Open"
        /\ UNCHANGED <<status, principal>>
    BY DEF placeBetFor, lifeVars, vaultVars
  <1>2. CASE k = m
    <2>1. /\ totalLiquidity'[m] = totalLiquidity[m] + n /\ cash'[m] = cash[m] + n /\ n > 0
          /\ totalLiquidity[m] \in Nat /\ cash[m] \in Nat /\ InitialLiquidity[m] \in Nat
      <3>1. wallet[u] \in Nat
        BY DEF TypeOK, BookTypeOK, Accounts
      <3>2. n > 0
        BY <1>1, <3>1
      <3> QED
        BY <1>1, <3>2, MarketAssumption DEF TypeOK, BookTypeOK
    <2>2. EscrowPhase[status[m]] = "open"
      BY <1>1 DEF EscrowPhase
    <2>3. /\ BetTotal(m)' > BetTotal(m)
          /\ cash'[m] - cash[m] = BetTotal(m)' - BetTotal(m)
      BY <2>1 DEF BetTotal
    <2> QED
      BY <1>1, <1>2, <2>2, <2>3 DEF EscrowStep, EscrowOf!Next, EscrowOf!Stake
  <1>3. CASE k # m
    BY <1>1, <1>3, EscrowFrame DEF TypeOK, BookTypeOK
  <1> QED
    BY <1>2, <1>3

\* Redemptions and refunds are payments out of what the market holds.
LEMMA PayIsPay ==
    ASSUME TypeOK, NEW m \in Markets, NEW k \in Markets,
           NEW u \in Users, NEW o \in Outcomes, NEW n \in Nat,
           redeem(m, u, o, n) \/ refundFor(m, u, o, n)
    PROVE  EscrowStep(k)
  <1>1. /\ \E amount \in 0 .. cash[m] : cash' = [cash EXCEPT ![m] = @ - amount]
        /\ status[m] \in {"Finalized", "Cancelled"}
        /\ UNCHANGED <<status, principal, totalLiquidity>>
    BY DEF redeem, refundFor, BurnAndPay, lifeVars, betVars, vaultVars
  <1>2. CASE k = m
    <2>1. cash'[m] \in 0 .. cash[m]
      BY <1>1 DEF TypeOK, BookTypeOK
    <2>2. EscrowPhase[status[m]] \in {"paying", "refunding"}
      BY <1>1 DEF EscrowPhase
    <2> QED
      BY <1>1, <1>2, <2>1, <2>2 DEF EscrowStep, EscrowOf!Next, EscrowOf!Pay, BetTotal
  <1>3. CASE k # m
    BY <1>1, <1>3, EscrowFrame DEF TypeOK, BookTypeOK
  <1> QED
    BY <1>2, <1>3

\* Funding is a loan, and the first one.
LEMMA FundIsLend ==
    ASSUME TypeOK, LedgerInv, NEW m \in Markets, NEW k \in Markets, fundFromVault(m)
    PROVE  EscrowStep(k)
  <1>1. /\ borrowed[m] = 0 /\ status[m] = "Open" /\ InitialLiquidity[m] > 0
        /\ cash' = [cash EXCEPT ![m] = @ + InitialLiquidity[m]]
        /\ principal' = [principal EXCEPT ![m] = @ + InitialLiquidity[m]]
        /\ UNCHANGED <<status, totalLiquidity>>
    BY DEF fundFromVault, borrow, lifeVars, betVars
  <1>2. CASE k = m
    <2>1. principal[m] = 0 /\ InitialLiquidity[m] \in Nat
      BY <1>1, MarketAssumption DEF LedgerInv, DebtAgrees, Unsettled
    <2>2. principal'[m] = InitialLiquidity[m] /\ cash'[m] = cash[m] + InitialLiquidity[m]
      BY <1>1, <2>1 DEF TypeOK, BookTypeOK, VaultTypeOK
    <2>3. EscrowPhase[status[m]] = "open"
      BY <1>1 DEF EscrowPhase
    <2> QED
      BY <1>1, <1>2, <2>1, <2>2, <2>3 DEF EscrowStep, EscrowOf!Next, EscrowOf!Lend, BetTotal
  <1>3. CASE k # m
    BY <1>1, <1>3, EscrowFrame DEF TypeOK, BookTypeOK, VaultTypeOK
  <1> QED
    BY <1>2, <1>3

\* Locking closes the escrow; resolving is not seen.
LEMMA LockIsClose ==
    ASSUME TypeOK, NEW m \in Markets, NEW k \in Markets,
           lock(m) \/ \E r \in MapperResults : resolve(m, r)
    PROVE  EscrowStep(k)
  <1>1. UNCHANGED <<cash, principal, totalLiquidity>>
    BY DEF lock, resolve, betVars, vaultVars
  <1>2. CASE k = m
    <2>1. CASE lock(m)
      <3>1. EscrowPhase[status[m]] = "open" /\ EscrowPhase[status'[m]] = "closed"
        BY <2>1 DEF lock, EscrowPhase, TypeOK, BookTypeOK
      <3> QED
        BY <1>1, <1>2, <3>1 DEF EscrowStep, EscrowOf!Next, EscrowOf!Close, BetTotal
    <2>2. CASE \E r \in MapperResults : resolve(m, r)
      <3>1. EscrowPhase[status[m]] = EscrowPhase[status'[m]]
        BY <2>2 DEF resolve, EscrowPhase, TypeOK, BookTypeOK
      <3> QED
        BY <1>1, <1>2, <3>1, EscrowFrame
    <2> QED
      BY <2>1, <2>2
  <1>3. CASE k # m
    <2>1. status'[k] = status[k]
      BY <1>3 DEF lock, resolve, TypeOK, BookTypeOK
    <2> QED
      BY <1>1, <2>1, EscrowFrame
  <1> QED
    BY <1>2, <1>3

\* The end of a market is not seen by the others.
LEMMA EndElsewhere ==
    ASSUME NEW m \in Markets, NEW k \in Markets, k # m, ClosesLedger(m)
    PROVE  EscrowStep(k)
  BY EscrowFrame DEF ClosesLedger

\* Finalizing settles.
LEMMA FinalizeIsSettle ==
    ASSUME TypeOK, LedgerInv, NEW m \in Markets, NEW k \in Markets,
           finalizeExact(m) \/ \E bps \in ScaleChoices : finalizeScaled(m, bps)
    PROVE  EscrowStep(k)
  <1>1. ClosesLedger(m) /\ status[m] = "Resolved" /\ status'[m] = "Finalized"
    BY FinalizeCloses
  <1>2. CASE k = m
    <2>1. EscrowPhase[status[m]] = "closed" /\ EscrowPhase[status'[m]] = "paying"
      BY <1>1 DEF EscrowPhase
    <2>2. cash'[m] \in 0 .. cash[m] /\ principal'[m] = 0 /\ totalLiquidity'[m] = totalLiquidity[m]
      BY <1>1 DEF ClosesLedger, TypeOK, BookTypeOK
    <2> QED
      BY <1>2, <2>1, <2>2 DEF EscrowStep, EscrowOf!Next, EscrowOf!Settle, BetTotal
  <1> QED
    BY <1>1, <1>2, EndElsewhere

\* Both cancellations void.
LEMMA CancelIsVoid ==
    ASSUME TypeOK, LedgerInv, NEW m \in Markets, NEW k \in Markets,
           cancel(m) \/ cancelResolved(m)
    PROVE  EscrowStep(k)
  <1>1. ClosesLedger(m) /\ status'[m] = "Cancelled" /\ cash'[m] = BetTotal(m)
    BY CancelCloses
  <1>2. CASE k = m
    <2>1. EscrowPhase[status[m]] \in {"open", "closed"} /\ EscrowPhase[status'[m]] = "refunding"
      BY <1>1 DEF EscrowPhase, ClosesLedger, Unsettled
    <2>2. principal'[m] = 0 /\ totalLiquidity'[m] = totalLiquidity[m]
      BY <1>1 DEF ClosesLedger
    <2> QED
      BY <1>1, <1>2, <2>1, <2>2 DEF EscrowStep, EscrowOf!Next, EscrowOf!Void, BetTotal
  <1> QED
    BY <1>1, <1>2, EndElsewhere

\* Every step of the system is, for every market, a step of its escrow or a
\* stutter.
LEMMA StepImplements ==
    ASSUME TypeOK, LedgerInv, [Next]_vars, NEW k \in Markets
    PROVE  EscrowStep(k)
  <1>1. CASE UNCHANGED ledgerVars
    BY <1>1, EscrowFrame DEF ledgerVars
  <1>2. CASE UNCHANGED vars
    BY <1>1, <1>2 DEF vars, vaultVars, lifeVars, betVars, ledgerVars
  <1>3. CASE LpStep
    BY <1>1, <1>3 DEF LpStep, LpDeposit, LpMint, LpWithdraw, LpRedeem, FundReserve, DefundReserve,
                      deposit, mint, withdraw, redeemShares, MoveIn, MoveOut, depositReserve,
                      withdrawReserve, bookVars, lifeVars, betVars, borrowVars, ledgerVars
  <1>4. ASSUME NEW m \in Markets, BettorStep(m)
        PROVE  EscrowStep(k)
    <2>1. CASE \E u, v \in Users, o \in Outcomes : \E n \in 1 .. sharesOf[m][u][o] :
                   transferPosition(m, u, v, o, n)
      BY <1>1, <2>1 DEF transferPosition, lifeVars, betVars, vaultVars, ledgerVars
    <2>2. \A u \in Users, o \in Outcomes : 1 .. sharesOf[m][u][o] \subseteq Nat
      BY DEF TypeOK, BookTypeOK
    <2> QED
      BY <1>4, <2>1, <2>2, BetIsStake, PayIsPay, SportsbookAssumption DEF BettorStep
  <1>5. ASSUME NEW m \in Markets, Kickoff(m) \/ pauseMarket(m) \/ unpauseMarket(m)
        PROVE  EscrowStep(k)
    BY <1>1, <1>5 DEF Kickoff, pauseMarket, unpauseMarket, betVars, vaultVars, ledgerVars
  <1>6. ASSUME NEW m \in Markets, Administer(m)
        PROVE  EscrowStep(k)
    <2>1. UNCHANGED <<status, totalLiquidity, cash>>
      BY <1>6 DEF Administer, bookVars, lifeVars, betVars
    <2>2. principal' = principal
      <3>1. CASE \E bps \in Liabilities : authorizeMarket(m, bps)
        <4>1. m \notin active /\ principal' = [principal EXCEPT ![m] = 0]
          BY <3>1 DEF authorizeMarket
        <4>2. principal[m] = 0
          BY <4>1 DEF TypeOK, VaultTypeOK, LedgerInv, DebtorsActive
        <4> QED
          BY <4>1, <4>2 DEF TypeOK, VaultTypeOK
      <3> QED
        BY <1>6, <3>1 DEF Administer, revokeMarket, updateMaxLiabilityBps, setReserveRatio,
                          pauseVault, unpauseVault, borrowVars
    <2> QED
      BY <2>1, <2>2, EscrowFrame
  <1>7. ASSUME NEW m \in Markets, KeeperStep(m) \/ OperatorStep(m)
        PROVE  EscrowStep(k)
    BY <1>5, <1>6, <1>7, FundIsLend, LockIsClose, FinalizeIsSettle, CancelIsVoid
    DEF KeeperStep, OperatorStep
  <1> QED
    BY <1>2, <1>3, <1>4, <1>7 DEF Next

\* Every market is an escrow: stakes are taken only while it is open and held
\* in full with the loan until it ends, the loan is cleared once and exactly
\* when it ends, a cancelled market keeps the stakes and nothing else, and
\* nothing is paid before the end.
THEOREM MarketsAreEscrows == Spec => ImplementsEscrow
  <1>1. ASSUME Init, NEW m \in Markets
        PROVE  EscrowOf(m)!Init
    <2>1. /\ status[m] = "Open" /\ cash[m] = 0 /\ principal[m] = 0
          /\ totalLiquidity[m] = InitialLiquidity[m] /\ InitialLiquidity[m] \in Nat
      BY <1>1, MarketAssumption DEF Init, MarketInit, VaultInit
    <2> QED
      BY <2>1 DEF EscrowOf!Init, EscrowPhase, BetTotal
  <1>2. Init => \A m \in Markets : EscrowOf(m)!Init
    BY <1>1
  <1>3. TypeOK /\ LedgerInv /\ [Next]_vars => [\A m \in Markets : EscrowStep(m)]_vars
    BY StepImplements
  <1> QED
    BY <1>2, <1>3, TypeCorrect, LedgerCorrect, PTL DEF Spec, ImplementsEscrow
-----------------------------------------------------------------------------
(***************************************************************************)
(* Payout terms.                                                           *)
(***************************************************************************)

\* The variables a payout is computed from.
termVars == <<status, totalLiquidity, outcomeShares, result, scale>>

\* They are the same at k.
TermsKept(k) ==
    /\ status'[k] = status[k]
    /\ totalLiquidity'[k] = totalLiquidity[k]
    /\ outcomeShares'[k] = outcomeShares[k]
    /\ result'[k] = result[k]
    /\ scale'[k] = scale[k]

\* A step of a market touches its own terms only, and those not once it is
\* finalized: every action that changes them requires an earlier status.
LEMMA MarketKeepsTerms ==
    ASSUME TypeOK, NEW m \in Markets, NEW k \in Markets, status[k] = "Finalized",
           BettorStep(m) \/ KeeperStep(m) \/ OperatorStep(m)
    PROVE  TermsKept(k)
  <1> USE DEF TypeOK, BookTypeOK, ResultTypeOK, TermsKept
  <1>1. CASE UNCHANGED termVars
    BY <1>1 DEF termVars
  <1>2. CASE BettorStep(m)
    <2>1. ASSUME NEW u \in Users, NEW o \in Outcomes, NEW n, NEW min, placeBetFor(m, u, o, n, min)
          PROVE  TermsKept(k)
      <3>1. k # m /\ UNCHANGED <<status, result, scale>>
        BY <2>1 DEF placeBetFor, lifeVars, payVars
      <3>2. totalLiquidity'[k] = totalLiquidity[k] /\ outcomeShares'[k] = outcomeShares[k]
        BY <2>1, <3>1 DEF placeBetFor
      <3> QED
        BY <3>1, <3>2
    <2>2. ASSUME NEW u \in Users, NEW o \in Outcomes, NEW n,
                 \/ \E v \in Users : transferPosition(m, u, v, o, n)
                 \/ redeem(m, u, o, n) \/ refundFor(m, u, o, n)
          PROVE  TermsKept(k)
      BY <1>1, <2>2 DEF transferPosition, redeem, refundFor, lifeVars, betVars, payVars, termVars
    <2> QED
      BY <1>2, <2>1, <2>2 DEF BettorStep
  <1>3. CASE Kickoff(m) \/ pauseMarket(m) \/ unpauseMarket(m) \/ fundFromVault(m) \/ Administer(m)
    BY <1>1, <1>3 DEF Kickoff, pauseMarket, unpauseMarket, fundFromVault, Administer,
                      bookVars, lifeVars, betVars, payVars, termVars
  <1>4. CASE lock(m) \/ (\E r \in MapperResults : resolve(m, r)) \/ cancel(m) \/ cancelResolved(m)
    <2>1. k # m /\ UNCHANGED <<totalLiquidity, outcomeShares, scale>>
      BY <1>4 DEF lock, resolve, cancel, cancelResolved, betVars, payVars
    <2>2. status'[k] = status[k] /\ result'[k] = result[k]
      BY <1>4, <2>1 DEF lock, resolve, cancel, cancelResolved, payVars
    <2> QED
      BY <2>1, <2>2
  <1>5. CASE finalizeExact(m) \/ \E bps \in ScaleChoices : finalizeScaled(m, bps)
    <2>1. k # m /\ UNCHANGED <<totalLiquidity, outcomeShares, result>>
      BY <1>5 DEF finalizeExact, finalizeScaled, betVars, payVars
    <2>2. status'[k] = status[k] /\ scale'[k] = scale[k]
      BY <1>5, <2>1 DEF finalizeExact, finalizeScaled, payVars
    <2> QED
      BY <2>1, <2>2
  <1> QED
    BY <1>2, <1>3, <1>4, <1>5 DEF KeeperStep, OperatorStep

\* From its finalization on nothing that a market's payouts are computed from
\* changes: the same shares are paid the same whenever they are redeemed.
THEOREM PayoutTermsAreFrozen == Spec => PayoutTermsFrozen
  <1> DEFINE Frozen == \A m \in Markets : status[m] = "Finalized" =>
                          /\ status'[m] = "Finalized"
                          /\ totalLiquidity'[m] = totalLiquidity[m]
                          /\ outcomeShares'[m] = outcomeShares[m]
                          /\ result'[m] = result[m]
                          /\ scale'[m] = scale[m]
  <1>1. ASSUME TypeOK, Next, NEW k \in Markets, status[k] = "Finalized"
        PROVE  TermsKept(k)
    <2>1. CASE LpStep
      <3>1. UNCHANGED bookVars
        BY <2>1 DEF LpStep, LpDeposit, LpMint, LpWithdraw, LpRedeem, FundReserve, DefundReserve
      <3> QED
        BY <3>1 DEF TermsKept, bookVars, lifeVars, betVars, payVars
    <2> QED
      BY <1>1, <2>1, MarketKeepsTerms DEF Next
  <1>2. TypeOK /\ [Next]_vars => [Frozen]_vars
    BY <1>1 DEF TermsKept
  <1> QED
    BY <1>2, TypeCorrect, PTL DEF Spec, PayoutTermsFrozen

-----------------------------------------------------------------------------
(*****************************************************************************)
(* Multiplication and division with rounding.                                *)
(*****************************************************************************)

\* Multiplication by a natural is monotone.
LEMMA TimesMonotone ==
    ASSUME NEW d \in Nat, NEW a \in Int, NEW b \in Int, a <= b
    PROVE  d * a <= d * b
  <1>1. PICK k \in Nat : b = a + k
    <2>1. b - a \in Nat /\ b = a + (b - a)
      OBVIOUS
    <2> QED
      BY <2>1
  <1>2. d * b = d * a + d * k
    BY <1>1
  <1>3. d * k \in Nat /\ d * a \in Int
    BY <1>1
  <1> QED
    BY <1>2, <1>3

\* The integer quotient times the divisor falls short of the dividend by less
\* than the divisor.
LEMMA FloorBounds ==
    ASSUME NEW a \in Nat, NEW d \in Nat \ {0}
    PROVE  /\ a \div d \in Nat
           /\ d * (a \div d) <= a
           /\ a < d * ((a \div d) + 1)
  OBVIOUS

\* The integer quotient is the largest number that fits.
LEMMA FloorIsLargest ==
    ASSUME NEW a \in Nat, NEW d \in Nat \ {0}, NEW k \in Int, d * k <= a
    PROVE  k <= a \div d
  <1> DEFINE q == a \div d
  <1>1. q \in Nat /\ a < d * (q + 1)
    BY FloorBounds
  <1> HIDE DEF q
  <1>2. CASE q + 1 <= k
    <2>1. d * (q + 1) <= d * k
      BY <1>1, <1>2, TimesMonotone
    <2>2. d * (q + 1) \in Int /\ d * k \in Int
      BY <1>1
    <2> QED
      BY <1>1, <2>1, <2>2
  <1>3. CASE k <= q
    BY <1>3 DEF q
  <1> QED
    BY <1>1, <1>2, <1>3

\* Integer division is monotone.
LEMMA DivMonotone ==
    ASSUME NEW a \in Nat, NEW b \in Nat, a <= b, NEW d \in Nat \ {0}
    PROVE  a \div d <= b \div d
  <1> DEFINE q == a \div d
  <1>1. q \in Nat /\ d * q <= a
    BY FloorBounds
  <1> HIDE DEF q
  <1>2. d * q \in Nat
    BY <1>1
  <1>3. d * q <= b
    BY <1>1, <1>2
  <1>4. q <= b \div d
    BY <1>1, <1>3, FloorIsLargest
  <1> QED
    BY <1>4 DEF q

\* The quotients of two parts are together at most the quotient of the whole.
LEMMA DivSuperadditive ==
    ASSUME NEW a \in Nat, NEW b \in Nat, NEW d \in Nat \ {0}
    PROVE  (a \div d) + (b \div d) <= (a + b) \div d
  <1> DEFINE p == a \div d
             q == b \div d
  <1>1. p \in Nat /\ q \in Nat /\ d * p <= a /\ d * q <= b
    BY FloorBounds
  <1> HIDE DEF p, q
  <1>2. d * (p + q) = d * p + d * q /\ d * p \in Nat /\ d * q \in Nat
    BY <1>1
  <1>3. d * (p + q) <= a + b
    BY <1>1, <1>2
  <1>4. p + q \in Int /\ a + b \in Nat
    BY <1>1
  <1>5. p + q <= (a + b) \div d
    BY <1>3, <1>4, FloorIsLargest
  <1> QED
    BY <1>5 DEF p, q

\* Rounding up gives a natural that is at least the exact quotient.
LEMMA CeilBounds ==
    ASSUME NEW a \in Nat, NEW d \in Nat \ {0}
    PROVE  CeilDiv(a, d) \in Nat /\ a <= d * CeilDiv(a, d)
  <1> DEFINE x == a + d - 1
             q == x \div d
  <1>1. x \in Nat
    OBVIOUS
  <1>2. q \in Nat /\ x < d * (q + 1)
    BY <1>1, FloorBounds
  <1>3. CeilDiv(a, d) = q
    BY DEF CeilDiv
  <1> HIDE DEF q
  <1>4. d * (q + 1) = d * q + d /\ d * q \in Nat
    BY <1>2
  <1> QED
    BY <1>2, <1>3, <1>4

\* A rate in basis points takes no more of a smaller amount.
LEMMA MulBpsMonotone ==
    ASSUME NEW a \in Nat, NEW b \in Nat, a <= b, NEW bps \in Nat
    PROVE  MulBps(a, bps) <= MulBps(b, bps)
  <1>1. bps * a <= bps * b /\ a * bps = bps * a /\ b * bps = bps * b /\ a * bps \in Nat /\ b * bps \in Nat
    BY TimesMonotone
  <1>2. (a * bps) \div 10000 <= (b * bps) \div 10000
    BY <1>1, DivMonotone
  <1> QED
    BY <1>2 DEF MulBps, BASIS_POINTS

\* Rounded down, two parts together are paid no more than the whole.
LEMMA MulBpsSuperadditive ==
    ASSUME NEW a \in Nat, NEW b \in Nat, NEW bps \in Nat
    PROVE  MulBps(a, bps) + MulBps(b, bps) <= MulBps(a + b, bps)
  <1> DEFINE x == a * bps
             y == b * bps
  <1>1. x \in Nat /\ y \in Nat /\ (a + b) * bps = x + y
    OBVIOUS
  <1> HIDE DEF x, y
  <1>2. (x \div 10000) + (y \div 10000) <= (x + y) \div 10000
    BY <1>1, DivSuperadditive
  <1>3. MulBps(a, bps) = x \div 10000 /\ MulBps(b, bps) = y \div 10000
    BY DEF MulBps, BASIS_POINTS, x, y
  <1>4. MulBps(a + b, bps) = (x + y) \div 10000
    BY <1>1 DEF MulBps, BASIS_POINTS
  <1> QED
    BY <1>2, <1>3, <1>4

\* The full rate takes all of an amount.
LEMMA MulBpsWhole ==
    ASSUME NEW a \in Nat
    PROVE  MulBps(a, BASIS_POINTS) = a
  BY DEF MulBps, BASIS_POINTS

\* A share in basis points, times 10000, is at most the multiplied amount.
LEMMA MulBpsFloor ==
    ASSUME NEW a \in Nat, NEW bps \in Nat
    PROVE  10000 * MulBps(a, bps) <= a * bps
  <1> DEFINE x == a * bps
  <1>1. x \in Nat
    OBVIOUS
  <1>2. MulBps(a, bps) = x \div 10000
    BY DEF MulBps, BASIS_POINTS
  <1> HIDE DEF x
  <1>3. 10000 * (x \div 10000) <= x
    BY <1>1, FloorBounds
  <1> QED
    BY <1>2, <1>3 DEF x

\* It is the largest such number.
LEMMA MulBpsLargest ==
    ASSUME NEW a \in Nat, NEW bps \in Nat, NEW k \in Int, 10000 * k <= a * bps
    PROVE  k <= MulBps(a, bps)
  <1> DEFINE x == a * bps
  <1>1. x \in Nat
    OBVIOUS
  <1>2. MulBps(a, bps) = x \div 10000
    BY DEF MulBps, BASIS_POINTS
  <1>3. 10000 * k <= x
    OBVIOUS
  <1> HIDE DEF x
  <1>4. k <= x \div 10000
    BY <1>1, <1>3, FloorIsLargest
  <1> QED
    BY <1>2, <1>4

-----------------------------------------------------------------------------
(*****************************************************************************)
(* The price of a share.  Every conversion rounds for the vault, so total    *)
(* assets times the old supply never falls below old assets times supply.    *)
(*****************************************************************************)

\* Tokens that come in for new shares, at most at the going price.
LEMMA PriceOfMoveIn ==
    ASSUME NEW A \in Nat, NEW S \in Nat, NEW a \in Nat, NEW s \in Nat, A * s <= a * S
    PROVE  (A + a) * S >= A * (S + s)
  <1>1. (A + a) * S = A * S + a * S /\ A * (S + s) = A * S + A * s
    OBVIOUS
  <1>2. A * S \in Nat /\ a * S \in Nat /\ A * s \in Nat
    OBVIOUS
  <1> QED
    BY <1>1, <1>2

\* Tokens that go out for burnt shares, at most at the going price.
LEMMA PriceOfMoveOut ==
    ASSUME NEW A \in Nat, NEW S \in Nat, NEW a \in Nat, NEW s \in Nat, a * S <= A * s
    PROVE  (A - a) * S >= A * (S - s)
  <1>1. (A - a) * S = A * S - a * S /\ A * (S - s) = A * S - A * s
    OBVIOUS
  <1>2. A * S \in Nat /\ a * S \in Nat /\ A * s \in Nat
    OBVIOUS
  <1> QED
    BY <1>1, <1>2

\* The conversions round in favour of the vault.
LEMMA ConversionsFavourVault ==
    ASSUME VaultTypeOK, NEW n \in Nat
    PROVE  /\ (totalAssets + 1) * SharesDown(n) <= n * (totalSupply + VirtualShares)
           /\ (totalAssets + 1) * n <= AssetsUp(n) * (totalSupply + VirtualShares)
           /\ n * (totalSupply + VirtualShares) <= (totalAssets + 1) * SharesUp(n)
           /\ AssetsDown(n) * (totalSupply + VirtualShares) <= (totalAssets + 1) * n
  <1> DEFINE A == totalAssets + 1
             S == totalSupply + VirtualShares
  <1>1. A \in Nat \ {0} /\ S \in Nat \ {0}
    BY AssetTypes, VaultAssumption DEF VaultTypeOK
  <1>2. /\ SharesDown(n) = (n * S) \div A /\ SharesUp(n) = CeilDiv(n * S, A)
        /\ AssetsDown(n) = (n * A) \div S /\ AssetsUp(n) = CeilDiv(n * A, S)
    BY DEF SharesDown, SharesUp, AssetsDown, AssetsUp
  <1> HIDE DEF A, S
  <1>3. n * S \in Nat /\ n * A \in Nat /\ n * A = A * n
    BY <1>1
  <1>4. /\ SharesDown(n) \in Nat /\ SharesUp(n) \in Nat
        /\ AssetsDown(n) \in Nat /\ AssetsUp(n) \in Nat
    BY ConversionTypes
  <1>5. A * SharesDown(n) <= n * S
    BY <1>1, <1>2, <1>3, FloorBounds
  <1>6. n * S <= A * SharesUp(n)
    BY <1>1, <1>2, <1>3, CeilBounds
  <1>7. S * AssetsDown(n) <= n * A
    BY <1>1, <1>2, <1>3, FloorBounds
  <1>8. n * A <= S * AssetsUp(n)
    BY <1>1, <1>2, <1>3, CeilBounds
  <1>9. S * AssetsDown(n) = AssetsDown(n) * S /\ S * AssetsUp(n) = AssetsUp(n) * S
    BY <1>1, <1>4
  <1> QED
    BY <1>3, <1>5, <1>6, <1>7, <1>8, <1>9 DEF A, S

\* What the LPs own moves with the tokens that come in or go out.
LEMMA AssetsFollow ==
    ASSUME VaultTypeOK, ReserveBacked, NEW lp \in LPs, NEW a \in Nat, NEW s \in Nat
    PROVE  /\ MoveIn(lp, a, s) => /\ totalAssets' = totalAssets + a
                                  /\ totalSupply' = totalSupply + s
           /\ MoveOut(lp, a, s) /\ a <= LpCash => /\ totalAssets' = totalAssets - a
                                                  /\ totalSupply' = totalSupply - s
  <1>1. LpCash = vaultCash - reserve
    BY DEF VaultTypeOK, ReserveBacked, LpCash, Monus
  <1>2. CASE MoveIn(lp, a, s)
    <2>1. LpCash' = LpCash + a
      BY <1>1, <1>2 DEF MoveIn, VaultTypeOK, ReserveBacked, LpCash, Monus
    <2> QED
      BY <1>1, <1>2, <2>1 DEF MoveIn, MoveOut, totalAssets, borrowVars, VaultTypeOK
  <1>3. CASE MoveOut(lp, a, s) /\ a <= LpCash
    <2>1. LpCash' = LpCash - a
      BY <1>1, <1>3 DEF MoveOut, VaultTypeOK, ReserveBacked, LpCash, Monus
    <2> QED
      BY <1>1, <1>3, <2>1 DEF MoveIn, MoveOut, totalAssets, borrowVars, VaultTypeOK
  <1> QED
    BY <1>2, <1>3

\* An LP's call does not lower the price of a share.
LEMMA LpCallKeepsValue ==
    ASSUME VaultTypeOK, ReserveBacked, NEW lp \in LPs, NEW n \in Nat,
           deposit(lp, n) \/ mint(lp, n) \/ withdraw(lp, n) \/ redeemShares(lp, n)
    PROVE  (totalAssets' + 1) * (totalSupply + VirtualShares)
               >= (totalAssets + 1) * (totalSupply' + VirtualShares)
  <1> DEFINE A == totalAssets + 1
             S == totalSupply + VirtualShares
  <1>1. A \in Nat \ {0} /\ S \in Nat \ {0} /\ totalAssets \in Nat /\ totalSupply \in Nat /\ VirtualShares \in Nat
    BY AssetTypes, VaultAssumption DEF VaultTypeOK
  <1>2. /\ SharesDown(n) \in Nat /\ SharesUp(n) \in Nat
        /\ AssetsDown(n) \in Nat /\ AssetsUp(n) \in Nat
    BY ConversionTypes
  <1>3. ASSUME NEW a \in Nat, NEW s \in Nat, MoveIn(lp, a, s), A * s <= a * S
        PROVE  (totalAssets' + 1) * S >= A * (totalSupply' + VirtualShares)
    <2>1. totalAssets' = totalAssets + a /\ totalSupply' = totalSupply + s
      BY <1>3, AssetsFollow
    <2>2. totalAssets' + 1 = A + a /\ totalSupply' + VirtualShares = S + s
      BY <1>1, <2>1
    <2> HIDE DEF A, S
    <2>3. (A + a) * S >= A * (S + s)
      BY <1>1, <1>3, PriceOfMoveIn
    <2> QED
      BY <2>2, <2>3
  <1>4. ASSUME NEW a \in Nat, NEW s \in Nat, MoveOut(lp, a, s), a <= LpCash, a * S <= A * s
        PROVE  (totalAssets' + 1) * S >= A * (totalSupply' + VirtualShares)
    <2>1. totalAssets' = totalAssets - a /\ totalSupply' = totalSupply - s
      BY <1>4, AssetsFollow
    <2>2. totalAssets' + 1 = A - a /\ totalSupply' + VirtualShares = S - s
      BY <1>1, <2>1
    <2> HIDE DEF A, S
    <2>3. (A - a) * S >= A * (S - s)
      BY <1>1, <1>4, PriceOfMoveOut
    <2> QED
      BY <2>2, <2>3
  <1>5. /\ A * SharesDown(n) <= n * S /\ A * n <= AssetsUp(n) * S
        /\ n * S <= A * SharesUp(n) /\ AssetsDown(n) * S <= A * n
    BY ConversionsFavourVault
  <1> HIDE DEF A, S
  <1>6. (totalAssets' + 1) * S >= A * (totalSupply' + VirtualShares)
    BY <1>2, <1>3, <1>4, <1>5 DEF deposit, mint, withdraw, redeemShares
  <1> QED
    BY <1>6 DEF A, S

\* Only LPs' calls move vault shares.
LEMMA SharesMoveByCall ==
    ASSUME TypeOK, [Next]_vars, lpShares' # lpShares
    PROVE  LpCall
  <1>1. CASE UNCHANGED vaultVars
    BY <1>1 DEF vaultVars
  <1>2. CASE ReserveCall
    BY <1>2 DEF ReserveCall, depositReserve, withdrawReserve, shareVars
  <1>3. CASE AdminCall
    BY <1>3 DEF AdminCall, authorizeMarket, revokeMarket, updateMaxLiabilityBps,
                setReserveRatio, pauseVault, unpauseVault, shareVars
  <1>4. CASE BorrowCall
    BY <1>4 DEF BorrowCall, borrow, shareVars
  <1>5. CASE SettleCall
    BY <1>5 DEF SettleCall, settle, settleWithReserve, returnPrincipal, shareVars
  <1>6. CASE UNCHANGED vars
    BY <1>1, <1>6 DEF vars
  <1> QED
    BY <1>1, <1>2, <1>3, <1>4, <1>5, <1>6, VaultStep

\* No deposit, mint, withdrawal or redemption lowers what a share of the vault
\* is worth: the ERC-4626 conversions round for the vault.
THEOREM ShareValueIsKept == Spec => ShareValueKept
  <1>1. TypeOK /\ ReserveBacked /\ [Next]_vars
            => [lpShares' # lpShares =>
                  (totalAssets' + 1) * (totalSupply + VirtualShares)
                      >= (totalAssets + 1) * (totalSupply' + VirtualShares)]_vars
    BY SharesMoveByCall, LpCallKeepsValue DEF LpCall, TypeOK
  <1> QED
    BY <1>1, TypeCorrect, ReserveIsBacked, PTL DEF Spec, ShareValueKept

-----------------------------------------------------------------------------
(*****************************************************************************)
(* Losses.  What the LPs lose in a step is at most the principal that the    *)
(* step takes off _totalBorrowed.                                            *)
(*****************************************************************************)

\* What the LPs own, in terms of the vault's books.
LEMMA AssetsInBooks ==
    ASSUME VaultTypeOK, ReserveBacked
    PROVE  totalAssets = (vaultCash - reserve) + totalBorrowed
  BY DEF VaultTypeOK, ReserveBacked, totalAssets, LpCash, Monus

\* The loss when the debts do not grow and the LPs' tokens do not fall.
LEMMA LossOfRepayment ==
    ASSUME NEW c \in Int, NEW d \in Int, c <= d, NEW a \in Nat, NEW b \in Nat, b <= a
    PROVE  (c + a) - (d + b) <= Monus(a, b)
  BY DEF Monus

\* The loss when debts grow by no more than the LPs' tokens fall.
LEMMA LossOfLoan ==
    ASSUME NEW c \in Int, NEW d \in Int, NEW a \in Nat, NEW b \in Nat, a <= b, c + a <= d + b
    PROVE  (c + a) - (d + b) <= Monus(a, b)
  BY DEF Monus

\* A settlement brings in at least what the reserve gains.
LEMMA SettlementLeavesCash ==
    ASSUME VaultTypeOK, NEW m \in Markets, NEW p \in Nat, NEW pnl,
           settle(m, p, pnl) \/ settleWithReserve(m, p, pnl) \/ returnPrincipal(m, p)
    PROVE  /\ vaultCash' - reserve' >= vaultCash - reserve
           /\ totalBorrowed' <= totalBorrowed
  <1>1. totalBorrowed' <= totalBorrowed
    BY DEF settle, settleWithReserve, returnPrincipal, RepayPrincipal, VaultTypeOK
  <1>2. CASE returnPrincipal(m, p)
    BY <1>1, <1>2 DEF returnPrincipal, VaultTypeOK
  <1>3. CASE settle(m, p, pnl) \/ settleWithReserve(m, p, pnl)
    <2>1. /\ vaultCash' = vaultCash + SettlementTransfer(p, pnl)
          /\ SettlementTransfer(p, pnl) \in Nat
          /\ reserve' \in 0 .. reserve + SettlementTransfer(p, pnl)
      BY <1>3, SettlementEffect DEF settle, settleWithReserve
    <2> QED
      BY <1>1, <2>1 DEF VaultTypeOK
  <1> QED
    BY <1>2, <1>3

\* Shares of somebody change unless an LP's call moves none.
LEMMA NoSharesNoLoss ==
    ASSUME VaultTypeOK, ReserveBacked, NEW lp \in LPs, NEW n \in Nat,
           deposit(lp, n) \/ mint(lp, n) \/ withdraw(lp, n) \/ redeemShares(lp, n),
           lpShares' = lpShares
    PROVE  /\ totalBorrowed' = totalBorrowed
           /\ vaultCash' - reserve' >= vaultCash - reserve
  <1>1. /\ SharesDown(n) \in Nat /\ SharesUp(n) \in Nat
        /\ AssetsDown(n) \in Nat /\ AssetsUp(n) \in Nat
    BY ConversionTypes
  <1>2. \A s \in Nat : lpShares' = [lpShares EXCEPT ![lp] = @ - s] => s = 0
    BY DEF VaultTypeOK
  <1>3. CASE deposit(lp, n) \/ mint(lp, n)
    BY <1>1, <1>3 DEF deposit, mint, MoveIn, borrowVars, VaultTypeOK
  <1>4. CASE withdraw(lp, n)
    <2>1. SharesUp(n) = 0
      BY <1>1, <1>2, <1>4 DEF withdraw, MoveOut
    <2>2. n * (totalSupply + VirtualShares) <= (totalAssets + 1) * SharesUp(n)
      BY ConversionsFavourVault
    <2>3. n * (totalSupply + VirtualShares) <= 0 /\ totalSupply + VirtualShares \in Nat \ {0}
      BY <2>1, <2>2, AssetTypes, VaultAssumption DEF VaultTypeOK
    <2>4. n = 0
      BY <2>3
    <2> QED
      BY <1>4, <2>4 DEF withdraw, MoveOut, borrowVars, VaultTypeOK
  <1>5. CASE redeemShares(lp, n)
    <2>1. n = 0
      BY <1>2, <1>5 DEF redeemShares, MoveOut
    <2>2. AssetsDown(n) * (totalSupply + VirtualShares) <= (totalAssets + 1) * n
      BY ConversionsFavourVault
    <2>3. /\ AssetsDown(n) * (totalSupply + VirtualShares) <= 0
          /\ totalSupply + VirtualShares \in Nat \ {0}
      BY <2>1, <2>2, AssetTypes, VaultAssumption DEF VaultTypeOK
    <2>4. AssetsDown(n) = 0
      BY <1>1, <2>3
    <2> QED
      BY <1>5, <2>4 DEF redeemShares, MoveOut, borrowVars, VaultTypeOK
  <1> QED
    BY <1>3, <1>4, <1>5

\* A step that moves no vault shares either lends, or leaves the LPs at least
\* the tokens they have and the debts at most what they are.
LossCases ==
    \/ totalBorrowed' <= totalBorrowed /\ vaultCash - reserve <= vaultCash' - reserve'
    \/ /\ totalBorrowed <= totalBorrowed'
       /\ (vaultCash - reserve) + totalBorrowed <= (vaultCash' - reserve') + totalBorrowed'

\* How a step that moves no LP's shares may change the vault's books.
LEMMA StepLossCases ==
    ASSUME TypeOK, [Next]_vars, lpShares' = lpShares, ReserveBacked
    PROVE  LossCases
  <1>1. VaultTypeOK
    BY DEF TypeOK
  <1>2. CASE UNCHANGED <<vaultCash, reserve, totalBorrowed>>
    BY <1>1, <1>2 DEF VaultTypeOK, LossCases
  <1>3. CASE LpCall
    <2>1. totalBorrowed' = totalBorrowed /\ vaultCash' - reserve' >= vaultCash - reserve
      BY <1>1, <1>3, NoSharesNoLoss DEF LpCall
    <2> QED
      BY <1>1, <2>1 DEF LossCases, VaultTypeOK
  <1>4. CASE ReserveCall
    <2>1. PICK n \in Nat : depositReserve(n) \/ withdrawReserve(n)
      BY <1>4 DEF ReserveCall
    <2>2. /\ totalBorrowed' = totalBorrowed
          /\ \/ vaultCash' = vaultCash + n /\ reserve' = reserve + n
             \/ vaultCash' = vaultCash - n /\ reserve' = reserve - n
      BY <2>1 DEF depositReserve, withdrawReserve, borrowVars
    <2> QED
      BY <1>1, <2>2 DEF LossCases, VaultTypeOK
  <1>5. CASE AdminCall
    <2>1. UNCHANGED <<vaultCash, reserve, totalBorrowed>>
      BY <1>5 DEF AdminCall, authorizeMarket, revokeMarket, updateMaxLiabilityBps,
                  setReserveRatio, pauseVault, unpauseVault, borrowVars
    <2> QED
      BY <1>2, <2>1
  <1>6. CASE BorrowCall
    <2>1. \E n \in Nat : /\ totalBorrowed' = totalBorrowed + n
                         /\ vaultCash' = vaultCash - n /\ reserve' = reserve
      BY <1>6 DEF BorrowCall, borrow
    <2> QED
      BY <1>1, <2>1 DEF LossCases, VaultTypeOK
  <1>7. CASE SettleCall
    BY <1>1, <1>7, SettlementLeavesCash DEF SettleCall, LossCases
  <1>8. CASE UNCHANGED vaultVars \/ UNCHANGED vars
    BY <1>2, <1>8 DEF vaultVars, vars
  <1> QED
    BY <1>3, <1>4, <1>5, <1>6, <1>7, <1>8, VaultStep

\* What such a step costs the LPs is at most the principal that is written off.
LEMMA StepLoss ==
    ASSUME TypeOK, TypeOK', ReserveBacked, ReserveBacked', [Next]_vars, lpShares' = lpShares
    PROVE  totalAssets - totalAssets' <= Monus(totalBorrowed, totalBorrowed')
  <1> DEFINE c == vaultCash - reserve
             d == vaultCash' - reserve'
             a == totalBorrowed
             b == totalBorrowed'
  <1>1. c \in Int /\ d \in Int /\ a \in Nat /\ b \in Nat
    BY DEF TypeOK, VaultTypeOK
  <1>2. totalAssets = c + a /\ totalAssets' = d + b
    <2>1. totalAssets = c + a
      BY AssetsInBooks DEF TypeOK
    <2>2. totalAssets' = d + b
      BY DEF TypeOK, VaultTypeOK, ReserveBacked, totalAssets, LpCash, Monus
    <2> QED
      BY <2>1, <2>2
  <1>3. (b <= a /\ c <= d) \/ (a <= b /\ c + a <= d + b)
    BY StepLossCases DEF LossCases
  <1> HIDE DEF a, b, c, d
  <1>4. (c + a) - (d + b) <= Monus(a, b)
    BY <1>1, <1>3, LossOfRepayment, LossOfLoan
  <1> QED
    BY <1>2, <1>4 DEF a, b

\* A step without LP flows costs the LPs at most the principal that leaves the
\* books (_handleLoss, settleWithReserve): never the reserve's or other loans.
THEOREM LpLossIsWithinPrincipal == Spec => LpLossWithinPrincipal
  <1>1. /\ TypeOK /\ TypeOK' /\ ReserveBacked /\ ReserveBacked' /\ [Next]_vars
        => [lpShares' = lpShares =>
               totalAssets - totalAssets' <= Monus(totalBorrowed, totalBorrowed')]_vars
    BY StepLoss
  <1> QED
    BY <1>1, TypeCorrect, ReserveIsBacked, PTL DEF Spec, LpLossWithinPrincipal

-----------------------------------------------------------------------------
(*****************************************************************************)
(* The vault's ledger of debts.                                              *)
(*****************************************************************************)

\* Changing one value of a function changes its sum by the same amount.
LEMMA SumOfUpdate ==
    ASSUME NEW S, IsFiniteSet(S), NEW f \in [S -> Int], NEW x \in S, NEW v \in Int
    PROVE  SumFunction([f EXCEPT ![x] = v]) = SumFunction(f) + (v - f[x])
  <1> DEFINE g == [f EXCEPT ![x] = v]
  <1>1. g[x] = v /\ DiffersAt(f, g, S, x)
    BY DEF DiffersAt
  <1>2. DOMAIN f = S /\ DOMAIN g = S
    OBVIOUS
  <1> HIDE DEF g
  <1>3. SumFunctionOnSet(g, S) = SumFunctionOnSet(f, S) + (g[x] - f[x])
    BY <1>1, SumUpdate
  <1>4. SumFunction(g) = SumFunctionOnSet(g, S) /\ SumFunction(f) = SumFunctionOnSet(f, S)
    BY <1>2 DEF SumFunction
  <1>5. SumFunction(g) = SumFunction(f) + (v - f[x])
    BY <1>1, <1>3, <1>4
  <1> QED
    BY <1>5 DEF g

\* Total and ledger move together when one principal moves.
LEMMA LedgerMoves ==
    ASSUME VaultTypeOK, DebtLedger, NEW m \in Markets, NEW d \in Int,
           principal' = [principal EXCEPT ![m] = @ + d], totalBorrowed' = totalBorrowed + d
    PROVE  DebtLedger'
  <1> DEFINE v == principal[m] + d
  <1>1. principal \in [Markets -> Int] /\ v \in Int /\ principal[m] \in Int
    BY DEF VaultTypeOK
  <1>2. principal' = [principal EXCEPT ![m] = v]
    OBVIOUS
  <1>3. v - principal[m] = d
    BY <1>1
  <1> HIDE DEF v
  <1>4. SumFunction(principal') = SumFunction(principal) + (v - principal[m])
    <2>1. SumFunction([principal EXCEPT ![m] = v]) = SumFunction(principal) + (v - principal[m])
      BY <1>1, SumOfUpdate, MarketAssumption
    <2> QED
      BY <1>2, <2>1
  <1> QED
    BY <1>3, <1>4 DEF DebtLedger

\* Each borrow and each repayment changes _totalBorrowed by what it changes in
\* one market's entry.
LEMMA StepDebtLedger ==
    ASSUME TypeOK, DebtorsActive, DebtLedger, [Next]_vars
    PROVE  DebtLedger'
  <1>1. VaultTypeOK
    BY DEF TypeOK
  <1>2. CASE UNCHANGED <<principal, totalBorrowed>>
    BY <1>2 DEF DebtLedger
  <1>3. CASE LpCall \/ ReserveCall \/ UNCHANGED vaultVars \/ UNCHANGED vars
    <2>1. UNCHANGED <<principal, totalBorrowed>>
      BY <1>3 DEF LpCall, ReserveCall, deposit, mint, withdraw, redeemShares, MoveIn, MoveOut,
                  depositReserve, withdrawReserve, borrowVars, vaultVars, vars
    <2> QED
      BY <1>2, <2>1
  <1>4. CASE AdminCall
    <2>1. PICK m \in Markets, bps \in Nat :
                \/ authorizeMarket(m, bps) \/ revokeMarket(m)
                \/ updateMaxLiabilityBps(m, bps) \/ setReserveRatio(bps)
                \/ pauseVault \/ unpauseVault
      BY <1>4 DEF AdminCall
    <2>2. CASE authorizeMarket(m, bps)
      <3>1. principal[m] = 0
        BY <1>1, <2>2 DEF authorizeMarket, DebtorsActive, VaultTypeOK
      <3>2. UNCHANGED <<principal, totalBorrowed>>
        BY <1>1, <2>2, <3>1 DEF authorizeMarket, VaultTypeOK
      <3> QED
        BY <1>2, <3>2
    <2>3. CASE ~authorizeMarket(m, bps)
      <3>1. UNCHANGED <<principal, totalBorrowed>>
        BY <2>1, <2>3 DEF revokeMarket, updateMaxLiabilityBps, setReserveRatio,
                          pauseVault, unpauseVault, borrowVars
      <3> QED
        BY <1>2, <3>1
    <2> QED
      BY <2>2, <2>3
  <1>5. CASE BorrowCall
    <2>1. PICK m \in Markets, n \in Nat : borrow(m, n)
      BY <1>5 DEF BorrowCall
    <2>2. /\ n \in Int
          /\ principal' = [principal EXCEPT ![m] = principal[m] + n]
          /\ totalBorrowed' = totalBorrowed + n
      BY <2>1 DEF borrow
    <2> QED
      BY <1>1, <2>2, LedgerMoves
  <1>6. CASE SettleCall
    <2>1. PICK m \in Markets, p \in Nat : RepayPrincipal(m, p)
      BY <1>6 DEF SettleCall, settle, settleWithReserve, returnPrincipal
    <2> DEFINE d == 0 - p
    <2>2. /\ d \in Int
          /\ principal' = [principal EXCEPT ![m] = principal[m] + d]
          /\ totalBorrowed' = totalBorrowed + d
      <3>1. /\ principal' = [principal EXCEPT ![m] = principal[m] - p]
            /\ totalBorrowed' = totalBorrowed - p
        BY <2>1 DEF RepayPrincipal
      <3>2. d \in Int /\ principal[m] - p = principal[m] + d /\ totalBorrowed - p = totalBorrowed + d
        BY <1>1 DEF VaultTypeOK
      <3> QED
        BY <3>1, <3>2
    <2> HIDE DEF d
    <2> QED
      BY <1>1, <2>2, LedgerMoves
  <1> QED
    BY <1>3, <1>4, <1>5, <1>6, VaultStep

\* The vault's _totalBorrowed is at all times the sum of what it has lent to
\* the single markets.
THEOREM DebtLedgerCorrect == Spec => []DebtLedger
  <1>1. Init => DebtLedger
    <2>1. ASSUME Init PROVE DebtLedger
      <3>1. /\ totalBorrowed = 0 /\ DOMAIN principal = Markets
            /\ \A m \in Markets : principal[m] = 0
        BY <2>1 DEF Init, MarketInit, VaultInit
      <3>2. SumFunctionOnSet(principal, Markets) = 0
        BY <3>1, SumZero, MarketAssumption
      <3> QED
        BY <3>1, <3>2 DEF DebtLedger, SumFunction
    <2> QED
      BY <2>1
  <1>2. TypeOK /\ DebtorsActive /\ DebtLedger /\ [Next]_vars => DebtLedger'
    BY StepDebtLedger
  <1> QED
    BY <1>1, <1>2, TypeCorrect, DebtorsAreActive, PTL DEF Spec

-----------------------------------------------------------------------------
(*****************************************************************************)
(* The books of a market: what its pool, its shares and its result have to   *)
(* do with one another.                                                      *)
(*****************************************************************************)

\* The shares of an outcome that somebody holds.
Held(m, o) == SumFunctionOnSet([u \in Users |-> sharesOf[m][u][o]], Users)

\* Before a market is finalized nothing was claimed and nothing is scaled.
Untouched(m) == status[m] # "Finalized" => scale[m] = BASIS_POINTS /\ claimed[m] = 0

\* A result is what resolve accepts, or none.
ResultFits(m) ==
    /\ result[m] \in [DOMAIN result[m] -> Nat]
    /\ DOMAIN result[m] \subseteq Outcomes
    /\ SumFunction(result[m]) <= BASIS_POINTS

\* The bets make up the pool, and a parimutuel share is a token bet.
PoolIsBets(m) ==
    /\ SumFunctionOnSet(outcomeBets[m], Outcomes) = BetTotal(m)
    /\ Strategy[m] = "parimutuel" => outcomeShares[m] = outcomeBets[m]

\* Until a market has ended every share that was bought is held.
SharesHeld(m) ==
    status[m] \in Unsettled => \A o \in Outcomes : Held(m, o) = outcomeShares[m][o]

\* A loan is the initial liquidity.
LoanIsInitial(m) == borrowed[m] \in {0, InitialLiquidity[m]}

BooksOK(m) ==
    /\ Untouched(m) /\ ResultFits(m) /\ PoolIsBets(m)
    /\ SharesHeld(m) /\ LoanIsInitial(m)

BooksInv == \A m \in Markets : BooksOK(m)

\* What a step that leaves a market's books alone does not change.
SameBooks(m) ==
    /\ status'[m] = status[m] /\ scale'[m] = scale[m] /\ claimed'[m] = claimed[m]
    /\ result'[m] = result[m] /\ totalLiquidity'[m] = totalLiquidity[m]
    /\ outcomeBets'[m] = outcomeBets[m] /\ outcomeShares'[m] = outcomeShares[m]
    /\ sharesOf'[m] = sharesOf[m] /\ borrowed'[m] = borrowed[m]

\* The shares held of an outcome are the sum of what each user holds.
LEMMA HeldSame ==
    ASSUME NEW m \in Markets, NEW o \in Outcomes,
           \A u \in Users : sharesOf'[m][u][o] = sharesOf[m][u][o]
    PROVE  Held(m, o)' = Held(m, o)
  <1> DEFINE f == [u \in Users |-> sharesOf[m][u][o]]
             g == [u \in Users |-> sharesOf'[m][u][o]]
  <1>1. \A u \in Users : g[u] = f[u]
    OBVIOUS
  <1>2. Held(m, o) = SumFunctionOnSet(f, Users) /\ Held(m, o)' = SumFunctionOnSet(g, Users)
    BY DEF Held
  <1> HIDE DEF f, g
  <1>3. SumFunctionOnSet(g, Users) = SumFunctionOnSet(f, Users)
    BY <1>1, SumEqual, MarketAssumption
  <1> QED
    BY <1>2, <1>3

\* Nobody else's shares of an outcome move.
OthersKeep(m, u, o) ==
    \A v \in Users \ {u} : sharesOf'[m][v][o] = sharesOf[m][v][o]

\* One user's shares of one outcome move.
LEMMA HeldMoves ==
    ASSUME TypeOK, TypeOK', NEW m \in Markets, NEW u \in Users, NEW o \in Outcomes,
           OthersKeep(m, u, o)
    PROVE  Held(m, o)' = Held(m, o) + (sharesOf'[m][u][o] - sharesOf[m][u][o])
  <1> DEFINE f == [v \in Users |-> sharesOf[m][v][o]]
             g == [v \in Users |-> sharesOf'[m][v][o]]
  <1>1. DiffersAt(f, g, Users, u)
    BY DEF TypeOK, BookTypeOK, OthersKeep, DiffersAt
  <1>2. Held(m, o) = SumFunctionOnSet(f, Users) /\ Held(m, o)' = SumFunctionOnSet(g, Users)
    BY DEF Held
  <1>3. f[u] = sharesOf[m][u][o] /\ g[u] = sharesOf'[m][u][o]
    OBVIOUS
  <1> HIDE DEF f, g
  <1>4. SumFunctionOnSet(g, Users) = SumFunctionOnSet(f, Users) + (g[u] - f[u])
    BY <1>1, SumUpdate, MarketAssumption
  <1> QED
    BY <1>2, <1>3, <1>4

\* A transfer moves shares from one user to another.
LEMMA HeldTransferred ==
    ASSUME TypeOK, NEW m \in Markets, NEW u \in Users, NEW v \in Users, NEW o \in Outcomes,
           NEW n \in Nat, u # v, transferPosition(m, u, v, o, n)
    PROVE  Held(m, o)' = Held(m, o)
  <1> DEFINE f == [w \in Users |-> sharesOf[m][w][o]]
             h == [f EXCEPT ![u] = f[u] - n]
             g == [w \in Users |-> sharesOf'[m][w][o]]
  <1>1. \A w \in Users : sharesOf[m][w][o] \in Nat
    BY DEF TypeOK, BookTypeOK
  <1>2. sharesOf' = [sharesOf EXCEPT ![m][u][o] = @ - n, ![m][v][o] = @ + n]
    BY DEF transferPosition
  <1>3. /\ sharesOf'[m][u][o] = sharesOf[m][u][o] - n
        /\ sharesOf'[m][v][o] = sharesOf[m][v][o] + n
        /\ \A w \in Users \ {u, v} : sharesOf'[m][w][o] = sharesOf[m][w][o]
    BY <1>2 DEF TypeOK, BookTypeOK
  <1>4. /\ \A w \in Users : f[w] \in Int /\ h[w] \in Int
        /\ DiffersAt(f, h, Users, u)
    BY <1>1 DEF DiffersAt
  <1>5. h[u] = f[u] - n /\ h[v] = f[v] /\ g[v] = f[v] + n /\ g[u] = h[u]
    BY <1>3
  <1>6. DiffersAt(h, g, Users, v)
    <2>1. SUFFICES ASSUME NEW w \in Users
                   PROVE  h[w] \in Int /\ g[w] \in Int /\ (w # v => g[w] = h[w])
      BY DEF DiffersAt
    <2>2. CASE w = u
      BY <1>4, <1>5, <2>2
    <2>3. CASE w = v
      BY <1>1, <1>3, <1>4, <2>3
    <2>4. CASE w \notin {u, v}
      BY <1>1, <1>3, <1>4, <2>4
    <2> QED
      BY <2>2, <2>3, <2>4
  <1>7. Held(m, o) = SumFunctionOnSet(f, Users) /\ Held(m, o)' = SumFunctionOnSet(g, Users)
    BY DEF Held
  <1> HIDE DEF f, g, h
  <1>8. SumFunctionOnSet(h, Users) = SumFunctionOnSet(f, Users) + (h[u] - f[u])
    BY <1>4, SumUpdate, MarketAssumption
  <1>9. SumFunctionOnSet(g, Users) = SumFunctionOnSet(h, Users) + (g[v] - h[v])
    BY <1>6, SumUpdate, MarketAssumption
  <1>10. SumFunctionOnSet(f, Users) \in Int
    BY <1>4, SumInt, MarketAssumption
  <1>11. f[u] \in Int /\ f[v] \in Int
    BY <1>4
  <1> QED
    BY <1>5, <1>7, <1>8, <1>9, <1>10, <1>11

\* The books of a market that a step leaves alone stay in order.
LEMMA BooksFrame ==
    ASSUME NEW m \in Markets, BooksOK(m), SameBooks(m)
    PROVE  BooksOK(m)'
  <1>1. \A o \in Outcomes : Held(m, o)' = Held(m, o)
    BY HeldSame DEF SameBooks
  <1>2. SharesHeld(m)'
    BY <1>1 DEF BooksOK, SharesHeld, SameBooks
  <1>3. Untouched(m)' /\ ResultFits(m)' /\ PoolIsBets(m)' /\ LoanIsInitial(m)'
    BY DEF BooksOK, SameBooks, Untouched, ResultFits, PoolIsBets, LoanIsInitial, BetTotal
  <1> QED
    BY <1>2, <1>3 DEF BooksOK

\* Only one market's books move in a step.
LEMMA OneBook ==
    ASSUME BooksInv, NEW m \in Markets, BooksOK(m)', \A k \in Markets \ {m} : SameBooks(k)
    PROVE  BooksInv'
  BY BooksFrame DEF BooksInv

\* A bet: the pool grows by the stake, and the outcome by the shares bought.
LEMMA BooksBet ==
    ASSUME TypeOK, TypeOK', BooksInv, NEW m \in Markets, NEW u \in Users, NEW o \in Outcomes,
           NEW n \in Nat, NEW min, placeBetFor(m, u, o, n, min)
    PROVE  BooksInv'
  <1>1. PICK s \in SharesFor(m, n) :
            /\ outcomeShares' = [outcomeShares EXCEPT ![m][o] = @ + s]
            /\ sharesOf' = [sharesOf EXCEPT ![m][u][o] = @ + s]
    BY DEF placeBetFor
  <1>2. /\ totalLiquidity' = [totalLiquidity EXCEPT ![m] = @ + n]
        /\ outcomeBets' = [outcomeBets EXCEPT ![m][o] = @ + n]
        /\ status[m] = "Open"
        /\ UNCHANGED <<status, result, scale, claimed, borrowed>>
    BY DEF placeBetFor, lifeVars, payVars
  <1>3. s \in Nat /\ (Strategy[m] = "parimutuel" => s = n)
    BY <1>1, MarketAssumption DEF SharesFor
  <1>4. \A k \in Markets \ {m} : SameBooks(k)
    BY <1>1, <1>2 DEF SameBooks, TypeOK, BookTypeOK
  <1>5. BooksOK(m)
    BY DEF BooksInv
  <1>6. Untouched(m)' /\ ResultFits(m)' /\ LoanIsInitial(m)'
    BY <1>2, <1>5 DEF BooksOK, Untouched, ResultFits, LoanIsInitial
  <1>7. PoolIsBets(m)'
    <2> DEFINE f == outcomeBets[m]
               g == outcomeBets'[m]
    <2>1. DiffersAt(f, g, Outcomes, o) /\ \A p \in Outcomes : f[p] \in Int /\ g[p] \in Int
      BY <1>2 DEF TypeOK, BookTypeOK, DiffersAt
    <2>2. g[o] = f[o] + n
      BY <1>2 DEF TypeOK, BookTypeOK
    <2>3. SumFunctionOnSet(f, Outcomes) = BetTotal(m)
      BY <1>5 DEF BooksOK, PoolIsBets
    <2>4. BetTotal(m)' = BetTotal(m) + n /\ BetTotal(m) \in Int
      <3>1. totalLiquidity'[m] = totalLiquidity[m] + n /\ totalLiquidity[m] \in Nat
        BY <1>2 DEF TypeOK, BookTypeOK
      <3>2. InitialLiquidity[m] \in Nat
        BY MarketAssumption
      <3> QED
        BY <3>1, <3>2 DEF BetTotal
    <2>5. Strategy[m] = "parimutuel" => outcomeShares'[m] = g
      BY <1>1, <1>2, <1>3, <1>5 DEF BooksOK, PoolIsBets, TypeOK, BookTypeOK
    <2> HIDE DEF f, g
    <2>6. SumFunctionOnSet(g, Outcomes) = SumFunctionOnSet(f, Outcomes) + (g[o] - f[o])
      BY <2>1, SumUpdate, MarketAssumption
    <2>7. SumFunctionOnSet(g, Outcomes) = BetTotal(m)'
      BY <2>1, <2>2, <2>3, <2>4, <2>6
    <2> QED
      BY <2>5, <2>7 DEF PoolIsBets, g
  <1>8. SharesHeld(m)'
    <2>1. status[m] \in Unsettled
      BY <1>2 DEF Unsettled
    <2>2. \A p \in Outcomes \ {o} : Held(m, p)' = Held(m, p) /\ outcomeShares'[m][p] = outcomeShares[m][p]
      <3>1. TAKE p \in Outcomes \ {o}
      <3>2. \A v \in Users : sharesOf'[m][v][p] = sharesOf[m][v][p]
        BY <1>1 DEF TypeOK, BookTypeOK
      <3> QED
        BY <1>1, <3>2, HeldSame DEF TypeOK, BookTypeOK
    <2>3. Held(m, o)' = Held(m, o) + (sharesOf'[m][u][o] - sharesOf[m][u][o])
      <3>1. OthersKeep(m, u, o)
        BY <1>1 DEF TypeOK, BookTypeOK, OthersKeep
      <3> QED
        BY <3>1, HeldMoves
    <2>4. /\ sharesOf'[m][u][o] = sharesOf[m][u][o] + s /\ sharesOf[m][u][o] \in Nat
          /\ outcomeShares'[m][o] = outcomeShares[m][o] + s /\ outcomeShares[m][o] \in Nat
      BY <1>1, <1>3 DEF TypeOK, BookTypeOK
    <2>5. \A p \in Outcomes : Held(m, p) = outcomeShares[m][p]
      BY <1>5, <2>1 DEF BooksOK, SharesHeld
    <2>6. Held(m, o)' = outcomeShares'[m][o]
      BY <1>3, <2>3, <2>4, <2>5
    <2> QED
      BY <2>2, <2>5, <2>6 DEF SharesHeld
  <1> QED
    BY <1>4, <1>6, <1>7, <1>8, OneBook DEF BooksOK

\* Steps that leave all books alone.
LEMMA BooksFrameAll ==
    ASSUME BooksInv, UNCHANGED <<status, scale, claimed, result, betVars, sharesOf, borrowed>>
    PROVE  BooksInv'
  <1>1. \A k \in Markets : SameBooks(k)
    BY DEF SameBooks, betVars
  <1> QED
    BY <1>1, BooksFrame DEF BooksInv

\* A transfer of a position moves no total.
LEMMA BooksTransfer ==
    ASSUME TypeOK, BooksInv, NEW m \in Markets, NEW u \in Users, NEW v \in Users,
           NEW o \in Outcomes, NEW n \in Nat, transferPosition(m, u, v, o, n)
    PROVE  BooksInv'
  <1>1. /\ u # v
        /\ sharesOf' = [sharesOf EXCEPT ![m][u][o] = @ - n, ![m][v][o] = @ + n]
        /\ UNCHANGED <<status, scale, claimed, result, totalLiquidity, outcomeBets, outcomeShares, borrowed>>
    BY DEF transferPosition, lifeVars, betVars, payVars
  <1>2. \A k \in Markets \ {m} : SameBooks(k)
    BY <1>1 DEF SameBooks, TypeOK, BookTypeOK
  <1>3. BooksOK(m)
    BY DEF BooksInv
  <1>4. ASSUME NEW p \in Outcomes PROVE Held(m, p)' = Held(m, p)
    <2>1. CASE p = o
      BY <1>1, <2>1, HeldTransferred
    <2>2. CASE p # o
      <3>1. \A w \in Users : sharesOf'[m][w][p] = sharesOf[m][w][p]
        BY <1>1, <2>2 DEF TypeOK, BookTypeOK
      <3> QED
        BY <3>1, HeldSame
    <2> QED
      BY <2>1, <2>2
  <1>5. SharesHeld(m)'
    BY <1>1, <1>3, <1>4 DEF BooksOK, SharesHeld
  <1>6. Untouched(m)' /\ ResultFits(m)' /\ PoolIsBets(m)' /\ LoanIsInitial(m)'
    BY <1>1, <1>3 DEF BooksOK, Untouched, ResultFits, PoolIsBets, LoanIsInitial, BetTotal
  <1> QED
    BY <1>2, <1>5, <1>6, OneBook DEF BooksOK

\* Shares are burnt only once the market has ended.
LEMMA BooksPay ==
    ASSUME TypeOK, BooksInv, NEW m \in Markets, NEW u \in Users, NEW o \in Outcomes,
           NEW n \in Nat, redeem(m, u, o, n) \/ refundFor(m, u, o, n)
    PROVE  BooksInv'
  <1>1. /\ status[m] \notin Unsettled
        /\ status[m] # "Finalized" => claimed' = claimed
        /\ \A k \in Markets \ {m} : claimed'[k] = claimed[k] /\ sharesOf'[k] = sharesOf[k]
        /\ UNCHANGED <<status, scale, result, totalLiquidity, outcomeBets, outcomeShares, borrowed>>
    BY DEF redeem, refundFor, BurnAndPay, lifeVars, betVars, payVars, Unsettled, TypeOK, BookTypeOK
  <1>2. \A k \in Markets \ {m} : SameBooks(k)
    BY <1>1 DEF SameBooks
  <1>3. BooksOK(m)
    BY DEF BooksInv
  <1>4. BooksOK(m)'
    BY <1>1, <1>3 DEF BooksOK, Untouched, ResultFits, PoolIsBets, LoanIsInitial, BetTotal, SharesHeld
  <1> QED
    BY <1>2, <1>4, OneBook

\* The loan enters the books.
LEMMA BooksFund ==
    ASSUME TypeOK, BooksInv, NEW m \in Markets, fundFromVault(m)
    PROVE  BooksInv'
  <1>1. /\ borrowed' = [borrowed EXCEPT ![m] = InitialLiquidity[m]]
        /\ UNCHANGED <<status, scale, claimed, result, totalLiquidity, outcomeBets, outcomeShares, sharesOf>>
    BY DEF fundFromVault, lifeVars, betVars, payVars, holderVars
  <1>2. \A k \in Markets \ {m} : SameBooks(k)
    BY <1>1 DEF SameBooks, TypeOK, BookTypeOK
  <1>3. BooksOK(m)
    BY DEF BooksInv
  <1>4. LoanIsInitial(m)'
    BY <1>1 DEF LoanIsInitial, TypeOK, BookTypeOK
  <1>5. \A p \in Outcomes : Held(m, p)' = Held(m, p)
    BY <1>1, HeldSame
  <1>6. BooksOK(m)'
    BY <1>1, <1>3, <1>4, <1>5 DEF BooksOK, Untouched, ResultFits, PoolIsBets, BetTotal, SharesHeld
  <1> QED
    BY <1>2, <1>6, OneBook

\* Locking and resolving; a result is written only as resolve accepts it.
LEMMA BooksLock ==
    ASSUME TypeOK, BooksInv, NEW m \in Markets,
           lock(m) \/ \E r \in MapperResults : resolve(m, r)
    PROVE  BooksInv'
  <1>1. /\ status[m] \in Unsettled \ {"Finalized"} /\ status'[m] \in Unsettled \ {"Finalized"}
        /\ \A k \in Markets \ {m} : status'[k] = status[k] /\ result'[k] = result[k]
        /\ UNCHANGED <<scale, claimed, totalLiquidity, outcomeBets, outcomeShares, sharesOf, borrowed>>
    BY DEF lock, resolve, betVars, holderVars, payVars, Unsettled, TypeOK, BookTypeOK, ResultTypeOK
  <1>2. \A k \in Markets \ {m} : SameBooks(k)
    BY <1>1 DEF SameBooks
  <1>3. BooksOK(m)
    BY DEF BooksInv
  <1>4. ResultFits(m)'
    <2>1. CASE lock(m)
      BY <1>3, <2>1 DEF lock, payVars, BooksOK, ResultFits
    <2>2. CASE \E r \in MapperResults : resolve(m, r)
      <3>1. PICK r \in MapperResults : resolve(m, r)
        BY <2>2
      <3>2. result'[m] = r /\ ValidResult(r) /\ r \in [DOMAIN r -> Nat]
        BY <3>1, SportsbookAssumption DEF resolve, TypeOK, ResultTypeOK
      <3> QED
        BY <3>2 DEF ResultFits, ValidResult
    <2> QED
      BY <2>1, <2>2
  <1>5. \A p \in Outcomes : Held(m, p)' = Held(m, p)
    BY <1>1, HeldSame
  <1>6. BooksOK(m)'
    <2>1. status[m] # "Finalized" /\ status'[m] # "Finalized"
      BY <1>1 DEF Unsettled
    <2> QED
      BY <1>1, <2>1, <1>3, <1>4, <1>5 DEF BooksOK, Untouched, PoolIsBets, BetTotal, SharesHeld, LoanIsInitial
  <1> QED
    BY <1>2, <1>6, OneBook

\* Ending a market, which scales the payouts only if it is finalized.
LEMMA BooksEnd ==
    ASSUME TypeOK, BooksInv, NEW m \in Markets,
           \/ cancel(m) \/ cancelResolved(m) \/ finalizeExact(m)
           \/ \E bps \in ScaleChoices : finalizeScaled(m, bps)
    PROVE  BooksInv'
  <1>1. /\ status[m] \in Unsettled /\ status'[m] \notin Unsettled
        /\ status'[m] # "Finalized" => scale' = scale
        /\ \A k \in Markets \ {m} : status'[k] = status[k] /\ scale'[k] = scale[k]
        /\ UNCHANGED <<claimed, result, totalLiquidity, outcomeBets, outcomeShares, sharesOf, borrowed>>
    BY DEF cancel, cancelResolved, finalizeExact, finalizeScaled, betVars, holderVars, payVars,
           Unsettled, TypeOK, BookTypeOK
  <1>2. \A k \in Markets \ {m} : SameBooks(k)
    BY <1>1 DEF SameBooks
  <1>3. BooksOK(m)
    BY DEF BooksInv
  <1>4. status[m] # "Finalized"
    BY <1>1 DEF Unsettled
  <1>5. BooksOK(m)'
    BY <1>1, <1>3, <1>4 DEF BooksOK, Untouched, ResultFits, PoolIsBets, LoanIsInitial, BetTotal, SharesHeld
  <1> QED
    BY <1>2, <1>5, OneBook

\* Every step keeps the books of every market.
LEMMA StepBooks ==
    ASSUME TypeOK, TypeOK', BooksInv, [Next]_vars
    PROVE  BooksInv'
  <1>1. CASE UNCHANGED vars
    BY <1>1, BooksFrameAll DEF vars, lifeVars, betVars, holderVars, payVars
  <1>2. CASE LpStep \/ \E m \in Markets : Administer(m)
    <2>1. UNCHANGED bookVars
      BY <1>2 DEF LpStep, LpDeposit, LpMint, LpWithdraw, LpRedeem, FundReserve, DefundReserve, Administer
    <2> QED
      BY <2>1, BooksFrameAll DEF bookVars, lifeVars, betVars, holderVars, payVars
  <1>3. ASSUME NEW m \in Markets, BettorStep(m)
        PROVE  BooksInv'
    <2>1. \A u \in Users, o \in Outcomes : 1 .. sharesOf[m][u][o] \subseteq Nat
      BY DEF TypeOK, BookTypeOK
    <2>2. CASE \E u, v \in Users, o \in Outcomes : \E n \in 1 .. sharesOf[m][u][o] :
                   transferPosition(m, u, v, o, n)
      <3>1. PICK u \in Users, v \in Users, o \in Outcomes :
               \E n \in 1 .. sharesOf[m][u][o] : transferPosition(m, u, v, o, n)
        BY <2>2
      <3>2. PICK n \in Nat : transferPosition(m, u, v, o, n)
        BY <2>1, <3>1
      <3> QED
        BY <3>2, BooksTransfer
    <2>3. CASE \E u \in Users, o \in Outcomes : \E n \in 1 .. sharesOf[m][u][o] :
                   redeem(m, u, o, n) \/ refundFor(m, u, o, n)
      BY <2>1, <2>3, BooksPay
    <2>4. CASE \E u \in Users, o \in Outcomes, n \in BetAmounts, min \in MinShareChoices :
                   placeBetFor(m, u, o, n, min)
      BY <2>4, BooksBet, SportsbookAssumption
    <2> QED
      BY <1>3, <2>2, <2>3, <2>4 DEF BettorStep
  <1>4. ASSUME NEW m \in Markets, Kickoff(m) \/ pauseMarket(m) \/ unpauseMarket(m)
        PROVE  BooksInv'
    BY <1>4, BooksFrameAll DEF Kickoff, pauseMarket, unpauseMarket, holderVars, payVars
  <1>5. ASSUME NEW m \in Markets, KeeperStep(m) \/ OperatorStep(m)
        PROVE  BooksInv'
    BY <1>2, <1>4, <1>5, BooksLock, BooksFund, BooksEnd DEF KeeperStep, OperatorStep
  <1> QED
    BY <1>1, <1>2, <1>3, <1>5 DEF Next

\* The books of bets, shares and results of every market fit together: the pool
\* is the bets, a parimutuel share is a token bet, all bought shares are held,
\* and a result is one that resolve accepts.
THEOREM BooksCorrect == Spec => []BooksInv
  <1>1. Init => BooksInv
    <2>1. SUFFICES ASSUME Init, NEW m \in Markets PROVE BooksOK(m)
      BY DEF BooksInv
    <2>2. InitialLiquidity[m] \in Nat
      BY MarketAssumption
    <2>3. Untouched(m) /\ LoanIsInitial(m)
      BY <2>1 DEF Init, MarketInit, Untouched, LoanIsInitial
    <2>4. ResultFits(m)
      <3>1. result[m] = NoResult
        BY <2>1 DEF Init, MarketInit
      <3>2. DOMAIN NoResult = {} /\ NoResult \in [{} -> Nat]
        BY DEF NoResult
      <3>3. SumFunction(NoResult) = 0
        BY <3>2, SumEmpty DEF SumFunction
      <3> QED
        BY <3>1, <3>2, <3>3 DEF ResultFits, BASIS_POINTS
    <2>5. PoolIsBets(m)
      <3>1. /\ \A o \in Outcomes : outcomeBets[m][o] = 0
            /\ outcomeShares[m] = outcomeBets[m] /\ totalLiquidity[m] = InitialLiquidity[m]
        BY <2>1 DEF Init, MarketInit
      <3>2. SumFunctionOnSet(outcomeBets[m], Outcomes) = 0
        BY <3>1, SumZero, MarketAssumption
      <3> QED
        BY <2>2, <3>1, <3>2 DEF PoolIsBets, BetTotal
    <2>6. SharesHeld(m)
      <3>1. ASSUME NEW o \in Outcomes PROVE Held(m, o) = 0 /\ outcomeShares[m][o] = 0
        <4> DEFINE f == [u \in Users |-> sharesOf[m][u][o]]
        <4>1. \A u \in Users : f[u] = 0
          BY <2>1 DEF Init, MarketInit
        <4>2. outcomeShares[m][o] = 0
          BY <2>1 DEF Init, MarketInit
        <4> HIDE DEF f
        <4>3. SumFunctionOnSet(f, Users) = 0
          BY <4>1, SumZero, MarketAssumption
        <4> QED
          BY <4>2, <4>3 DEF Held, f
      <3> QED
        BY <3>1 DEF SharesHeld
    <2> QED
      BY <2>3, <2>4, <2>5, <2>6 DEF BooksOK
  <1>2. TypeOK /\ TypeOK' /\ BooksInv /\ [Next]_vars => BooksInv'
    BY StepBooks
  <1> QED
    BY <1>1, <1>2, TypeCorrect, PTL DEF Spec

-----------------------------------------------------------------------------
(*****************************************************************************)
(* Payments.  Rounded down, many holders are paid at most what one account   *)
(* that held all their shares would be paid; that pooled claim has a closed  *)
(* form, which is compared with what the market holds.                       *)
(*****************************************************************************)

\* The types of one market's state.
LEMMA MarketTypes ==
    ASSUME TypeOK, BooksInv, NEW m \in Markets
    PROVE  /\ InitialLiquidity[m] \in Nat /\ totalLiquidity[m] \in Nat /\ borrowed[m] \in Nat
           /\ cash[m] \in Nat /\ claimed[m] \in Nat
           /\ scale[m] \in Nat /\ scale[m] \in 1 .. BASIS_POINTS
           /\ \A o \in Outcomes : outcomeShares[m][o] \in Nat /\ outcomeBets[m][o] \in Nat
           /\ \A o \in DOMAIN result[m] : o \in Outcomes /\ result[m][o] \in Nat
           /\ IsFiniteSet(DOMAIN result[m])
  <1>1. /\ DOMAIN result[m] \subseteq Outcomes
        /\ \A o \in DOMAIN result[m] : result[m][o] \in Nat
    <2>1. ResultFits(m)
      BY DEF BooksInv, BooksOK
    <2> DEFINE r == result[m]
    <2>2. r \in [DOMAIN r -> Nat] /\ DOMAIN r \subseteq Outcomes
      BY <2>1 DEF ResultFits
    <2> HIDE DEF r
    <2>3. DOMAIN r \subseteq Outcomes /\ \A o \in DOMAIN r : r[o] \in Nat
      BY <2>2
    <2> QED
      BY <2>3 DEF r
  <1>2. IsFiniteSet(DOMAIN result[m])
    BY <1>1, FS_Subset, MarketAssumption
  <1>3. scale[m] \in 1 .. BASIS_POINTS /\ scale[m] \in Nat
    <2>1. scale[m] \in 1 .. BASIS_POINTS
      BY DEF TypeOK, BookTypeOK
    <2>2. \A x \in 1 .. BASIS_POINTS : x \in Nat
      BY DEF BASIS_POINTS
    <2> QED
      BY <2>1, <2>2
  <1>4. /\ InitialLiquidity[m] \in Nat /\ totalLiquidity[m] \in Nat /\ borrowed[m] \in Nat
        /\ cash[m] \in Nat /\ claimed[m] \in Nat
        /\ \A o \in Outcomes : outcomeShares[m][o] \in Nat /\ outcomeBets[m][o] \in Nat
    BY MarketAssumption DEF TypeOK, BookTypeOK
  <1> QED
    BY <1>1, <1>2, <1>3, <1>4

\* All shares of a market are a natural, at least those of each outcome.
LEMMA AllSharesNat ==
    ASSUME TypeOK, BooksInv, NEW m \in Markets
    PROVE  /\ AllShares(m) \in Nat
           /\ \A o \in Outcomes : outcomeShares[m][o] <= AllShares(m)
  <1> DEFINE f == outcomeShares[m]
  <1>1. \A o \in Outcomes : f[o] \in Nat
    BY MarketTypes
  <1> HIDE DEF f
  <1>2. SumFunctionOnSet(f, Outcomes) \in Nat
    BY <1>1, SumNat, MarketAssumption
  <1>3. \A o \in Outcomes : f[o] <= SumFunctionOnSet(f, Outcomes)
    BY <1>1, SumMember, MarketAssumption
  <1> QED
    BY <1>2, <1>3 DEF AllShares, f

\* A part of a pool is a natural, and the parts of two share counts are
\* together at most the part of both.
LEMMA PartSuperadditive ==
    ASSUME NEW a \in Nat, NEW b \in Nat, NEW p \in Nat, NEW d \in Nat \ {0}
    PROVE  /\ (a * p) \div d \in Nat
           /\ (a * p) \div d + (b * p) \div d <= ((a + b) * p) \div d
  <1> DEFINE x == a * p
             y == b * p
  <1>1. x \in Nat /\ y \in Nat /\ (a + b) * p = x + y
    BY TimesNat
  <1> HIDE DEF x, y
  <1>2. x \div d \in Nat /\ (x \div d) + (y \div d) <= (x + y) \div d
    BY <1>1, DivSuperadditive, DivNat
  <1> QED
    BY <1>1, <1>2 DEF x, y

\* calculatePayout gives a natural, and pays parts no more than the whole.
LEMMA BasePayoutSuperadditive ==
    ASSUME TypeOK, BooksInv, NEW m \in Markets, NEW o \in Outcomes, NEW a \in Nat, NEW b \in Nat
    PROVE  /\ BasePayout(m, o, a) \in Nat
           /\ BasePayout(m, o, a) + BasePayout(m, o, b) <= BasePayout(m, o, a + b)
  <1>1. /\ totalLiquidity[m] \in Nat /\ outcomeShares[m][o] \in Nat /\ AllShares(m) \in Nat
    BY MarketTypes, AllSharesNat
  <1>2. CASE o \notin PushOutcomes /\ outcomeShares[m][o] # 0
    <2>1. /\ BasePayout(m, o, a) = (a * totalLiquidity[m]) \div outcomeShares[m][o]
          /\ BasePayout(m, o, b) = (b * totalLiquidity[m]) \div outcomeShares[m][o]
          /\ BasePayout(m, o, a + b) = ((a + b) * totalLiquidity[m]) \div outcomeShares[m][o]
      BY <1>2 DEF BasePayout
    <2> DEFINE d == outcomeShares[m][o]
               p == totalLiquidity[m]
    <2>2. d \in Nat \ {0} /\ p \in Nat
      BY <1>1, <1>2
    <2>3. /\ BasePayout(m, o, a) = (a * p) \div d
          /\ BasePayout(m, o, b) = (b * p) \div d
          /\ BasePayout(m, o, a + b) = ((a + b) * p) \div d
      BY <2>1
    <2> HIDE DEF d, p
    <2>4. (a * p) \div d \in Nat /\ (a * p) \div d + (b * p) \div d <= ((a + b) * p) \div d
      BY <2>2, PartSuperadditive
    <2> QED
      BY <2>3, <2>4
  <1>3. CASE o \in PushOutcomes /\ Strategy[m] # "parimutuel" /\ AllShares(m) # 0
    <2>1. /\ BasePayout(m, o, a) = (a * totalLiquidity[m]) \div AllShares(m)
          /\ BasePayout(m, o, b) = (b * totalLiquidity[m]) \div AllShares(m)
          /\ BasePayout(m, o, a + b) = ((a + b) * totalLiquidity[m]) \div AllShares(m)
      BY <1>3 DEF BasePayout
    <2> DEFINE d == AllShares(m)
               p == totalLiquidity[m]
    <2>2. d \in Nat \ {0} /\ p \in Nat
      BY <1>1, <1>3
    <2>3. /\ BasePayout(m, o, a) = (a * p) \div d
          /\ BasePayout(m, o, b) = (b * p) \div d
          /\ BasePayout(m, o, a + b) = ((a + b) * p) \div d
      BY <2>1
    <2> HIDE DEF d, p
    <2>4. (a * p) \div d \in Nat /\ (a * p) \div d + (b * p) \div d <= ((a + b) * p) \div d
      BY <2>2, PartSuperadditive
    <2> QED
      BY <2>3, <2>4
  <1>4. CASE o \in PushOutcomes /\ Strategy[m] = "parimutuel"
    <2>1. \A s \in Nat : BasePayout(m, o, s) = s
      BY <1>4 DEF BasePayout
    <2> QED
      BY <2>1
  <1>5. CASE \/ o \notin PushOutcomes /\ outcomeShares[m][o] = 0
             \/ o \in PushOutcomes /\ Strategy[m] # "parimutuel" /\ AllShares(m) = 0
    <2>1. \A s \in Nat : BasePayout(m, o, s) = 0
      BY <1>5 DEF BasePayout
    <2> QED
      BY <2>1
  <1> QED
    BY <1>2, <1>3, <1>4, <1>5

\* So does what redeem pays after weight and scale.
LEMMA PayoutSuperadditive ==
    ASSUME TypeOK, BooksInv, NEW m \in Markets, NEW o \in DOMAIN result[m],
           NEW a \in Nat, NEW b \in Nat
    PROVE  /\ Payout(m, o, a) \in Nat
           /\ Payout(m, o, a) + Payout(m, o, b) <= Payout(m, o, a + b)
  <1> DEFINE w == result[m][o]
             s == scale[m]
             x == BasePayout(m, o, a)
             y == BasePayout(m, o, b)
             z == BasePayout(m, o, a + b)
  <1>1. o \in Outcomes /\ w \in Nat /\ s \in Nat
    BY MarketTypes
  <1>2. x \in Nat /\ y \in Nat /\ z \in Nat /\ x + y <= z
    <2>1. x \in Nat /\ x + y <= z
      BY <1>1, BasePayoutSuperadditive
    <2>2. \A n \in Nat : BasePayout(m, o, n) \in Nat
      BY <1>1, BasePayoutSuperadditive
    <2>3. a + b \in Nat
      OBVIOUS
    <2>4. y \in Nat /\ z \in Nat
      BY <2>2, <2>3
    <2> QED
      BY <2>1, <2>4
  <1>3. /\ Payout(m, o, a) = IF s < BASIS_POINTS THEN MulBps(MulBps(x, w), s) ELSE MulBps(x, w)
        /\ Payout(m, o, b) = IF s < BASIS_POINTS THEN MulBps(MulBps(y, w), s) ELSE MulBps(y, w)
        /\ Payout(m, o, a + b) = IF s < BASIS_POINTS THEN MulBps(MulBps(z, w), s) ELSE MulBps(z, w)
    BY DEF Payout
  <1> HIDE DEF w, s, x, y, z
  <1> DEFINE p == MulBps(x, w)
             q == MulBps(y, w)
             r == MulBps(z, w)
  <1>4. p \in Nat /\ q \in Nat /\ r \in Nat /\ p + q <= r
    <2>0. x + y \in Nat
      BY <1>2
    <2>1. p + q <= MulBps(x + y, w) /\ MulBps(x + y, w) <= r /\ MulBps(x + y, w) \in Nat
      <3>1. p + q <= MulBps(x + y, w)
        BY <1>1, <1>2, MulBpsSuperadditive
      <3>2. MulBps(x + y, w) <= r
        BY <1>1, <1>2, <2>0, MulBpsMonotone
      <3>3. MulBps(x + y, w) \in Nat
        BY <1>1, <2>0, MulBpsNat
      <3> QED
        BY <3>1, <3>2, <3>3
    <2>2. p \in Nat /\ q \in Nat /\ r \in Nat
      BY <1>1, <1>2, MulBpsNat
    <2> HIDE DEF p, q, r
    <2> QED
      BY <2>1, <2>2
  <1> HIDE DEF p, q, r
  <1>5. /\ MulBps(p, s) \in Nat /\ MulBps(q, s) \in Nat /\ MulBps(r, s) \in Nat
        /\ MulBps(p, s) + MulBps(q, s) <= MulBps(r, s)
    <2>0. p + q \in Nat
      BY <1>4
    <2>1. /\ MulBps(p, s) + MulBps(q, s) <= MulBps(p + q, s)
          /\ MulBps(p + q, s) <= MulBps(r, s) /\ MulBps(p + q, s) \in Nat
      <3>1. MulBps(p, s) + MulBps(q, s) <= MulBps(p + q, s)
        BY <1>1, <1>4, MulBpsSuperadditive
      <3>2. MulBps(p + q, s) <= MulBps(r, s)
        BY <1>1, <1>4, <2>0, MulBpsMonotone
      <3>3. MulBps(p + q, s) \in Nat
        BY <1>1, <2>0, MulBpsNat
      <3> QED
        BY <3>1, <3>2, <3>3
    <2>2. MulBps(p, s) \in Nat /\ MulBps(q, s) \in Nat /\ MulBps(r, s) \in Nat
      BY <1>1, <1>4, MulBpsNat
    <2> QED
      BY <2>1, <2>2
  <1> QED
    BY <1>3, <1>4, <1>5 DEF p, q, r

\* calculateRefund gives a natural, and pays parts no more than the whole.
LEMMA RefundSuperadditive ==
    ASSUME TypeOK, BooksInv, NEW m \in Markets, NEW o \in Outcomes, NEW a \in Nat, NEW b \in Nat
    PROVE  /\ RefundAmount(m, o, a) \in Nat
           /\ RefundAmount(m, o, a) + RefundAmount(m, o, b) <= RefundAmount(m, o, a + b)
  <1>1. outcomeBets[m][o] \in Nat /\ outcomeShares[m][o] \in Nat
    BY MarketTypes
  <1>2. CASE outcomeShares[m][o] # 0 /\ Strategy[m] # "parimutuel"
    <2>1. \A s \in Nat : RefundAmount(m, o, s) = (s * outcomeBets[m][o]) \div outcomeShares[m][o]
      BY <1>2 DEF RefundAmount
    <2> QED
      BY <1>1, <1>2, <2>1, PartSuperadditive
  <1>3. CASE outcomeShares[m][o] = 0
    <2>1. \A s \in Nat : RefundAmount(m, o, s) = 0
      BY <1>3 DEF RefundAmount
    <2> QED
      BY <2>1
  <1>4. CASE outcomeShares[m][o] # 0 /\ Strategy[m] = "parimutuel"
    <2>1. \A s \in Nat : RefundAmount(m, o, s) = s
      BY <1>4 DEF RefundAmount
    <2> QED
      BY <2>1
  <1> QED
    BY <1>2, <1>3, <1>4

\* The part of at most all shares is at most the pool.
LEMMA PartOfPool ==
    ASSUME NEW s \in Nat, NEW d \in Nat \ {0}, s <= d, NEW p \in Nat
    PROVE  (s * p) \div d <= p
  <1> DEFINE q == (s * p) \div d
  <1>1. s * p \in Nat
    BY TimesNat
  <1>2. q \in Nat /\ d * q <= s * p
    BY <1>1, FloorBounds
  <1> HIDE DEF q
  <1>3. s * p <= d * p
    <2>1. p * s <= p * d /\ p * s = s * p /\ p * d = d * p
      BY TimesMonotone
    <2> QED
      BY <2>1
  <1>4. CASE p + 1 <= q
    <2>1. d * (p + 1) <= d * q
      BY <1>2, <1>4, TimesMonotone
    <2>2. d * (p + 1) = d * p + d /\ d * p \in Nat /\ d * q \in Nat
      BY <1>2
    <2> QED
      BY <1>1, <1>2, <1>3, <2>1, <2>2
  <1>5. CASE q <= p
    BY <1>5 DEF q
  <1> QED
    BY <1>2, <1>4, <1>5

\* The bets of an outcome are part of the pool.
LEMMA BetsInPool ==
    ASSUME TypeOK, BooksInv, LedgerInv, NEW m \in Markets
    PROVE  /\ BetTotal(m) \in Nat /\ BetTotal(m) + InitialLiquidity[m] = totalLiquidity[m]
           /\ \A o \in Outcomes : outcomeBets[m][o] <= BetTotal(m)
  <1> DEFINE f == outcomeBets[m]
  <1>1. \A o \in Outcomes : f[o] \in Nat
    BY MarketTypes
  <1>2. SumFunctionOnSet(f, Outcomes) = BetTotal(m)
    BY DEF BooksInv, BooksOK, PoolIsBets
  <1> HIDE DEF f
  <1>3. \A o \in Outcomes : f[o] <= BetTotal(m)
    BY <1>1, <1>2, SumMember, MarketAssumption
  <1>4. totalLiquidity[m] >= InitialLiquidity[m] /\ totalLiquidity[m] \in Nat /\ InitialLiquidity[m] \in Nat
    BY MarketTypes DEF LedgerInv, PoolCounted
  <1> QED
    BY <1>3, <1>4 DEF BetTotal, f

\* All shares of an outcome are paid at most the pool.
LEMMA BaseOfAll ==
    ASSUME TypeOK, BooksInv, LedgerInv, NEW m \in Markets, NEW o \in Outcomes
    PROVE  BasePayout(m, o, outcomeShares[m][o]) <= totalLiquidity[m]
  <1>1. /\ totalLiquidity[m] \in Nat /\ outcomeShares[m][o] \in Nat /\ AllShares(m) \in Nat
        /\ outcomeShares[m][o] <= AllShares(m)
    BY MarketTypes, AllSharesNat
  <1>2. CASE o \notin PushOutcomes /\ outcomeShares[m][o] # 0
    <2>1. (outcomeShares[m][o] * totalLiquidity[m]) \div outcomeShares[m][o] <= totalLiquidity[m]
      BY <1>1, <1>2, PartOfPool
    <2> QED
      BY <1>2, <2>1 DEF BasePayout
  <1>3. CASE o \in PushOutcomes /\ Strategy[m] # "parimutuel" /\ AllShares(m) # 0
    <2>1. (outcomeShares[m][o] * totalLiquidity[m]) \div AllShares(m) <= totalLiquidity[m]
      BY <1>1, <1>3, PartOfPool
    <2> QED
      BY <1>3, <2>1 DEF BasePayout
  <1>4. CASE o \in PushOutcomes /\ Strategy[m] = "parimutuel"
    <2>1. outcomeShares[m][o] = outcomeBets[m][o]
      BY <1>4 DEF BooksInv, BooksOK, PoolIsBets
    <2>2. /\ outcomeBets[m][o] <= BetTotal(m) /\ BetTotal(m) + InitialLiquidity[m] = totalLiquidity[m]
          /\ InitialLiquidity[m] \in Nat /\ BetTotal(m) \in Nat /\ outcomeBets[m][o] \in Nat
      BY BetsInPool, MarketTypes
    <2>3. outcomeShares[m][o] <= totalLiquidity[m]
      BY <2>1, <2>2
    <2> QED
      BY <1>4, <2>3 DEF BasePayout
  <1>5. CASE \/ o \notin PushOutcomes /\ outcomeShares[m][o] = 0
             \/ o \in PushOutcomes /\ Strategy[m] # "parimutuel" /\ AllShares(m) = 0
    <2>1. BasePayout(m, o, outcomeShares[m][o]) = 0
      BY <1>5 DEF BasePayout
    <2> QED
      BY <1>1, <2>1
  <1> QED
    BY <1>2, <1>3, <1>4, <1>5

\* What is expected to be paid for all shares is at most the pool: the
\* weights of the outcomes are at most 10000 basis points together.
LEMMA ExpectedBound ==
    ASSUME TypeOK, BooksInv, LedgerInv, NEW m \in Markets
    PROVE  ExpectedPayout(m) \in Nat /\ ExpectedPayout(m) <= totalLiquidity[m]
  <1> DEFINE W == DOMAIN result[m]
             r == result[m]
             t == totalLiquidity[m]
             y == [o \in W |-> MulBps(BasePayout(m, o, outcomeShares[m][o]), result[m][o])]
             k == [o \in W |-> 10000 * y[o]]
             l == [o \in W |-> t * r[o]]
             Y == SumFunctionOnSet(y, W)
             R == SumFunctionOnSet(r, W)
  <1>1. IsFiniteSet(W) /\ t \in Nat /\ \A o \in W : o \in Outcomes /\ r[o] \in Nat
    BY MarketTypes
  <1>2. ExpectedPayout(m) = Y
    BY DEF ExpectedPayout, SumFunction
  <1>3. R \in Nat /\ R <= 10000
    <2>1. R <= 10000
      BY DEF BooksInv, BooksOK, ResultFits, SumFunction, BASIS_POINTS
    <2> HIDE DEF W, r
    <2> QED
      BY <1>1, <2>1, SumNat
  <1>4. \A o \in W : y[o] \in Nat /\ 10000 * y[o] <= t * r[o]
    <2>1. TAKE o \in W
    <2> DEFINE b == BasePayout(m, o, outcomeShares[m][o])
    <2>2. y[o] = MulBps(b, r[o])
      OBVIOUS
    <2>3. r[o] \in Nat /\ o \in Outcomes /\ outcomeShares[m][o] \in Nat
      BY <1>1, MarketTypes
    <2>4. b \in Nat /\ b <= t
      BY <2>3, BasePayoutSuperadditive, BaseOfAll
    <2> HIDE DEF b, t, r, y
    <2>5. 10000 * MulBps(b, r[o]) <= b * r[o] /\ MulBps(b, r[o]) \in Nat
      <3>1. 10000 * MulBps(b, r[o]) <= b * r[o]
        BY <2>3, <2>4, MulBpsFloor
      <3>2. MulBps(b, r[o]) \in Nat
        BY <2>3, <2>4, MulBpsNat
      <3> QED
        BY <3>1, <3>2
    <2>6. r[o] * b <= r[o] * t /\ r[o] * b = b * r[o] /\ r[o] * t = t * r[o]
      BY <1>1, <2>3, <2>4, TimesMonotone
    <2>7. b * r[o] \in Nat /\ t * r[o] \in Nat
      BY <1>1, <2>3, <2>4, TimesNat
    <2> QED
      BY <2>2, <2>5, <2>6, <2>7
  <1>5. \A o \in W : y[o] \in Int /\ k[o] = 10000 * y[o]
    BY <1>4
  <1>6. \A o \in W : r[o] \in Int /\ l[o] = t * r[o]
    BY <1>1
  <1>7. \A o \in W : k[o] \in Int /\ l[o] \in Int /\ k[o] <= l[o]
    <2> HIDE DEF W, r, t, y, k, l
    <2> SUFFICES ASSUME NEW o \in W
                 PROVE  k[o] \in Int /\ l[o] \in Int /\ k[o] <= l[o]
      OBVIOUS
    <2>1. t * r[o] \in Nat
      BY <1>1, TimesNat
    <2>2. y[o] \in Nat /\ 10000 * y[o] <= t * r[o]
      BY <1>4
    <2>3. k[o] = 10000 * y[o] /\ l[o] = t * r[o]
      BY <1>5, <1>6
    <2>4. k[o] \in Int /\ l[o] \in Int
      BY <2>1, <2>2, <2>3
    <2> QED
      BY <2>2, <2>3, <2>4
  <1> HIDE DEF W, r, t, y, k, l
  <1>8. SumFunctionOnSet(k, W) = 10000 * Y
    <2>1. IsFiniteSet(W) /\ 10000 \in Int
      BY <1>1
    <2> QED
      BY <2>1, <1>5, SumScale
  <1>9. SumFunctionOnSet(l, W) = t * R
    <2>1. IsFiniteSet(W) /\ t \in Int
      BY <1>1
    <2> QED
      BY <2>1, <1>6, SumScale
  <1>10. SumFunctionOnSet(k, W) <= SumFunctionOnSet(l, W)
    BY <1>1, <1>7, SumMonotone
  <1>11. Y \in Nat
    BY <1>1, <1>4, SumNat
  <1> HIDE DEF Y, R
  <1>12. t * R <= t * 10000
    BY <1>1, <1>3, TimesMonotone
  <1>13. t * R \in Nat
    BY <1>1, <1>3, TimesNat
  <1>14. Y <= t
    BY <1>1, <1>8, <1>9, <1>10, <1>11, <1>12, <1>13
  <1> QED
    BY <1>2, <1>11, <1>14 DEF t

\* A loss that is scaled leaves at least the scaled payout: scaling the
\* whole is at most the bets in full and the loss scaled.
LEMMA ScaledWhole ==
    ASSUME NEW a \in Nat, NEW b \in Nat, NEW s \in Nat, s <= BASIS_POINTS
    PROVE  MulBps(a + b, s) <= a + MulBps(b, s)
  <1> DEFINE c == a + b
             k == MulBps(c, s) - a
  <1>1. c \in Nat
    OBVIOUS
  <1>2. MulBps(c, s) \in Nat /\ 10000 * MulBps(c, s) <= c * s
    <2> HIDE DEF c
    <2>1. MulBps(c, s) \in Nat
      BY <1>1, MulBpsNat
    <2>2. 10000 * MulBps(c, s) <= c * s
      BY <1>1, MulBpsFloor
    <2> QED
      BY <2>1, <2>2
  <1>3. c * s = a * s + b * s /\ a * s \in Nat /\ b * s \in Nat
    OBVIOUS
  <1>4. a * s <= 10000 * a
    <2>1. a * s <= a * 10000
      BY TimesMonotone DEF BASIS_POINTS
    <2> QED
      BY <2>1
  <1>5. k \in Int /\ 10000 * k = 10000 * MulBps(c, s) - 10000 * a
    <2> HIDE DEF c
    <2> QED
      BY <1>2
  <1>6. 10000 * k <= b * s
    <2> HIDE DEF c, k
    <2> QED
      BY <1>2, <1>3, <1>4, <1>5
  <1>7. k <= MulBps(b, s)
    <2> HIDE DEF k
    <2> QED
      BY <1>5, <1>6, MulBpsLargest
  <1>8. MulBps(b, s) \in Nat
    BY MulBpsNat
  <1> HIDE DEF c
  <1>9. MulBps(c, s) <= a + MulBps(b, s)
    BY <1>2, <1>7, <1>8
  <1> QED
    BY <1>9 DEF c

\* What an unsettled market in debt owes and holds, and what its loss can be:
\* at most the loan, because the pool is the bets and the initial liquidity
\* and never pays more than itself.
LEMMA LossInLoan ==
    ASSUME TypeOK, BooksInv, LedgerInv, NEW m \in Markets, status[m] \in Unsettled, Indebted(m)
    PROVE  /\ PnL(m) \in Int /\ -PnL(m) <= borrowed[m]
           /\ PnL(m) = BetTotal(m) - ExpectedPayout(m)
           /\ cash[m] = borrowed[m] + BetTotal(m)
           /\ borrowed[m] = InitialLiquidity[m]
  <1>1. BetTotal(m) \in Nat /\ BetTotal(m) + InitialLiquidity[m] = totalLiquidity[m]
    BY BetsInPool
  <1>2. ExpectedPayout(m) \in Nat /\ ExpectedPayout(m) <= totalLiquidity[m]
    BY ExpectedBound
  <1>3. InitialLiquidity[m] \in Nat /\ totalLiquidity[m] \in Nat /\ borrowed[m] \in Nat
    BY MarketTypes
  <1>4. borrowed[m] = InitialLiquidity[m]
    BY <1>3 DEF Indebted, BooksInv, BooksOK, LoanIsInitial
  <1>5. cash[m] = borrowed[m] + BetTotal(m)
    BY DEF LedgerInv, StakesHeld
  <1>6. PnL(m) = BetTotal(m) - ExpectedPayout(m)
    BY DEF PnL
  <1> QED
    BY <1>1, <1>2, <1>3, <1>4, <1>5, <1>6

\* The loss a scaled settlement reports is part of the exact one.
LEMMA ScaledLossTypes ==
    ASSUME NEW m \in Markets, PnL(m) \in Int, NEW bps \in Nat
    PROVE  /\ ScaledPnL(m, bps) \in Int
           /\ PnL(m) >= 0 => ScaledPnL(m, bps) = PnL(m)
           /\ PnL(m) < 0 => -ScaledPnL(m, bps) = MulBps(-PnL(m), bps) /\ ScaledPnL(m, bps) <= 0
  <1>1. CASE PnL(m) < 0
    <2> DEFINE x == MulBps(-PnL(m), bps)
    <2>1. -PnL(m) \in Nat
      BY <1>1
    <2>2. x \in Nat
      BY <2>1, MulBpsNat
    <2>3. ScaledPnL(m, bps) = -x
      BY <1>1 DEF ScaledPnL
    <2> HIDE DEF x
    <2>4. -x \in Int /\ -(-x) = x /\ -x <= 0
      BY <2>2
    <2>5. ScaledPnL(m, bps) \in Int /\ -ScaledPnL(m, bps) = x /\ ScaledPnL(m, bps) <= 0
      BY <2>3, <2>4
    <2> QED
      BY <1>1, <2>5 DEF x
  <1>2. CASE PnL(m) >= 0
    BY <1>2 DEF ScaledPnL
  <1> QED
    BY <1>1, <1>2

\* A transfer of the whole loan and the profit, or of what a loss leaves of
\* the loan, is at most what the market holds.
LEMMA TransferInCash ==
    ASSUME TypeOK, BooksInv, LedgerInv, NEW m \in Markets, status[m] \in Unsettled, Indebted(m),
           NEW pnl \in Int, pnl >= 0 => pnl \in {0, PnL(m)}
    PROVE  SettlementTransfer(borrowed[m], pnl) <= cash[m]
  <1>1. /\ PnL(m) = BetTotal(m) - ExpectedPayout(m)
        /\ cash[m] = borrowed[m] + BetTotal(m)
    BY LossInLoan
  <1>2. BetTotal(m) \in Nat /\ ExpectedPayout(m) \in Nat /\ borrowed[m] \in Nat
    BY BetsInPool, ExpectedBound, MarketTypes
  <1>3. CASE pnl >= 0
    <2>1. SettlementTransfer(borrowed[m], pnl) = borrowed[m] + pnl
      BY <1>3 DEF SettlementTransfer
    <2>2. pnl <= BetTotal(m)
      BY <1>1, <1>2, <1>3
    <2>3. cash[m] = borrowed[m] + BetTotal(m)
      BY <1>1
    <2>4. borrowed[m] + pnl <= borrowed[m] + BetTotal(m)
      BY <1>2, <2>2
    <2> QED
      BY <2>1, <2>3, <2>4
  <1>4. CASE pnl < 0
    <2>1. SettlementTransfer(borrowed[m], pnl) = Monus(borrowed[m], -pnl)
      BY <1>4 DEF SettlementTransfer
    <2>2. Monus(borrowed[m], -pnl) \in 0 .. borrowed[m]
      <3>1. -pnl \in Nat /\ borrowed[m] \in Nat
        BY <1>2, <1>4
      <3> QED
        BY <3>1 DEF Monus
    <2>3. cash[m] = borrowed[m] + BetTotal(m)
      BY <1>1
    <2>4. borrowed[m] <= cash[m] /\ cash[m] \in Int
      BY <1>2, <2>3
    <2> QED
      BY <1>2, <2>1, <2>2, <2>4
  <1> QED
    BY <1>3, <1>4

\* A resolved market always holds what the vault will pull from it, whether
\* it settles exactly or at any scale: finalize never reverts for want of
\* tokens.
LEMMA CoveredByBooks ==
    ASSUME TypeOK, BooksInv, LedgerInv
    PROVE  SettlementCovered
  <1>1. SUFFICES ASSUME NEW m \in Markets, status[m] = "Resolved", Indebted(m),
                        NEW pnl \in {PnL(m)} \union {ScaledPnL(m, bps) : bps \in ScaleChoices}
                 PROVE  SettlementTransfer(borrowed[m], pnl) <= cash[m]
    BY DEF SettlementCovered
  <1>2. status[m] \in Unsettled
    BY <1>1 DEF Unsettled
  <1>3. PnL(m) \in Int
    BY <1>1, <1>2, LossInLoan
  <1>4. pnl \in Int /\ (pnl >= 0 => pnl \in {0, PnL(m)})
    <2>1. CASE pnl = PnL(m)
      BY <1>3, <2>1
    <2>2. ASSUME NEW bps \in ScaleChoices, pnl = ScaledPnL(m, bps)
          PROVE  pnl \in Int /\ (pnl >= 0 => pnl \in {0, PnL(m)})
      <3>1. bps \in Nat
        BY SportsbookAssumption
      <3>2. CASE PnL(m) >= 0
        BY <1>3, <2>2, <3>1, <3>2, ScaledLossTypes
      <3>3. CASE PnL(m) < 0
        <4>1. pnl \in Int /\ -pnl = MulBps(-PnL(m), bps) /\ pnl <= 0
          BY <1>3, <2>2, <3>1, <3>3, ScaledLossTypes
        <4> QED
          BY <4>1
      <3> QED
        BY <1>3, <3>2, <3>3
    <2> QED
      BY <1>1, <2>1, <2>2
  <1> QED
    BY <1>1, <1>2, <1>4, TransferInCash

\* What finalize leaves in a market.
LEMMA FinalizeLeaves ==
    ASSUME TypeOK, BooksInv, LedgerInv, NEW m \in Markets,
           finalizeExact(m) \/ \E bps \in ScaleChoices : finalizeScaled(m, bps)
    PROVE  /\ scale'[m] = BASIS_POINTS =>
                  cash'[m] = IF Indebted(m) THEN ExpectedPayout(m) ELSE BetTotal(m)
           /\ Indebted(m) => MulBps(ExpectedPayout(m), scale'[m]) <= cash'[m]
           /\ ~Indebted(m) => cash'[m] = BetTotal(m) /\ scale'[m] = BASIS_POINTS
  <1>1. /\ status[m] \in Unsettled /\ status[m] # "Finalized"
        /\ scale[m] = BASIS_POINTS
    BY DEF finalizeExact, finalizeScaled, Unsettled, BooksInv, BooksOK, Untouched
  <1>2. /\ BetTotal(m) \in Nat /\ ExpectedPayout(m) \in Nat /\ borrowed[m] \in Nat
        /\ cash[m] \in Nat
    BY BetsInPool, ExpectedBound, MarketTypes
  <1>3. CASE ~Indebted(m)
    <2>1. cash' = cash /\ scale' = scale
      BY <1>3 DEF finalizeExact, finalizeScaled, payVars
    <2>2. borrowed[m] = 0
      BY <1>1, <1>3, NotIndebted
    <2>3. cash[m] = borrowed[m] + BetTotal(m)
      BY <1>1 DEF LedgerInv, StakesHeld
    <2> QED
      BY <1>1, <1>2, <1>3, <2>1, <2>2, <2>3
  <1>4. CASE Indebted(m)
    <2>1. /\ PnL(m) \in Int /\ -PnL(m) <= borrowed[m]
          /\ PnL(m) = BetTotal(m) - ExpectedPayout(m)
          /\ cash[m] = borrowed[m] + BetTotal(m)
      BY <1>1, <1>4, LossInLoan
    <2>2. PICK pnl \in Int :
             /\ PayVault(m, SettlementTransfer(borrowed[m], pnl))
             /\ \/ pnl = PnL(m) /\ scale' = scale
                \/ \E bps \in ScaleChoices \cap (1 .. BASIS_POINTS) :
                      /\ pnl = ScaledPnL(m, bps) /\ scale' = [scale EXCEPT ![m] = bps]
      <3>1. CASE finalizeExact(m)
        BY <1>4, <2>1, <3>1 DEF finalizeExact, payVars
      <3>2. CASE \E bps \in ScaleChoices : finalizeScaled(m, bps)
        <4>1. PICK bps \in ScaleChoices : finalizeScaled(m, bps)
          BY <3>2
        <4>2. /\ bps \in ScaleChoices \cap (1 .. BASIS_POINTS)
              /\ PayVault(m, SettlementTransfer(borrowed[m], ScaledPnL(m, bps)))
              /\ scale' = [scale EXCEPT ![m] = bps]
          BY <1>4, <4>1 DEF finalizeScaled
        <4>3. ScaledPnL(m, bps) \in Int
          BY <2>1, <4>1, ScaledLossTypes, SportsbookAssumption
        <4> QED
          BY <4>2, <4>3
      <3> QED
        BY <3>1, <3>2
    <2> DEFINE e == ExpectedPayout(m)
               t == BetTotal(m)
               d == borrowed[m]
    <2>3. cash'[m] = d + t - SettlementTransfer(d, pnl)
      <3>1. cash' = [cash EXCEPT ![m] = cash[m] - SettlementTransfer(d, pnl)]
        BY <2>2 DEF PayVault
      <3>2. cash'[m] = cash[m] - SettlementTransfer(d, pnl)
        BY <3>1 DEF TypeOK, BookTypeOK
      <3>3. SettlementTransfer(d, pnl) \in Int
        BY <1>2, <2>2 DEF PayVault
      <3> QED
        BY <1>2, <2>1, <3>2, <3>3
    <2>4. CASE pnl = PnL(m) /\ scale' = scale
      <3>1. SettlementTransfer(d, pnl) = d + (t - e)
        BY <1>2, <2>1, <2>4 DEF SettlementTransfer, Monus
      <3>2. cash'[m] = e
        BY <1>2, <2>3, <3>1
      <3>3. scale'[m] = BASIS_POINTS
        BY <1>1, <2>4
      <3>4. MulBps(e, BASIS_POINTS) = e
        BY <1>2, MulBpsWhole
      <3> QED
        BY <1>2, <1>4, <3>2, <3>3, <3>4
    <2>5. ASSUME NEW bps \in ScaleChoices \cap (1 .. BASIS_POINTS),
                 pnl = ScaledPnL(m, bps), scale' = [scale EXCEPT ![m] = bps]
          PROVE  /\ scale'[m] = BASIS_POINTS => cash'[m] = e
                 /\ MulBps(e, scale'[m]) <= cash'[m]
      <3>1. scale'[m] = bps /\ bps \in Nat /\ bps \in 0 .. BASIS_POINTS /\ bps <= BASIS_POINTS
        <4>1. scale'[m] = bps
          BY <2>5 DEF TypeOK, BookTypeOK
        <4>2. \A x \in 1 .. BASIS_POINTS : x \in Nat /\ x \in 0 .. BASIS_POINTS /\ x <= BASIS_POINTS
          BY DEF BASIS_POINTS
        <4> QED
          BY <4>1, <4>2
      <3>2. CASE PnL(m) >= 0
        <4>1. pnl = PnL(m)
          BY <2>1, <2>5, <3>1, <3>2, ScaledLossTypes
        <4>2. SettlementTransfer(d, pnl) = d + (t - e)
          BY <1>2, <2>1, <3>2, <4>1 DEF SettlementTransfer
        <4>3. cash'[m] = e
          BY <1>2, <2>3, <4>2
        <4>4. MulBps(e, bps) \in 0 .. e
          BY <1>2, <3>1, MulBpsPart
        <4> QED
          BY <1>2, <3>1, <4>3, <4>4
      <3>3. CASE PnL(m) < 0
        <4> DEFINE l == e - t
                   x == MulBps(l, bps)
        <4>1. l \in Nat /\ l <= d /\ -PnL(m) = l /\ e = t + l
          BY <1>2, <2>1, <3>3
        <4>2. -pnl = x /\ pnl <= 0
          BY <2>1, <2>5, <3>1, <3>3, <4>1, ScaledLossTypes
        <4>3. x \in 0 .. l
          BY <3>1, <4>1, MulBpsPart
        <4>4. MulBps(e, bps) <= t + x
          BY <1>2, <3>1, <4>1, ScaledWhole
        <4>5. bps = BASIS_POINTS => x = l
          BY <4>1, MulBpsWhole
        <4> HIDE DEF l, x
        <4>6. SettlementTransfer(d, pnl) = d - x
          <5>1. CASE pnl = 0
            BY <1>2, <4>1, <4>2, <4>3, <5>1 DEF SettlementTransfer
          <5>2. CASE pnl < 0
            BY <1>2, <4>1, <4>2, <4>3, <5>2 DEF SettlementTransfer, Monus
          <5> QED
            BY <4>2, <5>1, <5>2
        <4>7. cash'[m] = t + x
          BY <1>2, <2>3, <4>1, <4>3, <4>6
        <4> QED
          BY <3>1, <4>1, <4>4, <4>5, <4>7
      <3> QED
        BY <2>1, <3>2, <3>3
    <2> QED
      BY <1>4, <2>2, <2>4, <2>5
  <1> QED
    BY <1>3, <1>4

\* Rates: for every key a function that pays parts no more than the whole.
Rates(F, S) == \A x \in S : F[x] \in [Nat -> Nat] /\ Superadditive(F[x])

\* What is paid for the amounts h at the rates F.
PaidAt(F, h, S) == SumFunctionOnSet([x \in S |-> F[x][h[x]]], S)

\* What many holders are paid for their parts is at most what one account
\* that held them all would be paid.
LEMMA ManyHolders ==
    ASSUME NEW U, IsFiniteSet(U), NEW S, IsFiniteSet(S), NEW F, Rates(F, S),
           NEW s, \A u \in U, x \in S : s[u][x] \in Nat
    PROVE  /\ SumFunctionOnSet([u \in U |-> PaidAt(F, s[u], S)], U) \in Int
           /\ SumFunctionOnSet([u \in U |-> PaidAt(F, s[u], S)], U)
                <= PaidAt(F, [x \in S |-> SumFunctionOnSet([u \in U |-> s[u][x]], U)], S)
  <1> DEFINE p == [u \in U |-> [x \in S |-> F[x][s[u][x]]]]
             col == [x \in S |-> SumFunctionOnSet([u \in U |-> p[u][x]], U)]
             h == [x \in S |-> SumFunctionOnSet([u \in U |-> s[u][x]], U)]
             top == [x \in S |-> F[x][h[x]]]
  <1>1. \A u \in U, x \in S : p[u][x] \in Int
    BY DEF Rates
  <1>2. SumFunctionOnSet([u \in U |-> SumFunctionOnSet(p[u], S)], U) = SumFunctionOnSet(col, S)
    <2> HIDE DEF p
    <2> QED
      BY <1>1, SumExchange
  <1>3. [u \in U |-> SumFunctionOnSet(p[u], S)] = [u \in U |-> PaidAt(F, s[u], S)]
    BY DEF PaidAt
  <1>4. ASSUME NEW x \in S PROVE col[x] \in Int /\ top[x] \in Int /\ col[x] <= top[x]
    <2> DEFINE f == [u \in U |-> s[u][x]]
               g == F[x]
    <2>1. g \in [Nat -> Nat] /\ Superadditive(g)
      BY DEF Rates
    <2>2. \A u \in U : f[u] \in Nat
      OBVIOUS
    <2>3. col[x] = SumFunctionOnSet([u \in U |-> g[f[u]]], U)
      <3>1. [u \in U |-> p[u][x]] = [u \in U |-> g[f[u]]]
        OBVIOUS
      <3> QED
        BY <3>1
    <2>4. top[x] = g[SumFunctionOnSet(f, U)]
      OBVIOUS
    <2>5. \A u \in U : [v \in U |-> g[f[v]]][u] \in Nat
      <3> HIDE DEF f, g
      <3> QED
        BY <2>1, <2>2
    <2> HIDE DEF f, g, col, top
    <2>6. SumFunctionOnSet([u \in U |-> g[f[u]]], U) <= g[SumFunctionOnSet(f, U)]
      BY <2>1, <2>2, SumSuperadditive
    <2>7. SumFunctionOnSet([u \in U |-> g[f[u]]], U) \in Nat
      BY <2>5, SumNat
    <2>8. g[SumFunctionOnSet(f, U)] \in Nat
      <3>1. SumFunctionOnSet(f, U) \in Nat
        BY <2>2, SumNat
      <3> QED
        BY <2>1, <3>1
    <2> QED
      BY <2>3, <2>4, <2>6, <2>7, <2>8
  <1>5. SumFunctionOnSet(col, S) <= SumFunctionOnSet(top, S)
    <2> HIDE DEF col, top
    <2> QED
      BY <1>4, SumMonotone
  <1>6. SumFunctionOnSet(top, S) = PaidAt(F, h, S)
    BY DEF PaidAt
  <1>7. SumFunctionOnSet(col, S) \in Int
    <2> HIDE DEF col, top
    <2> QED
      BY <1>4, SumInt
  <1> QED
    BY <1>2, <1>3, <1>5, <1>6, <1>7

\* Taking a part of one amount lowers what is due by at least what the part
\* is paid.
LEMMA PartPaid ==
    ASSUME NEW S, IsFiniteSet(S), NEW F, Rates(F, S), NEW h, NEW k, NEW x \in S, NEW n \in Nat,
           \A y \in S : h[y] \in Nat /\ k[y] \in Nat /\ (y # x => k[y] = h[y]),
           h[x] = k[x] + n
    PROVE  PaidAt(F, k, S) + F[x][n] <= PaidAt(F, h, S)
  <1> DEFINE f == [y \in S |-> F[y][h[y]]]
             g == [y \in S |-> F[y][k[y]]]
  <1>1. DiffersAt(f, g, S, x)
    BY DEF DiffersAt, Rates
  <1>2. f[x] \in Nat /\ g[x] \in Nat /\ F[x][n] \in Nat /\ g[x] + F[x][n] <= f[x]
    <2>1. F[x] \in [Nat -> Nat] /\ Superadditive(F[x])
      BY DEF Rates
    <2>2. k[x] \in Nat /\ h[x] \in Nat
      OBVIOUS
    <2>3. F[x][k[x]] + F[x][n] <= F[x][k[x] + n]
      BY <2>1, <2>2 DEF Superadditive
    <2> QED
      BY <2>1, <2>2, <2>3
  <1>3. PaidAt(F, h, S) = SumFunctionOnSet(f, S) /\ PaidAt(F, k, S) = SumFunctionOnSet(g, S)
    BY DEF PaidAt
  <1> HIDE DEF f, g
  <1>4. SumFunctionOnSet(g, S) = SumFunctionOnSet(f, S) + (g[x] - f[x])
    BY <1>1, SumUpdate
  <1>5. SumFunctionOnSet(f, S) \in Int
    BY <1>1, SumInt DEF DiffersAt
  <1> QED
    BY <1>2, <1>3, <1>4, <1>5

\* What redeem and refundFor pay, as functions of the number of shares.
PayoutRates(m) == [o \in DOMAIN result[m] |-> [x \in Nat |-> Payout(m, o, x)]]
RefundRates(m) == [o \in Outcomes |-> [x \in Nat |-> RefundAmount(m, o, x)]]

\* The shares held of each outcome.
HeldShares(m) == [o \in Outcomes |-> Held(m, o)]

\* What is due if one account held all the shares.
PooledClaims(m) == PaidAt(PayoutRates(m), HeldShares(m), DOMAIN result[m])
PooledRefunds(m) == PaidAt(RefundRates(m), HeldShares(m), Outcomes)

\* Payouts per outcome, and refunds per outcome, are rates of that kind.
LEMMA RatesOfMarket ==
    ASSUME TypeOK, BooksInv, NEW m \in Markets
    PROVE  /\ Rates(PayoutRates(m), DOMAIN result[m])
           /\ Rates(RefundRates(m), Outcomes)
  <1>1. ASSUME NEW o \in DOMAIN result[m]
        PROVE  PayoutRates(m)[o] \in [Nat -> Nat] /\ Superadditive(PayoutRates(m)[o])
    <2>1. PayoutRates(m)[o] = [x \in Nat |-> Payout(m, o, x)]
      BY DEF PayoutRates
    <2>2. \A a, b \in Nat : /\ Payout(m, o, a) \in Nat
                            /\ Payout(m, o, a) + Payout(m, o, b) <= Payout(m, o, a + b)
      BY PayoutSuperadditive
    <2> DEFINE g == PayoutRates(m)[o]
    <2>3. g \in [Nat -> Nat]
      BY <2>1, <2>2
    <2>4. \A x \in Nat : g[x] = Payout(m, o, x)
      BY <2>1
    <2> HIDE DEF g
    <2>5. ASSUME NEW a \in Nat, NEW b \in Nat PROVE g[a] + g[b] <= g[a + b]
      <3>1. g[a] = Payout(m, o, a) /\ g[b] = Payout(m, o, b) /\ g[a + b] = Payout(m, o, a + b)
        BY <2>4
      <3> QED
        BY <2>2, <3>1
    <2>6. Superadditive(g)
      BY <2>5 DEF Superadditive
    <2> QED
      BY <2>3, <2>6 DEF g
  <1>2. ASSUME NEW o \in Outcomes
        PROVE  RefundRates(m)[o] \in [Nat -> Nat] /\ Superadditive(RefundRates(m)[o])
    <2>1. RefundRates(m)[o] = [x \in Nat |-> RefundAmount(m, o, x)]
      BY DEF RefundRates
    <2>2. \A a, b \in Nat : /\ RefundAmount(m, o, a) \in Nat
                            /\ RefundAmount(m, o, a) + RefundAmount(m, o, b) <= RefundAmount(m, o, a + b)
      BY RefundSuperadditive
    <2> DEFINE g == RefundRates(m)[o]
    <2>3. g \in [Nat -> Nat]
      BY <2>1, <2>2
    <2>4. \A x \in Nat : g[x] = RefundAmount(m, o, x)
      BY <2>1
    <2> HIDE DEF g
    <2>5. ASSUME NEW a \in Nat, NEW b \in Nat PROVE g[a] + g[b] <= g[a + b]
      <3>1. g[a] = RefundAmount(m, o, a) /\ g[b] = RefundAmount(m, o, b) /\ g[a + b] = RefundAmount(m, o, a + b)
        BY <2>4
      <3> QED
        BY <2>2, <3>1
    <2>6. Superadditive(g)
      BY <2>5 DEF Superadditive
    <2> QED
      BY <2>3, <2>6 DEF g
  <1> QED
    BY <1>1, <1>2 DEF Rates

\* What the holders are owed one by one is at most the pooled claims.
LEMMA ClaimsArePooled ==
    ASSUME TypeOK, BooksInv, NEW m \in Markets
    PROVE  Claims(m) \in Int /\ Claims(m) <= PooledClaims(m)
  <1> DEFINE W == DOMAIN result[m]
             F == PayoutRates(m)
             s == sharesOf[m]
  <1>1. IsFiniteSet(W) /\ W \subseteq Outcomes
    BY MarketTypes
  <1>2. \A u \in Users, o \in W : s[u][o] \in Nat
    BY <1>1 DEF TypeOK, BookTypeOK
  <1>3. Rates(F, W)
    BY RatesOfMarket
  <1>4. Claims(m) = SumFunctionOnSet([u \in Users |-> PaidAt(F, s[u], W)], Users)
    <2>1. ASSUME NEW u \in Users
          PROVE  SumFunction([o \in W |-> Payout(m, o, s[u][o])]) = PaidAt(F, s[u], W)
      <3>1. [o \in W |-> Payout(m, o, s[u][o])] = [o \in W |-> F[o][s[u][o]]]
        BY <1>2 DEF PayoutRates
      <3> QED
        BY <3>1 DEF SumFunction, PaidAt
    <2>2. [u \in Users |-> SumFunction([o \in W |-> Payout(m, o, s[u][o])])]
            = [u \in Users |-> PaidAt(F, s[u], W)]
      BY <2>1
    <2> QED
      BY <2>2 DEF Claims, SumFunction
  <1>5. PooledClaims(m) = PaidAt(F, [o \in W |-> SumFunctionOnSet([u \in Users |-> s[u][o]], Users)], W)
    <2>1. [o \in W |-> F[o][HeldShares(m)[o]]]
            = [o \in W |-> F[o][[p \in W |-> SumFunctionOnSet([u \in Users |-> s[u][p]], Users)][o]]]
      BY <1>1 DEF HeldShares, Held
    <2> QED
      BY <2>1 DEF PooledClaims, PaidAt
  <1> HIDE DEF F, W, s
  <1>6. /\ SumFunctionOnSet([u \in Users |-> PaidAt(F, s[u], W)], Users) \in Int
        /\ SumFunctionOnSet([u \in Users |-> PaidAt(F, s[u], W)], Users)
             <= PaidAt(F, [o \in W |-> SumFunctionOnSet([u \in Users |-> s[u][o]], Users)], W)
    BY <1>1, <1>2, <1>3, ManyHolders, MarketAssumption
  <1> QED
    BY <1>4, <1>5, <1>6

\* What single holders are refunded is at most the refund of all shares at once.
LEMMA RefundsArePooled ==
    ASSUME TypeOK, BooksInv, NEW m \in Markets
    PROVE  Refunds(m) \in Int /\ Refunds(m) <= PooledRefunds(m)
  <1> DEFINE F == RefundRates(m)
             s == sharesOf[m]
  <1>2. \A u \in Users, o \in Outcomes : s[u][o] \in Nat
    BY DEF TypeOK, BookTypeOK
  <1>3. Rates(F, Outcomes)
    BY RatesOfMarket
  <1>4. Refunds(m) = SumFunctionOnSet([u \in Users |-> PaidAt(F, s[u], Outcomes)], Users)
    <2>1. ASSUME NEW u \in Users
          PROVE  SumFunction([o \in Outcomes |-> RefundAmount(m, o, s[u][o])]) = PaidAt(F, s[u], Outcomes)
      <3>1. [o \in Outcomes |-> RefundAmount(m, o, s[u][o])] = [o \in Outcomes |-> F[o][s[u][o]]]
        BY <1>2 DEF RefundRates
      <3> QED
        BY <3>1 DEF SumFunction, PaidAt
    <2>2. [u \in Users |-> SumFunction([o \in Outcomes |-> RefundAmount(m, o, s[u][o])])]
            = [u \in Users |-> PaidAt(F, s[u], Outcomes)]
      BY <2>1
    <2> QED
      BY <2>2 DEF Refunds, SumFunction
  <1>5. PooledRefunds(m)
          = PaidAt(F, [o \in Outcomes |-> SumFunctionOnSet([u \in Users |-> s[u][o]], Users)], Outcomes)
    BY DEF PooledRefunds, HeldShares, Held
  <1> HIDE DEF F, s
  <1>6. /\ SumFunctionOnSet([u \in Users |-> PaidAt(F, s[u], Outcomes)], Users) \in Int
        /\ SumFunctionOnSet([u \in Users |-> PaidAt(F, s[u], Outcomes)], Users)
             <= PaidAt(F, [o \in Outcomes |-> SumFunctionOnSet([u \in Users |-> s[u][o]], Users)], Outcomes)
    BY <1>2, <1>3, ManyHolders, MarketAssumption
  <1> QED
    BY <1>4, <1>5, <1>6

-----------------------------------------------------------------------------
(*****************************************************************************)
(* What a step may do to the pot of a market.                                *)
(*****************************************************************************)

\* What a payout is computed from stays as it is.
SamePool(m) ==
    /\ totalLiquidity'[m] = totalLiquidity[m] /\ outcomeShares'[m] = outcomeShares[m]
    /\ outcomeBets'[m] = outcomeBets[m] /\ result'[m] = result[m]
    /\ borrowed'[m] = borrowed[m]

\* A step that leaves a market's pool, status, balance and held totals alone.
Quiet(m) ==
    /\ SamePool(m)
    /\ status'[m] = status[m] /\ scale'[m] = scale[m] /\ claimed'[m] = claimed[m]
    /\ cash'[m] = cash[m]
    /\ \A o \in Outcomes : Held(m, o)' = Held(m, o)

\* What is computed from the pool stays the same.
LEMMA SameExpected ==
    ASSUME NEW m \in Markets, SamePool(m)
    PROVE  /\ ExpectedPayout(m)' = ExpectedPayout(m)
           /\ BetTotal(m)' = BetTotal(m)
           /\ Indebted(m)' = Indebted(m)
           /\ RefundRates(m)' = RefundRates(m)
  BY DEF SamePool, ExpectedPayout, BasePayout, AllShares, BetTotal, Indebted, RefundRates, RefundAmount

\* The same pool and the same scale pay at the same rates.
LEMMA SameRates ==
    ASSUME NEW m \in Markets, SamePool(m), scale'[m] = scale[m]
    PROVE  PayoutRates(m)' = PayoutRates(m)
  BY DEF SamePool, PayoutRates, Payout, BasePayout, AllShares

\* The cases of a step as one market sees it.
PaysOut(m) ==
    \E u \in Users, o \in Outcomes, n \in Nat : redeem(m, u, o, n) \/ refundFor(m, u, o, n)
Finalizes(m) == finalizeExact(m) \/ \E bps \in ScaleChoices : finalizeScaled(m, bps)
Cancels(m) == cancel(m) \/ cancelResolved(m)

\* A step that names nothing of a market is quiet for it.
LEMMA QuietFrame ==
    ASSUME NEW k \in Markets, sharesOf'[k] = sharesOf[k],
           SamePool(k), status'[k] = status[k], scale'[k] = scale[k], claimed'[k] = claimed[k],
           cash'[k] = cash[k]
    PROVE  Quiet(k)
  <1>1. \A o \in Outcomes : Held(k, o)' = Held(k, o)
    BY HeldSame
  <1> QED
    BY <1>1 DEF Quiet

\* What one step of the system may do to one market.
LEMMA MarketCases ==
    ASSUME TypeOK, [Next]_vars, NEW k \in Markets
    PROVE  Quiet(k) \/ status'[k] \in Unsettled \/ PaysOut(k) \/ Finalizes(k) \/ Cancels(k)
  <1> DEFINE Goal == Quiet(k) \/ status'[k] \in Unsettled \/ PaysOut(k) \/ Finalizes(k) \/ Cancels(k)
  <1> USE DEF SamePool, lifeVars, betVars, holderVars, payVars
  <1>1. CASE UNCHANGED bookVars
    BY <1>1, QuietFrame DEF bookVars
  <1>2. CASE UNCHANGED vars
    BY <1>2, QuietFrame DEF vars
  <1>3. CASE LpStep \/ \E m \in Markets : Administer(m)
    <2>1. UNCHANGED bookVars
      BY <1>3 DEF LpStep, LpDeposit, LpMint, LpWithdraw, LpRedeem, FundReserve, DefundReserve, Administer
    <2> QED
      BY <1>1, <2>1
  <1>4. ASSUME NEW m \in Markets, m # k, BettorStep(m), NEW u \in Users, NEW o \in Outcomes, NEW n,
               \/ \E min : placeBetFor(m, u, o, n, min)
               \/ \E v \in Users : transferPosition(m, u, v, o, n)
               \/ redeem(m, u, o, n) \/ refundFor(m, u, o, n)
        PROVE  Quiet(k)
    <2>1. /\ SamePool(k) /\ sharesOf'[k] = sharesOf[k] /\ status'[k] = status[k]
          /\ scale'[k] = scale[k] /\ claimed'[k] = claimed[k] /\ cash'[k] = cash[k]
      BY <1>4 DEF placeBetFor, transferPosition, redeem, refundFor, BurnAndPay, TypeOK, BookTypeOK
    <2> QED
      BY <2>1, QuietFrame
  <1>5. ASSUME NEW m \in Markets, m # k, KeeperStep(m) \/ OperatorStep(m)
        PROVE  Goal
    <2>1. CASE Kickoff(m) \/ lock(m) \/ (\E r \in MapperResults : resolve(m, r)) \/ fundFromVault(m)
               \/ pauseMarket(m) \/ unpauseMarket(m)
      <3>1. /\ SamePool(k) /\ sharesOf'[k] = sharesOf[k] /\ status'[k] = status[k]
            /\ scale'[k] = scale[k] /\ claimed'[k] = claimed[k] /\ cash'[k] = cash[k]
        BY <1>5, <2>1 DEF Kickoff, lock, resolve, fundFromVault, pauseMarket, unpauseMarket, TypeOK, BookTypeOK, ResultTypeOK
      <3> QED
        BY <3>1, QuietFrame
    <2>2. CASE Finalizes(m) \/ Cancels(m)
      <3>1. /\ SamePool(k) /\ sharesOf'[k] = sharesOf[k] /\ status'[k] = status[k]
            /\ scale'[k] = scale[k] /\ claimed'[k] = claimed[k] /\ cash'[k] = cash[k]
        <4>1. CASE finalizeExact(m)
          BY <1>5, <4>1 DEF finalizeExact, PayVault, TypeOK, BookTypeOK
        <4>2. CASE \E bps \in ScaleChoices : finalizeScaled(m, bps)
          BY <1>5, <4>2 DEF finalizeScaled, PayVault, TypeOK, BookTypeOK
        <4>3. CASE Cancels(m)
          BY <1>5, <4>3 DEF Cancels, cancel, cancelResolved, PayVault, TypeOK, BookTypeOK
        <4> QED
          BY <2>2, <4>1, <4>2, <4>3 DEF Finalizes
      <3> QED
        BY <3>1, QuietFrame
    <2> QED
      BY <1>3, <1>5, <2>1, <2>2 DEF KeeperStep, OperatorStep, Finalizes, Cancels
  <1>6. CASE KeeperStep(k) \/ OperatorStep(k)
    <2>1. CASE Kickoff(k) \/ pauseMarket(k) \/ unpauseMarket(k)
      BY <2>1, QuietFrame DEF Kickoff, pauseMarket, unpauseMarket
    <2>2. CASE lock(k) \/ (\E r \in MapperResults : resolve(k, r)) \/ fundFromVault(k)
      BY <2>2 DEF lock, resolve, fundFromVault, Unsettled, TypeOK, BookTypeOK
    <2> QED
      BY <1>3, <1>6, <2>1, <2>2 DEF KeeperStep, OperatorStep, Finalizes, Cancels
  <1>7. CASE BettorStep(k)
    <2>1. \A u \in Users, o \in Outcomes : 1 .. sharesOf[k][u][o] \subseteq Nat
      BY DEF TypeOK, BookTypeOK
    <2>2. CASE \E u \in Users, o \in Outcomes, n \in BetAmounts, min \in MinShareChoices :
                   placeBetFor(k, u, o, n, min)
      BY <2>2 DEF placeBetFor, Unsettled
    <2>3. CASE \E u \in Users, o \in Outcomes : \E n \in 1 .. sharesOf[k][u][o] :
                   redeem(k, u, o, n) \/ refundFor(k, u, o, n)
      BY <2>1, <2>3 DEF PaysOut
    <2>4. CASE \E u, v \in Users, o \in Outcomes : \E n \in 1 .. sharesOf[k][u][o] :
                   transferPosition(k, u, v, o, n)
      <3>1. PICK u \in Users, v \in Users, o \in Outcomes :
               \E n \in 1 .. sharesOf[k][u][o] : transferPosition(k, u, v, o, n)
        BY <2>4
      <3>2. PICK n \in Nat : transferPosition(k, u, v, o, n)
        BY <2>1, <3>1
      <3>3. /\ u # v
            /\ sharesOf' = [sharesOf EXCEPT ![k][u][o] = @ - n, ![k][v][o] = @ + n]
            /\ SamePool(k) /\ status'[k] = status[k]
            /\ scale'[k] = scale[k] /\ claimed'[k] = claimed[k] /\ cash'[k] = cash[k]
        BY <3>2 DEF transferPosition
      <3>4. ASSUME NEW p \in Outcomes PROVE Held(k, p)' = Held(k, p)
        <4>1. CASE p = o
          BY <3>2, <3>3, <4>1, HeldTransferred
        <4>2. CASE p # o
          <5>1. \A w \in Users : sharesOf'[k][w][p] = sharesOf[k][w][p]
            BY <3>3, <4>2 DEF TypeOK, BookTypeOK
          <5> QED
            BY <5>1, HeldSame
        <4> QED
          BY <4>1, <4>2
      <3> QED
        BY <3>3, <3>4 DEF Quiet
    <2> QED
      BY <1>7, <2>2, <2>3, <2>4 DEF BettorStep
  <1>8. ASSUME NEW m \in Markets, m # k, BettorStep(m) PROVE Goal
    BY <1>4, <1>8 DEF BettorStep
  <1> QED
    BY <1>2, <1>3, <1>5, <1>6, <1>7, <1>8 DEF Next

\* At settlement an exactly settled market holds what its winners are owed.
PotExact(m) ==
    status[m] = "Finalized" /\ scale[m] = BASIS_POINTS =>
        cash[m] + claimed[m] = IF Indebted(m) THEN ExpectedPayout(m) ELSE BetTotal(m)

\* The pooled claims are covered, and so are the pooled refunds.
ClaimsCovered(m) ==
    status[m] = "Finalized" /\ borrowed[m] = InitialLiquidity[m] => PooledClaims(m) <= cash[m]

CancelCovered(m) == status[m] = "Cancelled" => PooledRefunds(m) <= cash[m]

PayInv == \A m \in Markets : PotExact(m) /\ ClaimsCovered(m) /\ CancelCovered(m)

\* What is held is a natural.
LEMMA HeldNat ==
    ASSUME TypeOK, NEW m \in Markets, NEW o \in Outcomes
    PROVE  Held(m, o) \in Nat
  <1> DEFINE f == [u \in Users |-> sharesOf[m][u][o]]
  <1>1. \A u \in Users : f[u] \in Nat
    BY DEF TypeOK, BookTypeOK
  <1> HIDE DEF f
  <1>2. SumFunctionOnSet(f, Users) \in Nat
    BY <1>1, SumNat, MarketAssumption
  <1> QED
    BY <1>2 DEF Held, f

\* So is what is held after a step.
LEMMA HeldNatNext ==
    ASSUME TypeOK', NEW m \in Markets, NEW o \in Outcomes
    PROVE  Held(m, o)' \in Nat
  <1> DEFINE f == [u \in Users |-> sharesOf'[m][u][o]]
  <1>1. \A u \in Users : f[u] \in Nat
    BY DEF TypeOK, BookTypeOK
  <1>2. Held(m, o)' = SumFunctionOnSet(f, Users)
    BY DEF Held
  <1> HIDE DEF f
  <1>3. SumFunctionOnSet(f, Users) \in Nat
    BY <1>1, SumNat, MarketAssumption
  <1> QED
    BY <1>2, <1>3

\* Pooled amounts are naturals.
LEMMA PaidAtNat ==
    ASSUME NEW S, IsFiniteSet(S), NEW F, Rates(F, S), NEW h, \A x \in S : h[x] \in Nat
    PROVE  PaidAt(F, h, S) \in Nat
  <1> DEFINE f == [x \in S |-> F[x][h[x]]]
  <1>1. \A x \in S : f[x] \in Nat
    BY DEF Rates
  <1> HIDE DEF f
  <1>2. SumFunctionOnSet(f, S) \in Nat
    BY <1>1, SumNat
  <1> QED
    BY <1>2 DEF PaidAt, f

\* Pooled claims are amounts of tokens.
LEMMA PooledNat ==
    ASSUME TypeOK, BooksInv, NEW m \in Markets
    PROVE  PooledClaims(m) \in Nat /\ PooledRefunds(m) \in Nat
  <1>1. \A o \in Outcomes : HeldShares(m)[o] \in Nat
    BY HeldNat DEF HeldShares
  <1>2. IsFiniteSet(DOMAIN result[m]) /\ DOMAIN result[m] \subseteq Outcomes
    BY MarketTypes
  <1>3. PooledClaims(m) \in Nat
    BY <1>1, <1>2, PaidAtNat, RatesOfMarket DEF PooledClaims
  <1>4. PooledRefunds(m) \in Nat
    BY <1>1, PaidAtNat, RatesOfMarket, MarketAssumption DEF PooledRefunds
  <1> QED
    BY <1>3, <1>4

\* A quiet step keeps all three.
LEMMA PayQuiet ==
    ASSUME NEW m \in Markets, PotExact(m), ClaimsCovered(m), CancelCovered(m), Quiet(m)
    PROVE  PotExact(m)' /\ ClaimsCovered(m)' /\ CancelCovered(m)'
  <1>1. /\ SamePool(m) /\ status'[m] = status[m] /\ scale'[m] = scale[m]
        /\ claimed'[m] = claimed[m] /\ cash'[m] = cash[m] /\ result'[m] = result[m]
        /\ borrowed'[m] = borrowed[m]
    BY DEF Quiet, SamePool
  <1>2. HeldShares(m)' = HeldShares(m)
    BY DEF Quiet, HeldShares
  <1>3. PooledClaims(m)' = PooledClaims(m) /\ PooledRefunds(m)' = PooledRefunds(m)
    BY <1>1, <1>2, SameExpected, SameRates DEF PooledClaims, PooledRefunds
  <1> QED
    BY <1>1, <1>3, SameExpected DEF PotExact, ClaimsCovered, CancelCovered

\* A market that has not ended owes nothing yet.
LEMMA PayUnsettled ==
    ASSUME NEW m \in Markets, status'[m] \in Unsettled
    PROVE  PotExact(m)' /\ ClaimsCovered(m)' /\ CancelCovered(m)'
  BY DEF PotExact, ClaimsCovered, CancelCovered, Unsettled

\* What burning shares does to the balances of a market.
LEMMA BurnEffect ==
    ASSUME TypeOK, TypeOK', NEW m \in Markets, NEW u \in Users, NEW o \in Outcomes, NEW n \in Nat,
           NEW amount, BurnAndPay(m, u, o, n, amount)
    PROVE  /\ amount \in Nat /\ cash'[m] = cash[m] - amount
           /\ Held(m, o) = Held(m, o)' + n
           /\ \A p \in Outcomes \ {o} : Held(m, p)' = Held(m, p)
  <1>1. /\ sharesOf' = [sharesOf EXCEPT ![m][u][o] = @ - n]
        /\ cash' = [cash EXCEPT ![m] = @ - amount] /\ amount \in 0 .. cash[m] /\ n <= sharesOf[m][u][o]
    BY DEF BurnAndPay
  <1>2. cash[m] \in Nat /\ sharesOf[m][u][o] \in Nat
    BY DEF TypeOK, BookTypeOK
  <1>3. amount \in Nat /\ cash'[m] = cash[m] - amount
    BY <1>1, <1>2 DEF TypeOK, BookTypeOK
  <1>4. ASSUME NEW p \in Outcomes \ {o} PROVE Held(m, p)' = Held(m, p)
    <2>1. \A v \in Users : sharesOf'[m][v][p] = sharesOf[m][v][p]
      BY <1>1 DEF TypeOK, BookTypeOK
    <2> QED
      BY <2>1, HeldSame
  <1>5. OthersKeep(m, u, o) /\ sharesOf'[m][u][o] = sharesOf[m][u][o] - n
    BY <1>1 DEF TypeOK, BookTypeOK, OthersKeep
  <1>6. Held(m, o)' = Held(m, o) + (sharesOf'[m][u][o] - sharesOf[m][u][o])
    BY <1>5, HeldMoves
  <1>7. Held(m, o) \in Nat
    BY HeldNat
  <1> QED
    BY <1>2, <1>3, <1>4, <1>5, <1>6, <1>7

\* A redemption moves its payout from the balance to what was claimed.
LEMMA PayRedeem ==
    ASSUME TypeOK, TypeOK', BooksInv, NEW m \in Markets, PotExact(m), ClaimsCovered(m),
           NEW u \in Users, NEW o \in Outcomes, NEW n \in Nat, redeem(m, u, o, n)
    PROVE  PotExact(m)' /\ ClaimsCovered(m)' /\ CancelCovered(m)'
  <1> DEFINE pay == Payout(m, o, n)
             W == DOMAIN result[m]
             F == PayoutRates(m)
             h == HeldShares(m)
             k == HeldShares(m)'
  <1>1. /\ status[m] = "Finalized" /\ status' = status /\ o \in W
        /\ SamePool(m) /\ scale'[m] = scale[m] /\ result'[m] = result[m] /\ borrowed' = borrowed
        /\ BurnAndPay(m, u, o, n, pay)
        /\ claimed' = [claimed EXCEPT ![m] = @ + pay]
    BY DEF redeem, lifeVars, betVars, SamePool
  <1>2. /\ pay \in Nat /\ cash'[m] = cash[m] - pay
        /\ Held(m, o) = Held(m, o)' + n
        /\ \A p \in Outcomes \ {o} : Held(m, p)' = Held(m, p)
    BY <1>1, BurnEffect
  <1>3. claimed'[m] = claimed[m] + pay /\ claimed[m] \in Nat /\ cash[m] \in Nat
    BY <1>1 DEF TypeOK, BookTypeOK
  <1>4. PotExact(m)'
    BY <1>1, <1>2, <1>3, SameExpected DEF PotExact
  <1>5. CancelCovered(m)'
    BY <1>1 DEF CancelCovered
  <1>6. PooledClaims(m)' + pay <= PooledClaims(m)
    <2>1. /\ Rates(F, W) /\ IsFiniteSet(W) /\ W \subseteq Outcomes
      BY RatesOfMarket, MarketTypes
    <2>2. \A p \in Outcomes : h[p] = Held(m, p) /\ k[p] = Held(m, p)'
      BY DEF HeldShares
    <2>3. \A p \in Outcomes : Held(m, p) \in Nat /\ Held(m, p)' \in Nat
      <3>1. ASSUME NEW p \in Outcomes PROVE Held(m, p)' \in Nat
        BY HeldNatNext
      <3> QED
        BY <3>1, HeldNat
    <2>4. /\ \A p \in W : h[p] \in Nat /\ k[p] \in Nat /\ (p # o => k[p] = h[p])
          /\ h[o] = k[o] + n
      BY <1>2, <2>1, <2>2, <2>3
    <2>5. F[o][n] = pay
      BY <1>1 DEF PayoutRates
    <2>6. PooledClaims(m) = PaidAt(F, h, W)
      BY DEF PooledClaims
    <2>7. PooledClaims(m)' = PaidAt(F, k, W)
      BY <1>1, SameRates DEF PooledClaims
    <2> HIDE DEF F, W, h, k, pay
    <2>8. PaidAt(F, k, W) + F[o][n] <= PaidAt(F, h, W)
      BY <1>1, <2>1, <2>4, PartPaid
    <2> QED
      BY <2>5, <2>6, <2>7, <2>8
  <1>7. ClaimsCovered(m)'
    <2>1. PooledClaims(m) \in Nat /\ PooledClaims(m)' \in Int
      <3>1. PooledClaims(m)' \in Int
        <4>1. PooledClaims(m)' = PaidAt(F, k, W)
          BY <1>1, SameRates DEF PooledClaims
        <4>2. \A p \in W : k[p] \in Nat
          <5>1. ASSUME NEW p \in Outcomes PROVE Held(m, p)' \in Nat
            BY HeldNatNext
          <5> QED
            BY <5>1, MarketTypes DEF HeldShares
        <4>3. Rates(F, W) /\ IsFiniteSet(W)
          BY RatesOfMarket, MarketTypes
        <4> HIDE DEF F, k, W
        <4>4. PaidAt(F, k, W) \in Nat
          BY <4>2, <4>3, PaidAtNat
        <4> QED
          BY <4>1, <4>4
      <3> QED
        BY <3>1, PooledNat
    <2>2. CASE borrowed[m] = InitialLiquidity[m]
      <3>1. PooledClaims(m) <= cash[m]
        BY <1>1, <2>2 DEF ClaimsCovered
      <3> HIDE DEF pay
      <3>2. PooledClaims(m)' <= cash'[m]
        BY <1>2, <1>3, <1>6, <2>1, <3>1
      <3> QED
        BY <3>2 DEF ClaimsCovered
    <2>3. CASE borrowed[m] # InitialLiquidity[m]
      BY <1>1, <2>3 DEF ClaimsCovered
    <2> QED
      BY <2>2, <2>3
  <1> QED
    BY <1>4, <1>5, <1>7

\* So does a refund.
LEMMA PayRefund ==
    ASSUME TypeOK, TypeOK', BooksInv, NEW m \in Markets, CancelCovered(m),
           NEW u \in Users, NEW o \in Outcomes, NEW n \in Nat, refundFor(m, u, o, n)
    PROVE  PotExact(m)' /\ ClaimsCovered(m)' /\ CancelCovered(m)'
  <1> DEFINE pay == RefundAmount(m, o, n)
             F == RefundRates(m)
             h == HeldShares(m)
             k == HeldShares(m)'
  <1>1. /\ status[m] = "Cancelled" /\ status' = status
        /\ SamePool(m) /\ BurnAndPay(m, u, o, n, pay)
    BY DEF refundFor, lifeVars, betVars, payVars, SamePool
  <1>2. /\ pay \in Nat /\ cash'[m] = cash[m] - pay
        /\ Held(m, o) = Held(m, o)' + n
        /\ \A p \in Outcomes \ {o} : Held(m, p)' = Held(m, p)
    BY <1>1, BurnEffect
  <1>3. cash[m] \in Nat
    BY DEF TypeOK, BookTypeOK
  <1>4. PotExact(m)' /\ ClaimsCovered(m)'
    BY <1>1 DEF PotExact, ClaimsCovered
  <1>5. \A p \in Outcomes : h[p] = Held(m, p) /\ k[p] = Held(m, p)'
    BY DEF HeldShares
  <1>6. \A p \in Outcomes : Held(m, p) \in Nat /\ Held(m, p)' \in Nat
    <2>1. ASSUME NEW p \in Outcomes PROVE Held(m, p)' \in Nat
      BY HeldNatNext
    <2> QED
      BY <2>1, HeldNat
  <1>7. /\ \A p \in Outcomes : h[p] \in Nat /\ k[p] \in Nat /\ (p # o => k[p] = h[p])
        /\ h[o] = k[o] + n
    BY <1>2, <1>5, <1>6
  <1>8. F[o][n] = pay
    BY DEF RefundRates
  <1>9. Rates(F, Outcomes)
    BY RatesOfMarket
  <1>10. PooledRefunds(m) = PaidAt(F, h, Outcomes)
    BY DEF PooledRefunds
  <1>11. PooledRefunds(m)' = PaidAt(F, k, Outcomes)
    BY <1>1, SameExpected DEF PooledRefunds
  <1>12. PooledRefunds(m) <= cash[m]
    BY <1>1 DEF CancelCovered
  <1> HIDE DEF F, h, k, pay
  <1>13. PaidAt(F, k, Outcomes) + F[o][n] <= PaidAt(F, h, Outcomes)
    BY <1>7, <1>9, PartPaid, MarketAssumption
  <1>14. PaidAt(F, k, Outcomes) \in Nat /\ PaidAt(F, h, Outcomes) \in Nat
    BY <1>7, <1>9, PaidAtNat, MarketAssumption
  <1>15. PooledRefunds(m)' <= cash'[m]
    BY <1>2, <1>3, <1>8, <1>10, <1>11, <1>12, <1>13, <1>14
  <1> QED
    BY <1>4, <1>15 DEF CancelCovered

\* A scale in basis points is a natural, below the whole or the whole.
LEMMA ScaleCases ==
    ASSUME NEW x \in 1 .. BASIS_POINTS
    PROVE  x \in Nat /\ (x < BASIS_POINTS \/ x = BASIS_POINTS)
  BY DEF BASIS_POINTS

\* A settled market holds at least what its pooled claims come to: the scale
\* that lowers what it holds lowers every payout at least as much.
LEMMA PayFinalize ==
    ASSUME TypeOK, TypeOK', BooksInv, LedgerInv, NEW m \in Markets, Finalizes(m)
    PROVE  PotExact(m)' /\ ClaimsCovered(m)' /\ CancelCovered(m)'
  <1> DEFINE W == DOMAIN result[m]
             s == scale'[m]
             y == [o \in W |-> MulBps(BasePayout(m, o, outcomeShares[m][o]), result[m][o])]
             z == [o \in W |-> Payout(m, o, Held(m, o))']
             e == ExpectedPayout(m)
  <1>1. /\ status[m] \in Unsettled /\ status[m] # "Finalized" /\ status'[m] = "Finalized"
        /\ SamePool(m) /\ result'[m] = result[m] /\ sharesOf' = sharesOf
        /\ claimed' = claimed /\ borrowed' = borrowed
    BY DEF Finalizes, finalizeExact, finalizeScaled, Unsettled, SamePool, payVars, betVars, holderVars,
           TypeOK, BookTypeOK
  <1>2. /\ s = BASIS_POINTS => cash'[m] = IF Indebted(m) THEN e ELSE BetTotal(m)
        /\ Indebted(m) => MulBps(e, s) <= cash'[m]
        /\ ~Indebted(m) => cash'[m] = BetTotal(m) /\ s = BASIS_POINTS
    BY FinalizeLeaves DEF Finalizes
  <1>3. claimed'[m] = 0
    BY <1>1 DEF BooksInv, BooksOK, Untouched
  <1>4. e \in Nat /\ e <= totalLiquidity[m] /\ cash'[m] \in Nat /\ s \in 1 .. BASIS_POINTS
    BY ExpectedBound DEF TypeOK, BookTypeOK
  <1>4a. s \in Nat /\ (s < BASIS_POINTS \/ s = BASIS_POINTS)
    BY <1>4, ScaleCases
  <1>5. PotExact(m)'
    <2>1. /\ ExpectedPayout(m)' = ExpectedPayout(m) /\ BetTotal(m)' = BetTotal(m)
          /\ Indebted(m)' = Indebted(m)
      BY <1>1, SameExpected
    <2>2. scale'[m] = BASIS_POINTS => cash'[m] + claimed'[m] = IF Indebted(m) THEN e ELSE BetTotal(m)
      BY <1>2, <1>3, <1>4
    <2> QED
      BY <1>1, <2>1, <2>2 DEF PotExact
  <1>6. CancelCovered(m)'
    BY <1>1 DEF CancelCovered
  <1>7. IsFiniteSet(W) /\ W \subseteq Outcomes
    BY MarketTypes
  <1>8. \A o \in W : y[o] \in Nat
    <2>1. TAKE o \in W
    <2>2. o \in Outcomes /\ outcomeShares[m][o] \in Nat /\ result[m][o] \in Nat
      BY MarketTypes
    <2>3. BasePayout(m, o, outcomeShares[m][o]) \in Nat
      BY <2>2, BasePayoutSuperadditive
    <2>4. MulBps(BasePayout(m, o, outcomeShares[m][o]), result[m][o]) \in Nat
      BY <2>2, <2>3, MulBpsNat
    <2> QED
      BY <2>4
  <1>9. e = SumFunctionOnSet(y, W)
    BY DEF ExpectedPayout, SumFunction
  <1>10. \A o \in W : Held(m, o)' = outcomeShares[m][o]
    <2>1. \A o \in Outcomes : Held(m, o)' = Held(m, o)
      BY <1>1, HeldSame
    <2> QED
      BY <1>1, <1>7, <2>1 DEF BooksInv, BooksOK, SharesHeld
  <1>11. PooledClaims(m)' = SumFunctionOnSet([o \in W |-> PayoutRates(m)'[o][HeldShares(m)'[o]]], W)
    BY <1>1 DEF PooledClaims, PaidAt
  <1>12. \A o \in W : PayoutRates(m)'[o][HeldShares(m)'[o]] = IF s < BASIS_POINTS THEN MulBps(y[o], s) ELSE y[o]
    <2>1. TAKE o \in W
    <2>2. HeldShares(m)'[o] = outcomeShares[m][o]
      BY <1>7, <1>10 DEF HeldShares
    <2>3. outcomeShares[m][o] \in Nat
      BY <1>7, MarketTypes
    <2>4. PayoutRates(m)'[o][outcomeShares[m][o]] = IF s < BASIS_POINTS THEN MulBps(y[o], s) ELSE y[o]
      BY <1>1, <2>3 DEF PayoutRates, Payout, BasePayout, AllShares, SamePool
    <2> QED
      BY <2>2, <2>4
  <1> DEFINE q == [o \in W |-> IF s < BASIS_POINTS THEN MulBps(y[o], s) ELSE y[o]]
  <1>13. PooledClaims(m)' = SumFunctionOnSet(q, W)
    <2>1. [o \in W |-> PayoutRates(m)'[o][HeldShares(m)'[o]]] = q
      BY <1>12
    <2> QED
      BY <1>11, <2>1
  <1>14. SumFunctionOnSet(q, W) \in Nat /\ (s < BASIS_POINTS => SumFunctionOnSet(q, W) <= MulBps(e, s))
         /\ (s = BASIS_POINTS => SumFunctionOnSet(q, W) = e)
    <2> HIDE DEF y, W, s, e
    <2>0. s \in Nat
      BY <1>4a
    <2>1. CASE s < BASIS_POINTS
      <3> DEFINE g == [x \in Nat |-> MulBps(x, s)]
      <3>1. g \in [Nat -> Nat]
        BY <2>0, MulBpsNat
      <3>2. Superadditive(g)
        <4>1. ASSUME NEW a \in Nat, NEW b \in Nat PROVE g[a] + g[b] <= g[a + b]
          <5>1. g[a] = MulBps(a, s) /\ g[b] = MulBps(b, s) /\ g[a + b] = MulBps(a + b, s)
            OBVIOUS
          <5>2. MulBps(a, s) + MulBps(b, s) <= MulBps(a + b, s)
            BY <2>0, MulBpsSuperadditive
          <5> QED
            BY <5>1, <5>2
        <4> QED
          BY <4>1 DEF Superadditive
      <3>3. q = [o \in W |-> g[y[o]]]
        BY <1>8, <2>1
      <3>4. g[e] = MulBps(e, s)
        BY <1>4
      <3>5. \A o \in W : q[o] \in Nat
        BY <1>8, <3>1, <3>3
      <3> HIDE DEF g, q
      <3>6. SumFunctionOnSet([o \in W |-> g[y[o]]], W) <= g[SumFunctionOnSet(y, W)]
        BY <1>7, <1>8, <3>1, <3>2, SumSuperadditive
      <3>7. SumFunctionOnSet(q, W) \in Nat
        BY <1>7, <3>5, SumNat
      <3> QED
        BY <1>9, <2>1, <3>3, <3>4, <3>6, <3>7 DEF BASIS_POINTS
    <2>2. CASE ~(s < BASIS_POINTS)
      <3>1. \A o \in W : q[o] = y[o] /\ q[o] \in Nat
        BY <1>8, <2>2
      <3> HIDE DEF q
      <3>2. SumFunctionOnSet(q, W) = SumFunctionOnSet(y, W) /\ SumFunctionOnSet(q, W) \in Nat
        BY <1>7, <3>1, SumEqual, SumNat
      <3>3. SumFunctionOnSet(q, W) = e
        BY <1>9, <3>2
      <3> QED
        BY <2>2, <3>2, <3>3
    <2> QED
      BY <2>1, <2>2
  <1>15. ClaimsCovered(m)'
    <2> HIDE DEF q, y, W, z
    <2>1. CASE Indebted(m)
      <3>1. SumFunctionOnSet(q, W) <= cash'[m]
        <4>1. CASE s < BASIS_POINTS
          <5>1. s \in Nat
            BY <1>4a
          <5>2. MulBps(e, s) \in Nat
            BY <1>4, <5>1, MulBpsNat
          <5> HIDE DEF e, s
          <5> QED
            BY <1>2, <1>4, <1>14, <2>1, <4>1, <5>2
        <4>2. CASE s = BASIS_POINTS
          BY <1>2, <1>4, <1>14, <2>1, <4>2
        <4>3. s < BASIS_POINTS \/ s = BASIS_POINTS
          BY <1>4a
        <4> QED
          BY <4>1, <4>2, <4>3
      <3> QED
        BY <1>13, <3>1 DEF ClaimsCovered
    <2>2. CASE ~Indebted(m) /\ borrowed[m] = InitialLiquidity[m]
      <3>1. borrowed[m] = 0
        BY <1>1, <2>2, NotIndebted
      <3>2. BetTotal(m) = totalLiquidity[m]
        BY <2>2, <3>1, MarketTypes DEF BetTotal
      <3>3. SumFunctionOnSet(q, W) = e
        BY <1>2, <1>14, <2>2
      <3> QED
        BY <1>2, <1>4, <1>13, <2>2, <3>2, <3>3 DEF ClaimsCovered
    <2>3. CASE borrowed[m] # InitialLiquidity[m]
      BY <1>1, <2>3 DEF ClaimsCovered
    <2> QED
      BY <2>1, <2>2, <2>3
  <1> QED
    BY <1>5, <1>6, <1>15

\* A refund of all shares of an outcome is at most its bets.
LEMMA RefundOfAll ==
    ASSUME TypeOK, BooksInv, NEW m \in Markets, NEW o \in Outcomes
    PROVE  RefundAmount(m, o, outcomeShares[m][o]) <= outcomeBets[m][o]
  <1>1. outcomeBets[m][o] \in Nat /\ outcomeShares[m][o] \in Nat
    BY MarketTypes
  <1>2. CASE outcomeShares[m][o] # 0 /\ Strategy[m] # "parimutuel"
    <2>1. (outcomeShares[m][o] * outcomeBets[m][o]) \div outcomeShares[m][o] <= outcomeBets[m][o]
      BY <1>1, <1>2, PartOfPool
    <2> QED
      BY <1>2, <2>1 DEF RefundAmount
  <1>3. CASE outcomeShares[m][o] = 0
    BY <1>1, <1>3 DEF RefundAmount
  <1>4. CASE outcomeShares[m][o] # 0 /\ Strategy[m] = "parimutuel"
    <2>1. outcomeShares[m][o] = outcomeBets[m][o]
      BY <1>4 DEF BooksInv, BooksOK, PoolIsBets
    <2> QED
      BY <1>1, <1>4, <2>1 DEF RefundAmount
  <1> QED
    BY <1>2, <1>3, <1>4

\* A cancelled market keeps the bets, and they cover all refunds.
LEMMA PayCancel ==
    ASSUME TypeOK, TypeOK', BooksInv, LedgerInv, NEW m \in Markets, Cancels(m)
    PROVE  PotExact(m)' /\ ClaimsCovered(m)' /\ CancelCovered(m)'
  <1> DEFINE q == [o \in Outcomes |-> RefundAmount(m, o, outcomeShares[m][o])]
             b == outcomeBets[m]
  <1>1. /\ status[m] \in Unsettled /\ status'[m] = "Cancelled"
        /\ SamePool(m) /\ sharesOf' = sharesOf
    BY DEF Cancels, cancel, cancelResolved, Unsettled, SamePool, payVars, betVars, holderVars,
           TypeOK, BookTypeOK
  <1>2. cash'[m] = BetTotal(m)
    BY CancelCloses DEF Cancels
  <1>3. PotExact(m)' /\ ClaimsCovered(m)'
    BY <1>1 DEF PotExact, ClaimsCovered
  <1>4. \A o \in Outcomes : Held(m, o)' = outcomeShares[m][o]
    <2>1. \A o \in Outcomes : Held(m, o)' = Held(m, o)
      BY <1>1, HeldSame
    <2> QED
      BY <1>1, <2>1 DEF BooksInv, BooksOK, SharesHeld
  <1>5. \A o \in Outcomes : q[o] \in Int /\ b[o] \in Int /\ q[o] <= b[o]
    <2>1. TAKE o \in Outcomes
    <2>2. outcomeShares[m][o] \in Nat /\ outcomeBets[m][o] \in Nat
      BY MarketTypes
    <2>3. RefundAmount(m, o, outcomeShares[m][o]) \in Nat
      BY <2>2, RefundSuperadditive
    <2>4. RefundAmount(m, o, outcomeShares[m][o]) <= outcomeBets[m][o]
      BY RefundOfAll
    <2> QED
      BY <2>2, <2>3, <2>4
  <1>6. PooledRefunds(m)' = SumFunctionOnSet(q, Outcomes)
    <2>1. RefundRates(m)' = RefundRates(m)
      BY <1>1, SameExpected
    <2>2. \A o \in Outcomes : HeldShares(m)'[o] = outcomeShares[m][o] /\ outcomeShares[m][o] \in Nat
      BY <1>4, MarketTypes DEF HeldShares
    <2>3. \A o \in Outcomes : RefundRates(m)[o][HeldShares(m)'[o]] = q[o]
      BY <2>2 DEF RefundRates
    <2>4. [o \in Outcomes |-> RefundRates(m)[o][HeldShares(m)'[o]]] = q
      BY <2>3
    <2>5. PooledRefunds(m)' = SumFunctionOnSet([o \in Outcomes |-> RefundRates(m)'[o][HeldShares(m)'[o]]], Outcomes)
      BY DEF PooledRefunds, PaidAt
    <2> HIDE DEF q
    <2> QED
      BY <2>1, <2>4, <2>5
  <1>7. SumFunctionOnSet(b, Outcomes) = BetTotal(m)
    BY DEF BooksInv, BooksOK, PoolIsBets
  <1> HIDE DEF q, b
  <1>8. SumFunctionOnSet(q, Outcomes) <= SumFunctionOnSet(b, Outcomes)
    BY <1>5, SumMonotone, MarketAssumption
  <1>9. CancelCovered(m)'
    BY <1>2, <1>6, <1>7, <1>8 DEF CancelCovered
  <1> QED
    BY <1>3, <1>9

\* Every step keeps the pot of every ended market exact and its claims covered.
LEMMA StepPay ==
    ASSUME TypeOK, TypeOK', BooksInv, LedgerInv, PayInv, [Next]_vars
    PROVE  PayInv'
  <1>1. SUFFICES ASSUME NEW m \in Markets
                 PROVE  PotExact(m)' /\ ClaimsCovered(m)' /\ CancelCovered(m)'
    BY DEF PayInv
  <1>2. PotExact(m) /\ ClaimsCovered(m) /\ CancelCovered(m)
    BY DEF PayInv
  <1>3. CASE Quiet(m)
    BY <1>2, <1>3, PayQuiet
  <1>4. CASE status'[m] \in Unsettled
    BY <1>4, PayUnsettled
  <1>5. CASE PaysOut(m)
    BY <1>2, <1>5, PayRedeem, PayRefund DEF PaysOut
  <1>6. CASE Finalizes(m)
    BY <1>6, PayFinalize
  <1>7. CASE Cancels(m)
    BY <1>7, PayCancel
  <1> QED
    BY <1>3, <1>4, <1>5, <1>6, <1>7, MarketCases

\* An exactly settled market has held what its winners are owed, and every ended
\* market can pay the pooled claims of all who still hold shares.
THEOREM PaymentsCorrect == Spec => []PayInv
  <1>1. Init => PayInv
    BY DEF Init, MarketInit, PayInv, PotExact, ClaimsCovered, CancelCovered
  <1>2. TypeOK /\ TypeOK' /\ BooksInv /\ LedgerInv /\ PayInv /\ [Next]_vars => PayInv'
    BY StepPay
  <1> QED
    BY <1>1, <1>2, TypeCorrect, BooksCorrect, LedgerCorrect, PTL DEF Spec

\* When finalize or a cancellation reports to the vault, the market holds the
\* tokens it has to send: the settlement never reverts for want of them.
THEOREM SettlementsAreCovered == Spec => []SettlementCovered
  <1>1. TypeOK /\ BooksInv /\ LedgerInv => SettlementCovered
    BY CoveredByBooks
  <1> QED
    BY <1>1, TypeCorrect, BooksCorrect, LedgerCorrect, PTL

\* What a finalized market without a scale has paid and still holds is the
\* payout that calculateExpectedPayout promised, or the bets when it owed nothing.
THEOREM WinnersPotIsExact == Spec => []WinnersPotExact
  <1>1. PayInv => WinnersPotExact
    BY DEF PayInv, PotExact, WinnersPotExact
  <1> QED
    BY <1>1, PaymentsCorrect, PTL

\* In whatever order and parts the winners of a funded market redeem, the market
\* holds the tokens for all that is still to be redeemed.
THEOREM WinnersAreCovered == Spec => []WinnersCovered
  <1>1. TypeOK /\ BooksInv /\ PayInv => WinnersCovered
    <2>1. SUFFICES ASSUME TypeOK, BooksInv, PayInv, NEW m \in Markets,
                          status[m] = "Finalized", borrowed[m] = InitialLiquidity[m]
                   PROVE  Claims(m) <= cash[m]
      BY DEF WinnersCovered
    <2>2. PooledClaims(m) <= cash[m] /\ Claims(m) \in Int /\ Claims(m) <= PooledClaims(m)
      BY <2>1, ClaimsArePooled DEF PayInv, ClaimsCovered
    <2> QED
      BY <2>1, <2>2, PooledNat, MarketTypes
  <1> QED
    BY <1>1, TypeCorrect, BooksCorrect, PaymentsCorrect, PTL

\* A cancelled market holds the tokens for all refunds, in whatever order and
\* parts they are asked for.
THEOREM RefundsAreCovered == Spec => []RefundsCovered
  <1>1. TypeOK /\ BooksInv /\ PayInv => RefundsCovered
    <2>1. SUFFICES ASSUME TypeOK, BooksInv, PayInv, NEW m \in Markets, status[m] = "Cancelled"
                   PROVE  Refunds(m) <= cash[m]
      BY DEF RefundsCovered
    <2>2. PooledRefunds(m) <= cash[m] /\ Refunds(m) \in Int /\ Refunds(m) <= PooledRefunds(m)
      BY <2>1, RefundsArePooled DEF PayInv, CancelCovered
    <2> QED
      BY <2>1, <2>2, PooledNat, MarketTypes
  <1> QED
    BY <1>1, TypeCorrect, BooksCorrect, PaymentsCorrect, PTL

-----------------------------------------------------------------------------
(*****************************************************************************)
(* Exposures.                                                                *)
(*****************************************************************************)

\* All positions in a market, and all exposures.
AllHeld(m) == SumFunctionOnSet(HeldShares(m), Outcomes)
AllExposure(m) == SumFunctionOnSet(exposure[m], Users)

ExposureInv == \A m \in WithController : AllHeld(m) <= AllExposure(m)

\* Adding up by user or by outcome gives the same.
LEMMA PositionsAreHeld ==
    ASSUME TypeOK, NEW m \in Markets
    PROVE  SumFunction([u \in Users |-> PositionOf(m, u)]) = AllHeld(m)
  <1> DEFINE s == sharesOf[m]
  <1>1. \A u \in Users, o \in Outcomes : s[u][o] \in Int
    BY DEF TypeOK, BookTypeOK
  <1>2. \A u \in Users : PositionOf(m, u) = SumFunctionOnSet(s[u], Outcomes)
    <2>1. \A u \in Users : DOMAIN s[u] = Outcomes
      BY DEF TypeOK, BookTypeOK
    <2> QED
      BY <2>1 DEF PositionOf, SumFunction
  <1>3. [u \in Users |-> PositionOf(m, u)] = [u \in Users |-> SumFunctionOnSet(s[u], Outcomes)]
    BY <1>2
  <1>4. SumFunction([u \in Users |-> PositionOf(m, u)])
          = SumFunctionOnSet([u \in Users |-> SumFunctionOnSet(s[u], Outcomes)], Users)
    BY <1>3 DEF SumFunction
  <1>5. AllHeld(m) = SumFunctionOnSet([o \in Outcomes |-> SumFunctionOnSet([u \in Users |-> s[u][o]], Users)], Outcomes)
    BY DEF AllHeld, HeldShares, Held
  <1> HIDE DEF s
  <1>6. SumFunctionOnSet([u \in Users |-> SumFunctionOnSet(s[u], Outcomes)], Users)
          = SumFunctionOnSet([o \in Outcomes |-> SumFunctionOnSet([u \in Users |-> s[u][o]], Users)], Outcomes)
    BY <1>1, SumExchange, MarketAssumption
  <1> QED
    BY <1>4, <1>5, <1>6

\* The totals are integers.
LEMMA TotalsInt ==
    ASSUME TypeOK, NEW m \in Markets
    PROVE  AllHeld(m) \in Int /\ AllExposure(m) \in Int
  <1> DEFINE h == HeldShares(m)
             e == exposure[m]
  <1>1. (\A o \in Outcomes : h[o] \in Int) /\ (\A u \in Users : e[u] \in Int)
    BY HeldNat DEF HeldShares, TypeOK, BookTypeOK
  <1> HIDE DEF h, e
  <1>2. SumFunctionOnSet(h, Outcomes) \in Int
    BY <1>1, SumInt, MarketAssumption
  <1>3. SumFunctionOnSet(e, Users) \in Int
    BY <1>1, SumInt, MarketAssumption
  <1> QED
    BY <1>2, <1>3 DEF AllHeld, AllExposure, h, e

\* One outcome's total moves by d, one user's exposure by at least as much.
LEMMA ExposureMoves ==
    ASSUME TypeOK, TypeOK', NEW m \in Markets, AllHeld(m) <= AllExposure(m),
           NEW u \in Users, NEW o \in Outcomes, NEW d \in Int, NEW c \in Int, d <= c,
           Held(m, o)' = Held(m, o) + d,
           \A p \in Outcomes \ {o} : Held(m, p)' = Held(m, p),
           exposure'[m][u] = exposure[m][u] + c,
           \A v \in Users \ {u} : exposure'[m][v] = exposure[m][v]
    PROVE  AllHeld(m)' <= AllExposure(m)'
  <1> DEFINE h == HeldShares(m)
             k == HeldShares(m)'
             e == exposure[m]
             f == exposure'[m]
  <1>1. DiffersAt(h, k, Outcomes, o) /\ k[o] = h[o] + d
    BY HeldNat, HeldNatNext DEF HeldShares, DiffersAt
  <1>2. DiffersAt(e, f, Users, u) /\ f[u] = e[u] + c
    BY DEF DiffersAt, TypeOK, BookTypeOK
  <1>3. h[o] \in Int /\ e[u] \in Int
    BY <1>1, <1>2 DEF DiffersAt
  <1>4. /\ AllHeld(m) = SumFunctionOnSet(h, Outcomes) /\ AllHeld(m)' = SumFunctionOnSet(k, Outcomes)
        /\ AllExposure(m) = SumFunctionOnSet(e, Users) /\ AllExposure(m)' = SumFunctionOnSet(f, Users)
    BY DEF AllHeld, AllExposure
  <1> HIDE DEF h, k, e, f
  <1>5. SumFunctionOnSet(k, Outcomes) = SumFunctionOnSet(h, Outcomes) + (k[o] - h[o])
    BY <1>1, SumUpdate, MarketAssumption
  <1>6. SumFunctionOnSet(f, Users) = SumFunctionOnSet(e, Users) + (f[u] - e[u])
    BY <1>2, SumUpdate, MarketAssumption
  <1>7. AllHeld(m) \in Int /\ AllExposure(m) \in Int
    BY TotalsInt
  <1>8. k[o] - h[o] = d /\ f[u] - e[u] = c
    BY <1>1, <1>2, <1>3
  <1> QED
    BY <1>4, <1>5, <1>6, <1>7, <1>8

\* A market whose positions and exposures stay.
SameHolders(k) ==
    exposure'[k] = exposure[k] /\ \A o \in Outcomes : Held(k, o)' = Held(k, o)

\* What one step may do to the positions and exposures of one market.
LEMMA HolderCases ==
    ASSUME TypeOK, [Next]_vars, NEW k \in Markets
    PROVE  \/ SameHolders(k) \/ PaysOut(k)
           \/ \E u \in Users, o \in Outcomes, n \in Nat, min \in MinShareChoices :
                  placeBetFor(k, u, o, n, min)
  <1>1. CASE UNCHANGED holderVars
    BY <1>1, HeldSame DEF holderVars, SameHolders
  <1>2. CASE UNCHANGED vars \/ LpStep \/ \E m \in Markets : Administer(m)
    <2>1. UNCHANGED holderVars
      BY <1>2 DEF vars, LpStep, LpDeposit, LpMint, LpWithdraw, LpRedeem, FundReserve, DefundReserve,
                  Administer, bookVars
    <2> QED
      BY <1>1, <2>1
  <1>3. CASE \E m \in Markets : KeeperStep(m) \/ OperatorStep(m)
    <2>1. UNCHANGED holderVars \/ \E m \in Markets : Administer(m)
      BY <1>3 DEF KeeperStep, OperatorStep, Kickoff, lock, resolve, finalizeExact, finalizeScaled,
                  fundFromVault, cancel, cancelResolved, pauseMarket, unpauseMarket
    <2> QED
      BY <1>1, <1>2, <2>1
  <1>4. ASSUME NEW m \in Markets, BettorStep(m)
        PROVE  \/ SameHolders(k) \/ PaysOut(k)
               \/ \E u \in Users, o \in Outcomes, n \in Nat, min \in MinShareChoices :
                      placeBetFor(k, u, o, n, min)
    <2>1. \A u \in Users, o \in Outcomes : 1 .. sharesOf[m][u][o] \subseteq Nat
      BY DEF TypeOK, BookTypeOK
    <2>2. ASSUME m # k, NEW u \in Users, NEW o \in Outcomes, NEW n,
                 \/ \E min : placeBetFor(m, u, o, n, min)
                 \/ \E v \in Users : transferPosition(m, u, v, o, n)
                 \/ redeem(m, u, o, n) \/ refundFor(m, u, o, n)
          PROVE  SameHolders(k)
      <3>1. sharesOf'[k] = sharesOf[k] /\ exposure'[k] = exposure[k]
        BY <2>2 DEF placeBetFor, transferPosition, redeem, refundFor, BurnAndPay, TypeOK, BookTypeOK
      <3> QED
        BY <3>1, HeldSame DEF SameHolders
    <2>3. CASE m # k
      BY <1>4, <2>2, <2>3 DEF BettorStep
    <2>4. ASSUME m = k, NEW u \in Users, NEW v \in Users, NEW o \in Outcomes, NEW n \in Nat,
                 transferPosition(m, u, v, o, n)
          PROVE  SameHolders(k)
      <3>1. /\ u # v /\ exposure' = exposure
            /\ sharesOf' = [sharesOf EXCEPT ![k][u][o] = @ - n, ![k][v][o] = @ + n]
        BY <2>4 DEF transferPosition
      <3>2. ASSUME NEW p \in Outcomes PROVE Held(k, p)' = Held(k, p)
        <4>1. CASE p = o
          BY <2>4, <3>1, <4>1, HeldTransferred
        <4>2. CASE p # o
          <5>1. \A w \in Users : sharesOf'[k][w][p] = sharesOf[k][w][p]
            BY <3>1, <4>2 DEF TypeOK, BookTypeOK
          <5> QED
            BY <5>1, HeldSame
        <4> QED
          BY <4>1, <4>2
      <3> QED
        BY <3>1, <3>2 DEF SameHolders
    <2>5. CASE m = k
      <3>1. CASE \E u, v \in Users, o \in Outcomes : \E n \in 1 .. sharesOf[m][u][o] :
                    transferPosition(m, u, v, o, n)
        <4>1. PICK u \in Users, v \in Users, o \in Outcomes :
                 \E n \in 1 .. sharesOf[m][u][o] : transferPosition(m, u, v, o, n)
          BY <3>1
        <4>2. PICK n \in Nat : transferPosition(m, u, v, o, n)
          BY <2>1, <4>1
        <4> QED
          BY <2>4, <2>5, <4>2
      <3>2. CASE \E u \in Users, o \in Outcomes : \E n \in 1 .. sharesOf[m][u][o] :
                    redeem(m, u, o, n) \/ refundFor(m, u, o, n)
        BY <2>1, <2>5, <3>2 DEF PaysOut
      <3>3. CASE \E u \in Users, o \in Outcomes, n \in BetAmounts, min \in MinShareChoices :
                    placeBetFor(m, u, o, n, min)
        BY <2>5, <3>3, SportsbookAssumption
      <3> QED
        BY <1>4, <3>1, <3>2, <3>3 DEF BettorStep
    <2> QED
      BY <2>3, <2>5
  <1> QED
    BY <1>2, <1>3, <1>4 DEF Next

\* A bet adds its shares to both totals.
LEMMA ExposureBet ==
    ASSUME TypeOK, TypeOK', NEW m \in WithController, m \in Markets, AllHeld(m) <= AllExposure(m),
           NEW u \in Users, NEW o \in Outcomes, NEW n \in Nat, NEW min, placeBetFor(m, u, o, n, min)
    PROVE  AllHeld(m)' <= AllExposure(m)'
  <1>1. PICK s \in SharesFor(m, n) :
            /\ exposure' = [exposure EXCEPT ![m][u] = @ + s]
            /\ sharesOf' = [sharesOf EXCEPT ![m][u][o] = @ + s]
    BY DEF placeBetFor
  <1>2. s \in Nat
    BY <1>1, MarketAssumption DEF SharesFor
  <1>3. \A p \in Outcomes \ {o} : Held(m, p)' = Held(m, p)
    <2>1. TAKE p \in Outcomes \ {o}
    <2>2. \A v \in Users : sharesOf'[m][v][p] = sharesOf[m][v][p]
      BY <1>1 DEF TypeOK, BookTypeOK
    <2> QED
      BY <2>2, HeldSame
  <1>4. Held(m, o)' = Held(m, o) + s
    <2>1. OthersKeep(m, u, o) /\ sharesOf'[m][u][o] = sharesOf[m][u][o] + s /\ sharesOf[m][u][o] \in Nat
      BY <1>1 DEF TypeOK, BookTypeOK, OthersKeep
    <2>2. Held(m, o)' = Held(m, o) + (sharesOf'[m][u][o] - sharesOf[m][u][o])
      BY <2>1, HeldMoves
    <2> QED
      BY <1>2, <2>1, <2>2
  <1>5. /\ exposure'[m][u] = exposure[m][u] + s
        /\ \A v \in Users \ {u} : exposure'[m][v] = exposure[m][v]
    BY <1>1 DEF TypeOK, BookTypeOK
  <1> QED
    BY <1>2, <1>3, <1>4, <1>5, ExposureMoves

\* Burning shares lowers one user's exposure by at most as many.
LEMMA ExposureBurn ==
    ASSUME TypeOK, TypeOK', NEW m \in Markets, AllHeld(m) <= AllExposure(m),
           NEW u \in Users, NEW o \in Outcomes, NEW n \in Nat, NEW amount, BurnAndPay(m, u, o, n, amount)
    PROVE  AllHeld(m)' <= AllExposure(m)'
  <1> DEFINE c == Monus(exposure[m][u], n) - exposure[m][u]
             d == 0 - n
  <1>1. exposure[m][u] \in Nat
    BY DEF TypeOK, BookTypeOK
  <1>2. c \in Int /\ d \in Int /\ d <= c
    BY <1>1 DEF Monus
  <1>3. exposure' = [exposure EXCEPT ![m][u] = Monus(@, n)]
    BY DEF BurnAndPay
  <1>4. /\ exposure'[m][u] = Monus(exposure[m][u], n)
        /\ \A v \in Users \ {u} : exposure'[m][v] = exposure[m][v]
    BY <1>3 DEF TypeOK, BookTypeOK
  <1>5. exposure'[m][u] = exposure[m][u] + c
    <2>1. Monus(exposure[m][u], n) \in Int
      BY <1>1 DEF Monus
    <2> QED
      BY <1>1, <1>4, <2>1
  <1>6. Held(m, o) = Held(m, o)' + n /\ \A p \in Outcomes \ {o} : Held(m, p)' = Held(m, p)
    BY BurnEffect
  <1>7. Held(m, o)' = Held(m, o) + d
    BY <1>6, HeldNat, HeldNatNext
  <1> HIDE DEF c, d
  <1> QED
    BY <1>2, <1>4, <1>5, <1>6, <1>7, ExposureMoves

\* Every step keeps the exposures of a market at or above the positions in it.
LEMMA StepExposure ==
    ASSUME TypeOK, TypeOK', ExposureInv, [Next]_vars
    PROVE  ExposureInv'
  <1>1. SUFFICES ASSUME NEW m \in WithController PROVE AllHeld(m)' <= AllExposure(m)'
    BY DEF ExposureInv
  <1>2. m \in Markets /\ AllHeld(m) <= AllExposure(m)
    BY MarketAssumption DEF ExposureInv
  <1>3. CASE SameHolders(m)
    <2>1. AllHeld(m)' = AllHeld(m) /\ AllExposure(m)' = AllExposure(m)
      BY <1>3 DEF SameHolders, AllHeld, AllExposure, HeldShares
    <2> QED
      BY <1>2, <2>1
  <1>4. CASE PaysOut(m)
    <2>1. PICK u \in Users, o \in Outcomes, n \in Nat : redeem(m, u, o, n) \/ refundFor(m, u, o, n)
      BY <1>4 DEF PaysOut
    <2>2. PICK amount : BurnAndPay(m, u, o, n, amount)
      BY <2>1 DEF redeem, refundFor
    <2> QED
      BY <1>2, <2>2, ExposureBurn
  <1>5. CASE \E u \in Users, o \in Outcomes, n \in Nat, min \in MinShareChoices :
                  placeBetFor(m, u, o, n, min)
    BY <1>2, <1>5, ExposureBet
  <1> QED
    BY <1>2, <1>3, <1>4, <1>5, HolderCases

\* With a parameter controller, the exposures of all users of a market together
\* are never below the positions they hold, however these are transferred.
THEOREM ExposuresCoverAll == Spec => []ExposureCoversAll
  <1>1. Init => ExposureInv
    <2>1. SUFFICES ASSUME Init, NEW m \in WithController PROVE AllHeld(m) <= AllExposure(m)
      BY DEF ExposureInv
    <2>2. m \in Markets
      BY MarketAssumption
    <2>3. AllExposure(m) = 0
      <3> DEFINE e == exposure[m]
      <3>1. \A u \in Users : e[u] = 0
        BY <2>1, <2>2 DEF Init, MarketInit
      <3> HIDE DEF e
      <3>2. SumFunctionOnSet(e, Users) = 0
        BY <3>1, SumZero, MarketAssumption
      <3> QED
        BY <3>2 DEF AllExposure, e
    <2>4. \A o \in Outcomes : HeldShares(m)[o] = 0
      <3>1. TAKE o \in Outcomes
      <3> DEFINE f == [u \in Users |-> sharesOf[m][u][o]]
      <3>2. \A u \in Users : f[u] = 0
        BY <2>1, <2>2 DEF Init, MarketInit
      <3> HIDE DEF f
      <3>3. SumFunctionOnSet(f, Users) = 0
        BY <3>2, SumZero, MarketAssumption
      <3> QED
        BY <3>3 DEF HeldShares, Held, f
    <2>5. AllHeld(m) = 0
      BY <2>4, SumZero, MarketAssumption DEF AllHeld
    <2> QED
      BY <2>3, <2>5
  <1>2. TypeOK /\ TypeOK' /\ ExposureInv /\ [Next]_vars => ExposureInv'
    BY StepExposure
  <1>3. TypeOK /\ ExposureInv => ExposureCoversAll
    <2>1. SUFFICES ASSUME TypeOK, ExposureInv, NEW m \in WithController
                   PROVE  SumFunction([u \in Users |-> PositionOf(m, u)]) <= SumFunction(exposure[m])
      BY DEF ExposureCoversAll
    <2>2. m \in Markets
      BY MarketAssumption
    <2>3. SumFunction(exposure[m]) = AllExposure(m)
      BY <2>1, <2>2 DEF SumFunction, AllExposure, TypeOK, BookTypeOK
    <2> QED
      BY <2>1, <2>2, <2>3, PositionsAreHeld DEF ExposureInv
  <1> QED
    BY <1>1, <1>2, <1>3, TypeCorrect, PTL DEF Spec

-----------------------------------------------------------------------------
(***************************************************************************)
(* Tokens.  What leaves one balance arrives at another.                    *)
(***************************************************************************)
Tokens == vaultCash + SumFunction(cash) + SumFunction(wallet)

\* A transfer between the vault and an account, between a market and an
\* account, or between a market and the vault.
AccountAndVault(a, n) ==
    /\ wallet' = [wallet EXCEPT ![a] = wallet[a] + n]
    /\ vaultCash' = vaultCash - n
    /\ cash' = cash

AccountAndMarket(a, m, n) ==
    /\ wallet' = [wallet EXCEPT ![a] = wallet[a] + n]
    /\ cash' = [cash EXCEPT ![m] = cash[m] - n]
    /\ vaultCash' = vaultCash

MarketAndVault(m, n) ==
    /\ cash' = [cash EXCEPT ![m] = cash[m] + n]
    /\ vaultCash' = vaultCash - n
    /\ wallet' = wallet

Transfer ==
    \/ \E a \in Accounts, n \in Int : AccountAndVault(a, n)
    \/ \E a \in Accounts, m \in Markets, n \in Int : AccountAndMarket(a, m, n)
    \/ \E m \in Markets, n \in Int : MarketAndVault(m, n)
    \/ UNCHANGED <<vaultCash, cash, wallet>>

\* There are finitely many accounts.
LEMMA AccountsFinite == IsFiniteSet(Accounts)
  BY MarketAssumption, FS_Union, FS_Singleton DEF Accounts

\* A transfer to or from an account changes the sum of all by its amount.
LEMMA WalletMoves ==
    ASSUME TypeOK, NEW a \in Accounts, NEW n \in Int,
           wallet' = [wallet EXCEPT ![a] = wallet[a] + n]
    PROVE  SumFunction(wallet') = SumFunction(wallet) + n /\ SumFunction(wallet) \in Int
  <1> DEFINE v == wallet[a] + n
  <1>1. wallet \in [Accounts -> Int] /\ v \in Int /\ v - wallet[a] = n
    BY DEF TypeOK, BookTypeOK
  <1>2. wallet' = [wallet EXCEPT ![a] = v]
    OBVIOUS
  <1> HIDE DEF v
  <1>3. SumFunction([wallet EXCEPT ![a] = v]) = SumFunction(wallet) + (v - wallet[a])
    BY <1>1, SumOfUpdate, AccountsFinite
  <1>4. SumFunction(wallet) \in Int
    BY <1>1, AccountsFinite, SumInt DEF SumFunction
  <1> QED
    BY <1>1, <1>2, <1>3, <1>4

\* So does one to or from a market.
LEMMA CashMoves ==
    ASSUME TypeOK, NEW m \in Markets, NEW n \in Int,
           cash' = [cash EXCEPT ![m] = cash[m] + n]
    PROVE  SumFunction(cash') = SumFunction(cash) + n /\ SumFunction(cash) \in Int
  <1> DEFINE v == cash[m] + n
  <1>1. cash \in [Markets -> Int] /\ v \in Int /\ v - cash[m] = n
    BY DEF TypeOK, BookTypeOK
  <1>2. cash' = [cash EXCEPT ![m] = v]
    OBVIOUS
  <1> HIDE DEF v
  <1>3. SumFunction([cash EXCEPT ![m] = v]) = SumFunction(cash) + (v - cash[m])
    BY <1>1, SumOfUpdate, MarketAssumption
  <1>4. SumFunction(cash) \in Int
    BY <1>1, MarketAssumption, SumInt DEF SumFunction
  <1> QED
    BY <1>1, <1>2, <1>3, <1>4

\* Sums of balances are integers.
LEMMA BalancesTyped ==
    ASSUME TypeOK
    PROVE  vaultCash \in Int /\ SumFunction(cash) \in Int /\ SumFunction(wallet) \in Int
  <1>1. cash \in [Markets -> Int] /\ wallet \in [Accounts -> Int] /\ vaultCash \in Int
    BY DEF TypeOK, VaultTypeOK, BookTypeOK
  <1>2. SumFunction(cash) \in Int
    BY <1>1, MarketAssumption, SumInt DEF SumFunction
  <1>3. SumFunction(wallet) \in Int
    BY <1>1, AccountsFinite, SumInt DEF SumFunction
  <1> QED
    BY <1>1, <1>2, <1>3

\* A transfer keeps the tokens.
LEMMA TransferKeeps ==
    ASSUME TypeOK, Transfer
    PROVE  Tokens' = Tokens
  <1>1. ASSUME NEW a \in Accounts, NEW n \in Int, AccountAndVault(a, n) PROVE Tokens' = Tokens
    <2>1. SumFunction(wallet') = SumFunction(wallet) + n
      BY <1>1, WalletMoves DEF AccountAndVault
    <2> QED
      BY <1>1, <2>1, BalancesTyped DEF AccountAndVault, Tokens
  <1>2. ASSUME NEW a \in Accounts, NEW m \in Markets, NEW n \in Int, AccountAndMarket(a, m, n)
        PROVE  Tokens' = Tokens
    <2>1. SumFunction(wallet') = SumFunction(wallet) + n
      BY <1>2, WalletMoves DEF AccountAndMarket
    <2>2. -n \in Int /\ cash' = [cash EXCEPT ![m] = cash[m] + (-n)]
      <3>1. -n \in Int /\ cash[m] + (-n) = cash[m] - n
        BY DEF TypeOK, BookTypeOK
      <3>2. cash' = [cash EXCEPT ![m] = cash[m] - n]
        BY <1>2 DEF AccountAndMarket
      <3> QED
        BY <3>1, <3>2
    <2>3. SumFunction(cash') = SumFunction(cash) + (-n)
      BY <2>2, CashMoves
    <2> QED
      BY <1>2, <2>1, <2>3, BalancesTyped DEF AccountAndMarket, Tokens
  <1>3. ASSUME NEW m \in Markets, NEW n \in Int, MarketAndVault(m, n) PROVE Tokens' = Tokens
    <2>1. SumFunction(cash') = SumFunction(cash) + n
      BY <1>3, CashMoves DEF MarketAndVault
    <2> QED
      BY <1>3, <2>1, BalancesTyped DEF MarketAndVault, Tokens
  <1>4. CASE UNCHANGED <<vaultCash, cash, wallet>>
    BY <1>4 DEF Tokens
  <1> QED
    BY <1>1, <1>2, <1>3, <1>4 DEF Transfer

\* An LP's call and one for the reserve move tokens between vault and caller.
LEMMA LpTransfers ==
    ASSUME TypeOK, LpStep
    PROVE  Transfer
  <1>1. LPs \subseteq Accounts /\ Treasury \in Accounts
    BY DEF Accounts
  <1>2. wallet \in [Accounts -> Nat] /\ vaultCash \in Nat
    BY DEF TypeOK, BookTypeOK, VaultTypeOK
  <1>3. ASSUME NEW a \in Accounts, NEW n \in Nat, Pays(a, n), vaultCash' = vaultCash + n, cash' = cash
        PROVE  Transfer
    <2>1. -n \in Int /\ wallet[a] + (-n) = wallet[a] - n /\ vaultCash - (-n) = vaultCash + n
      BY <1>2
    <2>2. wallet' = [wallet EXCEPT ![a] = wallet[a] - n]
      BY <1>3 DEF Pays
    <2>3. AccountAndVault(a, -n)
      BY <1>3, <2>1, <2>2 DEF AccountAndVault
    <2> QED
      BY <2>1, <2>3 DEF Transfer
  <1>4. ASSUME NEW a \in Accounts, NEW n \in Nat, Receives(a, n), vaultCash' = vaultCash - n, cash' = cash
        PROVE  Transfer
    <2>1. n \in Int /\ AccountAndVault(a, n)
      BY <1>2, <1>4 DEF Receives, AccountAndVault
    <2> QED
      BY <2>1 DEF Transfer
  <1>5. ASSUME NEW lp \in LPs, NEW n \in LpAssets, LpDeposit(lp, n) PROVE Transfer
    BY <1>1, <1>3, <1>5, SportsbookAssumption DEF LpDeposit, deposit, MoveIn, bookVars
  <1>6. ASSUME NEW lp \in LPs, NEW n \in LpAssets, LpWithdraw(lp, n) PROVE Transfer
    BY <1>1, <1>4, <1>6, SportsbookAssumption DEF LpWithdraw, withdraw, MoveOut, bookVars
  <1>7. ASSUME NEW lp \in LPs, NEW n \in LpShares, LpMint(lp, n) PROVE Transfer
    <2>1. AssetsUp(n) \in Nat
      BY ConversionTypes, SportsbookAssumption DEF TypeOK
    <2> QED
      BY <1>1, <1>3, <1>7, <2>1 DEF LpMint, mint, MoveIn, bookVars
  <1>8. ASSUME NEW lp \in LPs, NEW n \in LpShares, LpRedeem(lp, n) PROVE Transfer
    <2>1. AssetsDown(n) \in Nat
      BY ConversionTypes, SportsbookAssumption DEF TypeOK
    <2> QED
      BY <1>1, <1>4, <1>8, <2>1 DEF LpRedeem, redeemShares, MoveOut, bookVars
  <1>9. ASSUME NEW n \in ReserveAmounts, FundReserve(n) \/ DefundReserve(n) PROVE Transfer
    BY <1>1, <1>3, <1>4, <1>9, SportsbookAssumption
       DEF FundReserve, DefundReserve, depositReserve, withdrawReserve, bookVars
  <1> QED
    BY <1>5, <1>6, <1>7, <1>8, <1>9 DEF LpStep
\* A bet, a redemption and a refund move tokens between market and bettor.
LEMMA BettorTransfers ==
    ASSUME TypeOK, NEW m \in Markets, BettorStep(m)
    PROVE  Transfer
  <1>1. cash \in [Markets -> Nat] /\ wallet \in [Accounts -> Nat] /\ Users \subseteq Accounts
    BY DEF TypeOK, BookTypeOK, Accounts
  <1>2. ASSUME NEW u \in Users, NEW o \in Outcomes, NEW n \in BetAmounts, NEW min,
               placeBetFor(m, u, o, n, min)
        PROVE  Transfer
    <2>1. n \in Nat /\ -n \in Int /\ wallet[u] + (-n) = wallet[u] - n /\ cash[m] - (-n) = cash[m] + n
      BY <1>1, SportsbookAssumption
    <2>2. /\ wallet' = [wallet EXCEPT ![u] = wallet[u] - n]
          /\ cash' = [cash EXCEPT ![m] = cash[m] + n]
          /\ vaultCash' = vaultCash
      BY <1>2 DEF placeBetFor, vaultVars
    <2>3. AccountAndMarket(u, m, -n)
      BY <2>1, <2>2 DEF AccountAndMarket
    <2> QED
      BY <1>1, <2>1, <2>3 DEF Transfer
  <1>3. ASSUME NEW u \in Users, NEW o \in Outcomes, NEW n, NEW amount,
               BurnAndPay(m, u, o, n, amount), UNCHANGED vaultVars
        PROVE  Transfer
    <2>1. amount \in Int
      BY <1>1, <1>3 DEF BurnAndPay
    <2>2. AccountAndMarket(u, m, amount)
      BY <1>3 DEF BurnAndPay, AccountAndMarket, vaultVars
    <2> QED
      BY <1>1, <2>1, <2>2 DEF Transfer
  <1>4. ASSUME NEW u \in Users, NEW o \in Outcomes, NEW n, redeem(m, u, o, n) \/ refundFor(m, u, o, n)
        PROVE  Transfer
    BY <1>3, <1>4 DEF redeem, refundFor
  <1>5. ASSUME NEW u, NEW v, NEW o, NEW n, transferPosition(m, u, v, o, n)
        PROVE  Transfer
    BY <1>5 DEF transferPosition, Transfer, vaultVars
  <1> QED
    BY <1>2, <1>4, <1>5 DEF BettorStep

\* A loan, a settlement and a cancellation move tokens between market and vault.
LEMMA SettlementTransfers ==
    ASSUME TypeOK, NEW m \in Markets, KeeperStep(m) \/ OperatorStep(m)
    PROVE  Transfer
  <1>1. cash \in [Markets -> Nat] /\ vaultCash \in Nat /\ borrowed \in [Markets -> Nat]
    BY DEF TypeOK, BookTypeOK, VaultTypeOK
  <1>2. ASSUME NEW n, PayVault(m, n), vaultCash' = vaultCash + n, wallet' = wallet
        PROVE  Transfer
    <2>1. n \in Nat
      BY <1>1, <1>2 DEF PayVault
    <2>2. -n \in Int /\ cash[m] + (-n) = cash[m] - n /\ vaultCash - (-n) = vaultCash + n
      BY <1>1, <2>1
    <2>3. cash' = [cash EXCEPT ![m] = cash[m] - n]
      BY <1>2 DEF PayVault
    <2>4. MarketAndVault(m, -n)
      BY <1>2, <2>2, <2>3 DEF MarketAndVault
    <2> QED
      BY <2>2, <2>4 DEF Transfer
  <1>3. CASE fundFromVault(m)
    <2>1. InitialLiquidity[m] \in Int
      BY MarketAssumption
    <2>2. MarketAndVault(m, InitialLiquidity[m])
      BY <1>3 DEF fundFromVault, borrow, MarketAndVault
    <2> QED
      BY <2>1, <2>2 DEF Transfer
  <1>4. CASE finalizeExact(m)
    BY <1>2, <1>4 DEF finalizeExact, settle, Transfer, vaultVars
  <1>5. ASSUME NEW bps, finalizeScaled(m, bps) PROVE Transfer
    BY <1>2, <1>5 DEF finalizeScaled, settleWithReserve, Transfer, vaultVars
  <1>6. CASE cancel(m)
    BY <1>2, <1>6 DEF cancel, returnPrincipal, Transfer, vaultVars
  <1>7. CASE cancelResolved(m)
    BY <1>2, <1>7 DEF cancelResolved, returnPrincipal, Transfer, vaultVars
  <1>8. CASE Kickoff(m) \/ lock(m) \/ \E r \in MapperResults : resolve(m, r)
    BY <1>8 DEF Kickoff, lock, resolve, Transfer, vaultVars
  <1>9. CASE pauseMarket(m) \/ unpauseMarket(m)
    BY <1>9 DEF pauseMarket, unpauseMarket, Transfer, vaultVars
  <1>10. CASE Administer(m)
    <2>1. cash' = cash /\ wallet' = wallet
      BY <1>10 DEF Administer, bookVars
    <2>2. vaultCash' = vaultCash
      BY <1>10 DEF Administer, authorizeMarket, updateMaxLiabilityBps, revokeMarket,
                   setReserveRatio, pauseVault, unpauseVault
    <2> QED
      BY <2>1, <2>2 DEF Transfer
  <1> QED
    BY <1>3, <1>4, <1>5, <1>6, <1>7, <1>8, <1>9, <1>10 DEF KeeperStep, OperatorStep

\* Every step is a transfer.
LEMMA StepTransfers ==
    ASSUME TypeOK, [Next]_vars
    PROVE  Transfer
  <1>1. CASE UNCHANGED vars
    BY <1>1 DEF vars, vaultVars, Transfer
  <1> QED
    BY <1>1, LpTransfers, BettorTransfers, SettlementTransfers DEF Next

\* All the tokens there are were somebody's at the start: no call of vault or
\* market sends what it does not have, or takes in what nobody sent.
THEOREM TokensAreKept == Spec => [](Tokens = SumFunction(Endowment))
  <1>1. Init => Tokens = SumFunction(Endowment)
    <2> SUFFICES ASSUME Init PROVE Tokens = SumFunction(Endowment)
      OBVIOUS
    <2>1. /\ vaultCash = 0 /\ wallet = Endowment /\ DOMAIN cash = Markets
          /\ \A m \in Markets : cash[m] = 0
      BY DEF Init, MarketInit, VaultInit
    <2>2. SumFunctionOnSet(cash, Markets) = 0
      BY <2>1, SumZero, MarketAssumption
    <2>3. Endowment \in [Accounts -> Int]
      BY MarketAssumption
    <2>4. SumFunction(Endowment) \in Int
      BY <2>3, AccountsFinite, SumInt DEF SumFunction
    <2> QED
      BY <2>1, <2>2, <2>4 DEF Tokens, SumFunction
  <1>2. TypeOK /\ Tokens = SumFunction(Endowment) /\ [Next]_vars
        => (Tokens = SumFunction(Endowment))'
    <2>1. SumFunction(Endowment)' = SumFunction(Endowment)
      OBVIOUS
    <2> QED
      BY <2>1, StepTransfers, TransferKeeps
  <1> QED
    BY <1>1, <1>2, TypeCorrect, PTL DEF Spec

\* The vault's shares are those of its LPs.
SupplyHeld == totalSupply = SumFunction(lpShares)

\* Minting or burning changes one holding and the supply alike.
LEMMA SupplyMoves ==
    ASSUME VaultTypeOK, SupplyHeld, NEW lp \in LPs, NEW n \in Int,
           lpShares' = [lpShares EXCEPT ![lp] = lpShares[lp] + n], totalSupply' = totalSupply + n
    PROVE  SupplyHeld'
  <1> DEFINE v == lpShares[lp] + n
  <1>1. lpShares \in [LPs -> Int] /\ v \in Int /\ v - lpShares[lp] = n
    BY DEF VaultTypeOK
  <1>2. lpShares' = [lpShares EXCEPT ![lp] = v]
    OBVIOUS
  <1> HIDE DEF v
  <1>3. SumFunction([lpShares EXCEPT ![lp] = v]) = SumFunction(lpShares) + (v - lpShares[lp])
    BY <1>1, SumOfUpdate, MarketAssumption
  <1> QED
    BY <1>1, <1>2, <1>3 DEF SupplyHeld

\* Every call of the vault keeps the supply and the holdings together.
LEMMA StepSupply ==
    ASSUME TypeOK, SupplyHeld, [Next]_vars
    PROVE  SupplyHeld'
  <1>1. VaultTypeOK /\ lpShares \in [LPs -> Nat] /\ totalSupply \in Nat
    BY DEF TypeOK, VaultTypeOK
  <1>2. CASE UNCHANGED <<lpShares, totalSupply>>
    BY <1>2 DEF SupplyHeld
  <1>3. CASE LpCall
    <2>1. PICK lp \in LPs, n \in Nat :
              deposit(lp, n) \/ mint(lp, n) \/ withdraw(lp, n) \/ redeemShares(lp, n)
      BY <1>3 DEF LpCall
    <2>2. SharesDown(n) \in Nat /\ SharesUp(n) \in Nat
      BY <1>1, ConversionTypes
    <2>3. ASSUME NEW a, NEW s \in Nat, MoveIn(lp, a, s) PROVE SupplyHeld'
      <3>1. s \in Int /\ lpShares' = [lpShares EXCEPT ![lp] = lpShares[lp] + s] /\ totalSupply' = totalSupply + s
        BY <2>3 DEF MoveIn
      <3> QED
        BY <1>1, <3>1, SupplyMoves
    <2>4. ASSUME NEW a, NEW s \in Nat, MoveOut(lp, a, s) PROVE SupplyHeld'
      <3>1. -s \in Int /\ lpShares[lp] + (-s) = lpShares[lp] - s /\ totalSupply + (-s) = totalSupply - s
        BY <1>1
      <3>2. lpShares' = [lpShares EXCEPT ![lp] = lpShares[lp] - s] /\ totalSupply' = totalSupply - s
        BY <2>4 DEF MoveOut
      <3>3. lpShares' = [lpShares EXCEPT ![lp] = lpShares[lp] + (-s)] /\ totalSupply' = totalSupply + (-s)
        BY <3>1, <3>2
      <3> QED
        BY <1>1, <3>1, <3>3, SupplyMoves
    <2> QED
      BY <2>1, <2>2, <2>3, <2>4 DEF deposit, mint, withdraw, redeemShares
  <1>4. CASE ReserveCall \/ AdminCall \/ BorrowCall \/ SettleCall \/ UNCHANGED vaultVars \/ UNCHANGED vars
    <2>1. CASE ReserveCall \/ UNCHANGED vaultVars \/ UNCHANGED vars
      BY <1>2, <2>1 DEF ReserveCall, depositReserve, withdrawReserve, shareVars, vaultVars, vars
    <2>2. CASE AdminCall
      BY <1>2, <2>2 DEF AdminCall, authorizeMarket, revokeMarket, updateMaxLiabilityBps,
         setReserveRatio, pauseVault, unpauseVault, shareVars
    <2>3. CASE BorrowCall
      BY <1>2, <2>3 DEF BorrowCall, borrow, shareVars
    <2>4. CASE SettleCall
      BY <1>2, <2>4 DEF SettleCall, settle, settleWithReserve, returnPrincipal, shareVars
    <2> QED
      BY <1>4, <2>1, <2>2, <2>3, <2>4
  <1> QED
    BY <1>3, <1>4, VaultStep

\* The vault's totalSupply is at all times what its LPs hold: the price of a
\* share is the price of what can be redeemed.
THEOREM SupplyIsHeld == Spec => []SupplyHeld
  <1>1. Init => SupplyHeld
    <2> SUFFICES ASSUME Init PROVE SupplyHeld
      OBVIOUS
    <2>1. totalSupply = 0 /\ DOMAIN lpShares = LPs /\ \A lp \in LPs : lpShares[lp] = 0
      BY DEF Init, MarketInit, VaultInit
    <2>2. SumFunctionOnSet(lpShares, LPs) = 0
      BY <2>1, SumZero, MarketAssumption
    <2> QED
      BY <2>1, <2>2 DEF SupplyHeld, SumFunction
  <1>2. TypeOK /\ SupplyHeld /\ [Next]_vars => SupplyHeld'
    BY StepSupply
  <1> QED
    BY <1>1, <1>2, TypeCorrect, PTL DEF Spec

=============================================================================
