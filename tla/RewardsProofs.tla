--------------------------- MODULE RewardsProofs ---------------------------
(***************************************************************************)
(* The safety of the weekly rewards for any users, weeks, reports, roots   *)
(* and bounds: what the contract pays and keeps, and what a run of one of  *)
(* the two programs may say of the chain.                                  *)
(***************************************************************************)
EXTENDS Rewards, SumTheorems, TLAPS

Timed == \A w \in Weeks : weekly[w].publishedAt <= clock

DistributorInv == DistributorTypeOK /\ Timed /\ PaidWithinRoot /\ ClaimBooksAgree

-----------------------------------------------------------------------------
(***************************************************************************)
(* Amounts.                                                                *)
(***************************************************************************)
LEMMA Quotient ==
    ASSUME NEW n \in Nat, NEW d \in Nat \ {0}
    PROVE  /\ n \div d \in Nat
           /\ (n \div d) * d <= n
           /\ \A q \in Nat : q * d <= n => q <= n \div d
OBVIOUS

LEMMA Product == ASSUME NEW m \in Nat, NEW n \in Nat PROVE m * n \in Nat
OBVIOUS

\* Of an amount, a part in time is at most the whole.
LEMMA PartOfWhole ==
    ASSUME NEW x \in Nat, NEW b \in Nat \ {0}, NEW d \in Nat \ {0}, NEW e \in Nat, e < d
    PROVE  (x * e) \div (b * d) \in Nat /\ (x * e) \div (b * d) <= x \div b
<1> DEFINE p == (x * e) \div (b * d)
<1>1. x * e \in Nat /\ b * d \in Nat \ {0}
    OBVIOUS
<1>2. p \in Nat /\ p * (b * d) <= x * e
    BY <1>1, Quotient
<1>3. x * e <= x * d
    OBVIOUS
<1> HIDE DEF p
<1>4. (p * b) * d <= x * d
    BY <1>2, <1>3
<1>5. p * b <= x
    BY <1>2, <1>4
<1>6. p <= x \div b
    BY <1>2, <1>5, Quotient
<1> QED BY <1>2, <1>6 DEF p

LEMMA WeekTyped ==
    ASSUME DistributorTypeOK
    PROVE  /\ \A w \in Weeks : /\ weekly[w] \in WeeklyRewards
                              /\ weekly[w].merkleRoot \in Roots
                              /\ weekly[w].scaleBps \in 0 .. BPS_DENOMINATOR
                              /\ weekly[w].scaleBps \in Nat
                              /\ weekly[w].publishedAt \in Nat
                              /\ weekly[w].claimedAmount \in Nat
           /\ vesting.duration \in Nat
<1>1. \A w \in Weeks : weekly[w] \in WeeklyRewards
    BY DEF DistributorTypeOK
<1>2. \A r \in WeeklyRewards : /\ r.merkleRoot \in Roots
                                /\ r.scaleBps \in 0 .. BPS_DENOMINATOR
                                /\ r.publishedAt \in Nat
                                /\ r.claimedAmount \in Nat
    BY DEF WeeklyRewards
<1>3. 0 .. BPS_DENOMINATOR \subseteq Nat
    BY DEF BPS_DENOMINATOR
<1>4. vesting.duration \in Nat
    BY DEF DistributorTypeOK
<1> QED BY <1>1, <1>2, <1>3, <1>4

\* What a claim pays is a number, and no more than the scaled amount.
LEMMA ClaimIsBounded ==
    ASSUME DistributorTypeOK, Timed, NEW w \in Weeks, NEW amount \in Nat
    PROVE  /\ Scaled(w, amount) \in Nat
           /\ Claimable(w, amount) \in Nat
           /\ Claimable(w, amount) <= Scaled(w, amount)
<1> DEFINE x == amount * weekly[w].scaleBps
           e == clock - weekly[w].publishedAt
<1>1. weekly[w].scaleBps \in Nat /\ weekly[w].publishedAt \in Nat /\ vesting.duration \in Nat
    BY WeekTyped
<1>2. x \in Nat
    <2>1. \A s \in Nat : amount * s \in Nat
        BY Product
    <2> QED BY <1>1, <2>1
<1>3. e \in Nat
    BY <1>1 DEF DistributorTypeOK, Timed
<1>4. Scaled(w, amount) = x \div 10000
    BY DEF Scaled, BPS_DENOMINATOR
<1>5. Scaled(w, amount) \in Nat
    BY <1>2, <1>4, Quotient
<1>6. CASE vesting.enabled /\ e < vesting.duration
    <2>1. Claimable(w, amount) = (x * e) \div (10000 * vesting.duration)
        BY <1>6 DEF Claimable, BPS_DENOMINATOR
    <2>2. vesting.duration \in Nat \ {0}
        BY <1>1, <1>3, <1>6
    <2>3. \A y, s \in Nat, d \in Nat \ {0} : s < d =>
              (y * s) \div (10000 * d) \in Nat /\ (y * s) \div (10000 * d) <= y \div 10000
        BY PartOfWhole, 10000 \in Nat \ {0}
    <2> HIDE DEF x, e
    <2> QED BY <1>2, <1>3, <1>4, <1>5, <1>6, <2>1, <2>2, <2>3
<1>7. CASE ~(vesting.enabled /\ e < vesting.duration)
    <2>1. Claimable(w, amount) = Scaled(w, amount)
        BY <1>7 DEF Claimable
    <2> QED BY <1>5, <2>1
<1> QED BY <1>6, <1>7

-----------------------------------------------------------------------------
(***************************************************************************)
(* The contract.                                                           *)
(***************************************************************************)
LEMMA PaidKept ==
    ASSUME PaidWithinRoot, KeepsPublished, claimed' = claimed
    PROVE  PaidWithinRoot'
<1> SUFFICES ASSUME NEW u \in Users, NEW w \in Weeks, claimed'[u][w] > 0
             PROVE  \E leaf \in weekly'[w].merkleRoot :
                        leaf[1] = u /\ leaf[2] = w /\ claimed'[u][w] <= Scaled(w, leaf[3])'
    BY DEF PaidWithinRoot
<1>1. PICK leaf \in weekly[w].merkleRoot :
          leaf[1] = u /\ leaf[2] = w /\ claimed[u][w] <= Scaled(w, leaf[3])
    BY DEF PaidWithinRoot
<1>2. weekly'[w].merkleRoot = weekly[w].merkleRoot /\ weekly'[w].scaleBps = weekly[w].scaleBps
    BY <1>1 DEF KeepsPublished
<1>3. Scaled(w, leaf[3])' = Scaled(w, leaf[3])
    BY <1>2 DEF Scaled
<1> QED BY <1>1, <1>2, <1>3

LEMMA BooksUntouched ==
    ASSUME DistributorInv, DistributorTypeOK', UNCHANGED <<weekly, claimed, received>>,
           clock' >= clock
    PROVE  DistributorInv' /\ KeepsPublished
<1>1. KeepsPublished
    BY DEF KeepsPublished
<1>2. PaidWithinRoot'
    BY <1>1, PaidKept DEF DistributorInv
<1>3. Timed'
    <2> SUFFICES ASSUME NEW w \in Weeks PROVE weekly[w].publishedAt <= clock'
        BY DEF Timed
    <2>1. weekly[w].publishedAt \in Nat /\ clock \in Nat /\ clock' \in Nat
        BY WeekTyped DEF DistributorInv, DistributorTypeOK
    <2> QED BY <2>1 DEF DistributorInv, Timed
<1>4. ClaimBooksAgree'
    BY DEF DistributorInv, ClaimBooksAgree
<1> QED BY <1>1, <1>2, <1>3, <1>4 DEF DistributorInv

\* What the records of the users add up to in a week.
WeekTotal(w) == SumFunction([u \in Users |-> claimed[u][w]])

\* Only who has a leaf in the root is recorded with a claim, so nobody is
\* recorded with one for a week that is still open.
LEMMA NothingClaimed ==
    ASSUME DistributorInv, NEW w \in Weeks, Open(w)
    PROVE  weekly[w].claimedAmount = 0
<1> DEFINE f == [u \in Users |-> claimed[u][w]]
<1>1. \A u \in Users : f[u] = 0
    <2> SUFFICES ASSUME NEW u \in Users PROVE claimed[u][w] = 0
        OBVIOUS
    <2>1. claimed[u][w] \in Nat
        BY DEF DistributorInv, DistributorTypeOK
    <2>2. ~(claimed[u][w] > 0)
        BY DEF DistributorInv, PaidWithinRoot, Open
    <2> QED BY <2>1, <2>2
<1>2. DOMAIN f = Users /\ IsFiniteSet(Users)
    BY DistributorAssumption
<1>3. weekly[w].claimedAmount = SumFunction(f)
    BY DEF DistributorInv, ClaimBooksAgree
<1> HIDE DEF f
<1>4. SumFunctionOnSet(f, Users) = 0
    BY <1>1, <1>2, SumZero
<1> QED BY <1>2, <1>3, <1>4 DEF SumFunction

\* A new claim of a user is added to what his week has paid.
LEMMA WeekTotalGrows ==
    ASSUME DistributorTypeOK, DistributorTypeOK', NEW u \in Users, NEW w \in Weeks,
           \A x \in Users \ {u} : claimed'[x][w] = claimed[x][w]
    PROVE  WeekTotal(w)' = WeekTotal(w) + (claimed'[u][w] - claimed[u][w])
<1> DEFINE f == [x \in Users |-> claimed[x][w]]
           g == [x \in Users |-> claimed'[x][w]]
<1>1. DiffersAt(f, g, Users, u) /\ f[u] = claimed[u][w] /\ g[u] = claimed'[u][w]
    BY DEF DistributorTypeOK, DiffersAt
<1>2. DOMAIN f = Users /\ DOMAIN g = Users /\ IsFiniteSet(Users)
    BY DistributorAssumption
<1>3. WeekTotal(w) = SumFunction(f) /\ WeekTotal(w)' = SumFunction(g)
    BY DEF WeekTotal
<1> HIDE DEF f, g
<1>4. SumFunctionOnSet(g, Users) = SumFunctionOnSet(f, Users) + (g[u] - f[u])
    BY <1>1, <1>2, SumUpdate
<1> QED BY <1>1, <1>2, <1>3, <1>4 DEF SumFunction

LEMMA PublishKeeps ==
    ASSUME DistributorInv, NEW caller, NEW v \in Weeks, NEW root \in Roots, NEW bps,
           publishRoot(caller, v, root, bps)
    PROVE  DistributorInv' /\ KeepsPublished /\ weekly'[v].merkleRoot = root /\ root # {}
<1> DEFINE new == [merkleRoot |-> root, scaleBps |-> bps, publishedAt |-> clock, claimedAmount |-> 0]
<1>1. /\ weekly' = [weekly EXCEPT ![v] = new]
      /\ weekly[v].merkleRoot = {} /\ root # {}
      /\ bps \in MIN_SCALE_BPS .. BPS_DENOMINATOR
      /\ currentWeek' = IF v >= currentWeek THEN v + 1 ELSE currentWeek
      /\ UNCHANGED <<clock, moneyVars, adminVars>>
    BY DEF publishRoot, MayPublish, Open
<1>2. clock \in Nat /\ weekly \in [Weeks -> WeeklyRewards]
    BY DEF DistributorInv, DistributorTypeOK
<1>3. new \in WeeklyRewards
    <2>1. bps \in 0 .. BPS_DENOMINATOR
        BY <1>1 DEF MIN_SCALE_BPS, BPS_DENOMINATOR
    <2> QED BY <1>2, <2>1 DEF WeeklyRewards
<1> HIDE DEF new
<1>4. weekly' \in [Weeks -> WeeklyRewards] /\ weekly'[v] = new
      /\ \A w \in Weeks \ {v} : weekly'[w] = weekly[w]
    BY <1>1, <1>2, <1>3
<1>5. currentWeek' \in Nat
    BY <1>1, DistributorAssumption DEF DistributorInv, DistributorTypeOK
<1>6. DistributorTypeOK'
    BY <1>1, <1>4, <1>5 DEF DistributorInv, DistributorTypeOK, moneyVars, adminVars
<1>7. KeepsPublished
    BY <1>1, <1>4 DEF KeepsPublished, moneyVars
<1>8. PaidWithinRoot'
    BY <1>1, <1>7, PaidKept DEF DistributorInv, moneyVars
<1>9. Timed'
    <2> SUFFICES ASSUME NEW w \in Weeks PROVE weekly'[w].publishedAt <= clock
        BY <1>1 DEF Timed
    <2>1. CASE w = v
        BY <2>1, <1>2, <1>4 DEF new
    <2>2. CASE w # v
        BY <2>2, <1>4 DEF DistributorInv, Timed
    <2> QED BY <2>1, <2>2
<1>10. weekly'[v].claimedAmount = 0 /\ weekly[v].claimedAmount = 0
    <2>1. Open(v)
        BY DEF publishRoot, MayPublish
    <2>2. weekly[v].claimedAmount = 0
        BY <2>1, NothingClaimed
    <2> QED BY <1>4, <2>2 DEF new
<1>11. \A w \in Weeks : weekly'[w].claimedAmount = weekly[w].claimedAmount
    BY <1>4, <1>10
<1>12. ClaimBooksAgree'
    BY <1>1, <1>11 DEF DistributorInv, ClaimBooksAgree, moneyVars
<1> QED BY <1>1, <1>4, <1>6, <1>7, <1>8, <1>9, <1>12 DEF DistributorInv, new

\* What a call pays for a week.
PaidFor(paid) == [w \in Weeks |-> IF w \in DOMAIN paid THEN paid[w] ELSE 0]

LEMMA PayKeeps ==
    ASSUME DistributorInv, NEW u \in Users, NEW paid, NEW total \in Nat,
           DOMAIN paid \subseteq Weeks,
           \A w \in DOMAIN paid :
               paid[w] \in Nat /\ Unclaimed(u, w)
               /\ \E a \in Nat : Proves(u, w, a) /\ paid[w] <= Scaled(w, a),
           total = SumFunctionOnSet(PaidFor(paid), Weeks),
           Pay(u, paid, total)
    PROVE  DistributorInv' /\ KeepsPublished
<1>1. /\ weekly \in [Weeks -> WeeklyRewards] /\ claimed \in [Users -> [Weeks -> Nat]]
      /\ funds \in Nat /\ received \in Nat /\ clock \in Nat
    BY DEF DistributorInv, DistributorTypeOK
<1>2. /\ \A x \in Users, w \in Weeks :
             claimed'[x][w] = IF x = u /\ w \in DOMAIN paid THEN paid[w] ELSE claimed[x][w]
      /\ claimed' \in [Users -> [Weeks -> Nat]]
    BY <1>1 DEF Pay
<1>3. \A w \in Weeks : /\ weekly'[w] \in WeeklyRewards
                       /\ weekly'[w].merkleRoot = weekly[w].merkleRoot
                       /\ weekly'[w].scaleBps = weekly[w].scaleBps
                       /\ weekly'[w].publishedAt = weekly[w].publishedAt
    <2> TAKE w \in Weeks
    <2>1. CASE w \in DOMAIN paid
        <3>1. weekly'[w] = [weekly[w] EXCEPT !.claimedAmount = @ + paid[w]]
            BY <2>1 DEF Pay
        <3>2. weekly[w] \in WeeklyRewards /\ weekly[w].claimedAmount + paid[w] \in Nat
            BY <2>1, WeekTyped DEF DistributorInv
        <3> QED BY <3>1, <3>2 DEF WeeklyRewards
    <2>2. CASE w \notin DOMAIN paid
        BY <1>1, <2>2 DEF Pay
    <2> QED BY <2>1, <2>2
<1>4. weekly' \in [Weeks -> WeeklyRewards]
    BY <1>3 DEF Pay
<1>5. funds' \in Nat /\ received' \in Nat
    BY <1>1 DEF Pay
<1>6. DistributorTypeOK'
    BY <1>2, <1>4, <1>5 DEF Pay, DistributorInv, DistributorTypeOK, adminVars
<1>7. KeepsPublished
    BY <1>1, <1>2, <1>3 DEF KeepsPublished, Unclaimed
<1>8. Timed'
    BY <1>3 DEF Pay, DistributorInv, Timed
<1>9. PaidWithinRoot'
    <2> SUFFICES ASSUME NEW x \in Users, NEW w \in Weeks, claimed'[x][w] > 0
                 PROVE  \E leaf \in weekly[w].merkleRoot :
                            leaf[1] = x /\ leaf[2] = w /\ claimed'[x][w] <= Scaled(w, leaf[3])
        BY <1>3 DEF PaidWithinRoot, Scaled
    <2>1. CASE x = u /\ w \in DOMAIN paid
        <3>1. PICK a \in Nat : Proves(u, w, a) /\ paid[w] <= Scaled(w, a)
            BY <2>1
        <3> DEFINE leaf == <<u, w, a>>
        <3>2. leaf \in weekly[w].merkleRoot /\ leaf[1] = u /\ leaf[2] = w /\ leaf[3] = a
            BY <3>1 DEF Proves
        <3> QED BY <1>2, <2>1, <3>1, <3>2
    <2>2. CASE ~(x = u /\ w \in DOMAIN paid)
        BY <1>2, <2>2 DEF DistributorInv, PaidWithinRoot
    <2> QED BY <2>1, <2>2
<1> DEFINE f == [w \in Weeks |-> weekly[w].claimedAmount]
           g == [w \in Weeks |-> weekly'[w].claimedAmount]
           p == PaidFor(paid)
<1>10. \A w \in Weeks : f[w] \in Int /\ p[w] \in Int /\ g[w] = f[w] + p[w]
    <2> TAKE w \in Weeks
    <2>1. weekly[w] \in WeeklyRewards /\ weekly[w].claimedAmount \in Nat
        BY WeekTyped DEF DistributorInv
    <2>2. CASE w \in DOMAIN paid
        <3>1. weekly'[w] = [weekly[w] EXCEPT !.claimedAmount = @ + paid[w]]
            BY <2>2 DEF Pay
        <3>2. weekly'[w].claimedAmount = weekly[w].claimedAmount + paid[w]
            BY <2>1, <3>1 DEF WeeklyRewards
        <3> QED BY <2>1, <2>2, <3>2 DEF PaidFor
    <2>3. CASE w \notin DOMAIN paid
        <3>1. weekly'[w] = weekly[w]
            BY <2>3 DEF Pay
        <3> QED BY <2>1, <2>3, <3>1 DEF PaidFor
    <2> QED BY <2>2, <2>3
<1>11. \A w \in Weeks : weekly'[w].claimedAmount = WeekTotal(w)'
    <2> TAKE w \in Weeks
    <2>1. weekly[w].claimedAmount = WeekTotal(w)
        BY DEF DistributorInv, ClaimBooksAgree, WeekTotal
    <2>2. WeekTotal(w)' = WeekTotal(w) + (claimed'[u][w] - claimed[u][w])
        BY <1>2, <1>6, WeekTotalGrows DEF DistributorInv
    <2>3. claimed'[u][w] - claimed[u][w] = p[w]
        BY <1>1, <1>2 DEF PaidFor, Unclaimed
    <2>4. weekly'[w].claimedAmount = weekly[w].claimedAmount + p[w]
        BY <1>10
    <2> QED BY <2>1, <2>2, <2>3, <2>4
<1>12. received' = SumFunction(g)
    <2>1. DOMAIN f = Weeks /\ DOMAIN g = Weeks /\ IsFiniteSet(Weeks)
        BY DistributorAssumption
    <2>2. received = SumFunction(f)
        BY DEF DistributorInv, ClaimBooksAgree
    <2> HIDE DEF f, g, p
    <2>3. SumFunctionOnSet(g, Weeks) = SumFunctionOnSet(f, Weeks) + SumFunctionOnSet(p, Weeks)
        BY <1>10, <2>1, SumAdd
    <2>4. received' = received + SumFunctionOnSet(p, Weeks)
        BY DEF Pay, p
    <2> QED BY <2>1, <2>2, <2>3, <2>4 DEF SumFunction
<1>13. ClaimBooksAgree'
    BY <1>11, <1>12 DEF ClaimBooksAgree, WeekTotal
<1> QED BY <1>6, <1>7, <1>8, <1>9, <1>13 DEF DistributorInv

LEMMA ClaimsKeep ==
    ASSUME DistributorInv, UserClaims
    PROVE  DistributorInv' /\ KeepsPublished
<1> USE DistributorAssumption
<1>1. PICK u \in Users, w \in Weeks, a \in Amounts :
          claim(u, w, a) \/ \E v \in Weeks, b \in Amounts : batchClaim(u, v, b, w, a)
    BY DEF UserClaims
<1>2. ASSUME NEW x \in Weeks, NEW n \in Amounts, MayClaim(u, x, n)
      PROVE  /\ Claimable(x, n) \in Nat /\ Claimable(x, n) <= Scaled(x, n)
             /\ Unclaimed(u, x) /\ Proves(u, x, n) /\ n \in Nat
    BY <1>2, ClaimIsBounded DEF MayClaim, DistributorInv
<1>3. CASE claim(u, w, a)
    <2> DEFINE paid == [x \in {w} |-> Claimable(w, a)]
    <2>1. MayClaim(u, w, a) /\ Pay(u, paid, Claimable(w, a))
        BY <1>3 DEF claim
    <2>2. DOMAIN paid = {w} /\ paid[w] = Claimable(w, a)
        OBVIOUS
    <2> HIDE DEF paid
    <2>3. paid[w] \in Nat
        BY <1>2, <2>1, <2>2
    <2>4. Claimable(w, a) = SumFunctionOnSet(PaidFor(paid), Weeks)
        <3>1. /\ PaidFor(paid)[w] = paid[w]
              /\ \A x \in Weeks \ {w} : PaidFor(paid)[x] = 0
            BY <2>2 DEF PaidFor
        <3> QED BY <2>2, <2>3, <3>1, SumOfOne
    <2> QED BY <1>2, <2>1, <2>2, <2>4, PayKeeps
<1>4. CASE \E v \in Weeks, b \in Amounts : batchClaim(u, v, b, w, a)
    <2>1. PICK v \in Weeks, b \in Amounts : batchClaim(u, v, b, w, a)
        BY <1>4
    <2> DEFINE paid == [x \in {v, w} |-> IF x = v THEN Claimable(v, b) ELSE Claimable(w, a)]
    <2>2. /\ v # w /\ MayClaim(u, v, b) /\ MayClaim(u, w, a)
          /\ Pay(u, paid, Claimable(v, b) + Claimable(w, a))
        BY <2>1 DEF batchClaim
    <2>3. DOMAIN paid = {v, w} /\ paid[v] = Claimable(v, b) /\ paid[w] = Claimable(w, a)
        BY <2>2
    <2>4. Claimable(v, b) + Claimable(w, a) \in Nat
        BY <1>2, <2>2
    <2> HIDE DEF paid
    <2>5. paid[v] \in Nat /\ paid[w] \in Nat
        BY <1>2, <2>2, <2>3
    <2>6. Claimable(v, b) + Claimable(w, a) = SumFunctionOnSet(PaidFor(paid), Weeks)
        <3>1. /\ PaidFor(paid)[v] = paid[v] /\ PaidFor(paid)[w] = paid[w]
              /\ \A x \in Weeks \ {v, w} : PaidFor(paid)[x] = 0
            BY <2>3 DEF PaidFor
        <3>2. v \in Weeks /\ w \in Weeks \ {v}
            BY <2>2
        <3> DEFINE p == PaidFor(paid)
        <3>3. p[v] \in Nat /\ p[w] \in Nat /\ \A x \in Weeks \ {v, w} : p[x] = 0
            BY <2>5, <3>1
        <3>4. p[v] + p[w] = Claimable(v, b) + Claimable(w, a)
            BY <2>3, <3>1
        <3>5. IsFiniteSet(Weeks)
            BY DistributorAssumption
        <3> HIDE DEF p
        <3>6. SumFunctionOnSet(p, Weeks) = p[v] + p[w]
            BY <3>2, <3>3, <3>5, SumOfTwo
        <3> QED BY <3>4, <3>6 DEF p
    <2> QED BY <1>2, <2>2, <2>3, <2>4, <2>6, PayKeeps
<1> QED BY <1>1, <1>3, <1>4

LEMMA OwnerKeeps ==
    ASSUME DistributorInv, OwnerCalls \/ \E a \in Amounts : Fund(a)
    PROVE  DistributorInv' /\ KeepsPublished
<1> USE DistributorAssumption DEF moneyVars, adminVars
<1>1. DistributorTypeOK /\ clock \in Nat
    BY DEF DistributorInv, DistributorTypeOK
<1>2. UNCHANGED <<weekly, claimed, clock, received>>
    BY DEF OwnerCalls, setPublisher, setVestingConfig, setPaused, emergencyWithdraw, Fund
<1>3. DistributorTypeOK'
    <2>1. CASE \E a \in Callers, enabled \in BOOLEAN : setPublisher(a, enabled)
        BY <1>1, <2>1 DEF setPublisher, DistributorTypeOK
    <2>2. CASE \E enabled \in BOOLEAN, d \in {0, VestingPeriod} : setVestingConfig(enabled, d)
        BY <1>1, <2>2 DEF setVestingConfig, DistributorTypeOK
    <2>3. CASE \E value \in BOOLEAN : setPaused(value)
        BY <1>1, <2>3 DEF setPaused, DistributorTypeOK
    <2>4. CASE \E a \in Amounts : emergencyWithdraw(a)
        BY <1>1, <2>4 DEF emergencyWithdraw, DistributorTypeOK
    <2>5. CASE \E a \in Amounts : Fund(a)
        BY <1>1, <2>5 DEF Fund, DistributorTypeOK
    <2> QED BY <2>1, <2>2, <2>3, <2>4, <2>5 DEF OwnerCalls
<1> QED BY <1>1, <1>2, <1>3, BooksUntouched

-----------------------------------------------------------------------------
(***************************************************************************)
(* The programs.  Sent: a transaction that somebody waits for is the one   *)
(* he has sent.  Waits: only who waits has a receipt.  Good: behind a good *)
(* receipt there is a published root.                                      *)
(***************************************************************************)
Sent ==
    \A tx \in mempool : tx.by \in Programs =>
        /\ run[tx.by].step = "confirm" /\ run[tx.by].receipt = "none"
        /\ tx = Tx(tx.by, tx.by)

Waits == \A p \in Programs : run[p].receipt # "none" => run[p].step = "confirm"

Good ==
    \A p \in Programs : run[p].receipt = "ok" =>
        weekly[run[p].week].merkleRoot = Tx(p, p).root /\ Tx(p, p).root # {}

Done == CompletedIsPublished /\ \A c \in completed : c.root # {}

ProgramTypeOK ==
    /\ index \in [Weeks -> Nat]
    /\ \A w \in Weeks : index[w] \in DOMAIN Reports[w]
    /\ db \in [Weeks -> Roots]
    /\ run \in [Programs -> Runs]
    /\ \A p \in Programs : run[p].step # "idle" => run[p].week \in Weeks
    /\ mempool \subseteq [by : Programs \cup {Nobody}, week : Weeks, root : Roots]
    /\ exported \subseteq Distributions
    /\ completed \subseteq [week : Weeks, root : Roots]
    /\ toolRuns \in 0 .. MaxToolRuns
    /\ faults \in 0 .. MaxFaults

Reported == Sent /\ Waits /\ Good /\ Done

IInv == DistributorInv /\ ProgramTypeOK /\ Reported

\* Roots that stay published keep what was reported true.
LEMMA ReportsKept ==
    ASSUME ProgramTypeOK, Reported, KeepsPublished, UNCHANGED backVars
    PROVE  ProgramTypeOK' /\ Reported'
<1> USE DEF backVars
<1>1. ProgramTypeOK'
    BY DEF ProgramTypeOK
<1>2. Sent' /\ Waits'
    BY DEF Reported, Sent, Waits, Tx
<1>3. Good'
    <2> SUFFICES ASSUME NEW p \in Programs, run[p].receipt = "ok"
                 PROVE  weekly'[run[p].week].merkleRoot = Tx(p, p).root /\ Tx(p, p).root # {}
        BY DEF Good, Tx
    <2>1. weekly[run[p].week].merkleRoot = Tx(p, p).root /\ Tx(p, p).root # {}
        BY DEF Reported, Good
    <2>2. run[p].week \in Weeks
        BY DEF Reported, Waits, ProgramTypeOK
    <2> QED BY <2>1, <2>2 DEF KeepsPublished
<1>4. Done'
    BY DEF Reported, Done, CompletedIsPublished, KeepsPublished, ProgramTypeOK
<1> QED BY <1>1, <1>2, <1>3, <1>4 DEF Reported

LEMMA Different == Task # Tool /\ Nobody \notin Programs /\ Programs = {Task, Tool}
BY RewardsAssumption DEF Programs

Transactions == [by : Programs \cup {Nobody}, week : Weeks, root : Roots]

\* A run goes on to a step in which it has no receipt.
LEMMA RunMoves ==
    ASSUME IInv, UNCHANGED distributorVars,
           NEW p \in Programs, NEW next \in Runs, Goto(p, next),
           next.receipt = "none", next.step # "idle" => next.week \in Weeks,
           \A tx \in mempool' : tx.by \in Programs =>
               \/ tx.by # p /\ tx \in mempool
               \/ /\ next.step = "confirm"
                  /\ tx = [by |-> p, week |-> next.week, root |-> RootOf(next.week, next.entries)],
           \A c \in completed' :
               c \in completed \/ (weekly[c.week].merkleRoot = c.root /\ c.root # {})
    PROVE  /\ run' \in [Programs -> Runs]
           /\ \A q \in Programs : run'[q].step # "idle" => run'[q].week \in Weeks
           /\ Reported'
<1>1. /\ run \in [Programs -> Runs]
      /\ run'[p] = next /\ \A q \in Programs \ {p} : run'[q] = run[q]
    BY DEF IInv, ProgramTypeOK, Goto
<1>2. run' \in [Programs -> Runs]
    BY <1>1 DEF Goto
<1>3. \A q \in Programs : run'[q].step # "idle" => run'[q].week \in Weeks
    BY <1>1 DEF IInv, ProgramTypeOK
<1>4. \A q \in Programs \ {p} : Tx(q, q)' = Tx(q, q)
    BY <1>1 DEF Tx
<1>5. Tx(p, p)' = [by |-> p, week |-> next.week, root |-> RootOf(next.week, next.entries)]
    BY <1>1 DEF Tx
<1>6. Sent'
    <2> SUFFICES ASSUME NEW tx \in mempool', tx.by \in Programs
                 PROVE  /\ run'[tx.by].step = "confirm" /\ run'[tx.by].receipt = "none"
                        /\ tx = Tx(tx.by, tx.by)'
        BY DEF Sent
    <2>1. CASE tx.by # p /\ tx \in mempool
        <3>1. run[tx.by].step = "confirm" /\ run[tx.by].receipt = "none" /\ tx = Tx(tx.by, tx.by)
            BY <2>1 DEF IInv, Reported, Sent
        <3> QED BY <3>1, <2>1, <1>1, <1>4
    <2>2. CASE /\ next.step = "confirm"
               /\ tx = [by |-> p, week |-> next.week, root |-> RootOf(next.week, next.entries)]
        BY <2>2, <1>1, <1>5
    <2> QED BY <2>1, <2>2
<1>7. Waits'
    BY <1>1 DEF Waits, IInv, Reported
<1>8. Good'
    <2> SUFFICES ASSUME NEW q \in Programs, run'[q].receipt = "ok"
                 PROVE  weekly[run'[q].week].merkleRoot = (Tx(q, q).root)' /\ (Tx(q, q).root)' # {}
        BY DEF Good, distributorVars
    <2>1. q # p
        BY <1>1
    <2> QED BY <2>1, <1>1, <1>4 DEF IInv, Reported, Good
<1>9. Done'
    BY DEF IInv, Reported, Done, CompletedIsPublished, distributorVars
<1> QED BY <1>2, <1>3, <1>6, <1>7, <1>8, <1>9 DEF Reported

\* A program that is not waiting has no transaction of its own out.
LEMMA NothingSent ==
    ASSUME IInv, NEW p \in Programs, run[p].step # "confirm" \/ run[p].receipt # "none"
    PROVE  \A tx \in mempool : tx.by # p
BY DEF IInv, Reported, Sent

\* A run that waits for nothing takes a step that sends nothing.
LEMMA RunGoesOn ==
    ASSUME IInv, UNCHANGED distributorVars, UNCHANGED <<mempool, completed>>,
           NEW p \in Programs, NEW next \in Runs, Goto(p, next),
           next.receipt = "none", next.step # "idle" => next.week \in Weeks,
           run[p].step # "confirm" \/ run[p].receipt # "none"
    PROVE  /\ run' \in [Programs -> Runs]
           /\ \A q \in Programs : run'[q].step # "idle" => run'[q].week \in Weeks
           /\ Reported'
<1>1. \A tx \in mempool' : tx.by # p /\ tx \in mempool
    BY NothingSent
<1>2. \A tx \in mempool' : tx.by \in Programs =>
          \/ tx.by # p /\ tx \in mempool
          \/ /\ next.step = "confirm"
             /\ tx = [by |-> p, week |-> next.week, root |-> RootOf(next.week, next.entries)]
    BY <1>1
<1>3. completed' = completed
    OBVIOUS
<1>4. \A c \in completed' :
          c \in completed \/ (weekly[c.week].merkleRoot = c.root /\ c.root # {})
    BY <1>3
<1> QED BY Zenon, <1>2, <1>4, RunMoves

LEMMA IdleTyped == Idle \in Runs /\ Idle.step = "idle" /\ Idle.receipt = "none"
<1>1. NoEntries \in EntryLists
    BY DEF EntryLists
<1>2. Idle \in Runs
    BY <1>1 DEF Idle, Runs
<1> QED BY <1>2 DEF Idle

\* The steps of a run before and after it waits for its transaction.
LEMMA StepTyped ==
    ASSUME ProgramTypeOK, NEW p \in Programs, run[p].step # "idle"
    PROVE  /\ run[p] \in Runs /\ run[p].week \in Weeks /\ run[p].entries \in EntryLists
           /\ RootOf(run[p].week, run[p].entries) \in Roots
<1>1. run[p] \in Runs /\ run[p].week \in Weeks
    BY DEF ProgramTypeOK
<1>2. run[p].entries \in EntryLists
    BY <1>1 DEF Runs
<1> QED BY <1>1, <1>2, ReportsAssumption

LEMMA Counted ==
    ASSUME ProgramTypeOK, Fault
    PROVE  faults' \in 0 .. MaxFaults
BY RewardsAssumption DEF ProgramTypeOK, Fault

LEMMA StartsKeep ==
    ASSUME IInv, TaskStarts \/ \E w \in Weeks : ToolStarts(w)
    PROVE  ProgramTypeOK' /\ Reported'
<1>1. PICK p \in Programs, w \in Weeks :
          run[p] = Idle /\ Goto(p, [Idle EXCEPT !.step = "aggregate", !.week = w])
    BY DEF TaskStarts, ToolStarts, Programs
<1> DEFINE next == [Idle EXCEPT !.step = "aggregate", !.week = w]
<1>2. next \in Runs /\ next.receipt = "none" /\ next.week \in Weeks
    BY IdleTyped, DistributorAssumption DEF Runs
<1>3. UNCHANGED distributorVars /\ UNCHANGED <<index, db, mempool, exported, completed>>
    BY DEF TaskStarts, ToolStarts, Quiet
<1>4. toolRuns' \in 0 .. MaxToolRuns /\ faults' \in 0 .. MaxFaults
    <2>1. toolRuns \in 0 .. MaxToolRuns /\ faults \in 0 .. MaxFaults
        BY DEF IInv, ProgramTypeOK
    <2>2. CASE TaskStarts
        <3>1. toolRuns' = toolRuns /\ (faults' = faults \/ Fault)
            BY <2>2 DEF TaskStarts, Fault
        <3> QED BY <2>1, <3>1, Counted DEF IInv
    <2>3. CASE \E v \in Weeks : ToolStarts(v)
        <3>1. toolRuns < MaxToolRuns /\ toolRuns' = toolRuns + 1 /\ faults' = faults
            BY <2>3 DEF ToolStarts
        <3> QED BY <2>1, <3>1, RewardsAssumption
    <2> QED BY <2>2, <2>3
<1>5. run[p].step # "confirm"
    BY <1>1, IdleTyped
<1>6. Goto(p, next)
    BY <1>1
<1> HIDE DEF next
<1>7. /\ run' \in [Programs -> Runs]
      /\ \A q \in Programs : run'[q].step # "idle" => run'[q].week \in Weeks
      /\ Reported'
    BY Zenon, <1>2, <1>3, <1>5, <1>6, RunGoesOn
<1> QED BY <1>3, <1>4, <1>7 DEF IInv, ProgramTypeOK

LEMMA IndexKeeps ==
    ASSUME IInv, NEW w \in Weeks, IndexMoves(w)
    PROVE  ProgramTypeOK' /\ Reported'
<1>1. UNCHANGED <<distributorVars, db, run, mempool, exported, completed, toolRuns, faults>>
    BY DEF IndexMoves
<1>2. index' \in [Weeks -> Nat] /\ \A v \in Weeks : index'[v] \in DOMAIN Reports[v]
    <2>1. index \in [Weeks -> Nat] /\ \A v \in Weeks : index[v] \in DOMAIN Reports[v]
        BY DEF IInv, ProgramTypeOK
    <2>2. index' = [index EXCEPT ![w] = @ + 1] /\ index[w] < Len(Reports[w])
        BY DEF IndexMoves
    <2>3. index'[w] \in 1 .. Len(Reports[w])
        BY <2>1, <2>2, ReportsAssumption
    <2> QED BY <2>1, <2>2, <2>3, ReportsAssumption
<1>3. Reported'
    BY <1>1 DEF IInv, Reported, Sent, Waits, Good, Done, CompletedIsPublished, Tx, distributorVars
<1> QED BY <1>1, <1>2, <1>3 DEF IInv, ProgramTypeOK

LEMMA AggregatesKeeps ==
    ASSUME IInv, NEW p \in Programs, Aggregates(p)
    PROVE  ProgramTypeOK' /\ Reported'
<1> DEFINE entries == Aggregate(Reports[run[p].week][index[run[p].week]])
           next == IF DOMAIN entries = {} THEN Idle
                   ELSE [run[p] EXCEPT !.step = "save", !.entries = entries]
<1>1. run[p].step = "aggregate" /\ Goto(p, next)
    BY DEF Aggregates
<1>2. UNCHANGED distributorVars /\ UNCHANGED <<mempool, completed>>
      /\ UNCHANGED <<index, db, exported, toolRuns, faults>>
    BY DEF Aggregates, Quiet
<1>3. entries \in EntryLists
    <2>1. run[p].week \in Weeks /\ index[run[p].week] \in DOMAIN Reports[run[p].week]
        BY <1>1 DEF IInv, ProgramTypeOK
    <2>2. \A w \in Weeks : \A k \in DOMAIN Reports[w] : Aggregate(Reports[w][k]) \in WeekLists
        BY DEF WeekLists
    <2>3. Aggregate(Reports[run[p].week][index[run[p].week]]) \in WeekLists
        BY Zenon, <2>1, <2>2
    <2> QED BY <2>3 DEF EntryLists
<1>4. next \in Runs /\ next.receipt = "none" /\ (next.step # "idle" => next.week \in Weeks)
    <2> HIDE DEF entries
    <2>1. CASE DOMAIN entries = {}
        BY <2>1, IdleTyped
    <2>2. CASE DOMAIN entries # {}
        <3>1. run[p] \in Runs /\ run[p].week \in Weeks /\ run[p].receipt = "none"
            BY <1>1, StepTyped DEF IInv, Reported, Waits
        <3> QED BY <1>3, <2>2, <3>1 DEF Runs
    <2> QED BY <2>1, <2>2
<1> HIDE DEF next
<1>5. /\ run' \in [Programs -> Runs]
      /\ \A q \in Programs : run'[q].step # "idle" => run'[q].week \in Weeks
      /\ Reported'
    <2>1. run[p].step # "confirm"
        BY <1>1
    <2> QED BY Zenon, <1>1, <1>2, <1>4, <2>1, RunGoesOn
<1> QED BY <1>2, <1>5 DEF IInv, ProgramTypeOK

LEMMA SaveKeeps ==
    ASSUME IInv, NEW p \in Programs, SaveDistribution(p)
    PROVE  ProgramTypeOK' /\ Reported'
<1>1. run[p].step = "save" /\ run[p].entries \in EntryLists /\ run[p] \in Runs
      /\ RootOf(run[p].week, run[p].entries) \in Roots
    BY StepTyped DEF SaveDistribution, IInv
<1>2. UNCHANGED distributorVars /\ UNCHANGED <<mempool, completed>>
      /\ UNCHANGED <<index, exported, toolRuns, faults>>
    BY DEF SaveDistribution, Quiet
<1>3. db' \in [Weeks -> Roots]
    BY <1>1 DEF SaveDistribution, IInv, ProgramTypeOK
<1>4. PICK next \in Runs : /\ Goto(p, next) /\ next.receipt = "none"
                           /\ next.step # "idle" => next.week \in Weeks
    <2>1. \A step \in {"export", "publish"} :
              LET next == [run[p] EXCEPT !.step = step]
              IN  next \in Runs /\ next.receipt = "none" /\ next.week \in Weeks
        <3>1. run[p].receipt = "none" /\ run[p].week \in Weeks
            BY <1>1, StepTyped DEF IInv, Reported, Waits
        <3> QED BY <1>1, <3>1 DEF Runs
    <2>2. \/ Goto(p, [run[p] EXCEPT !.step = "export"])
          \/ Goto(p, [run[p] EXCEPT !.step = "publish"])
          \/ Goto(p, Idle)
        BY DEF SaveDistribution
    <2> QED BY <2>1, <2>2, IdleTyped
<1>5. /\ run' \in [Programs -> Runs]
      /\ \A q \in Programs : run'[q].step # "idle" => run'[q].week \in Weeks
      /\ Reported'
    <2>1. run[p].step # "confirm"
        BY <1>1
    <2> QED BY Zenon, <1>2, <1>4, <2>1, RunGoesOn
<1> QED BY <1>2, <1>3, <1>5 DEF IInv, ProgramTypeOK

LEMMA ExportKeeps ==
    ASSUME IInv, NEW output \in BOOLEAN, NEW publishes \in BOOLEAN,
           ExportDistribution(output, publishes)
    PROVE  ProgramTypeOK' /\ Reported'
<1>1. run[Tool].step = "export" /\ run[Tool].entries \in EntryLists /\ run[Tool] \in Runs
      /\ run[Tool].week \in Weeks /\ run[Tool].receipt = "none" /\ Tool \in Programs
    BY StepTyped, Different DEF ExportDistribution, IInv, Reported, Waits
<1>2. UNCHANGED distributorVars /\ UNCHANGED <<mempool, completed>>
      /\ UNCHANGED <<index, db, toolRuns, faults>>
    BY DEF ExportDistribution, Quiet
<1>3. exported' \subseteq Distributions
    <2>1. [week |-> run[Tool].week, entries |-> run[Tool].entries] \in Distributions
        BY <1>1 DEF Distributions
    <2>2. exported' = exported
          \/ exported' = exported \cup {[week |-> run[Tool].week, entries |-> run[Tool].entries]}
        BY DEF ExportDistribution
    <2>3. exported \subseteq Distributions
        BY DEF IInv, ProgramTypeOK
    <2> QED BY Zenon, <2>1, <2>2, <2>3
<1>4. PICK next \in Runs : /\ Goto(Tool, next) /\ next.receipt = "none"
                           /\ next.step # "idle" => next.week \in Weeks
    <2> DEFINE go == [run[Tool] EXCEPT !.step = "publish"]
    <2>1. go \in Runs /\ go.receipt = "none" /\ go.week \in Weeks
        BY <1>1 DEF Runs
    <2>2. Goto(Tool, go) \/ Goto(Tool, Idle)
        BY DEF ExportDistribution
    <2> HIDE DEF go
    <2> QED BY <2>1, <2>2, IdleTyped
<1>5. /\ run' \in [Programs -> Runs]
      /\ \A q \in Programs : run'[q].step # "idle" => run'[q].week \in Weeks
      /\ Reported'
    <2>1. run[Tool].step # "confirm"
        BY <1>1
    <2> QED BY Zenon, <1>1, <1>2, <1>4, <2>1, RunGoesOn
<1> QED BY <1>2, <1>3, <1>5 DEF IInv, ProgramTypeOK

LEMMA TxTyped ==
    ASSUME ProgramTypeOK, NEW p \in Programs, run[p].step # "idle",
           NEW by \in Programs \cup {Nobody}
    PROVE  Tx(p, by) \in Transactions
BY StepTyped DEF Tx, Transactions

LEMMA PublishRootKeeps ==
    ASSUME IInv, NEW p \in Programs, PublishRoot(p)
    PROVE  ProgramTypeOK' /\ Reported'
<1> DEFINE next == [run[p] EXCEPT !.step = "confirm"]
<1>1. run[p].step = "publish" /\ Goto(p, next) /\ mempool' = mempool \cup {Tx(p, p)}
    BY DEF PublishRoot
<1>2. UNCHANGED distributorVars /\ completed' = completed
      /\ UNCHANGED <<index, db, exported, toolRuns, faults>>
    BY DEF PublishRoot, Quiet
<1>3. /\ next \in Runs /\ next.receipt = "none" /\ next.step = "confirm"
      /\ next.week = run[p].week /\ next.entries = run[p].entries /\ next.week \in Weeks
    <2>1. run[p] \in Runs /\ run[p].week \in Weeks /\ run[p].receipt = "none"
        BY <1>1, StepTyped DEF IInv, Reported, Waits
    <2> QED BY <2>1 DEF Runs
<1>4. mempool' \subseteq Transactions
    <2>1. Tx(p, p) \in Transactions
        BY <1>1, TxTyped DEF IInv
    <2> QED BY <1>1, <2>1 DEF IInv, ProgramTypeOK, Transactions
<1>5. \A tx \in mempool' : tx.by \in Programs =>
          \/ tx.by # p /\ tx \in mempool
          \/ /\ next.step = "confirm"
             /\ tx = [by |-> p, week |-> next.week, root |-> RootOf(next.week, next.entries)]
    <2>1. \A tx \in mempool : tx.by # p
        BY <1>1, NothingSent
    <2> HIDE DEF next
    <2> QED BY <1>1, <1>3, <2>1 DEF Tx
<1> HIDE DEF next
<1>6. /\ run' \in [Programs -> Runs]
      /\ \A q \in Programs : run'[q].step # "idle" => run'[q].week \in Weeks
      /\ Reported'
    <2>1. \A c \in completed' :
              c \in completed \/ (weekly[c.week].merkleRoot = c.root /\ c.root # {})
        BY <1>2
    <2> QED BY Zenon, <1>1, <1>2, <1>3, <1>5, <2>1, RunMoves
<1> QED BY <1>2, <1>4, <1>6 DEF IInv, ProgramTypeOK, Transactions

\* A run ends; what it has sent stays with the node, sent by nobody.
LEMMA RunEnds ==
    ASSUME IInv, UNCHANGED distributorVars, NEW p \in Programs, Goto(p, Idle),
           \A tx \in mempool' : tx.by \in Programs => tx.by # p /\ tx \in mempool,
           \A c \in completed' :
               c \in completed \/ (weekly[c.week].merkleRoot = c.root /\ c.root # {})
    PROVE  /\ run' \in [Programs -> Runs]
           /\ \A q \in Programs : run'[q].step # "idle" => run'[q].week \in Weeks
           /\ Reported'
<1> DEFINE next == Idle
<1>1. /\ Goto(p, next) /\ next \in Runs /\ next.receipt = "none"
      /\ next.step # "idle" => next.week \in Weeks
    BY IdleTyped
<1>2. \A tx \in mempool' : tx.by \in Programs =>
          \/ tx.by # p /\ tx \in mempool
          \/ /\ next.step = "confirm"
             /\ tx = [by |-> p, week |-> next.week, root |-> RootOf(next.week, next.entries)]
    OBVIOUS
<1> HIDE DEF next
<1> QED BY Zenon, <1>1, <1>2, RunMoves

LEMMA FailureKeeps ==
    ASSUME IInv, NEW p \in Programs, Failure(p)
    PROVE  ProgramTypeOK' /\ Reported'
<1>1. /\ Goto(p, Idle) /\ Fault
      /\ UNCHANGED distributorVars /\ UNCHANGED <<index, db, exported, toolRuns>>
      /\ completed' = completed
    BY DEF Failure, CallFails, SendAnswerLost, ConfirmationFails, Crash, Quiet
<1>2. mempool \subseteq Transactions
    BY DEF IInv, ProgramTypeOK, Transactions
<1>3. /\ mempool' \subseteq Transactions
      /\ \A tx \in mempool' : tx.by \in Programs => tx.by # p /\ tx \in mempool
    <2>1. CASE CallFails(p)
        <3>1. run[p].step # "confirm" /\ mempool' = mempool
            BY <2>1 DEF CallFails
        <3> QED BY <1>2, <3>1, NothingSent
    <2>2. CASE SendAnswerLost(p)
        <3>1. run[p].step = "publish" /\ mempool' = mempool \cup {Tx(p, Nobody)}
            BY <2>2 DEF SendAnswerLost
        <3>2. Tx(p, Nobody) \in Transactions
            BY <3>1, TxTyped DEF IInv
        <3>3. Tx(p, Nobody).by \notin Programs
            BY Different DEF Tx
        <3>4. \A tx \in mempool : tx.by # p
            BY <3>1, NothingSent
        <3> QED BY <1>2, <3>1, <3>2, <3>3, <3>4
    <2>3. CASE Crash(p)
        <3>1. mempool' = {IF tx.by = p THEN [tx EXCEPT !.by = Nobody] ELSE tx : tx \in mempool}
            BY <2>3 DEF Crash
        <3>2. ASSUME NEW tx \in mempool
              PROVE  /\ [tx EXCEPT !.by = Nobody] \in Transactions
                     /\ [tx EXCEPT !.by = Nobody].by \notin Programs
            BY <1>2, Different DEF Transactions
        <3> QED BY <1>2, <3>1, <3>2
    <2>4. CASE ConfirmationFails(p)
        <3>1. run[p].receipt # "none" /\ mempool' = mempool
            BY <2>4 DEF ConfirmationFails, ReceiptGood
        <3> QED BY <1>2, <3>1, NothingSent
    <2> QED BY <2>1, <2>2, <2>3, <2>4 DEF Failure
<1>4. /\ run' \in [Programs -> Runs]
      /\ \A q \in Programs : run'[q].step # "idle" => run'[q].week \in Weeks
      /\ Reported'
    <2>1. \A c \in completed' :
              c \in completed \/ (weekly[c.week].merkleRoot = c.root /\ c.root # {})
        BY <1>1
    <2> QED BY Zenon, <1>1, <1>3, <2>1, RunEnds
<1>5. faults' \in 0 .. MaxFaults
    BY <1>1, Counted DEF IInv
<1> QED BY <1>1, <1>3, <1>4, <1>5 DEF IInv, ProgramTypeOK, Transactions

LEMMA ConfirmedKeeps ==
    ASSUME IInv, NEW p \in Programs, Confirmed(p)
    PROVE  ProgramTypeOK' /\ Reported'
<1> DEFINE new == [week |-> run[p].week, root |-> Tx(p, p).root]
<1>1. /\ Goto(p, Idle) /\ run[p].step = "confirm" /\ run[p].receipt # "none"
      /\ UNCHANGED distributorVars
      /\ UNCHANGED <<index, db, mempool, exported, toolRuns, faults>>
      /\ completed' = IF run[p].receipt = "ok" THEN completed \cup {new} ELSE completed
    BY DEF Confirmed, Quiet, WaitOver, ReceiptGood
<1>2. run[p].receipt = "ok" => new \in [week : Weeks, root : Roots]
          /\ weekly[new.week].merkleRoot = new.root /\ new.root # {}
    <2> SUFFICES ASSUME run[p].receipt = "ok"
                 PROVE  new \in [week : Weeks, root : Roots]
                        /\ weekly[new.week].merkleRoot = new.root /\ new.root # {}
        OBVIOUS
    <2>1. run[p].week \in Weeks /\ Tx(p, p).root \in Roots
        BY <1>1, StepTyped DEF IInv, Tx
    <2>2. weekly[run[p].week].merkleRoot = Tx(p, p).root /\ Tx(p, p).root # {}
        BY DEF IInv, Reported, Good
    <2> QED BY <2>1, <2>2
<1> HIDE DEF new
<1>3. completed' \subseteq [week : Weeks, root : Roots]
    BY <1>1, <1>2 DEF IInv, ProgramTypeOK
<1>4. /\ run' \in [Programs -> Runs]
      /\ \A q \in Programs : run'[q].step # "idle" => run'[q].week \in Weeks
      /\ Reported'
    <2>1. \A tx \in mempool' : tx.by \in Programs => tx.by # p /\ tx \in mempool
        BY <1>1, NothingSent
    <2>2. \A c \in completed' :
              c \in completed \/ (weekly[c.week].merkleRoot = c.root /\ c.root # {})
        BY <1>1, <1>2
    <2> QED BY Zenon, <1>1, <2>1, <2>2, RunEnds
<1> QED BY <1>1, <1>3, <1>4 DEF IInv, ProgramTypeOK

LEMMA DropKeeps ==
    ASSUME IInv, NEW tx \in mempool, DropTx(tx)
    PROVE  ProgramTypeOK' /\ Reported'
<1>1. /\ UNCHANGED distributorVars /\ UNCHANGED <<index, db, run, exported, completed, toolRuns>>
      /\ mempool' = mempool \ {tx} /\ Fault
    BY DEF DropTx, Quiet
<1>2. faults' \in 0 .. MaxFaults
    BY <1>1, Counted DEF IInv
<1>3. Reported'
    BY <1>1 DEF IInv, Reported, Sent, Waits, Good, Done, CompletedIsPublished, Tx, distributorVars
<1> QED BY <1>1, <1>2, <1>3 DEF IInv, ProgramTypeOK

LEMMA MineKeeps ==
    ASSUME IInv, NEW tx \in mempool, Mine(tx)
    PROVE  DistributorInv' /\ KeepsPublished /\ ProgramTypeOK' /\ Reported'
<1>1. PICK status \in {"ok", "reverted"} :
          /\ Receipt(tx, status)
          /\ IF status = "ok" THEN publishRoot(KeeperKey, tx.week, tx.root, BPS_DENOMINATOR)
                              ELSE UNCHANGED distributorVars
    BY DEF Mine
<1>2. mempool' = mempool \ {tx} /\ UNCHANGED <<index, db, exported, completed, toolRuns, faults>>
    BY DEF Mine
<1>3. tx.week \in Weeks /\ tx.root \in Roots
    BY DEF IInv, ProgramTypeOK
<1>4. /\ DistributorInv' /\ KeepsPublished
      /\ status = "ok" => weekly'[tx.week].merkleRoot = tx.root /\ tx.root # {}
    <2>1. CASE status = "ok"
        BY <1>1, <1>3, <2>1, PublishKeeps DEF IInv
    <2>2. CASE status # "ok"
        <3>1. UNCHANGED distributorVars
            BY <1>1, <2>2
        <3>2. DistributorTypeOK' /\ clock' >= clock
            BY <3>1 DEF distributorVars, IInv, DistributorInv, DistributorTypeOK
        <3> QED BY <2>2, <3>1, <3>2, BooksUntouched DEF distributorVars, IInv
    <2> QED BY <2>1, <2>2
<1>5. run \in [Programs -> Runs]
    BY DEF IInv, ProgramTypeOK
<1>6. \A p \in Programs :
          run'[p] = IF p = tx.by THEN [run[p] EXCEPT !.receipt = status] ELSE run[p]
    BY <1>1 DEF Receipt
<1>7. \A p \in Programs : /\ run'[p] \in Runs /\ run'[p].step = run[p].step
                          /\ run'[p].week = run[p].week /\ run'[p].entries = run[p].entries
                          /\ run'[p].receipt = IF p = tx.by THEN status ELSE run[p].receipt
    BY <1>5, <1>6 DEF Runs
<1>8. run' \in [Programs -> Runs]
    BY <1>1, <1>7 DEF Receipt
<1>9. \A p \in Programs : Tx(p, p)' = Tx(p, p)
    BY <1>7 DEF Tx
<1>10. Sent'
    <2> SUFFICES ASSUME NEW t \in mempool', t.by \in Programs
                 PROVE  /\ run'[t.by].step = "confirm" /\ run'[t.by].receipt = "none"
                        /\ t = Tx(t.by, t.by)'
        BY DEF Sent
    <2>1. t \in mempool /\ t # tx
        BY <1>2
    <2>2. run[t.by].step = "confirm" /\ run[t.by].receipt = "none" /\ t = Tx(t.by, t.by)
        BY <2>1 DEF IInv, Reported, Sent
    <2>3. t.by # tx.by
        <3> SUFFICES ASSUME t.by = tx.by PROVE FALSE
            OBVIOUS
        <3>1. tx = Tx(tx.by, tx.by)
            BY DEF IInv, Reported, Sent
        <3> QED BY <2>1, <2>2, <3>1
    <2> QED BY <1>7, <1>9, <2>2, <2>3
<1>11. Waits'
    <2> SUFFICES ASSUME NEW p \in Programs, run'[p].receipt # "none"
                 PROVE  run'[p].step = "confirm"
        BY DEF Waits
    <2>1. CASE p = tx.by
        BY <1>7, <2>1 DEF IInv, Reported, Sent
    <2>2. CASE p # tx.by
        BY <1>7, <2>2 DEF IInv, Reported, Waits
    <2> QED BY <2>1, <2>2
<1>12. Good'
    <2> SUFFICES ASSUME NEW p \in Programs, run'[p].receipt = "ok"
                 PROVE  weekly'[run[p].week].merkleRoot = Tx(p, p).root /\ Tx(p, p).root # {}
        BY <1>7, <1>9 DEF Good
    <2>1. CASE p = tx.by
        <3>1. tx = Tx(p, p) /\ status = "ok"
            BY <1>7, <2>1 DEF IInv, Reported, Sent
        <3>2. tx.week = run[p].week
            BY <3>1 DEF Tx
        <3> QED BY <1>4, <3>1, <3>2
    <2>2. CASE p # tx.by
        <3>1. run[p].receipt = "ok"
            BY <1>7, <2>2
        <3>2. weekly[run[p].week].merkleRoot = Tx(p, p).root /\ Tx(p, p).root # {}
            BY <3>1 DEF IInv, Reported, Good
        <3>3. run[p].week \in Weeks
            BY <3>1 DEF IInv, Reported, Waits, ProgramTypeOK
        <3> QED BY <1>4, <3>2, <3>3 DEF KeepsPublished
    <2> QED BY <2>1, <2>2
<1>13. Done'
    BY <1>2, <1>4 DEF IInv, Reported, Done, CompletedIsPublished, KeepsPublished, ProgramTypeOK
<1>14. ProgramTypeOK'
    BY <1>2, <1>7, <1>8 DEF IInv, ProgramTypeOK
<1> QED BY <1>4, <1>10, <1>11, <1>12, <1>13, <1>14 DEF Reported

-----------------------------------------------------------------------------
(***************************************************************************)
(* The whole.                                                              *)
(***************************************************************************)
LEMMA Initially == Init => IInv
<1> SUFFICES ASSUME Init PROVE IInv
    OBVIOUS
<1> USE DEF Init, DistributorInit
<1>1. DistributorTypeOK
    <2>1. Unpublished \in WeeklyRewards
        BY DEF Unpublished, WeeklyRewards, Roots, BPS_DENOMINATOR
    <2> HIDE DEF Unpublished
    <2>2. clock \in Nat /\ VestingPeriod \in Nat
        BY RewardsAssumption, DistributorAssumption
    <2> QED BY <2>1, <2>2 DEF DistributorTypeOK
<1>2. Timed /\ PaidWithinRoot
    BY RewardsAssumption DEF Timed, PaidWithinRoot, Unpublished
<1>3. ProgramTypeOK
    <2>1. \A w \in Weeks : index[w] \in DOMAIN Reports[w]
        BY ReportsAssumption
    <2>2. db \in [Weeks -> Roots]
        BY DEF Roots
    <2>3. run \in [Programs -> Runs] /\ \A p \in Programs : run[p].step = "idle"
        BY IdleTyped
    <2>4. toolRuns \in 0 .. MaxToolRuns /\ faults \in 0 .. MaxFaults
        BY RewardsAssumption
    <2> QED BY <2>1, <2>2, <2>3, <2>4 DEF ProgramTypeOK
<1>4. Reported
    BY IdleTyped DEF Reported, Sent, Waits, Good, Done, CompletedIsPublished
<1>5. ClaimBooksAgree
    <2> DEFINE g == [w \in Weeks |-> weekly[w].claimedAmount]
    <2>1. IsFiniteSet(Users) /\ IsFiniteSet(Weeks)
        BY DistributorAssumption
    <2>2. \A w \in Weeks : weekly[w].claimedAmount = 0
        BY DEF Unpublished
    <2>3. ASSUME NEW w \in Weeks PROVE SumFunction([u \in Users |-> claimed[u][w]]) = 0
        <3> DEFINE h == [u \in Users |-> claimed[u][w]]
        <3>1. DOMAIN h = Users /\ \A u \in Users : h[u] = 0
            OBVIOUS
        <3> HIDE DEF h
        <3>2. SumFunctionOnSet(h, Users) = 0
            BY <2>1, <3>1, SumZero
        <3>3. SumFunction(h) = 0
            BY <3>1, <3>2 DEF SumFunction
        <3> QED BY <3>3 DEF h
    <2>4. SumFunction([w \in Weeks |-> weekly[w].claimedAmount]) = 0
        <3>1. DOMAIN g = Weeks /\ \A w \in Weeks : g[w] = 0
            BY <2>2
        <3> HIDE DEF g
        <3>2. SumFunctionOnSet(g, Weeks) = 0
            BY <2>1, <3>1, SumZero
        <3>3. SumFunction(g) = 0
            BY <3>1, <3>2 DEF SumFunction
        <3> QED BY <3>3 DEF g
    <2> QED BY <2>2, <2>3, <2>4 DEF ClaimBooksAgree
<1> QED BY <1>1, <1>2, <1>3, <1>4, <1>5 DEF IInv, DistributorInv

LEMMA ContractStep ==
    ASSUME IInv, Tick \/ ContractCalls \/ UNCHANGED vars
    PROVE  IInv' /\ KeepsPublished
<1>1. UNCHANGED backVars
    BY DEF Tick, ContractCalls, vars
<1>2. DistributorInv' /\ KeepsPublished
    <2>1. CASE ContractCalls
        <3>1. CASE UserClaims
            BY <3>1, ClaimsKeep DEF IInv
        <3>2. CASE OwnerCalls \/ \E a \in Amounts : Fund(a)
            BY <3>2, OwnerKeeps DEF IInv
        <3>3. CASE \E w \in Weeks, root \in HandRoots, bps \in Scales : publishRoot(Owner, w, root, bps)
            <4>1. PICK w \in Weeks, root \in HandRoots, bps \in Scales : publishRoot(Owner, w, root, bps)
                BY <3>3
            <4>2. root \in Roots
                BY ReportsAssumption
            <4> QED BY <4>1, <4>2, PublishKeeps DEF IInv
        <3> QED BY <2>1, <3>1, <3>2, <3>3 DEF ContractCalls
    <2>2. CASE Tick
        <3>1. clock' = clock + 1 /\ clock \in Nat /\ UNCHANGED <<weekly, currentWeek, moneyVars, adminVars>>
            BY <2>2 DEF Tick, IInv, DistributorInv, DistributorTypeOK
        <3>2. DistributorTypeOK'
            BY <3>1 DEF IInv, DistributorInv, DistributorTypeOK, moneyVars, adminVars
        <3> QED BY <3>1, <3>2, BooksUntouched DEF IInv, moneyVars
    <2>3. CASE UNCHANGED vars
        <3>1. UNCHANGED distributorVars /\ clock \in Nat
            BY <2>3 DEF vars, IInv, DistributorInv, DistributorTypeOK
        <3>2. DistributorTypeOK' /\ clock' >= clock
            BY <3>1 DEF distributorVars, IInv, DistributorInv, DistributorTypeOK
        <3> QED BY <3>1, <3>2, BooksUntouched DEF distributorVars, IInv
    <2> QED BY <2>1, <2>2, <2>3
<1> QED BY <1>1, <1>2, ReportsKept DEF IInv

LEMMA ProgramStep ==
    ASSUME IInv,
           \/ TaskStarts
           \/ \E w \in Weeks : IndexMoves(w) \/ ToolStarts(w)
           \/ \E p \in Programs : ProgramSteps(p) \/ Failure(p)
           \/ \E tx \in mempool : DropTx(tx)
    PROVE  IInv' /\ UNCHANGED distributorVars
<1>1. ProgramTypeOK' /\ Reported' /\ UNCHANGED distributorVars
    <2>1. CASE TaskStarts \/ \E w \in Weeks : ToolStarts(w)
        BY <2>1, StartsKeep DEF TaskStarts, ToolStarts, Quiet
    <2>2. CASE \E w \in Weeks : IndexMoves(w)
        BY <2>2, IndexKeeps DEF IndexMoves
    <2>3. CASE \E p \in Programs : ProgramSteps(p)
        <3>1. PICK p \in Programs : ProgramSteps(p)
            BY <2>3
        <3>2. CASE Aggregates(p)
            BY <3>2, AggregatesKeeps DEF Aggregates, Quiet
        <3>3. CASE SaveDistribution(p)
            BY <3>3, SaveKeeps DEF SaveDistribution, Quiet
        <3>4. CASE PublishRoot(p)
            BY <3>4, PublishRootKeeps DEF PublishRoot, Quiet
        <3>5. CASE Confirmed(p)
            BY <3>5, ConfirmedKeeps DEF Confirmed, Quiet
        <3>6. CASE \E output, publishes \in BOOLEAN : ExportDistribution(output, publishes)
            BY <3>6, ExportKeeps DEF ExportDistribution, Quiet
        <3> QED BY <3>1, <3>2, <3>3, <3>4, <3>5, <3>6 DEF ProgramSteps
    <2>4. CASE \E p \in Programs : Failure(p)
        BY <2>4, FailureKeeps DEF Failure, CallFails, SendAnswerLost, ConfirmationFails, Crash, Quiet
    <2>5. CASE \E tx \in mempool : DropTx(tx)
        BY <2>5, DropKeeps DEF DropTx, Quiet
    <2> QED BY <2>1, <2>2, <2>3, <2>4, <2>5
<1>2. DistributorInv'
    <2>1. UNCHANGED distributorVars /\ clock \in Nat
        BY <1>1 DEF IInv, DistributorInv, DistributorTypeOK
    <2>2. DistributorTypeOK' /\ clock' >= clock
        BY <2>1 DEF distributorVars, IInv, DistributorInv, DistributorTypeOK
    <2> QED BY <2>1, <2>2, BooksUntouched DEF distributorVars, IInv
<1> QED BY <1>1, <1>2 DEF IInv

LEMMA EveryStep ==
    ASSUME IInv, [Next]_vars
    PROVE  IInv' /\ [KeepsPublished]_distributorVars
<1>1. CASE Tick \/ ContractCalls \/ UNCHANGED vars
    BY <1>1, ContractStep
<1>2. CASE \E tx \in mempool : Mine(tx)
    BY <1>2, MineKeeps DEF IInv
<1>3. CASE \/ TaskStarts
           \/ \E w \in Weeks : IndexMoves(w) \/ ToolStarts(w)
           \/ \E p \in Programs : ProgramSteps(p) \/ Failure(p)
           \/ \E tx \in mempool : DropTx(tx)
    BY <1>3, ProgramStep
<1> QED BY <1>1, <1>2, <1>3 DEF Next

THEOREM Inductive == Spec => []IInv
<1>1. IInv /\ [Next]_vars => IInv'
    BY EveryStep
<1> QED BY <1>1, Initially, PTL DEF Spec

\* Every reward, root, counter and run of the contract and of the two programs
\* has its type, whatever the index reports and whichever calls fail.
THEOREM TypeCorrect == Spec => []TypeOK
<1>1. IInv => TypeOK
    BY DEF IInv, DistributorInv, ProgramTypeOK, TypeOK
<1> QED BY <1>1, Inductive, PTL

\* claim and batchClaim pay a user for a week at most the scaled amount of one
\* of his leaves under the root that publishRoot has stored.
THEOREM PaidWithinRootCorrect == Spec => []PaidWithinRoot
<1>1. IInv => PaidWithinRoot
    BY DEF IInv, DistributorInv
<1> QED BY <1>1, Inductive, PTL

\* claim and batchClaim keep three books, the record of the user, the total of
\* the week and the tokens that leave: they agree after any calls.
THEOREM ClaimBooksAgreeCorrect == Spec => []ClaimBooksAgree
<1>1. IInv => ClaimBooksAgree
    BY DEF IInv, DistributorInv
<1> QED BY <1>1, Inductive, PTL

\* A run of the task or of the command that succeeds has published its root.
THEOREM CompletedIsPublishedCorrect == Spec => []CompletedIsPublished
<1>1. IInv => CompletedIsPublished
    BY DEF IInv, Reported, Done
<1> QED BY <1>1, Inductive, PTL

\* No call of the contract and no step of a program changes a published root or
\* what a user was paid for a week.
THEOREM PublishedIsFinalCorrect == Spec => PublishedIsFinal
<1>1. IInv /\ [Next]_vars => [KeepsPublished]_distributorVars
    BY EveryStep
<1> QED BY <1>1, Inductive, PTL DEF Spec, PublishedIsFinal

=============================================================================
