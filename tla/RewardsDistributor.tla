------------------------- MODULE RewardsDistributor -------------------------
(***************************************************************************)
(* The contract that pays the weekly rewards                               *)
(* (contracts/src/core/RewardsDistributor.sol).                            *)
(*                                                                         *)
(* A Merkle root stands for the set of its leaves: module Merkle shows     *)
(* that the proofs built with a tree verify, and here a proof verifies for *)
(* the leaves of the root and for nothing else.  The zero root is the      *)
(* empty set.  A leaf is <<user, word, word>>, the arguments of abi.encode.*)
(***************************************************************************)
EXTENDS Integers, FiniteSetsExt

CONSTANTS
    Users,
    Weeks,          \* week numbers
    Callers,        \* addresses that call publishRoot
    Owner,          \* owner() of the contract
    VestingPeriod,  \* DEFAULT_VESTING_DURATION, in units of the clock
    Scales,         \* values of scaleBps that callers pass
    Amounts,        \* values of amount in leaves and claims
    Budget          \* reward tokens in existence

ASSUME DistributorAssumption ==
    /\ Owner \in Callers
    /\ VestingPeriod \in Nat \ {0}
    /\ Scales \subseteq Nat
    /\ Amounts \subseteq Nat
    /\ Weeks \subseteq Nat
    /\ Budget \in Nat
    /\ IsFiniteSet(Users) /\ IsFiniteSet(Weeks)

BPS_DENOMINATOR == 10000
MIN_SCALE_BPS   == 1000

VARIABLES
    clock,        \* block.timestamp
    weekly,       \* weeklyRewards
    claimed,      \* claimed[user][week]
    currentWeek,
    vesting,      \* vestingConfig
    isPublisher,  \* the addresses with isPublisher
    paused,
    funds,        \* rewardToken.balanceOf(this)
    received      \* tokens users have got, the treasury's part of Budget apart

adminVars == <<vesting, isPublisher, paused>>
moneyVars == <<claimed, funds, received>>
distributorVars == <<clock, weekly, claimed, currentWeek, vesting, isPublisher,
                     paused, funds, received>>

Roots == SUBSET (Users \X Nat \X Nat)

WeeklyRewards == [merkleRoot : Roots, scaleBps : 0 .. BPS_DENOMINATOR,
                  publishedAt : Nat, claimedAmount : Nat]

Unpublished == [merkleRoot |-> {}, scaleBps |-> 0, publishedAt |-> 0, claimedAmount |-> 0]

DistributorInit ==
    /\ weekly = [w \in Weeks |-> Unpublished]
    /\ claimed = [u \in Users |-> [w \in Weeks |-> 0]]
    /\ currentWeek = 0
    /\ vesting = [enabled |-> TRUE, duration |-> VestingPeriod]
    /\ isPublisher = {}
    /\ paused = FALSE
    /\ funds = 0
    /\ received = 0

-----------------------------------------------------------------------------
\* Mutant: WeekAlreadyPublished is not checked.
OpenAlways(w) == TRUE

Open(w) == weekly[w].merkleRoot = {}

MayPublish(caller, w, root, scale) ==
    /\ ~paused
    /\ caller \in isPublisher \cup {Owner}
    /\ root # {}
    /\ scale \in MIN_SCALE_BPS .. BPS_DENOMINATOR
    /\ Open(w)

publishRoot(caller, w, root, scale) ==
    /\ MayPublish(caller, w, root, scale)
    /\ weekly' = [weekly EXCEPT ![w] =
           [merkleRoot |-> root, scaleBps |-> scale, publishedAt |-> clock, claimedAmount |-> 0]]
    /\ currentWeek' = IF w >= currentWeek THEN w + 1 ELSE currentWeek
    /\ UNCHANGED <<clock, moneyVars, adminVars>>

Scaled(w, amount) == (amount * weekly[w].scaleBps) \div BPS_DENOMINATOR

\* Mutant: the vested part grows on after the end of the period.
ClaimableUncapped(w, amount) ==
    IF vesting.enabled
    THEN (amount * weekly[w].scaleBps * (clock - weekly[w].publishedAt))
             \div (BPS_DENOMINATOR * vesting.duration)
    ELSE Scaled(w, amount)

\* What a claim made now pays: getClaimable and _claim compute the same.
Claimable(w, amount) ==
    LET elapsed == clock - weekly[w].publishedAt
    IN IF vesting.enabled /\ elapsed < vesting.duration
       THEN (amount * weekly[w].scaleBps * elapsed) \div (BPS_DENOMINATOR * vesting.duration)
       ELSE Scaled(w, amount)

\* The proof of this leaf verifies against the week's root.
Proves(u, w, amount) == <<u, w, amount>> \in weekly[w].merkleRoot

Unclaimed(u, w) == claimed[u][w] = 0

MayClaim(u, w, amount) == ~paused /\ Unclaimed(u, w) /\ Proves(u, w, amount)

\* Mutant: only the user's own record is written.
PayUncounted(u, paid, total) ==
    /\ funds >= total
    /\ claimed' = [claimed EXCEPT ![u] =
           [w \in Weeks |-> IF w \in DOMAIN paid THEN paid[w] ELSE @[w]]]
    /\ funds' = funds - total
    /\ received' = received + total
    /\ UNCHANGED <<clock, weekly, currentWeek, adminVars>>

\* The records and the transfer of claims; paid is a function from weeks.
Pay(u, paid, total) ==
    /\ funds >= total
    /\ claimed' = [claimed EXCEPT ![u] =
           [w \in Weeks |-> IF w \in DOMAIN paid THEN paid[w] ELSE @[w]]]
    /\ weekly' = [w \in Weeks |->
           IF w \in DOMAIN paid
           THEN [weekly[w] EXCEPT !.claimedAmount = @ + paid[w]] ELSE weekly[w]]
    /\ funds' = funds - total
    /\ received' = received + total
    /\ UNCHANGED <<clock, currentWeek, adminVars>>

claim(u, w, amount) ==
    /\ MayClaim(u, w, amount)
    /\ Pay(u, [x \in {w} |-> Claimable(w, amount)], Claimable(w, amount))

\* A batch of two weeks, both or none.  A week that is named twice reverts
\* unless it pays nothing; a longer batch only adds more of the same.
batchClaim(u, v, a, w, b) ==
    /\ v # w
    /\ MayClaim(u, v, a) /\ MayClaim(u, w, b)
    /\ Pay(u, [x \in {v, w} |-> IF x = v THEN Claimable(v, a) ELSE Claimable(w, b)],
           Claimable(v, a) + Claimable(w, b))

-----------------------------------------------------------------------------
\* Calls of the owner.
setPublisher(a, enabled) ==
    /\ isPublisher' = IF enabled THEN isPublisher \cup {a} ELSE isPublisher \ {a}
    /\ UNCHANGED <<clock, weekly, currentWeek, vesting, paused, moneyVars>>

setVestingConfig(enabled, duration) ==
    /\ enabled => duration # 0
    /\ vesting' = [enabled |-> enabled, duration |-> duration]
    /\ UNCHANGED <<clock, weekly, currentWeek, isPublisher, paused, moneyVars>>

setPaused(value) ==
    /\ paused' = value /\ paused # value
    /\ UNCHANGED <<clock, weekly, currentWeek, vesting, isPublisher, moneyVars>>

emergencyWithdraw(amount) ==
    /\ funds >= amount
    /\ funds' = funds - amount
    /\ UNCHANGED <<clock, weekly, currentWeek, claimed, received, adminVars>>

\* Anyone sends reward tokens to the contract.
Fund(amount) ==
    /\ funds + received + amount <= Budget
    /\ funds' = funds + amount
    /\ UNCHANGED <<clock, weekly, currentWeek, claimed, received, adminVars>>

UserClaims ==
    \E u \in Users, w \in Weeks, a \in Amounts :
        \/ claim(u, w, a)
        \/ \E v \in Weeks, b \in Amounts : batchClaim(u, v, b, w, a)

OwnerCalls ==
    \/ \E a \in Callers, enabled \in BOOLEAN : setPublisher(a, enabled)
    \/ \E enabled \in BOOLEAN, d \in {0, VestingPeriod} : setVestingConfig(enabled, d)
    \/ \E value \in BOOLEAN : setPaused(value)
    \/ \E a \in Amounts : emergencyWithdraw(a)

-----------------------------------------------------------------------------
DistributorTypeOK ==
    /\ clock \in Nat
    /\ weekly \in [Weeks -> WeeklyRewards]
    /\ claimed \in [Users -> [Weeks -> Nat]]
    /\ currentWeek \in Nat
    /\ vesting \in [enabled : BOOLEAN, duration : Nat]
    /\ isPublisher \subseteq Callers
    /\ paused \in BOOLEAN
    /\ funds \in Nat
    /\ received \in Nat

\* RewardsDistributor.sol:305 to :330, whatever the order of claims, batches,
\* changes of the vesting and withdrawals: nobody is paid for a week more than
\* the scaled amount of one of his leaves in the root that is published for it.
PaidWithinRoot ==
    \A u \in Users, w \in Weeks : claimed[u][w] > 0 =>
        \E leaf \in weekly[w].merkleRoot :
            leaf[1] = u /\ leaf[2] = w /\ claimed[u][w] <= Scaled(w, leaf[3])

\* The three books of the contract agree: what the weeks say was claimed, what
\* the users are recorded with, and the tokens that have left as rewards.
ClaimBooksAgree ==
    /\ \A w \in Weeks :
           weekly[w].claimedAmount = SumFunction([u \in Users |-> claimed[u][w]])
    /\ received = SumFunction([w \in Weeks |-> weekly[w].claimedAmount])

\* Nothing of a published week changes, nor what a user was paid for a week.
KeepsPublished ==
    /\ \A w \in Weeks : weekly[w].merkleRoot # {} =>
           /\ weekly'[w].merkleRoot = weekly[w].merkleRoot
           /\ weekly'[w].scaleBps = weekly[w].scaleBps
           /\ weekly'[w].publishedAt = weekly[w].publishedAt
    /\ \A u \in Users, w \in Weeks :
           claimed[u][w] > 0 => claimed'[u][w] = claimed[u][w]

\* A published root and its scale are there for good, and so is what a user was
\* paid: with the linear release a user who claims early has given up the rest.
PublishedIsFinal == [][KeepsPublished]_distributorVars
=============================================================================
