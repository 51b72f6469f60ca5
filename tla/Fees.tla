-------------------------------- MODULE Fees --------------------------------
(***************************************************************************)
(* Fees of bets: the router that shares them out (core/FeeRouter.sol), the *)
(* registry of who referred whom (core/ReferralRegistry.sol) and the       *)
(* parameters that the router may read its shares from (module Params).    *)
(*                                                                         *)
(* One token and one registry; the four recipients are the pots of the     *)
(* router's books, and their addresses are left out.  The initial state is *)
(* the one that script/Deploy_V3.s.sol leaves.                             *)
(***************************************************************************)
EXTENDS Params, FiniteSetsExt, SequencesExt

CONSTANTS
    Users,          \* addresses of the registry's books
    Router,         \* the router's own: anyone may name it as the referrer
    Blocked,        \* users that the token refuses to pay
    NoOne,          \* address(0)
    FeeAmounts,     \* fees that callers pass
    BetAmounts,     \* amounts of the bets the fees belong to
    Splits,         \* shares that the owner passes to setFeeSplit
    Windows,        \* values of validityWindow, and the first of them
    FirstWindow,
    Volumes,        \* values of minValidVolume, and the first of them
    FirstVolume,
    ReferralBps,    \* values of referralFeeBps that the owner passes
    MaxBatch,       \* entries of a batch, 100 in the code
    MaxReceived,    \* bound on the fees and on stray tokens
    MaxVolume       \* bound on a user's volume and on the owner's entries

BPS_DENOMINATOR  == 10000
MAX_REFERRAL_BPS == 2000

Pools == {"lp", "promo", "insurance"}
Parts == Pools \cup {"treasury"}
Pots  == Parts \cup {"referral"}

ASSUME FeesAssumption ==
    /\ Router \in Users /\ Blocked \subseteq Users /\ NoOne \notin Users /\ IsFiniteSet(Users)
    /\ FeeAmounts \subseteq Nat /\ BetAmounts \subseteq Nat /\ ReferralBps \subseteq Nat
    /\ Splits \subseteq [Parts -> Nat]
    /\ Windows \subseteq Nat /\ FirstWindow \in Windows
    /\ Volumes \subseteq Nat /\ FirstVolume \in Volumes
    /\ MaxBatch \in Nat

DefaultSplit == [lp |-> 4000, promo |-> 3000, insurance |-> 1000, treasury |-> 2000]

VARIABLES
    referrer, referralCount, boundAt,
    userTotalVolume,
    totalReferralRewards,
    terms,                  \* validityWindow, minValidVolume, referralFeeBps
    authorized,             \* authorizedCallers[the router]
    bindingPaused,          \* ReferralRegistry.paused()
    feeSplit,
    controllerSet,          \* paramController # address(0)
    useParamController,     \* useParamControllerForSplit
    routerPaused,
    totalFeesReceived,
    totalFeesDistributed,
    balance,                \* token.balanceOf(the router)
    stray,                  \* tokens sent to the router by plain transfers, or as
                            \* rebates of its own
    withdrawn               \* tokens taken by emergencyWithdraw

bindVars  == <<referrer, referralCount, boundAt>>
termVars  == <<terms, authorized, bindingPaused>>
splitVars == <<feeSplit, controllerSet, useParamController, routerPaused>>
strayVars == <<stray, withdrawn>>
bookVars  == <<userTotalVolume, totalReferralRewards, totalFeesReceived,
               totalFeesDistributed, balance>>
feesVars  == <<bindVars, termVars, splitVars, strayVars, bookVars>>
vars      == <<paramsVars, feesVars>>

Init ==
    /\ ParamsInit
    /\ referrer = [u \in Users |-> NoOne]
    /\ referralCount = [u \in Users |-> 0]
    /\ boundAt = [u \in Users |-> 0]
    /\ userTotalVolume = [u \in Users |-> 0]
    /\ totalReferralRewards = [u \in Users |-> 0]
    /\ terms = [validityWindow |-> FirstWindow, minValidVolume |-> FirstVolume,
                referralFeeBps |-> 800]
    /\ authorized = TRUE
    /\ bindingPaused = FALSE
    /\ feeSplit = DefaultSplit
    /\ controllerSet = TRUE
    /\ useParamController = FALSE
    /\ routerPaused = FALSE
    /\ totalFeesReceived = 0
    /\ totalFeesDistributed = [p \in Pots |-> 0]
    /\ balance = 0 /\ stray = 0 /\ withdrawn = 0

-----------------------------------------------------------------------------
(***************************************************************************)
(* The registry.                                                           *)
(***************************************************************************)
\* Mutant: the referrer's own referrer is not looked at.
MayBindAnyone(user, to) == referrer[user] = NoOne /\ to # user

MayBind(user, to) ==
    /\ referrer[user] = NoOne
    /\ to # user
    /\ referrer[to] # user

bind(user, to) ==
    /\ ~bindingPaused
    /\ MayBind(user, to)
    /\ referrer' = [referrer EXCEPT ![user] = to]
    /\ referralCount' = [referralCount EXCEPT ![to] = @ + 1]
    /\ boundAt' = [boundAt EXCEPT ![user] = clock]
    /\ UNCHANGED <<paramsVars, termVars, splitVars, strayVars, bookVars>>

emergencyUnbind(user) ==
    /\ referrer[user] # NoOne
    /\ referralCount' = [referralCount EXCEPT ![referrer[user]] = @ - 1]
    /\ referrer' = [referrer EXCEPT ![user] = NoOne]
    /\ boundAt' = [boundAt EXCEPT ![user] = 0]
    /\ UNCHANGED <<paramsVars, termVars, splitVars, strayVars, bookVars>>

\* The owner may call what the router calls.
ownerUpdatesUserVolume(user, amount) ==
    /\ userTotalVolume[user] + amount <= MaxVolume
    /\ userTotalVolume' = [userTotalVolume EXCEPT ![user] = @ + amount]
    /\ UNCHANGED <<paramsVars, bindVars, termVars, splitVars, strayVars,
                   totalReferralRewards, totalFeesReceived, totalFeesDistributed, balance>>

ownerAccruesReferralReward(to, amount) ==
    /\ totalReferralRewards[to] + amount <= MaxVolume
    /\ totalReferralRewards' = [totalReferralRewards EXCEPT ![to] = @ + amount]
    /\ UNCHANGED <<paramsVars, bindVars, termVars, splitVars, strayVars,
                   userTotalVolume, totalFeesReceived, totalFeesDistributed, balance>>

\* Mutant: the rebate is not limited.
AnyReferralFee(bps) == TRUE

ReferralFeeAllowed(bps) == bps <= MAX_REFERRAL_BPS

\* setValidityWindow, setMinValidVolume and setReferralFeeBps.
setTerm(term, value) ==
    /\ term = "referralFeeBps" => ReferralFeeAllowed(value)
    /\ terms' = [terms EXCEPT ![term] = value]
    /\ UNCHANGED <<paramsVars, bindVars, authorized, bindingPaused, splitVars, strayVars,
                   bookVars>>

setAuthorizedCaller(on) ==
    /\ authorized' = on
    /\ UNCHANGED <<paramsVars, bindVars, terms, bindingPaused, splitVars, strayVars, bookVars>>

setBindingPaused(on) ==
    /\ bindingPaused # on
    /\ bindingPaused' = on
    /\ UNCHANGED <<paramsVars, bindVars, terms, authorized, splitVars, strayVars, bookVars>>

-----------------------------------------------------------------------------
(***************************************************************************)
(* The router.                                                             *)
(***************************************************************************)
isReferralValid(user, volume) ==
    /\ referrer[user] # NoOne
    /\ clock <= boundAt[user] + terms.validityWindow
    /\ volume >= terms.minValidVolume

\* referralAmount, for a user who has bet volume in all.
Rebate(user, volume, amount) ==
    IF isReferralValid(user, volume)
    THEN (amount * terms.referralFeeBps) \div BPS_DENOMINATOR
    ELSE 0

ParamSplit == [part \in Parts |-> tryGetParam(part, feeSplit[part])]

getEffectiveFeeSplit(part) ==
    IF useParamController /\ controllerSet
    THEN tryGetParam(part, feeSplit[part])
    ELSE feeSplit[part]

OfParts(f) == f["lp"] + f["promo"] + f["insurance"] + f["treasury"]

Whole(split) == OfParts(split) = BPS_DENOMINATOR

PoolShare(pool, rest) == (rest * getEffectiveFeeSplit(pool)) \div BPS_DENOMINATOR

PoolShares(rest) ==
    PoolShare("lp", rest) + PoolShare("promo", rest) + PoolShare("insurance", rest)

\* What each pot gets of a fee; the treasury gets what the floors leave.
Shares(rebate, amount) ==
    LET rest == amount - rebate
    IN [pot \in Pots |-> CASE pot \in Pools -> PoolShare(pot, rest)
                           [] pot = "treasury" -> rest - PoolShares(rest)
                           [] OTHER -> rebate]

\* The transfer to the referrer, its entry in the registry and the
\* treasury's subtraction can each revert.
Reverts(user, rebate, amount) ==
    \/ rebate > 0 /\ (referrer[user] \in Blocked \/ ~authorized)
    \/ PoolShares(amount - rebate) > amount - rebate

\* The router's books after it received amount and paid the parts into the
\* pots.  A rebate of the router itself is a transfer to itself.
Account(amount, parts) ==
    LET own == totalReferralRewards'[Router] - totalReferralRewards[Router] IN
    /\ totalFeesReceived' = totalFeesReceived + amount
    /\ totalFeesDistributed' = [pot \in Pots |-> totalFeesDistributed[pot] + parts[pot]]
    /\ balance' = balance + amount - OfParts(parts) - parts["referral"] + own
    /\ stray' = stray + own
    /\ UNCHANGED withdrawn

routeFee(from, feeAmount, betAmount) ==
    LET volume == userTotalVolume[from] + betAmount
        rebate == Rebate(from, volume, feeAmount)
    IN /\ ~routerPaused
       /\ feeAmount > 0
       /\ totalFeesReceived + feeAmount <= MaxReceived /\ volume <= MaxVolume
       /\ betAmount > 0 => authorized
       /\ ~Reverts(from, rebate, feeAmount)
       /\ userTotalVolume' = [userTotalVolume EXCEPT ![from] = volume]
       /\ totalReferralRewards' = [u \in Users |->
              totalReferralRewards[u] + IF u = referrer[from] THEN rebate ELSE 0]
       /\ Account(feeAmount, Shares(rebate, feeAmount))
       /\ UNCHANGED <<paramsVars, bindVars, termVars, splitVars>>

\* Mutant: the amounts of failed entries stay in the router.
KeepFailed(entries, failed) == 0

\* What the treasury gets for the entries whose processing reverted.
FailedTotal(entries, failed) == SumFunction([i \in failed |-> entries[i].amount])

\* The entries are processed by calls of the router to itself: one that
\* reverts takes its own rebate back and leaves the others.
batchRouteFee(entries) ==
    LET rebate == [i \in DOMAIN entries |->
            Rebate(entries[i].user, userTotalVolume[entries[i].user], entries[i].amount)]
        failed == {i \in DOMAIN entries :
            Reverts(entries[i].user, rebate[i], entries[i].amount)}
        done == DOMAIN entries \ failed
        total == SumFunction([i \in DOMAIN entries |-> entries[i].amount])
        share == [i \in done |-> Shares(rebate[i], entries[i].amount)]
        parts == [pot \in Pots |->
            SumFunction([i \in done |-> share[i][pot]])
            + IF pot = "treasury" THEN FailedTotal(entries, failed) ELSE 0]
    IN /\ ~routerPaused
       /\ totalFeesReceived + total <= MaxReceived
       /\ totalReferralRewards' = [u \in Users |-> totalReferralRewards[u]
              + SumFunction([i \in {j \in done : referrer[entries[j].user] = u} |-> rebate[i]])]
       /\ Account(total, parts)
       /\ UNCHANGED <<paramsVars, bindVars, termVars, splitVars, userTotalVolume>>

setFeeSplit(split) ==
    /\ Whole(split)
    /\ feeSplit' = split
    /\ UNCHANGED <<paramsVars, bindVars, termVars, controllerSet, useParamController,
                   routerPaused, strayVars, bookVars>>

syncFeeSplitFromParams ==
    /\ controllerSet
    /\ Whole(ParamSplit)
    /\ feeSplit' = ParamSplit
    /\ UNCHANGED <<paramsVars, bindVars, termVars, controllerSet, useParamController,
                   routerPaused, strayVars, bookVars>>

setParamController(set, use) ==
    /\ controllerSet' = set
    /\ useParamController' = use
    /\ UNCHANGED <<paramsVars, bindVars, termVars, feeSplit, routerPaused, strayVars, bookVars>>

setRouterPaused(on) ==
    /\ routerPaused # on
    /\ routerPaused' = on
    /\ UNCHANGED <<paramsVars, bindVars, termVars, feeSplit, controllerSet,
                   useParamController, strayVars, bookVars>>

emergencyWithdraw(amount) ==
    /\ amount \in 1 .. balance
    /\ balance' = balance - amount
    /\ withdrawn' = withdrawn + amount
    /\ UNCHANGED <<paramsVars, bindVars, termVars, splitVars, stray, userTotalVolume,
                   totalReferralRewards, totalFeesReceived, totalFeesDistributed>>

\* Anyone may transfer tokens to the router's address.
Transfer(amount) ==
    /\ stray + amount <= MaxReceived
    /\ balance' = balance + amount
    /\ stray' = stray + amount
    /\ UNCHANGED <<paramsVars, bindVars, termVars, splitVars, withdrawn, userTotalVolume,
                   totalReferralRewards, totalFeesReceived, totalFeesDistributed>>

-----------------------------------------------------------------------------
\* Entries of zero are left out: the loop skips them.
Batches == BoundedSeq([user : Users, amount : FeeAmounts \ {0}], MaxBatch)

RegistryStep ==
    \/ \E user \in Users \ {Router}, to \in Users : bind(user, to)
    \/ \E user \in Users : emergencyUnbind(user)
    \/ \E user \in Users, amount \in BetAmounts : ownerUpdatesUserVolume(user, amount)
    \/ \E to \in Users, amount \in BetAmounts : ownerAccruesReferralReward(to, amount)
    \/ \E window \in Windows : setTerm("validityWindow", window)
    \/ \E volume \in Volumes : setTerm("minValidVolume", volume)
    \/ \E bps \in ReferralBps : setTerm("referralFeeBps", bps)
    \/ \E on \in BOOLEAN : setAuthorizedCaller(on)
    \/ \E on \in BOOLEAN : setBindingPaused(on)

RouterStep ==
    \/ \E from \in Users, feeAmount \in FeeAmounts, betAmount \in BetAmounts :
           routeFee(from, feeAmount, betAmount)
    \/ \E entries \in Batches : batchRouteFee(entries)
    \/ \E split \in Splits : setFeeSplit(split)
    \/ syncFeeSplitFromParams
    \/ \E set, use \in BOOLEAN : setParamController(set, use)
    \/ \E on \in BOOLEAN : setRouterPaused(on)
    \/ \E amount \in FeeAmounts : emergencyWithdraw(amount)
    \/ \E amount \in FeeAmounts : Transfer(amount)

Next ==
    \/ ParamsStep /\ UNCHANGED feesVars
    \/ RegistryStep
    \/ RouterStep

Spec == Init /\ [][Next]_vars

-----------------------------------------------------------------------------
\* Every fee the router received is in exactly one of the five pots, with
\* entries that fail in the middle of a batch and shares that come from
\* parameters changed one at a time; what the router still holds was sent
\* to it by plain transfers or as its own rebate; and every rebate is in the registry's books
\* (FeeRouter.sol: batchRouteFee, _distributeFees, _processReferral).
FeesPassThrough ==
    /\ OfParts(totalFeesDistributed) + totalFeesDistributed["referral"] = totalFeesReceived
    /\ balance = stray - withdrawn
    /\ totalFeesDistributed["referral"] <= SumFunction(totalReferralRewards)

\* Referrers never get more than MAX_REFERRAL_BPS of all fees.  The router
\* declares the limit and never looks at it: it rests on the registry's
\* setter and on the floors of every single fee (FeeRouter.sol:79,
\* ReferralRegistry.sol: setReferralFeeBps).
RebatesWithinCap ==
    totalFeesDistributed["referral"] * BPS_DENOMINATOR <= totalFeesReceived * MAX_REFERRAL_BPS

\* The registry counts for everyone the users he referred, no two users are
\* each other's referrers and nobody is his own, however they bind, are
\* unbound and bind again (ReferralRegistry.sol: bind, emergencyUnbind).
ReferralsAgree ==
    /\ \A r \in Users : referralCount[r] = Cardinality({u \in Users : referrer[u] = r})
    /\ \A u \in Users : referrer[u] # NoOne =>
           referrer[u] # u /\ referrer[referrer[u]] # u
=============================================================================
