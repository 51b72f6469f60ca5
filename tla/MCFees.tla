------------------------------- MODULE MCFees -------------------------------
(***************************************************************************)
(* The fees for TLC.                                                       *)
(***************************************************************************)
EXTENDS Fees, TLC

CONSTANTS Ann, Bob

MCUsers == {Ann, Bob, Router}

\* The share of the LP vault can leave its ordinary value for one that does
\* not leave enough for the other pools.
MCDefaultRange == [k \in Keys |-> <<0, 10000>>]
MCRanges == {<<0, 5000>>}
MCSplits == {DefaultSplit, [lp |-> 0, promo |-> 0, insurance |-> 5000, treasury |-> 5000],
             [DefaultSplit EXCEPT !["lp"] = 9000]}

Count(b) == IF b THEN 1 ELSE 0

\* Settings that differ from those of the deployment.
Unusual ==
    Count(changesPaused) + Count(bindingPaused) + Count(routerPaused) + Count(~authorized)
    + Count(validators # {}) + Count(\E k \in Keys : customRange[k] # NoRange)
    + Count(timelockDelay # MinDelay) + Count(feeSplit # DefaultSplit)
    + Count(~controllerSet) + Count(useParamController) + Count(stray > 0)
    + Count(terms.validityWindow # FirstWindow) + Count(terms.minValidVolume # FirstVolume)
    + Count(terms.referralFeeBps # 800)
    + Count(SumFunction(totalReferralRewards) # totalFeesDistributed["referral"])
    + Count(referralCount[Router] > 0) + Count(userTotalVolume[Router] > 0)

\* How much has happened: time, users bound, bets and fees taken, values proposed.
Activity ==
    Count(clock > 0) + Cardinality({u \in Users : referrer[u] # NoOne})
    + Cardinality({u \in Users : userTotalVolume[u] > 0})
    + totalFeesReceived \div 20 + Count(isParamRegistered # {}) + Len(proposals)

\* A few things at a time, in every combination.
Focus == Unusual <= 2 /\ Unusual + Activity <= 4
=============================================================================
