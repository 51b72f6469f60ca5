----------------------------- MODULE FeesProofs -----------------------------
(*****************************************************************************)
(* What holds of parameters, referrals and fees for any users, keys, values, *)
(* splits and bounds: changes wait, the registry's books agree, all fees     *)
(* reach a pot or a referrer, and no referrer gets more than the limit.      *)
(*****************************************************************************)
EXTENDS Fees, SumTheorems, TLAPS

-----------------------------------------------------------------------------
(***************************************************************************)
(* Parameters: a proposal is at least MinDelay away from its execution when *)
(* it is made, and no later call changes that.                             *)
(***************************************************************************)
ParamsTypes ==
    /\ clock \in Nat
    /\ params \in [Keys -> Nat]
    /\ isParamRegistered \subseteq Keys
    /\ timelockDelay \in MinDelay .. MaxDelay
    /\ proposals \in Seq(Proposals)

EtasFar ==
    \A id \in DOMAIN proposals : proposals[id].eta >= proposals[id].proposedAt + MinDelay

ParamsInv == ParamsTypes /\ EtasFar

\* A registration writes keys that were not registered, with values of Nat.
LEMMA RegisterKeeps ==
    ASSUME ParamsInv, NEW ks \in SUBSET Keys, NEW initial \in [ks -> Values],
           NEW validated \in SUBSET ks, registerParams(initial, validated)
    PROVE  ParamsInv' /\ \A key \in isParamRegistered : ChangeWaits(key)
  <1>1. params' \in [Keys -> Nat] /\ isParamRegistered' \subseteq Keys
    BY ParamsAssumption DEF registerParams, ParamsInv, ParamsTypes
  <1>2. ParamsInv'
    BY <1>1 DEF registerParams, ParamsInv, ParamsTypes, EtasFar
  <1>3. \A key \in isParamRegistered : ChangeWaits(key)
    BY DEF registerParams, ParamsInv, ParamsTypes, ChangeWaits
  <1> QED
    BY <1>2, <1>3

\* A new proposal is due after the present delay, which is at least MinDelay.
LEMMA ProposeKeeps ==
    ASSUME ParamsInv, NEW key \in Keys, NEW newValue \in Values,
           proposeChange(key, newValue)
    PROVE  ParamsInv'
  <1> DEFINE p == [key |-> key, oldValue |-> params[key], newValue |-> newValue,
                   proposedAt |-> clock, eta |-> clock + timelockDelay,
                   executed |-> FALSE, cancelled |-> FALSE]
  <1>1. proposals' = Append(proposals, p)
    BY DEF proposeChange
  <1>2. timelockDelay \in Nat /\ timelockDelay >= MinDelay
    BY ParamsAssumption DEF ParamsInv, ParamsTypes
  <1>3. p \in Proposals
    BY <1>2, ParamsAssumption DEF Proposals, ParamsInv, ParamsTypes
  <1>4. p.eta >= p.proposedAt + MinDelay
    BY <1>2, ParamsAssumption DEF ParamsInv, ParamsTypes
  <1> HIDE DEF p
  <1>5. proposals' \in Seq(Proposals)
    BY <1>1, <1>3 DEF ParamsInv, ParamsTypes
  <1>6. EtasFar'
    <2> SUFFICES ASSUME NEW id \in DOMAIN proposals'
                 PROVE  proposals'[id].eta >= proposals'[id].proposedAt + MinDelay
      BY DEF EtasFar
    <2>1. proposals \in Seq(Proposals)
      BY DEF ParamsInv, ParamsTypes
    <2>2. \/ id \in DOMAIN proposals /\ proposals'[id] = proposals[id]
          \/ proposals'[id] = p
      BY <1>1, <1>3, <2>1
    <2> QED
      BY <1>4, <2>2 DEF ParamsInv, EtasFar
  <1> QED
    BY <1>5, <1>6 DEF ParamsInv, ParamsTypes, proposeChange

\* Executing or cancelling a proposal leaves its times and its kind.
LEMMA DecideKeeps ==
    ASSUME ParamsInv, NEW id \in DOMAIN proposals,
           executeProposal(id) \/ cancelProposal(id)
    PROVE  ParamsInv'
  <1>1. proposals \in Seq(Proposals) /\ proposals[id] \in Proposals
    BY DEF ParamsInv, ParamsTypes
  <1> DEFINE done == [proposals[id] EXCEPT !.executed = TRUE]
             void == [proposals[id] EXCEPT !.cancelled = TRUE]
  <1>2. PICK q \in {done, void} : proposals' = [proposals EXCEPT ![id] = q]
    BY DEF executeProposal, cancelProposal
  <1>3. /\ q \in Proposals
        /\ q.eta = proposals[id].eta /\ q.proposedAt = proposals[id].proposedAt
    BY <1>1 DEF Proposals
  <1> HIDE DEF done, void
  <1>4. DOMAIN proposals' = DOMAIN proposals /\ proposals' \in Seq(Proposals)
    BY <1>1, <1>2, <1>3
  <1>5. EtasFar'
    BY <1>1, <1>2, <1>3, <1>4 DEF ParamsInv, EtasFar
  <1>6. proposals[id].key \in Keys /\ proposals[id].newValue \in Nat
    BY <1>1 DEF Proposals
  <1>7. params' \in [Keys -> Nat]
    BY <1>6 DEF executeProposal, cancelProposal, ParamsInv, ParamsTypes
  <1> QED
    BY <1>5, <1>7, <1>4 DEF executeProposal, cancelProposal, ParamsInv, ParamsTypes

\* The execution is the one that the changed key waited for.
LEMMA ExecuteWaits ==
    ASSUME ParamsInv, NEW id \in DOMAIN proposals, executeProposal(id),
           NEW key \in isParamRegistered
    PROVE  ChangeWaits(key)
  <1>1. proposals \in Seq(Proposals) /\ proposals[id] \in Proposals
    BY DEF ParamsInv, ParamsTypes
  <1>2. proposals'[id].executed
    BY <1>1 DEF executeProposal, Proposals
  <1>3. clock >= proposals[id].proposedAt + MinDelay
    <2>1. /\ clock \in Nat /\ MinDelay \in Nat
          /\ proposals[id].eta \in Nat /\ proposals[id].proposedAt \in Nat
      BY <1>1, ParamsAssumption DEF ParamsInv, ParamsTypes, Proposals
    <2>2. proposals[id].eta >= proposals[id].proposedAt + MinDelay
      BY DEF ParamsInv, EtasFar
    <2>3. clock >= proposals[id].eta
      BY DEF executeProposal
    <2> QED
      BY <2>1, <2>2, <2>3
  <1>4. CASE proposals[id].key = key
    <2>1. params'[key] = proposals[id].newValue
      BY <1>4 DEF executeProposal, ParamsInv, ParamsTypes
    <2>2. Makes(id, key, params'[key])
      BY <1>2, <1>3, <1>4, <2>1 DEF Makes, executeProposal
    <2> QED
      BY <2>2 DEF ChangeWaits, executeProposal
  <1>5. CASE proposals[id].key # key
    BY <1>5 DEF ChangeWaits, executeProposal, ParamsInv, ParamsTypes
  <1> QED
    BY <1>4, <1>5

\* The other calls change neither a value nor a proposal, and keep the delay in its bounds.
LEMMA SettingsKeep ==
    ASSUME ParamsInv,
           \/ \E newDelay \in Delays : updateTimelockDelay(newDelay)
           \/ \E on \in BOOLEAN : setChangesPaused(on)
           \/ \E key \in Keys, on \in BOOLEAN : updateValidator(key, on)
           \/ \E key \in Keys, range \in Ranges \cup {NoRange} : setRange(key, range)
           \/ Tick
           \/ UNCHANGED paramsVars
    PROVE  /\ ParamsInv'
           /\ UNCHANGED <<params, isParamRegistered>>
  <1>1. UNCHANGED <<params, isParamRegistered, proposals>>
    BY DEF updateTimelockDelay, setChangesPaused, updateValidator, setRange, Tick, paramsVars
  <1>2. clock' \in Nat /\ timelockDelay' \in MinDelay .. MaxDelay
    BY DEF updateTimelockDelay, DelayAllowed, setChangesPaused, updateValidator, setRange,
           Tick, paramsVars, ParamsInv, ParamsTypes
  <1> QED
    BY <1>1, <1>2 DEF ParamsInv, ParamsTypes, EtasFar

LEMMA ParamsStepKeeps ==
    ASSUME ParamsInv, ParamsStep \/ UNCHANGED paramsVars
    PROVE  ParamsInv' /\ \A key \in isParamRegistered : ChangeWaits(key)
  <1>1. CASE \E ks \in SUBSET Keys \ {{}} : \E initial \in [ks -> Values],
                 validated \in SUBSET ks : registerParams(initial, validated)
    BY <1>1, RegisterKeeps
  <1>2. CASE \E key \in Keys, newValue \in Values : proposeChange(key, newValue)
    BY <1>2, ProposeKeeps DEF proposeChange, ChangeWaits
  <1>3. CASE \E id \in DOMAIN proposals : executeProposal(id)
    BY <1>3, DecideKeeps, ExecuteWaits
  <1>4. CASE \E id \in DOMAIN proposals : cancelProposal(id)
    BY <1>4, DecideKeeps DEF cancelProposal, ChangeWaits
  <1>5. CASE \/ \E newDelay \in Delays : updateTimelockDelay(newDelay)
             \/ \E on \in BOOLEAN : setChangesPaused(on)
             \/ \E key \in Keys, on \in BOOLEAN : updateValidator(key, on)
             \/ \E key \in Keys, range \in Ranges \cup {NoRange} : setRange(key, range)
             \/ Tick
             \/ UNCHANGED paramsVars
    BY <1>5, SettingsKeep DEF ChangeWaits
  <1> QED
    BY <1>1, <1>2, <1>3, <1>4, <1>5, Zenon DEF ParamsStep

\* Without proposals nothing has to wait.
LEMMA ParamsInitially == ParamsInit => ParamsInv
  <1> SUFFICES ASSUME ParamsInit
               PROVE  ParamsInv
    OBVIOUS
  <1>1. proposals \in Seq(Proposals) /\ DOMAIN proposals = {}
    BY DEF ParamsInit
  <1>2. timelockDelay \in MinDelay .. MaxDelay
    BY DEF ParamsInit
  <1> QED
    BY <1>1, <1>2 DEF ParamsInit, ParamsInv, ParamsTypes, EtasFar

-----------------------------------------------------------------------------
(***************************************************************************)
(* Referrals.                                                              *)
(***************************************************************************)
Referred(r) == {u \in Users : referrer[u] = r}

ReferralInv ==
    /\ referrer \in [Users -> Users \cup {NoOne}]
    /\ referralCount \in [Users -> Nat]
    /\ ReferralsAgree

\* A binding adds the user to the users of one referrer, and cannot close a pair.
LEMMA BindKeeps ==
    ASSUME ReferralInv, NEW user \in Users, NEW to \in Users, bind(user, to)
    PROVE  ReferralInv'
  <1>1. /\ referrer' = [referrer EXCEPT ![user] = to]
        /\ referralCount' = [referralCount EXCEPT ![to] = @ + 1]
        /\ referrer[user] = NoOne /\ to # user /\ referrer[to] # user
        /\ NoOne \notin Users /\ IsFiniteSet(Users)
    BY FeesAssumption DEF bind, MayBind
  <1>2. /\ referrer' \in [Users -> Users \cup {NoOne}]
        /\ referralCount' \in [Users -> Nat]
    BY <1>1 DEF ReferralInv
  <1>3. \A r \in Users : referralCount'[r] = Cardinality(Referred(r)')
    <2> SUFFICES ASSUME NEW r \in Users
                 PROVE  referralCount'[r] = Cardinality(Referred(r)')
      OBVIOUS
    <2>1. referralCount[r] = Cardinality(Referred(r))
      BY DEF ReferralInv, ReferralsAgree, Referred
    <2>2. CASE r = to
      <3>1. Referred(r)' = Referred(r) \cup {user} /\ user \notin Referred(r)
        BY <1>1, <2>2 DEF Referred, ReferralInv
      <3>2. IsFiniteSet(Referred(r))
        BY <1>1, FS_Subset DEF Referred
      <3>3. Cardinality(Referred(r)') = Cardinality(Referred(r)) + 1
        BY <3>1, <3>2, FS_AddElement
      <3> QED
        BY <1>1, <2>1, <2>2, <3>3 DEF ReferralInv
    <2>3. CASE r # to
      <3>1. Referred(r)' = Referred(r)
        BY <1>1, <2>3 DEF Referred, ReferralInv
      <3> QED
        BY <1>1, <2>1, <2>3, <3>1 DEF ReferralInv
    <2> QED
      BY <2>2, <2>3
  <1>4. \A u \in Users : referrer'[u] # NoOne =>
            referrer'[u] # u /\ referrer'[referrer'[u]] # u
    BY <1>1 DEF ReferralInv, ReferralsAgree
  <1> QED
    BY <1>2, <1>3, <1>4 DEF ReferralInv, ReferralsAgree, Referred

\* An unbinding takes the user from the users of its referrer.
LEMMA UnbindKeeps ==
    ASSUME ReferralInv, NEW user \in Users, emergencyUnbind(user)
    PROVE  ReferralInv'
  <1> DEFINE was == referrer[user]
  <1>1. /\ referrer' = [referrer EXCEPT ![user] = NoOne]
        /\ referralCount' = [referralCount EXCEPT ![was] = @ - 1]
        /\ was \in Users
        /\ NoOne \notin Users /\ IsFiniteSet(Users)
    BY FeesAssumption DEF emergencyUnbind, ReferralInv
  <1>2. referrer' \in [Users -> Users \cup {NoOne}]
    BY <1>1 DEF ReferralInv
  <1>3. \A r \in Users : /\ referralCount'[r] = Cardinality(Referred(r)')
                         /\ referralCount'[r] \in Nat
    <2> SUFFICES ASSUME NEW r \in Users
                 PROVE  /\ referralCount'[r] = Cardinality(Referred(r)')
                        /\ referralCount'[r] \in Nat
      OBVIOUS
    <2>1. referralCount[r] = Cardinality(Referred(r)) /\ referralCount[r] \in Nat
      BY DEF ReferralInv, ReferralsAgree, Referred
    <2>2. IsFiniteSet(Referred(r)) /\ IsFiniteSet(Referred(r)')
      BY <1>1, FS_Subset DEF Referred
    <2>3. CASE r = was
      <3>1. Referred(r)' = Referred(r) \ {user} /\ user \in Referred(r)
        BY <1>1, <2>3 DEF Referred, ReferralInv
      <3>2. Cardinality(Referred(r)') = Cardinality(Referred(r)) - 1
        BY <3>1, <2>2, FS_RemoveElement
      <3>3. referralCount'[r] = referralCount[r] - 1
        BY <1>1, <2>3 DEF ReferralInv
      <3>4. Cardinality(Referred(r)') \in Nat
        BY <2>2, FS_CardinalityType
      <3> QED
        BY <2>1, <3>2, <3>3, <3>4
    <2>4. CASE r # was
      <3>1. Referred(r)' = Referred(r)
        BY <1>1, <2>4 DEF Referred, ReferralInv
      <3> QED
        BY <1>1, <2>1, <2>4, <3>1 DEF ReferralInv
    <2> QED
      BY <2>3, <2>4
  <1>4. referralCount' \in [Users -> Nat]
    BY <1>1, <1>3 DEF ReferralInv
  <1>5. \A u \in Users : referrer'[u] # NoOne =>
            referrer'[u] # u /\ referrer'[referrer'[u]] # u
    BY <1>1 DEF ReferralInv, ReferralsAgree
  <1> QED
    BY <1>2, <1>3, <1>4, <1>5 DEF ReferralInv, ReferralsAgree, Referred

\* Every other call of the registry and every call of the router leaves the bindings.
LEMMA MoneyFrame ==
    ASSUME RegistryStep \/ RouterStep,
           ~ \E user, to \in Users : bind(user, to),
           ~ \E user \in Users : emergencyUnbind(user)
    PROVE  UNCHANGED bindVars
  <1>1. CASE RegistryStep
    BY <1>1, Zenon DEF RegistryStep, ownerUpdatesUserVolume, ownerAccruesReferralReward, setTerm,
           setAuthorizedCaller, setBindingPaused
  <1>2. CASE RouterStep
    BY <1>2, Zenon DEF RouterStep, routeFee, batchRouteFee, setFeeSplit, syncFeeSplitFromParams,
           setParamController, setRouterPaused, emergencyWithdraw, Transfer
  <1> QED
    BY <1>1, <1>2

\* No call of the registry or the router touches the parameters.
LEMMA ParamsFrame ==
    ASSUME RegistryStep \/ RouterStep
    PROVE  UNCHANGED paramsVars
  <1>1. CASE RegistryStep
    BY <1>1, Zenon DEF RegistryStep, bind, emergencyUnbind, ownerUpdatesUserVolume,
           ownerAccruesReferralReward, setTerm, setAuthorizedCaller, setBindingPaused
  <1>2. CASE RouterStep
    BY <1>2, Zenon DEF RouterStep, routeFee, batchRouteFee, setFeeSplit, syncFeeSplitFromParams,
           setParamController, setRouterPaused, emergencyWithdraw, Transfer
  <1> QED
    BY <1>1, <1>2

-----------------------------------------------------------------------------
\* Parameters change only by proposals that have waited, and the proposals
\* have waited long enough whatever the delay was set to meanwhile
\* (ParamController.sol: executeProposal, updateTimelockDelay).
THEOREM ChangesWaitCorrect == Spec => ChangesWait
  <1>1. Init => ParamsInv
    BY ParamsInitially DEF Init
  <1>2. ParamsInv /\ [Next]_vars =>
            ParamsInv' /\ [\A key \in isParamRegistered : ChangeWaits(key)]_paramsVars
    <2> SUFFICES ASSUME ParamsInv, [Next]_vars
                 PROVE  ParamsInv' /\ \A key \in isParamRegistered : ChangeWaits(key)
      OBVIOUS
    <2>1. ParamsStep \/ UNCHANGED paramsVars
      BY ParamsFrame, Zenon DEF Next, vars
    <2> QED
      BY <2>1, ParamsStepKeeps
  <1> QED
    BY <1>1, <1>2, PTL DEF Spec, ChangesWait

\* Counts and bindings of the registry agree for any number of users, and no
\* two of them are each other's referrers
\* (ReferralRegistry.sol: bind, emergencyUnbind).
THEOREM ReferralsAgreeCorrect == Spec => []ReferralsAgree
  <1>1. Init => ReferralInv
    <2> SUFFICES ASSUME Init
                 PROVE  ReferralInv
      OBVIOUS
    <2>1. \A r \in Users : {u \in Users : referrer[u] = r} = {}
      BY FeesAssumption DEF Init
    <2>2. Cardinality({}) = 0
      BY FS_EmptySet
    <2> QED
      BY <2>1, <2>2 DEF Init, ReferralInv, ReferralsAgree
  <1>2. ReferralInv /\ [Next]_vars => ReferralInv'
    <2> SUFFICES ASSUME ReferralInv, [Next]_vars
                 PROVE  ReferralInv'
      OBVIOUS
    <2>1. CASE \E user, to \in Users : bind(user, to)
      BY <2>1, BindKeeps
    <2>2. CASE \E user \in Users : emergencyUnbind(user)
      BY <2>2, UnbindKeeps
    <2>3. CASE UNCHANGED bindVars
      BY <2>3 DEF bindVars, ReferralInv, ReferralsAgree
    <2>4. \/ \E user, to \in Users : bind(user, to)
          \/ \E user \in Users : emergencyUnbind(user)
          \/ UNCHANGED bindVars
      BY MoneyFrame, Zenon DEF Next, vars, feesVars
    <2> QED
      BY <2>1, <2>2, <2>3, <2>4
  <1>3. ReferralInv => ReferralsAgree
    BY DEF ReferralInv
  <1> QED
    BY <1>1, <1>2, <1>3, PTL DEF Spec

-----------------------------------------------------------------------------
(***************************************************************************)
(* Fees.  The books of the router balance and the rebates stay under the   *)
(* limit, one fee at a time or in batches with entries that fail.          *)
(***************************************************************************)
Terms == [validityWindow : Nat, minValidVolume : Nat, referralFeeBps : 0 .. MAX_REFERRAL_BPS]

MoneyTypes ==
    /\ referrer \in [Users -> Users \cup {NoOne}]
    /\ feeSplit \in [Parts -> Nat]
    /\ terms \in Terms
    /\ totalReferralRewards \in [Users -> Nat]
    /\ totalFeesReceived \in Nat
    /\ totalFeesDistributed \in [Pots -> Int]
    /\ balance \in Int /\ stray \in Int /\ withdrawn \in Int

MoneyInv == ParamsInv /\ MoneyTypes /\ FeesPassThrough /\ RebatesWithinCap

\* A product of naturals grows with its second factor.
LEMMA ProductGrows ==
    ASSUME NEW a \in Nat, NEW b \in Nat, NEW c \in Nat, b <= c
    PROVE  a * b \in Nat /\ a * c \in Nat /\ a * b <= a * c
  <1>1. c - b \in Nat /\ a * c = a * b + a * (c - b)
    OBVIOUS
  <1>2. a * b \in Nat /\ a * c \in Nat /\ a * (c - b) \in Nat
    BY <1>1
  <1> QED
    BY <1>1, <1>2

\* A rebate is within the limit, and there is somebody to have it.
LEMMA RebateBounds ==
    ASSUME MoneyTypes, NEW user \in Users, NEW volume, NEW amount \in Nat
    PROVE  /\ Rebate(user, volume, amount) \in Nat
           /\ Rebate(user, volume, amount) * BPS_DENOMINATOR <= amount * MAX_REFERRAL_BPS
           /\ Rebate(user, volume, amount) > 0 => referrer[user] \in Users
  <1> DEFINE bps == terms.referralFeeBps
             part == (amount * bps) \div BPS_DENOMINATOR
  <1>1. bps \in Nat /\ bps <= 2000
    <2>1. terms \in Terms
      BY DEF MoneyTypes
    <2>2. bps \in 0 .. MAX_REFERRAL_BPS
      BY <2>1 DEF Terms
    <2> HIDE DEF bps
    <2> QED
      BY <2>2 DEF MAX_REFERRAL_BPS
  <1>2. amount * bps \in Nat /\ amount * bps <= amount * 2000
    <2> HIDE DEF bps
    <2> QED
      BY <1>1, ProductGrows
  <1>3. part \in Nat /\ part * 10000 <= amount * bps
    BY <1>2 DEF BPS_DENOMINATOR
  <1>4. part * BPS_DENOMINATOR <= amount * MAX_REFERRAL_BPS
    BY <1>2, <1>3 DEF BPS_DENOMINATOR, MAX_REFERRAL_BPS
  <1>5. CASE isReferralValid(user, volume)
    <2>1. Rebate(user, volume, amount) = part
      BY <1>5 DEF Rebate
    <2>2. referrer[user] \in Users
      BY <1>5 DEF isReferralValid, MoneyTypes
    <2> QED
      BY <1>3, <1>4, <2>1, <2>2
  <1>6. CASE ~isReferralValid(user, volume)
    <2>1. Rebate(user, volume, amount) = 0
      BY <1>6 DEF Rebate
    <2> QED
      BY <2>1 DEF BPS_DENOMINATOR, MAX_REFERRAL_BPS
  <1> QED
    BY <1>5, <1>6

\* Whatever the shares of the pools add up to, the five parts of a fee do.
LEMMA SharesAreWhole ==
    ASSUME ParamsTypes, MoneyTypes, NEW rebate \in Nat, NEW amount \in Nat
    PROVE  /\ Shares(rebate, amount) \in [Pots -> Int]
           /\ OfParts(Shares(rebate, amount)) + Shares(rebate, amount)["referral"] = amount
           /\ Shares(rebate, amount)["referral"] = rebate
  <1> DEFINE rest == amount - rebate
             s == Shares(rebate, amount)
  <1>1. \A pool \in Pools : PoolShare(pool, rest) \in Int
    <2> SUFFICES ASSUME NEW pool \in Pools PROVE PoolShare(pool, rest) \in Int
      OBVIOUS
    <2>1. getEffectiveFeeSplit(pool) \in Nat
      BY DEF getEffectiveFeeSplit, tryGetParam, Parts, ParamsTypes, MoneyTypes
    <2>2. rest * getEffectiveFeeSplit(pool) \in Int
      BY <2>1
    <2> QED
      BY <2>2 DEF PoolShare, BPS_DENOMINATOR
  <1>2. /\ PoolShare("lp", rest) \in Int /\ PoolShare("promo", rest) \in Int
        /\ PoolShare("insurance", rest) \in Int
    BY <1>1 DEF Pools
  <1>3. /\ s["lp"] = PoolShare("lp", rest) /\ s["promo"] = PoolShare("promo", rest)
        /\ s["insurance"] = PoolShare("insurance", rest)
        /\ s["treasury"] = rest - PoolShares(rest)
        /\ s["referral"] = rebate
    BY DEF Shares, Pots, Parts, Pools
  <1>4. PoolShares(rest) = PoolShare("lp", rest) + PoolShare("promo", rest)
                               + PoolShare("insurance", rest)
    BY DEF PoolShares
  <1>5. s = [pot \in Pots |-> s[pot]]
    BY DEF Shares
  <1> HIDE DEF s
  <1>6. \A pot \in Pots : s[pot] \in Int
    BY <1>2, <1>3, <1>4 DEF Pots, Parts, Pools
  <1>7. OfParts(s) + s["referral"] = amount
    BY <1>2, <1>3, <1>4 DEF OfParts
  <1> QED
    BY <1>3, <1>5, <1>6, <1>7 DEF s

\* A fee that is passed on whole, with a rebate in the limit and in the registry.
LEMMA AccountKeeps ==
    ASSUME MoneyInv, NEW amount \in Nat, NEW parts \in [Pots -> Int],
           Account(amount, parts),
           OfParts(parts) + parts["referral"] = amount,
           parts["referral"] * BPS_DENOMINATOR <= amount * MAX_REFERRAL_BPS,
           totalReferralRewards' \in [Users -> Nat],
           SumFunction(totalReferralRewards') = SumFunction(totalReferralRewards) + parts["referral"],
           UNCHANGED <<paramsVars, bindVars, termVars, splitVars>>
    PROVE  MoneyInv'
  <1>1. /\ totalFeesReceived \in Nat /\ balance \in Int /\ stray \in Int /\ withdrawn \in Int
        /\ \A pot \in Pots : totalFeesDistributed[pot] \in Int /\ parts[pot] \in Int
        /\ {"lp", "promo", "insurance", "treasury", "referral"} = Pots
    BY DEF MoneyInv, MoneyTypes, Pots, Parts, Pools
  <1>2. /\ totalFeesReceived' = totalFeesReceived + amount
        /\ totalFeesDistributed' \in [Pots -> Int]
        /\ \A pot \in Pots : totalFeesDistributed'[pot] = totalFeesDistributed[pot] + parts[pot]
        /\ OfParts(parts) \in Int
        /\ OfParts(totalFeesDistributed) \in Int
    BY <1>1 DEF Account, OfParts
  <1> DEFINE own == totalReferralRewards'[Router] - totalReferralRewards[Router]
  <1>9. /\ own \in Int
        /\ balance' = balance + own /\ stray' = stray + own /\ withdrawn' = withdrawn
    <2>1. own \in Int
      BY FeesAssumption DEF MoneyInv, MoneyTypes
    <2>2. /\ balance' = balance + amount - OfParts(parts) - parts["referral"] + own
          /\ stray' = stray + own /\ withdrawn' = withdrawn
      BY DEF Account
    <2> HIDE DEF own
    <2> QED
      BY <1>1, <1>2, <2>1, <2>2
  <1>10. balance' \in Int /\ stray' \in Int /\ withdrawn' \in Int
    <2> HIDE DEF own
    <2> QED
      BY <1>1, <1>9
  <1>11. balance' = stray' - withdrawn'
    <2>1. balance = stray - withdrawn
      BY DEF MoneyInv, FeesPassThrough
    <2> HIDE DEF own
    <2> QED
      BY <1>1, <1>9, <2>1
  <1>3. ParamsInv'
    BY DEF MoneyInv, ParamsInv, ParamsTypes, EtasFar, paramsVars
  <1>4. MoneyTypes'
    BY <1>1, <1>2, <1>10 DEF MoneyInv, MoneyTypes, bindVars, termVars, splitVars
  <1>5. OfParts(totalFeesDistributed') + totalFeesDistributed'["referral"] = totalFeesReceived'
    <2>1. OfParts(totalFeesDistributed) + totalFeesDistributed["referral"] = totalFeesReceived
      BY DEF MoneyInv, FeesPassThrough
    <2>2. OfParts(totalFeesDistributed') + totalFeesDistributed'["referral"]
            = (OfParts(totalFeesDistributed) + totalFeesDistributed["referral"])
                  + (OfParts(parts) + parts["referral"])
      <3>1. \A pot \in {"lp", "promo", "insurance", "treasury", "referral"} :
                /\ totalFeesDistributed[pot] \in Int /\ parts[pot] \in Int
                /\ totalFeesDistributed'[pot] = totalFeesDistributed[pot] + parts[pot]
        BY <1>1, <1>2
      <3> QED
        BY <3>1 DEF OfParts
    <2> QED
      BY <1>2, <2>1, <2>2
  <1>6. totalFeesDistributed'["referral"] <= SumFunction(totalReferralRewards')
    <2>1. SumFunction(totalReferralRewards) \in Nat
      <3>1. DOMAIN totalReferralRewards = Users /\ IsFiniteSet(Users)
            /\ \A u \in Users : totalReferralRewards[u] \in Nat
        BY FeesAssumption DEF MoneyInv, MoneyTypes
      <3> QED
        BY <3>1, SumNat DEF SumFunction
    <2> QED
      BY <1>1, <1>2, <2>1 DEF MoneyInv, FeesPassThrough
  <1>7. FeesPassThrough'
    BY <1>5, <1>6, <1>11 DEF FeesPassThrough
  <1>8. RebatesWithinCap'
    BY <1>1, <1>2 DEF MoneyInv, RebatesWithinCap, BPS_DENOMINATOR, MAX_REFERRAL_BPS
  <1> QED
    BY <1>3, <1>4, <1>7, <1>8 DEF MoneyInv

\* One fee: its rebate is entered for the referrer.
LEMMA RouteFeeKeeps ==
    ASSUME MoneyInv, NEW from \in Users, NEW feeAmount \in FeeAmounts, NEW betAmount \in BetAmounts,
           routeFee(from, feeAmount, betAmount)
    PROVE  MoneyInv'
  <1> DEFINE volume == userTotalVolume[from] + betAmount
             rebate == Rebate(from, volume, feeAmount)
             parts == Shares(rebate, feeAmount)
  <1>1. feeAmount \in Nat /\ IsFiniteSet(Users)
    BY FeesAssumption
  <1>2. /\ totalReferralRewards' = [u \in Users |->
              totalReferralRewards[u] + IF u = referrer[from] THEN rebate ELSE 0]
        /\ Account(feeAmount, parts)
        /\ UNCHANGED <<paramsVars, bindVars, termVars, splitVars>>
    BY DEF routeFee
  <1>3. /\ rebate \in Nat /\ rebate * BPS_DENOMINATOR <= feeAmount * MAX_REFERRAL_BPS
        /\ rebate > 0 => referrer[from] \in Users
    BY <1>1, RebateBounds DEF MoneyInv
  <1> HIDE DEF rebate, volume
  <1>4. /\ parts \in [Pots -> Int] /\ OfParts(parts) + parts["referral"] = feeAmount
        /\ parts["referral"] = rebate
    BY <1>1, <1>3, SharesAreWhole DEF MoneyInv, ParamsInv
  <1> HIDE DEF parts
  <1> DEFINE f == totalReferralRewards
             g == totalReferralRewards'
  <1>5. f \in [Users -> Nat] /\ g \in [Users -> Nat]
    BY <1>2, <1>3 DEF MoneyInv, MoneyTypes
  <1>6. SumFunction(g) = SumFunction(f) + rebate
    <2>1. DOMAIN f = Users /\ DOMAIN g = Users /\ SumFunctionOnSet(f, Users) \in Nat
      BY <1>1, <1>5, SumNat
    <2>2. CASE referrer[from] \in Users
      <3> DEFINE r == referrer[from]
      <3>1. DiffersAt(f, g, Users, r) /\ g[r] - f[r] = rebate
        BY <1>2, <1>3, <1>5, <2>2 DEF DiffersAt
      <3>2. r \in Users
        BY <2>2
      <3> HIDE DEF f, g, r
      <3>3. SumFunctionOnSet(g, Users) = SumFunctionOnSet(f, Users) + (g[r] - f[r])
        BY <1>1, <3>1, <3>2, SumUpdate
      <3> QED
        BY <2>1, <3>1, <3>3 DEF SumFunction
    <2>3. CASE referrer[from] \notin Users
      <3>1. rebate = 0
        BY <1>3, <2>3
      <3>2. \A u \in Users : f[u] = g[u]
        BY <1>2, <1>5, <2>3
      <3> HIDE DEF f, g
      <3>3. SumFunctionOnSet(f, Users) = SumFunctionOnSet(g, Users)
        BY <1>1, <3>2, SumEqual
      <3> QED
        BY <2>1, <3>1, <3>3 DEF SumFunction
    <2> QED
      BY <2>2, <2>3
  <1> QED
    BY <1>1, <1>2, <1>3, <1>4, <1>5, <1>6, AccountKeeps

\* Five columns of integers.
LEMMA SumOfFive ==
    ASSUME NEW S, IsFiniteSet(S), NEW a, NEW b, NEW c, NEW d, NEW e, NEW h,
           \A x \in S : /\ a[x] \in Int /\ b[x] \in Int /\ c[x] \in Int
                        /\ d[x] \in Int /\ e[x] \in Int
                        /\ h[x] = a[x] + b[x] + c[x] + d[x] + e[x]
    PROVE  SumFunctionOnSet(h, S) =
               SumFunctionOnSet(a, S) + SumFunctionOnSet(b, S) + SumFunctionOnSet(c, S)
                   + SumFunctionOnSet(d, S) + SumFunctionOnSet(e, S)
  <1> DEFINE ab == [x \in S |-> a[x] + b[x]]
             abc == [x \in S |-> ab[x] + c[x]]
             abcd == [x \in S |-> abc[x] + d[x]]
  <1>1. \A x \in S : a[x] \in Int /\ b[x] \in Int /\ ab[x] = a[x] + b[x]
    OBVIOUS
  <1>2. \A x \in S : ab[x] \in Int /\ c[x] \in Int /\ abc[x] = ab[x] + c[x]
    OBVIOUS
  <1>3. \A x \in S : abc[x] \in Int /\ d[x] \in Int /\ abcd[x] = abc[x] + d[x]
    OBVIOUS
  <1>4. \A x \in S : abcd[x] \in Int /\ e[x] \in Int /\ h[x] = abcd[x] + e[x]
    OBVIOUS
  <1> HIDE DEF ab, abc, abcd
  <1>5. SumFunctionOnSet(ab, S) = SumFunctionOnSet(a, S) + SumFunctionOnSet(b, S)
    BY <1>1, SumAdd
  <1>6. SumFunctionOnSet(abc, S) = SumFunctionOnSet(ab, S) + SumFunctionOnSet(c, S)
    BY <1>2, SumAdd
  <1>7. SumFunctionOnSet(abcd, S) = SumFunctionOnSet(abc, S) + SumFunctionOnSet(d, S)
    BY <1>3, SumAdd
  <1>8. SumFunctionOnSet(h, S) = SumFunctionOnSet(abcd, S) + SumFunctionOnSet(e, S)
    BY <1>4, SumAdd
  <1> QED
    BY <1>5, <1>6, <1>7, <1>8

PartsOf(share, done, rest) ==
    [pot \in Pots |-> SumFunctionOnSet([i \in done |-> share[i][pot]], done)
                         + IF pot = "treasury" THEN rest ELSE 0]

\* What the pots get of the entries that are done, and the treasury of those
\* that fail, is what all the entries bring.
LEMMA PartsAddUp ==
    ASSUME NEW D, IsFiniteSet(D), NEW amounts, \A i \in D : amounts[i] \in Nat,
           NEW done \in SUBSET D, NEW share,
           \A i \in done : /\ share[i] \in [Pots -> Int]
                           /\ OfParts(share[i]) + share[i]["referral"] = amounts[i],
           NEW parts, parts = PartsOf(share, done, SumFunctionOnSet(amounts, D \ done))
    PROVE  /\ parts \in [Pots -> Int]
           /\ OfParts(parts) + parts["referral"] = SumFunctionOnSet(amounts, D)
  <1> DEFINE col(pot) == [i \in done |-> share[i][pot]]
             f(pot) == SumFunctionOnSet(col(pot), done)
             rest == SumFunctionOnSet(amounts, D \ done)
  <1>1. IsFiniteSet(done) /\ IsFiniteSet(D \ done)
    BY FS_Subset
  <1>2. rest \in Int
    BY <1>1, SumInt
  <1>3. ASSUME NEW pot \in Pots PROVE f(pot) \in Int
    <2> DEFINE c == col(pot)
    <2>1. \A i \in done : c[i] \in Int
      OBVIOUS
    <2> HIDE DEF c
    <2>2. SumFunctionOnSet(c, done) \in Int
      BY <1>1, <2>1, SumInt
    <2> QED
      BY <2>2 DEF c
  <1>4. Pots = {"lp", "promo", "insurance", "treasury", "referral"}
    BY DEF Pots, Parts, Pools
  <1> DEFINE a == col("lp")
             b == col("promo")
             c == col("insurance")
             d == col("treasury")
             e == col("referral")
  <1>5. \A i \in done : /\ a[i] \in Int /\ b[i] \in Int /\ c[i] \in Int
                        /\ d[i] \in Int /\ e[i] \in Int
                        /\ amounts[i] = a[i] + b[i] + c[i] + d[i] + e[i]
    BY <1>4 DEF OfParts
  <1>6. /\ SumFunctionOnSet(a, done) = f("lp") /\ SumFunctionOnSet(b, done) = f("promo")
        /\ SumFunctionOnSet(c, done) = f("insurance") /\ SumFunctionOnSet(d, done) = f("treasury")
        /\ SumFunctionOnSet(e, done) = f("referral")
    OBVIOUS
  <1>7. /\ parts["lp"] = f("lp") /\ parts["promo"] = f("promo")
        /\ parts["insurance"] = f("insurance") /\ parts["treasury"] = f("treasury") + rest
        /\ parts["referral"] = f("referral")
    <2>1. \A pot \in Pots : f(pot) + 0 = f(pot)
      BY <1>3
    <2> HIDE DEF f, rest
    <2> QED
      BY <1>4, <2>1 DEF f, rest, PartsOf
  <1> HIDE DEF a, b, c, d, e, f, rest, col
  <1>8. SumFunctionOnSet(amounts, done) = f("lp") + f("promo") + f("insurance")
                                              + f("treasury") + f("referral")
    <2>1. SumFunctionOnSet(amounts, done) =
              SumFunctionOnSet(a, done) + SumFunctionOnSet(b, done) + SumFunctionOnSet(c, done)
                   + SumFunctionOnSet(d, done) + SumFunctionOnSet(e, done)
      BY <1>1, <1>5, SumOfFive
    <2> QED
      BY <1>6, <2>1
  <1>9. SumFunctionOnSet(amounts, D) = SumFunctionOnSet(amounts, done) + rest
    BY SumSplit DEF rest
  <1>10. /\ f("lp") \in Int /\ f("promo") \in Int /\ f("insurance") \in Int
         /\ f("treasury") \in Int /\ f("referral") \in Int
    BY <1>3, <1>4
  <1>11. \A pot \in Pots : parts[pot] \in Int
    BY <1>2, <1>4, <1>7, <1>10
  <1>12. parts \in [Pots -> Int]
    BY <1>11 DEF PartsOf
  <1>13. OfParts(parts) + parts["referral"] = SumFunctionOnSet(amounts, D)
    <2>1. OfParts(parts) + parts["referral"] =
              f("lp") + f("promo") + f("insurance") + (f("treasury") + rest) + f("referral")
      BY <1>7 DEF OfParts
    <2> QED
      BY <1>2, <1>8, <1>9, <1>10, <2>1
  <1> QED
    BY <1>12, <1>13

\* The rebates that are entered for the referrers are the rebates of the entries.
LEMMA RebatesAddUp ==
    ASSUME NEW done, IsFiniteSet(done), NEW rebate, NEW of,
           \A i \in done : rebate[i] \in Nat /\ (rebate[i] > 0 => of[i] \in Users),
           NEW g,
           g = [u \in Users |-> SumFunctionOnSet(rebate, {i \in done : of[i] = u})]
    PROVE  /\ g \in [Users -> Nat]
           /\ SumFunctionOnSet(g, Users) = SumFunctionOnSet(rebate, done)
  <1> DEFINE p == [u \in Users |-> [i \in done |-> IF of[i] = u THEN rebate[i] ELSE 0]]
             q == [u \in Users |-> SumFunctionOnSet(p[u], done)]
             r == [i \in done |-> SumFunctionOnSet([u \in Users |-> p[u][i]], Users)]
  <1>1. IsFiniteSet(Users)
    BY FeesAssumption
  <1>2. \A u \in Users, i \in done : p[u][i] \in Nat /\ p[u][i] \in Int
    OBVIOUS
  <1>3. ASSUME NEW u \in Users
        PROVE  g[u] = q[u] /\ g[u] \in Nat
    <2> DEFINE T == {i \in done : of[i] = u}
               h == p[u]
    <2>1. /\ T \in SUBSET done
          /\ \A i \in T : rebate[i] \in Int /\ h[i] = rebate[i]
          /\ \A i \in done \ T : h[i] = 0
          /\ \A i \in T : rebate[i] \in Nat
      OBVIOUS
    <2>2. g[u] = SumFunctionOnSet(rebate, T) /\ q[u] = SumFunctionOnSet(h, done)
      OBVIOUS
    <2> HIDE DEF T, h, p, q
    <2>3. SumFunctionOnSet(h, done) = SumFunctionOnSet(rebate, T)
      BY <2>1, SumPart
    <2>4. IsFiniteSet(T)
      BY <2>1, FS_Subset
    <2>5. SumFunctionOnSet(rebate, T) \in Nat
      BY <2>1, <2>4, SumNat
    <2> QED
      BY <2>2, <2>3, <2>5
  <1>4. ASSUME NEW i \in done
        PROVE  r[i] = rebate[i]
    <2> DEFINE h == [u \in Users |-> p[u][i]]
    <2>1. \A u \in Users : h[u] = IF of[i] = u THEN rebate[i] ELSE 0
      OBVIOUS
    <2>2. r[i] = SumFunctionOnSet(h, Users)
      OBVIOUS
    <2> HIDE DEF h, p, r
    <2>3. CASE of[i] \in Users
      <3>1. h[of[i]] = rebate[i] /\ rebate[i] \in Nat /\ \A u \in Users \ {of[i]} : h[u] = 0
        BY <2>1, <2>3
      <3> DEFINE x == of[i]
      <3>2. x \in Users /\ h[x] \in Nat /\ \A u \in Users \ {x} : h[u] = 0
        BY <2>3, <3>1
      <3> HIDE DEF x
      <3>3. SumFunctionOnSet(h, Users) = h[x]
        BY <1>1, <3>2, SumOfOne
      <3> QED
        BY <2>2, <3>1, <3>3 DEF x
    <2>4. CASE of[i] \notin Users
      <3>1. rebate[i] = 0 /\ \A u \in Users : h[u] = 0
        BY <2>1, <2>4
      <3>2. SumFunctionOnSet(h, Users) = 0
        BY <1>1, <3>1, SumZero
      <3> QED
        BY <2>2, <3>1, <3>2
    <2> QED
      BY <2>3, <2>4
  <1>5. SumFunctionOnSet(q, Users) = SumFunctionOnSet(r, done)
    <2>1. \A u \in Users, i \in done : p[u][i] \in Int
      BY <1>2
    <2> HIDE DEF p
    <2> QED
      BY <1>1, <2>1, SumExchange
  <1>6. g \in [Users -> Nat]
    BY <1>3
  <1> HIDE DEF p, q, r
  <1>7. SumFunctionOnSet(g, Users) = SumFunctionOnSet(q, Users)
    BY <1>1, <1>3, SumEqual
  <1>8. SumFunctionOnSet(r, done) = SumFunctionOnSet(rebate, done)
    BY <1>4, SumEqual
  <1> QED
    BY <1>5, <1>6, <1>7, <1>8

\* Rebates in the limit of their amounts are together in the limit of them all.
LEMMA CapAddsUp ==
    ASSUME NEW D, IsFiniteSet(D), NEW amounts, \A i \in D : amounts[i] \in Nat,
           NEW done \in SUBSET D, NEW rebate,
           \A i \in done : /\ rebate[i] \in Nat
                           /\ rebate[i] * BPS_DENOMINATOR <= amounts[i] * MAX_REFERRAL_BPS
    PROVE  SumFunctionOnSet(rebate, done) * BPS_DENOMINATOR
               <= SumFunctionOnSet(amounts, D) * MAX_REFERRAL_BPS
  <1> DEFINE f == [i \in done |-> 10000 * rebate[i]]
             g == [i \in done |-> 2000 * amounts[i]]
  <1>1. /\ \A i \in done : rebate[i] \in Int /\ f[i] = 10000 * rebate[i]
        /\ \A i \in done : amounts[i] \in Int /\ g[i] = 2000 * amounts[i]
        /\ \A i \in done : f[i] \in Int /\ g[i] \in Int /\ f[i] <= g[i]
    BY DEF BPS_DENOMINATOR, MAX_REFERRAL_BPS
  <1>2. IsFiniteSet(done)
    BY FS_Subset
  <1> HIDE DEF f, g
  <1>3. SumFunctionOnSet(f, done) = 10000 * SumFunctionOnSet(rebate, done)
    <2>1. 10000 \in Int
      OBVIOUS
    <2> QED
      BY <1>1, <1>2, <2>1, SumScale
  <1>4. SumFunctionOnSet(g, done) = 2000 * SumFunctionOnSet(amounts, done)
    <2>1. 2000 \in Int
      OBVIOUS
    <2> QED
      BY <1>1, <1>2, <2>1, SumScale
  <1>5. SumFunctionOnSet(f, done) <= SumFunctionOnSet(g, done)
    BY <1>1, <1>2, SumMonotone
  <1>6. SumFunctionOnSet(amounts, done) <= SumFunctionOnSet(amounts, D)
    BY SumSubset
  <1>7. /\ SumFunctionOnSet(rebate, done) \in Int /\ SumFunctionOnSet(amounts, done) \in Int
        /\ SumFunctionOnSet(amounts, D) \in Int
    BY <1>1, <1>2, SumInt
  <1> QED
    BY <1>3, <1>4, <1>5, <1>6, <1>7 DEF BPS_DENOMINATOR, MAX_REFERRAL_BPS

\* A batch: entries that fail give the treasury their amount and nobody a rebate.
LEMMA BatchKeeps ==
    ASSUME MoneyInv, NEW entries \in Batches, batchRouteFee(entries)
    PROVE  MoneyInv'
  <1> DEFINE D == DOMAIN entries
             rebate == [i \in D |-> Rebate(entries[i].user, userTotalVolume[entries[i].user],
                                           entries[i].amount)]
             failed == {i \in D : Reverts(entries[i].user, rebate[i], entries[i].amount)}
             done == D \ failed
             amounts == [i \in D |-> entries[i].amount]
             total == SumFunction(amounts)
             share == [i \in done |-> Shares(rebate[i], entries[i].amount)]
             parts == [pot \in Pots |-> SumFunction([i \in done |-> share[i][pot]])
                          + IF pot = "treasury" THEN FailedTotal(entries, failed) ELSE 0]
             of == [i \in D |-> referrer[entries[i].user]]
             f == totalReferralRewards
             g == [u \in Users |-> SumFunctionOnSet(rebate, {i \in done : of[i] = u})]
  <1>1. /\ IsFiniteSet(D)
        /\ \A i \in D : entries[i].user \in Users /\ entries[i].amount \in Nat
    <2>1. PICK m \in 0 .. MaxBatch : entries \in [1 .. m -> [user : Users, amount : FeeAmounts \ {0}]]
      BY DEF Batches, BoundedSeq, SeqOf
    <2>2. IsFiniteSet(1 .. m)
      BY <2>1, FeesAssumption, FS_Interval
    <2> QED
      BY <2>1, <2>2, FeesAssumption
  <1>2. /\ done \in SUBSET D /\ failed = D \ done /\ failed \in SUBSET D
        /\ IsFiniteSet(done) /\ IsFiniteSet(failed)
    BY <1>1, FS_Subset
  <1>3. /\ totalReferralRewards' = [u \in Users |-> totalReferralRewards[u]
              + SumFunction([i \in {j \in done : referrer[entries[j].user] = u} |-> rebate[i]])]
        /\ Account(total, parts)
        /\ UNCHANGED <<paramsVars, bindVars, termVars, splitVars>>
    BY DEF batchRouteFee
  <1>4. \A i \in D : /\ rebate[i] \in Nat
                     /\ rebate[i] * BPS_DENOMINATOR <= amounts[i] * MAX_REFERRAL_BPS
                     /\ rebate[i] > 0 => of[i] \in Users
    BY <1>1, RebateBounds DEF MoneyInv
  <1>5. \A i \in D : amounts[i] \in Nat
    BY <1>1
  <1> HIDE DEF rebate, failed
  <1>6. \A i \in done : /\ share[i] \in [Pots -> Int]
                        /\ OfParts(share[i]) + share[i]["referral"] = amounts[i]
                        /\ share[i]["referral"] = rebate[i]
    BY <1>1, <1>4, SharesAreWhole DEF MoneyInv, ParamsInv
  <1>7. total = SumFunctionOnSet(amounts, D) /\ total \in Nat
    <2>1. DOMAIN amounts = D
      OBVIOUS
    <2> HIDE DEF amounts
    <2>2. SumFunctionOnSet(amounts, D) \in Nat
      BY <1>1, <1>5, SumNat
    <2> QED
      BY <2>1, <2>2 DEF SumFunction
  <1>8. FailedTotal(entries, failed) = SumFunctionOnSet(amounts, D \ done)
    <2> DEFINE a == [i \in failed |-> entries[i].amount]
    <2>1. DOMAIN a = failed /\ \A i \in failed : a[i] = amounts[i]
      BY <1>2
    <2>2. FailedTotal(entries, failed) = SumFunction(a)
      BY DEF FailedTotal
    <2> HIDE DEF a, amounts
    <2>3. SumFunctionOnSet(a, failed) = SumFunctionOnSet(amounts, failed)
      BY <1>2, <2>1, SumEqual
    <2> QED
      BY <1>2, <2>1, <2>2, <2>3 DEF SumFunction
  <1>9. parts = PartsOf(share, done, SumFunctionOnSet(amounts, D \ done))
    <2>1. \A pot \in Pots : SumFunction([i \in done |-> share[i][pot]])
                                = SumFunctionOnSet([i \in done |-> share[i][pot]], done)
      BY DEF SumFunction
    <2> HIDE DEF share, amounts, done
    <2> QED
      BY <1>8, <2>1 DEF PartsOf
  <1> HIDE DEF done, share
  <1>10. /\ parts \in [Pots -> Int]
         /\ OfParts(parts) + parts["referral"] = total
    <2> HIDE DEF D, amounts, parts, total
    <2>1. \A i \in done : /\ share[i] \in [Pots -> Int]
                          /\ OfParts(share[i]) + share[i]["referral"] = amounts[i]
      BY <1>6
    <2>2. IsFiniteSet(D) /\ done \in SUBSET D
      BY <1>1, <1>2
    <2>3. /\ parts \in [Pots -> Int]
          /\ OfParts(parts) + parts["referral"] = SumFunctionOnSet(amounts, D)
      BY <1>5, <1>9, <2>1, <2>2, PartsAddUp
    <2> QED
      BY <1>7, <2>3
  <1>11. parts["referral"] = SumFunctionOnSet(rebate, done)
    <2> DEFINE r == [i \in done |-> share[i]["referral"]]
    <2>1. \A i \in done : r[i] = rebate[i]
      BY <1>6
    <2>2. "referral" \in Pots /\ "referral" # "treasury"
      BY DEF Pots
    <2>3. parts["referral"] = SumFunctionOnSet(r, done) + 0
      BY <1>9, <2>2 DEF PartsOf
    <2> HIDE DEF r, parts
    <2>4. SumFunctionOnSet(r, done) = SumFunctionOnSet(rebate, done)
      BY <1>2, <2>1, SumEqual
    <2>5. SumFunctionOnSet(rebate, done) \in Nat
      BY <1>2, <1>4, SumNat
    <2> QED
      BY <2>3, <2>4, <2>5
  <1>12. g \in [Users -> Nat] /\ SumFunctionOnSet(g, Users) = parts["referral"]
    <2>1. \A i \in done : rebate[i] \in Nat /\ (rebate[i] > 0 => of[i] \in Users)
      BY <1>2, <1>4
    <2> HIDE DEF of, parts
    <2>2. /\ g \in [Users -> Nat]
          /\ SumFunctionOnSet(g, Users) = SumFunctionOnSet(rebate, done)
      BY <1>2, <2>1, RebatesAddUp
    <2> QED
      BY <1>11, <2>2
  <1>13. parts["referral"] * BPS_DENOMINATOR <= total * MAX_REFERRAL_BPS
    <2> HIDE DEF D, amounts, parts, total
    <2>1. \A i \in done : /\ rebate[i] \in Nat
                          /\ rebate[i] * BPS_DENOMINATOR <= amounts[i] * MAX_REFERRAL_BPS
      BY <1>2, <1>4
    <2>2. SumFunctionOnSet(rebate, done) * BPS_DENOMINATOR
              <= SumFunctionOnSet(amounts, D) * MAX_REFERRAL_BPS
      BY <1>1, <1>2, <1>5, <2>1, CapAddsUp
    <2> QED
      BY <1>7, <1>11, <2>2
  <1>14. /\ f \in [Users -> Nat]
         /\ totalReferralRewards' = [u \in Users |-> f[u] + g[u]]
    <2>1. ASSUME NEW u \in Users
          PROVE  SumFunction([i \in {j \in done : referrer[entries[j].user] = u} |-> rebate[i]]) = g[u]
      <3> DEFINE T == {j \in done : referrer[entries[j].user] = u}
                 a == [i \in T |-> rebate[i]]
      <3>1. T = {i \in done : of[i] = u} /\ IsFiniteSet(T) /\ DOMAIN a = T
        BY <1>2, FS_Subset
      <3>2. \A i \in T : a[i] = rebate[i]
        OBVIOUS
      <3>3. g[u] = SumFunctionOnSet(rebate, T)
        BY <3>1
      <3> HIDE DEF a, T, g
      <3>4. SumFunctionOnSet(a, T) = SumFunctionOnSet(rebate, T)
        BY <3>1, <3>2, SumEqual
      <3>5. SumFunction(a) = g[u]
        BY <3>1, <3>3, <3>4 DEF SumFunction
      <3> QED
        BY <3>5 DEF a, T
    <2> HIDE DEF g
    <2> QED
      BY <1>3, <2>1 DEF MoneyInv, MoneyTypes
  <1> HIDE DEF g, parts, total, D
  <1> DEFINE h == totalReferralRewards'
  <1>15. h \in [Users -> Nat] /\ SumFunction(h) = SumFunction(f) + parts["referral"]
    <2>1. h \in [Users -> Nat] /\ IsFiniteSet(Users) /\ DOMAIN h = Users /\ DOMAIN f = Users
      BY <1>12, <1>14, FeesAssumption
    <2>2. \A u \in Users : f[u] \in Int /\ g[u] \in Int /\ h[u] = f[u] + g[u]
      BY <1>12, <1>14
    <2> HIDE DEF f, h
    <2>3. SumFunctionOnSet(h, Users) = SumFunctionOnSet(f, Users) + SumFunctionOnSet(g, Users)
      BY <2>1, <2>2, SumAdd
    <2> QED
      BY <1>12, <2>1, <2>3 DEF SumFunction
  <1> QED
    BY <1>3, <1>7, <1>10, <1>13, <1>15, AccountKeeps

\* The owner adds to what the registry says of a referrer.
LEMMA OwnersEntryKeeps ==
    ASSUME MoneyInv, NEW to \in Users, NEW amount \in BetAmounts,
           ownerAccruesReferralReward(to, amount)
    PROVE  MoneyInv'
  <1> DEFINE f == totalReferralRewards
             g == totalReferralRewards'
  <1>1. /\ g = [f EXCEPT ![to] = @ + amount] /\ f \in [Users -> Nat] /\ amount \in Nat
        /\ IsFiniteSet(Users)
        /\ UNCHANGED <<paramsVars, bindVars, termVars, splitVars, strayVars,
                       totalFeesReceived, totalFeesDistributed, balance>>
    BY FeesAssumption DEF ownerAccruesReferralReward, MoneyInv, MoneyTypes
  <1>2. g \in [Users -> Nat] /\ g[to] - f[to] = amount
    BY <1>1
  <1>3. SumFunction(f) <= SumFunction(g) /\ SumFunction(f) \in Nat /\ SumFunction(g) \in Nat
    <2>1. DOMAIN f = Users /\ DOMAIN g = Users
          /\ \A u \in Users : f[u] \in Nat /\ g[u] \in Nat /\ f[u] \in Int /\ g[u] \in Int
                                  /\ f[u] <= g[u]
      BY <1>1, <1>2
    <2> HIDE DEF f, g
    <2>2. SumFunctionOnSet(f, Users) <= SumFunctionOnSet(g, Users)
      BY <1>1, <2>1, SumMonotone
    <2>3. SumFunctionOnSet(f, Users) \in Nat
      BY <1>1, <2>1, SumNat
    <2>4. SumFunctionOnSet(g, Users) \in Nat
      BY <1>1, <2>1, SumNat
    <2> QED
      BY <2>1, <2>2, <2>3, <2>4 DEF SumFunction
  <1>4. ParamsInv'
    BY <1>1 DEF MoneyInv, ParamsInv, ParamsTypes, EtasFar, paramsVars
  <1>5. MoneyTypes' /\ RebatesWithinCap'
    BY <1>1, <1>2 DEF MoneyInv, MoneyTypes, RebatesWithinCap, bindVars, termVars, splitVars, strayVars
  <1>6. totalFeesDistributed["referral"] \in Int
    BY DEF MoneyInv, MoneyTypes, Pots
  <1>7. FeesPassThrough'
    BY <1>1, <1>3, <1>6 DEF MoneyInv, FeesPassThrough, strayVars, OfParts
  <1> QED
    BY <1>4, <1>5, <1>7 DEF MoneyInv

\* The other calls of the registry and of the router move no fee.
LEMMA SettingKeeps ==
    ASSUME MoneyInv, UNCHANGED <<paramsVars, totalReferralRewards, totalFeesReceived,
                                 totalFeesDistributed>>,
           MoneyTypes', UNCHANGED <<balance, strayVars>> \/ balance' = stray' - withdrawn'
    PROVE  MoneyInv'
  <1>1. ParamsInv'
    BY DEF MoneyInv, ParamsInv, ParamsTypes, EtasFar, paramsVars
  <1>2. balance' = stray' - withdrawn'
    BY DEF MoneyInv, FeesPassThrough, strayVars
  <1>3. FeesPassThrough' /\ RebatesWithinCap'
    BY <1>2 DEF MoneyInv, FeesPassThrough, RebatesWithinCap, OfParts
  <1> QED
    BY <1>1, <1>3 DEF MoneyInv

\* Bindings and the registry's settings move no fee.
LEMMA RegistryKeeps ==
    ASSUME MoneyInv, RegistryStep
    PROVE  MoneyInv'
  <1> USE DEF bindVars, termVars, splitVars, strayVars, bookVars
  <1>1. MoneyTypes
    BY DEF MoneyInv
  <1>2. ASSUME NEW user \in Users, NEW to \in Users, bind(user, to)
        PROVE  MoneyInv'
    <2>1. MoneyTypes'
      BY <1>1, <1>2 DEF bind, MoneyTypes
    <2> QED
      BY <1>2, <2>1, SettingKeeps DEF bind
  <1>3. ASSUME NEW user \in Users, emergencyUnbind(user)
        PROVE  MoneyInv'
    <2>1. MoneyTypes'
      BY <1>1, <1>3 DEF emergencyUnbind, MoneyTypes
    <2> QED
      BY <1>3, <2>1, SettingKeeps DEF emergencyUnbind
  <1>4. ASSUME NEW user \in Users, NEW amount \in BetAmounts, ownerUpdatesUserVolume(user, amount)
        PROVE  MoneyInv'
    <2>1. MoneyTypes'
      BY <1>1, <1>4 DEF ownerUpdatesUserVolume, MoneyTypes
    <2> QED
      BY <1>4, <2>1, SettingKeeps DEF ownerUpdatesUserVolume
  <1>5. ASSUME NEW to \in Users, NEW amount \in BetAmounts, ownerAccruesReferralReward(to, amount)
        PROVE  MoneyInv'
    BY <1>5, OwnersEntryKeeps
  <1>6. ASSUME NEW term, NEW value, setTerm(term, value), terms' \in Terms
        PROVE  MoneyInv'
    <2>1. MoneyTypes'
      BY <1>1, <1>6 DEF setTerm, MoneyTypes
    <2> QED
      BY <1>6, <2>1, SettingKeeps DEF setTerm
  <1>7. /\ \A window \in Windows : setTerm("validityWindow", window) => terms' \in Terms
        /\ \A volume \in Volumes : setTerm("minValidVolume", volume) => terms' \in Terms
        /\ \A bps \in ReferralBps : setTerm("referralFeeBps", bps) => terms' \in Terms
    <2>1. terms \in Terms
      BY <1>1 DEF MoneyTypes
    <2>2. ASSUME NEW window \in Windows, setTerm("validityWindow", window) PROVE terms' \in Terms
      <3>1. window \in Nat /\ terms' = [terms EXCEPT !["validityWindow"] = window]
        BY <2>2, FeesAssumption DEF setTerm
      <3> QED
        BY <2>1, <3>1 DEF Terms
    <2>3. ASSUME NEW volume \in Volumes, setTerm("minValidVolume", volume) PROVE terms' \in Terms
      <3>1. volume \in Nat /\ terms' = [terms EXCEPT !["minValidVolume"] = volume]
        BY <2>3, FeesAssumption DEF setTerm
      <3> QED
        BY <2>1, <3>1 DEF Terms
    <2>4. ASSUME NEW bps \in ReferralBps, setTerm("referralFeeBps", bps) PROVE terms' \in Terms
      <3>1. bps \in 0 .. MAX_REFERRAL_BPS /\ terms' = [terms EXCEPT !["referralFeeBps"] = bps]
        BY <2>4, FeesAssumption DEF setTerm, ReferralFeeAllowed, MAX_REFERRAL_BPS
      <3> QED
        BY <2>1, <3>1 DEF Terms
    <2> QED
      BY <2>2, <2>3, <2>4
  <1>8. ASSUME NEW on \in BOOLEAN, setAuthorizedCaller(on) \/ setBindingPaused(on)
        PROVE  MoneyInv'
    <2>1. MoneyTypes'
      BY <1>1, <1>8 DEF setAuthorizedCaller, setBindingPaused, MoneyTypes
    <2> QED
      BY <1>8, <2>1, SettingKeeps DEF setAuthorizedCaller, setBindingPaused
  <1> HIDE DEF bindVars, termVars, splitVars, strayVars, bookVars
  <1> QED
    BY <1>2, <1>3, <1>4, <1>5, <1>6, <1>7, <1>8, Zenon DEF RegistryStep

\* Every call of the router keeps its books: single fees, batches, withdrawals
\* and stray transfers.
LEMMA RouterKeeps ==
    ASSUME MoneyInv, RouterStep
    PROVE  MoneyInv'
  <1> USE DEF bindVars, termVars, splitVars, strayVars, bookVars
  <1>1. MoneyTypes /\ ParamsTypes
    BY DEF MoneyInv, ParamsInv
  <1>2. ASSUME NEW split, setFeeSplit(split) \/ syncFeeSplitFromParams, feeSplit' \in [Parts -> Nat]
        PROVE  MoneyInv'
    <2>1. MoneyTypes'
      BY <1>1, <1>2 DEF setFeeSplit, syncFeeSplitFromParams, MoneyTypes
    <2> QED
      BY <1>2, <2>1, SettingKeeps DEF setFeeSplit, syncFeeSplitFromParams
  <1>3. \A split \in Splits : setFeeSplit(split) => feeSplit' \in [Parts -> Nat]
    BY FeesAssumption DEF setFeeSplit
  <1>4. syncFeeSplitFromParams => feeSplit' \in [Parts -> Nat]
    <2>1. \A part \in Parts : tryGetParam(part, feeSplit[part]) \in Nat
      BY <1>1 DEF tryGetParam, MoneyTypes, ParamsTypes
    <2> QED
      BY <2>1 DEF syncFeeSplitFromParams, ParamSplit
  <1>5. ASSUME NEW set, NEW use, setParamController(set, use)
        PROVE  MoneyInv'
    <2>1. MoneyTypes'
      BY <1>1, <1>5 DEF setParamController, MoneyTypes
    <2> QED
      BY <1>5, <2>1, SettingKeeps DEF setParamController
  <1>6. ASSUME NEW on, setRouterPaused(on)
        PROVE  MoneyInv'
    <2>1. MoneyTypes'
      BY <1>1, <1>6 DEF setRouterPaused, MoneyTypes
    <2> QED
      BY <1>6, <2>1, SettingKeeps DEF setRouterPaused
  <1>7. ASSUME NEW amount \in FeeAmounts, emergencyWithdraw(amount) \/ Transfer(amount)
        PROVE  MoneyInv'
    <2>1. amount \in Nat
      BY FeesAssumption
    <2>2. MoneyTypes'
      BY <1>1, <1>7, <2>1 DEF emergencyWithdraw, Transfer, MoneyTypes
    <2>3. balance' = stray' - withdrawn'
      <3>1. balance = stray - withdrawn /\ stray \in Int /\ withdrawn \in Int
        BY DEF MoneyInv, MoneyTypes, FeesPassThrough
      <3>2. CASE emergencyWithdraw(amount)
        BY <2>1, <3>1, <3>2 DEF emergencyWithdraw
      <3>3. CASE Transfer(amount)
        BY <2>1, <3>1, <3>3 DEF Transfer
      <3> QED
        BY <1>7, <3>2, <3>3
    <2> QED
      BY <1>7, <2>2, <2>3, SettingKeeps DEF emergencyWithdraw, Transfer
  <1> HIDE DEF bindVars, termVars, splitVars, strayVars, bookVars
  <1> QED
    BY <1>2, <1>3, <1>4, <1>5, <1>6, <1>7, RouteFeeKeeps, BatchKeeps, Zenon DEF RouterStep

\* Every step keeps the books of fees.
LEMMA MoneyStep ==
    ASSUME MoneyInv, [Next]_vars
    PROVE  MoneyInv'
  <1>1. CASE (ParamsStep \/ UNCHANGED paramsVars) /\ UNCHANGED feesVars
    <2>1. ParamsInv'
      BY <1>1, ParamsStepKeeps DEF MoneyInv
    <2>2. MoneyTypes'
      BY <1>1 DEF MoneyInv, MoneyTypes, feesVars, bindVars, termVars, splitVars, strayVars, bookVars
    <2>3. FeesPassThrough' /\ RebatesWithinCap'
      BY <1>1 DEF MoneyInv, FeesPassThrough, RebatesWithinCap, OfParts, feesVars, strayVars, bookVars
    <2> QED
      BY <2>1, <2>2, <2>3 DEF MoneyInv
  <1> QED
    BY <1>1, RegistryKeeps, RouterKeeps, Zenon DEF Next, vars

\* The books of a router just deployed are empty.
LEMMA MoneyInitially == Init => MoneyInv
  <1> SUFFICES ASSUME Init
               PROVE  MoneyInv
    OBVIOUS
  <1>1. ParamsInv
    BY ParamsInitially DEF Init
  <1>2. MoneyTypes
    <2>1. 800 \in 0 .. MAX_REFERRAL_BPS
      BY DEF MAX_REFERRAL_BPS
    <2>2. DefaultSplit \in [Parts -> Nat]
      BY DEF DefaultSplit, Parts, Pools
    <2> QED
      BY <2>1, <2>2, FeesAssumption DEF Init, MoneyTypes, Terms
  <1>3. SumFunction(totalReferralRewards) = 0
    <2>1. /\ IsFiniteSet(Users) /\ DOMAIN totalReferralRewards = Users
          /\ \A u \in Users : totalReferralRewards[u] = 0
      BY FeesAssumption DEF Init
    <2> QED
      BY <2>1, SumZero DEF SumFunction
  <1>4. FeesPassThrough /\ RebatesWithinCap
    BY <1>3 DEF Init, FeesPassThrough, RebatesWithinCap, OfParts, Pots, Parts, Pools,
                BPS_DENOMINATOR, MAX_REFERRAL_BPS
  <1> QED
    BY <1>1, <1>2, <1>4 DEF MoneyInv

\* The books of fees hold throughout.
LEMMA MoneyAlways == Spec => []MoneyInv
  <1>1. MoneyInv /\ [Next]_vars => MoneyInv'
    BY MoneyStep
  <1> QED
    BY <1>1, MoneyInitially, PTL DEF Spec

\* Every fee is passed on whole, alone or in a batch of any length with entries
\* that fail, under shares of any size (FeeRouter.sol: routeFee, batchRouteFee).
THEOREM FeesPassThroughCorrect == Spec => []FeesPassThrough
  <1>1. MoneyInv => FeesPassThrough
    BY DEF MoneyInv
  <1> QED
    BY <1>1, MoneyAlways, PTL

\* The floors and the registry's setter keep the referrers' part of all fees
\* within the limit that the router itself does not look at.
THEOREM RebatesWithinCapCorrect == Spec => []RebatesWithinCap
  <1>1. MoneyInv => RebatesWithinCap
    BY DEF MoneyInv
  <1> QED
    BY <1>1, MoneyAlways, PTL

=============================================================================
