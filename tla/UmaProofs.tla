----------------------------- MODULE UmaProofs -----------------------------
(***************************************************************************)
(* The safety of the oracle adapter under UmaOracle, for any markets,      *)
(* accounts, facts and bounds.                                             *)
(***************************************************************************)
EXTENDS UmaOracle, TLAPS

Assertion == [claim : Facts, asserter : Accounts, disputed : BOOLEAN, disputer : Accounts,
              expirationTime : Nat, resolved : BOOLEAN, settlementResolution : BOOLEAN]

\* Every assertion is the one its market knows.
Filed == \A a \in DOMAIN assertions : marketAssertions[assertionMarkets[a]] = a

\* What a market has proposed is what its assertion claims.
Claimed ==
    \A id \in Ids : marketAssertions[id] # 0 =>
        /\ assertionMarkets[marketAssertions[id]] = id
        /\ assertions[marketAssertions[id]].claim = proposedResults[id]

\* Nothing is settled in favour of the proposer before its time.
Contestable ==
    \A a \in DOMAIN assertions :
        assertions[a].resolved /\ assertions[a].settlementResolution =>
            assertions[a].disputed \/ clock >= assertions[a].expirationTime

\* A market settled by hand has the accepted result.
FinalAccepted == \A id \in finalized : Accepted(id) /\ finalizedResults[id] = proposedResults[id]

Books == Filed /\ Claimed /\ Contestable /\ FinalAccepted
IInv == TypeOK /\ Books

-----------------------------------------------------------------------------
(***************************************************************************)
(* What the calls do to the adapter.                                       *)
(***************************************************************************)
LEMMA TypedAssertions ==
    ASSUME AdapterTypeOK
    PROVE  /\ assertions \in Seq(Assertion) /\ Len(assertions) \in Nat
           /\ assertionMarkets \in Seq(Ids) /\ Len(assertionMarkets) = Len(assertions)
           /\ \A a \in DOMAIN assertions : assertions[a] \in Assertion /\ assertionMarkets[a] \in Ids
<1>1. assertions \in Seq(Assertion) /\ Len(assertions) \in Nat
    BY DEF AdapterTypeOK, Assertion
<1>2. assertionMarkets \in Seq(Ids) /\ Len(assertionMarkets) = Len(assertions)
    BY DEF AdapterTypeOK
<1> QED BY <1>1, <1>2

LEMMA ProposeKeeps ==
    ASSUME AdapterTypeOK, Books, NEW caller \in Accounts, NEW id \in Ids, NEW facts \in Facts,
           proposeResult(caller, id, facts)
    PROVE  AdapterTypeOK' /\ Books'
<1> DEFINE n == Len(assertions)
           new == [claim |-> facts, asserter |-> caller, disputed |-> FALSE, disputer |-> caller,
                   expirationTime |-> clock + liveness, resolved |-> FALSE,
                   settlementResolution |-> FALSE]
<1>1. /\ assertions' = Append(assertions, new) /\ new \in Assertion
      /\ assertionMarkets' = Append(assertionMarkets, id)
      /\ proposedResults' = [proposedResults EXCEPT ![id] = facts]
      /\ bonds' = [bonds EXCEPT ![caller] = @ - 1] /\ bonds[caller] > 0
      /\ marketAssertions[id] = 0
      /\ UNCHANGED <<clock, finalizedResults, finalized>>
    BY AdapterAssumption DEF proposeResult, assertTruth, MayPropose, Unasserted, AdapterTypeOK,
       Assertion, finalVars
<1>2. /\ assertions \in Seq(Assertion) /\ n \in Nat
      /\ assertionMarkets \in Seq(Ids) /\ Len(assertionMarkets) = n
    BY TypedAssertions
<1>3. /\ assertions' \in Seq(Assertion) /\ Len(assertions') = n + 1
      /\ assertionMarkets' \in Seq(Ids) /\ Len(assertionMarkets') = n + 1
      /\ assertions'[n + 1] = new /\ assertionMarkets'[n + 1] = id
      /\ \A a \in 1 .. n : assertions'[a] = assertions[a] /\ assertionMarkets'[a] = assertionMarkets[a]
    BY <1>1, <1>2
<1>4. marketAssertions' = [marketAssertions EXCEPT ![id] = n + 1]
    BY <1>3 DEF proposeResult
<1>5. marketAssertions \in [Ids -> 0 .. n]
    BY DEF AdapterTypeOK
<1>6. AdapterTypeOK'
    <2>1. marketAssertions' \in [Ids -> 0 .. n + 1]
        BY <1>2, <1>4, <1>5
    <2>2. bonds' \in [Accounts -> Nat]
        BY <1>1 DEF AdapterTypeOK
    <2>3. proposedResults' \in [Ids -> Facts \cup {NoFacts}]
        BY <1>1 DEF AdapterTypeOK
    <2> QED BY <1>1, <1>3, <2>1, <2>2, <2>3 DEF AdapterTypeOK, Assertion
<1>7. Filed'
    <2> SUFFICES ASSUME NEW a \in 1 .. n + 1
                 PROVE  marketAssertions'[assertionMarkets'[a]] = a
        BY <1>3 DEF Filed
    <2>1. CASE a = n + 1
        BY <2>1, <1>3, <1>4, <1>5
    <2>2. CASE a \in 1 .. n
        <3>1. marketAssertions[assertionMarkets[a]] = a /\ assertionMarkets[a] \in Ids
            BY <2>2, <1>2, TypedAssertions DEF Books, Filed
        <3>2. assertionMarkets[a] # id
            BY <3>1, <2>2, <1>1
        <3> QED BY <3>1, <3>2, <2>2, <1>3, <1>4, <1>5
    <2> QED BY <2>1, <2>2, <1>2
<1>8. Claimed'
    <2> SUFFICES ASSUME NEW i \in Ids, marketAssertions'[i] # 0
                 PROVE  /\ assertionMarkets'[marketAssertions'[i]] = i
                        /\ assertions'[marketAssertions'[i]].claim = proposedResults'[i]
        BY DEF Claimed
    <2>1. CASE i = id
        BY <2>1, <1>1, <1>3, <1>4, <1>5 DEF AdapterTypeOK
    <2>2. CASE i # id
        <3>1. marketAssertions'[i] = marketAssertions[i] /\ marketAssertions[i] \in 1 .. n
            BY <2>2, <1>2, <1>4, <1>5
        <3>2. proposedResults'[i] = proposedResults[i]
            BY <2>2, <1>1 DEF AdapterTypeOK
        <3> QED BY <3>1, <3>2, <1>3 DEF Books, Claimed
    <2> QED BY <2>1, <2>2
<1>9. Contestable'
    <2> SUFFICES ASSUME NEW a \in 1 .. n + 1,
                        assertions'[a].resolved, assertions'[a].settlementResolution
                 PROVE  assertions'[a].disputed \/ clock >= assertions'[a].expirationTime
        BY <1>1, <1>3 DEF Contestable
    <2>1. a \in 1 .. n
        BY <1>2, <1>3
    <2> QED BY <2>1, <1>2, <1>3 DEF Books, Contestable
<1>10. FinalAccepted'
    <2> SUFFICES ASSUME NEW i \in finalized
                 PROVE  Accepted(i)' /\ finalizedResults[i] = proposedResults'[i]
        BY <1>1 DEF FinalAccepted
    <2>1. i \in Ids /\ Accepted(i) /\ finalizedResults[i] = proposedResults[i]
        BY DEF Books, FinalAccepted, AdapterTypeOK
    <2>2. i # id /\ marketAssertions'[i] = marketAssertions[i] /\ marketAssertions[i] \in 1 .. n
        BY <2>1, <1>1, <1>2, <1>4, <1>5 DEF Accepted
    <2>3. proposedResults'[i] = proposedResults[i]
        BY <2>1, <2>2, <1>1 DEF AdapterTypeOK
    <2> QED BY <2>1, <2>2, <2>3, <1>3 DEF Accepted
<1> QED BY <1>6, <1>7, <1>8, <1>9, <1>10 DEF Books

\* One unresolved assertion changes and keeps its claim; nothing is filed anew.
LEMMA ChangeEffect ==
    ASSUME AdapterTypeOK, Books, NEW a \in DOMAIN assertions, NEW changed \in Assertion,
           ~assertions[a].resolved,
           assertions' = [assertions EXCEPT ![a] = changed],
           changed.claim = assertions[a].claim,
           changed.resolved /\ changed.settlementResolution =>
               changed.disputed \/ clock >= changed.expirationTime,
           UNCHANGED <<clock, bookVars>>
    PROVE  /\ assertions' \in Seq(Assertion) /\ Len(assertions') = Len(assertions)
           /\ assertions'[a] = changed
           /\ Filed' /\ Claimed' /\ Contestable'
           /\ \A id \in Ids : Accepted(id) => Accepted(id)'
<1> DEFINE n == Len(assertions)
<1>1. /\ assertions \in Seq(Assertion) /\ n \in Nat /\ a \in 1 .. n
      /\ assertionMarkets \in Seq(Ids) /\ Len(assertionMarkets) = n
    BY TypedAssertions
<1>2. /\ assertions' \in Seq(Assertion) /\ Len(assertions') = n /\ DOMAIN assertions' = 1 .. n
      /\ assertions'[a] = changed
      /\ \A b \in 1 .. n : b # a => assertions'[b] = assertions[b]
    BY <1>1
<1>3. marketAssertions \in [Ids -> 0 .. n]
    BY DEF AdapterTypeOK
<1>4. UNCHANGED <<clock, marketAssertions, assertionMarkets, proposedResults>>
    BY DEF bookVars
<1>5. Filed'
    BY <1>1, <1>2, <1>4 DEF Books, Filed
<1>6. Claimed'
    <2> SUFFICES ASSUME NEW id \in Ids, marketAssertions[id] # 0
                 PROVE  /\ assertionMarkets[marketAssertions[id]] = id
                        /\ assertions'[marketAssertions[id]].claim = proposedResults[id]
        BY <1>4 DEF Claimed
    <2>1. /\ marketAssertions[id] \in 1 .. n
          /\ assertionMarkets[marketAssertions[id]] = id
          /\ assertions[marketAssertions[id]].claim = proposedResults[id]
        BY <1>1, <1>3 DEF Books, Claimed
    <2> QED BY <2>1, <1>2
<1>7. Contestable'
    <2> SUFFICES ASSUME NEW b \in 1 .. n, assertions'[b].resolved, assertions'[b].settlementResolution
                 PROVE  assertions'[b].disputed \/ clock >= assertions'[b].expirationTime
        BY <1>2, <1>4 DEF Contestable
    <2>1. CASE b = a
        BY <2>1, <1>2
    <2>2. CASE b # a
        BY <2>2, <1>1, <1>2 DEF Books, Contestable
    <2> QED BY <2>1, <2>2
<1>8. \A id \in Ids : Accepted(id) => Accepted(id)'
    <2> SUFFICES ASSUME NEW id \in Ids, Accepted(id) PROVE Accepted(id)'
        OBVIOUS
    <2>1. marketAssertions[id] \in 1 .. n /\ marketAssertions[id] # a
        BY <1>1, <1>3 DEF Accepted
    <2> QED BY <2>1, <1>2, <1>4 DEF Accepted
<1> QED BY <1>2, <1>5, <1>6, <1>7, <1>8

LEMMA SettlesEffect ==
    ASSUME AdapterTypeOK, Books, NEW a \in DOMAIN assertions, NEW accepted \in BOOLEAN,
           Settles(a, accepted), UNCHANGED <<clock, bookVars>>
    PROVE  /\ assertions' \in Seq(Assertion) /\ Len(assertions') = Len(assertions)
           /\ assertions'[a].resolved /\ assertions'[a].settlementResolution = accepted
           /\ bonds' \in [Accounts -> Nat]
           /\ Filed' /\ Claimed' /\ Contestable'
           /\ \A id \in Ids : Accepted(id) => Accepted(id)'
<1> DEFINE old == assertions[a]
           changed == [old EXCEPT !.resolved = TRUE, !.settlementResolution = accepted]
<1>1. assertions \in Seq(Assertion) /\ a \in 1 .. Len(assertions) /\ old \in Assertion
    BY TypedAssertions
<1>2. /\ changed \in Assertion /\ changed.claim = old.claim
      /\ changed.resolved /\ changed.settlementResolution = accepted
      /\ changed.disputed = old.disputed /\ changed.expirationTime = old.expirationTime
    BY <1>1 DEF Assertion
<1>3. ~old.resolved /\ (old.disputed \/ clock >= old.expirationTime)
    BY DEF Settles
<1>4. assertions' = [assertions EXCEPT ![a] = changed]
    BY <1>1 DEF Settles, Resolve
<1>5. bonds' \in [Accounts -> Nat]
    <2>1. Winner(a, accepted) \in Accounts
        BY <1>1 DEF Winner, Assertion
    <2> DEFINE w == Winner(a, accepted)
               d == IF assertions[a].disputed THEN 2 ELSE 1
    <2>2. bonds' = [bonds EXCEPT ![w] = @ + d] /\ d \in Nat
        BY DEF Settles, Resolve
    <2>3. bonds \in [Accounts -> Nat]
        BY DEF AdapterTypeOK
    <2> HIDE DEF w, d
    <2> QED BY <2>1, <2>2, <2>3 DEF w
<1> HIDE DEF changed, old
<1>6. /\ assertions' \in Seq(Assertion) /\ Len(assertions') = Len(assertions)
      /\ assertions'[a] = changed
      /\ Filed' /\ Claimed' /\ Contestable'
      /\ \A id \in Ids : Accepted(id) => Accepted(id)'
    BY <1>2, <1>3, <1>4, ChangeEffect DEF old
<1> QED BY <1>2, <1>5, <1>6

LEMMA SettleDirectlyKeeps ==
    ASSUME AdapterTypeOK, Books, NEW a \in DOMAIN assertions, NEW accepted \in BOOLEAN,
           SettleDirectly(a, accepted)
    PROVE  AdapterTypeOK' /\ Books'
<1>1. Settles(a, accepted) /\ UNCHANGED <<clock, bookVars, finalVars>>
    BY DEF SettleDirectly
<1>2. /\ assertions' \in Seq(Assertion) /\ Len(assertions') = Len(assertions)
      /\ bonds' \in [Accounts -> Nat]
      /\ Filed' /\ Claimed' /\ Contestable'
      /\ \A id \in Ids : Accepted(id) => Accepted(id)'
    BY <1>1, SettlesEffect
<1>3. AdapterTypeOK'
    BY <1>1, <1>2 DEF AdapterTypeOK, Assertion, bookVars, finalVars
<1>4. FinalAccepted'
    BY <1>1, <1>2 DEF Books, FinalAccepted, AdapterTypeOK, bookVars, finalVars
<1> QED BY <1>2, <1>3, <1>4 DEF Books

LEMMA SettleKeeps ==
    ASSUME AdapterTypeOK, Books, NEW id \in Ids, settleAssertion(id)
    PROVE  AdapterTypeOK' /\ Books'
<1> DEFINE a == marketAssertions[id]
<1>1. /\ a # 0 /\ UNCHANGED <<clock, bookVars>>
      /\ finalizedResults' = [finalizedResults EXCEPT ![id] = proposedResults[id]]
      /\ finalized' = finalized \cup {id}
    BY DEF settleAssertion
<1>2. a \in DOMAIN assertions
    BY <1>1, TypedAssertions DEF AdapterTypeOK
<1>3. /\ assertions' \in Seq(Assertion) /\ Len(assertions') = Len(assertions)
      /\ assertions'[a].resolved /\ assertions'[a].settlementResolution
      /\ bonds' \in [Accounts -> Nat]
      /\ Filed' /\ Claimed' /\ Contestable'
      /\ \A i \in Ids : Accepted(i) => Accepted(i)'
    <2>1. CASE Settles(a, TRUE)
        BY <2>1, <1>1, <1>2, SettlesEffect
    <2>2. CASE assertions[a].resolved /\ assertions[a].settlementResolution /\ UNCHANGED umaVars
        BY <2>2, <1>1, TypedAssertions
        DEF umaVars, bookVars, AdapterTypeOK, Books, Filed, Claimed, Contestable, Accepted
    <2> QED BY <2>1, <2>2 DEF settleAssertion
<1>4. AdapterTypeOK'
    BY <1>1, <1>3 DEF AdapterTypeOK, Assertion, bookVars
<1>5. FinalAccepted'
    <2> SUFFICES ASSUME NEW i \in finalized'
                 PROVE  Accepted(i)' /\ finalizedResults'[i] = proposedResults'[i]
        BY DEF FinalAccepted
    <2>1. CASE i = id
        BY <2>1, <1>1, <1>3 DEF Accepted, AdapterTypeOK, bookVars
    <2>2. CASE i # id
        <3>1. i \in finalized /\ i \in Ids
            BY <2>2, <1>1 DEF AdapterTypeOK
        <3> QED BY <3>1, <2>2, <1>1, <1>3 DEF Books, FinalAccepted, AdapterTypeOK, bookVars
    <2> QED BY <2>1, <2>2
<1> QED BY <1>3, <1>4, <1>5 DEF Books

LEMMA DisputeKeeps ==
    ASSUME AdapterTypeOK, Books, NEW caller \in Accounts, NEW id \in Ids,
           disputeAssertion(caller, id)
    PROVE  AdapterTypeOK' /\ Books'
<1> DEFINE a == marketAssertions[id]
           old == assertions[a]
           changed == [old EXCEPT !.disputed = TRUE, !.disputer = caller]
<1>1. a \in DOMAIN assertions /\ old \in Assertion
    BY TypedAssertions DEF AdapterTypeOK, disputeAssertion
<1>2. /\ changed \in Assertion /\ changed.claim = old.claim /\ changed.disputed
    BY <1>1 DEF Assertion
<1>3. /\ ~old.resolved /\ assertions' = [assertions EXCEPT ![a] = changed]
      /\ bonds' \in [Accounts -> Nat] /\ UNCHANGED <<clock, bookVars, finalVars>>
    <2>1. ~old.resolved /\ UNCHANGED <<clock, bookVars, finalVars>>
        BY DEF disputeAssertion
    <2>2. bonds' = [bonds EXCEPT ![caller] = @ - 1] /\ bonds[caller] > 0
        BY DEF disputeAssertion
    <2>3. bonds' \in [Accounts -> Nat]
        BY <2>2 DEF AdapterTypeOK
    <2>4. assertions' = [assertions EXCEPT ![a].disputed = TRUE, ![a].disputer = caller]
        BY DEF disputeAssertion
    <2>5. assertions' = [assertions EXCEPT ![a] = changed]
        BY <2>4, <1>1
    <2> QED BY <2>1, <2>3, <2>5
<1> HIDE DEF changed, old
<1>4. /\ assertions' \in Seq(Assertion) /\ Len(assertions') = Len(assertions)
      /\ Filed' /\ Claimed' /\ Contestable'
      /\ \A i \in Ids : Accepted(i) => Accepted(i)'
    BY <1>1, <1>2, <1>3, ChangeEffect DEF old
<1>5. AdapterTypeOK'
    BY <1>3, <1>4 DEF AdapterTypeOK, Assertion, bookVars, finalVars
<1>6. FinalAccepted'
    BY <1>3, <1>4 DEF Books, FinalAccepted, AdapterTypeOK, bookVars, finalVars
<1> QED BY <1>4, <1>5, <1>6 DEF Books

LEMMA PassKeeps == AdapterTypeOK /\ Books /\ Pass => AdapterTypeOK' /\ Books'
<1> SUFFICES ASSUME AdapterTypeOK, Books, Pass PROVE AdapterTypeOK' /\ Books'
    OBVIOUS
<1> USE DEF Pass, umaVars, bookVars, finalVars
<1>1. AdapterTypeOK'
    BY DEF AdapterTypeOK
<1>2. Contestable'
    <2> SUFFICES ASSUME NEW a \in DOMAIN assertions,
                        assertions[a].resolved, assertions[a].settlementResolution
                 PROVE  assertions[a].disputed \/ clock' >= assertions[a].expirationTime
        BY DEF Contestable
    <2>1. assertions[a].expirationTime \in Nat /\ clock \in Nat
        BY TypedAssertions DEF Assertion, AdapterTypeOK
    <2> QED BY <2>1 DEF Books, Contestable
<1>3. Filed' /\ Claimed' /\ FinalAccepted'
    BY DEF Books, Filed, Claimed, FinalAccepted, Accepted
<1> QED BY <1>1, <1>2, <1>3 DEF Books

-----------------------------------------------------------------------------
(***************************************************************************)
(* The keeper.                                                             *)
(***************************************************************************)
LEMMA IInvInit == Init => IInv
<1> SUFFICES ASSUME Init PROVE IInv
    OBVIOUS
<1> USE DEF Init, AdapterInit
<1>1. AdapterTypeOK
    BY AdapterAssumption DEF AdapterTypeOK
<1>2. TypeOK
    BY <1>1, OracleAssumption DEF TypeOK, Idle
<1>3. Books
    BY DEF Books, Filed, Claimed, Contestable, FinalAccepted
<1> QED BY <1>2, <1>3 DEF IInv

WorkerState == [step : {"idle", "fetch", "send", "wait"}, facts : Facts \cup {NoFacts},
                receipt : {"none", "ok", "reverted"}]

\* The part of TypeOK that is the keeper's.
KeeperOK ==
    /\ worker \in [Markets -> WorkerState]
    /\ \A m \in Markets : worker[m].step = "send" => worker[m].facts \in Facts
    /\ mempool \subseteq [market : Markets, facts : Facts, awaited : BOOLEAN]
    /\ faults \in 0 .. MaxFaults

LEMMA TypeParts == TypeOK <=> AdapterTypeOK /\ clock <= MaxTime /\ KeeperOK
BY DEF TypeOK, KeeperOK, WorkerState

LEMMA AdapterStill ==
    ASSUME AdapterTypeOK, Books, clock <= MaxTime, UNCHANGED adapterVars
    PROVE  AdapterTypeOK' /\ Books' /\ (clock <= MaxTime)'
BY DEF adapterVars, umaVars, bookVars, finalVars, AdapterTypeOK, Books, Filed, Claimed,
   Contestable, FinalAccepted, Accepted

\* A worker goes on, and it has facts to send when it comes to that.
LEMMA GotoOK ==
    ASSUME KeeperOK, NEW m \in Markets, NEW next \in WorkerState, Goto(m, next),
           next.step = "send" => next.facts \in Facts
    PROVE  /\ worker' \in [Markets -> WorkerState]
           /\ \A k \in Markets : worker'[k].step = "send" => worker'[k].facts \in Facts
BY DEF KeeperOK, Goto

LEMMA FaultOK == KeeperOK /\ Fault => faults' \in 0 .. MaxFaults
BY OracleAssumption DEF KeeperOK, Fault

LEMMA ReceiptOK ==
    ASSUME KeeperOK, NEW tx \in mempool, NEW status \in {"ok", "reverted"}, Receipt(tx, status),
           mempool' = mempool \ {tx}, UNCHANGED faults
    PROVE  KeeperOK'
<1>1. tx.market \in Markets /\ worker \in [Markets -> WorkerState]
    BY DEF KeeperOK
<1>2. CASE worker' = worker
    BY <1>2 DEF KeeperOK
<1>3. CASE worker' = [worker EXCEPT ![tx.market].receipt = status]
    <2> DEFINE old == worker[tx.market]
               new == [old EXCEPT !.receipt = status]
    <2>1. old \in WorkerState
        BY <1>1
    <2>2. new \in WorkerState /\ new.step = old.step /\ new.facts = old.facts
        BY <2>1 DEF WorkerState
    <2>3. worker' = [worker EXCEPT ![tx.market] = new]
        BY <1>1, <1>3
    <2> HIDE DEF new
    <2> QED BY <1>1, <2>2, <2>3 DEF KeeperOK
<1> QED BY <1>2, <1>3 DEF Receipt

LEMMA KeeperKeeps ==
    ASSUME KeeperOK, AdapterTypeOK, clock <= MaxTime,
           \/ RoundStarts
           \/ \E m \in Markets : WorkerSteps(m) \/ CallFails(m) \/ WaitTimesOut(m)
    PROVE  KeeperOK' /\ UNCHANGED adapterVars
<1>1. Idle \in WorkerState /\ Idle.step = "idle" /\ Fetching \in WorkerState /\ Fetching.step = "fetch"
    BY DEF Idle, Fetching, WorkerState
<1>2. CASE RoundStarts
    BY <1>1, <1>2 DEF RoundStarts, KeeperOK
<1>3. ASSUME NEW m \in Markets, FetchResult(m) PROVE KeeperOK' /\ UNCHANGED adapterVars
    <2>1. PICK result \in Results :
              Goto(m, [Idle EXCEPT !.step = "send", !.facts = FactsOf(result, clock)])
        BY <1>3 DEF FetchResult
    <2>2. FactsOf(result, clock) \in Facts
        BY OracleAssumption DEF AdapterTypeOK
    <2> DEFINE next == [Idle EXCEPT !.step = "send", !.facts = FactsOf(result, clock)]
    <2>3. next \in WorkerState /\ next.facts \in Facts
        BY <2>2 DEF Idle, WorkerState
    <2> HIDE DEF next
    <2>4. Goto(m, next)
        BY <2>1 DEF next
    <2> QED BY <2>3, <2>4, <1>3, GotoOK DEF KeeperOK, FetchResult
<1>4. ASSUME NEW m \in Markets, SendProposal(m) PROVE KeeperOK' /\ UNCHANGED adapterVars
    <2> DEFINE next == [Idle EXCEPT !.step = "wait"]
    <2>1. next \in WorkerState /\ next.step = "wait"
        BY DEF Idle, WorkerState
    <2> HIDE DEF next
    <2>2. Goto(m, next)
        BY <1>4 DEF SendProposal, next
    <2>3. Proposal(m, TRUE) \in [market : Markets, facts : Facts, awaited : BOOLEAN]
        BY <1>4 DEF SendProposal, Proposal, KeeperOK
    <2> QED BY <2>1, <2>2, <2>3, <1>4, GotoOK DEF KeeperOK, SendProposal
<1>5. ASSUME NEW m \in Markets, CallFails(m) PROVE KeeperOK' /\ UNCHANGED adapterVars
    <2>1. worker[m].step = "send" =>
              Proposal(m, FALSE) \in [market : Markets, facts : Facts, awaited : BOOLEAN]
        BY DEF Proposal, KeeperOK
    <2>2. mempool' \subseteq [market : Markets, facts : Facts, awaited : BOOLEAN]
        BY <1>5, <2>1 DEF CallFails, KeeperOK
    <2>3. Goto(m, Idle) /\ Fault /\ UNCHANGED adapterVars
        BY <1>5 DEF CallFails
    <2> QED BY <1>1, <2>2, <2>3, GotoOK, FaultOK DEF KeeperOK
<1>6. ASSUME NEW m \in Markets, Confirmed(m) PROVE KeeperOK' /\ UNCHANGED adapterVars
    BY <1>1, <1>6, GotoOK DEF Confirmed, KeeperOK
<1>7. ASSUME NEW m \in Markets, WaitTimesOut(m) PROVE KeeperOK' /\ UNCHANGED adapterVars
    <2>1. mempool' \subseteq [market : Markets, facts : Facts, awaited : BOOLEAN]
        BY <1>7 DEF WaitTimesOut, KeeperOK
    <2> QED BY <1>1, <1>7, <2>1, GotoOK, FaultOK DEF WaitTimesOut, KeeperOK
<1> QED BY <1>2, <1>3, <1>4, <1>5, <1>6, <1>7 DEF WorkerSteps

LEMMA MineKeeps ==
    ASSUME IInv, NEW tx \in mempool, Mine(tx)
    PROVE  IInv'
<1>1. KeeperOK /\ AdapterTypeOK /\ Books /\ clock <= MaxTime
    BY TypeParts DEF IInv
<1>2. KeeperOK'
    BY <1>1, ReceiptOK DEF Mine
<1>3. KeeperId(tx.market) \in Ids /\ tx.facts \in Facts
    BY <1>1, OracleAssumption DEF KeeperOK, KeeperId
<1>4. CASE proposeResult(KeeperAccount, KeeperId(tx.market), tx.facts)
    <2>1. AdapterTypeOK' /\ Books'
        BY <1>1, <1>3, <1>4, ProposeKeeps, OracleAssumption
    <2>2. clock' = clock
        BY <1>4 DEF proposeResult
    <2> QED BY <1>1, <1>2, <2>1, <2>2, TypeParts DEF IInv, TypeOK, KeeperOK, WorkerState
<1>5. CASE UNCHANGED adapterVars
    BY <1>1, <1>2, <1>5, AdapterStill DEF IInv, TypeOK, KeeperOK, WorkerState
<1> QED BY <1>4, <1>5 DEF Mine

LEMMA OthersKeep == IInv /\ OthersCall => IInv'
<1> SUFFICES ASSUME IInv, OthersCall PROVE IInv'
    OBVIOUS
<1>1. KeeperOK /\ AdapterTypeOK /\ Books /\ clock <= MaxTime
    BY TypeParts DEF IInv
<1>2. KeeperOK'
    BY <1>1 DEF OthersCall, keeperVars, KeeperOK
<1>3. AdapterTypeOK' /\ Books'
    <2>1. ASSUME NEW c \in Accounts, NEW id \in Ids, disputeAssertion(c, id)
          PROVE  AdapterTypeOK' /\ Books'
        BY <1>1, <2>1, DisputeKeeps
    <2>2. ASSUME NEW c \in Accounts, NEW id \in Ids, NEW f \in OtherFacts, proposeResult(c, id, f)
          PROVE  AdapterTypeOK' /\ Books'
        BY <1>1, <2>2, ProposeKeeps, OracleAssumption
    <2>3. ASSUME NEW id \in Ids, settleAssertion(id) PROVE AdapterTypeOK' /\ Books'
        BY <1>1, <2>3, SettleKeeps
    <2>4. ASSUME NEW a \in DOMAIN assertions, NEW accepted \in BOOLEAN, SettleDirectly(a, accepted)
          PROVE  AdapterTypeOK' /\ Books'
        BY <1>1, <2>4, SettleDirectlyKeeps
    <2> QED BY <2>1, <2>2, <2>3, <2>4 DEF OthersCall
<1>4. clock' = clock
    BY DEF OthersCall, disputeAssertion, proposeResult, settleAssertion, SettleDirectly
<1> QED BY <1>1, <1>2, <1>3, <1>4 DEF IInv, TypeOK, KeeperOK, WorkerState

LEMMA IInvStep == IInv /\ [Next]_vars => IInv'
<1> SUFFICES ASSUME IInv, [Next]_vars PROVE IInv'
    OBVIOUS
<1>1. KeeperOK /\ AdapterTypeOK /\ Books /\ clock <= MaxTime
    BY TypeParts DEF IInv
<1>2. CASE Tick
    <2>1. AdapterTypeOK' /\ Books'
        BY <1>1, <1>2, PassKeeps DEF Tick
    <2>2. KeeperOK' /\ clock' <= MaxTime
        BY <1>1, <1>2, OracleAssumption DEF Tick, Pass, keeperVars, KeeperOK, AdapterTypeOK
    <2> QED BY <2>1, <2>2 DEF IInv, TypeOK, KeeperOK, WorkerState
<1>3. CASE RoundStarts \/ \E m \in Markets : WorkerSteps(m) \/ CallFails(m) \/ WaitTimesOut(m)
    <2>1. KeeperOK' /\ UNCHANGED adapterVars
        BY <1>1, <1>3, KeeperKeeps
    <2> QED BY <1>1, <2>1, AdapterStill DEF IInv, TypeOK, KeeperOK, WorkerState
<1>4. CASE \E tx \in mempool : Mine(tx)
    BY <1>4, MineKeeps
<1>5. CASE OthersCall
    BY <1>5, OthersKeep
<1>6. CASE UNCHANGED vars
    BY <1>1, <1>6, AdapterStill DEF vars, keeperVars, IInv, TypeOK
<1> QED BY <1>2, <1>3, <1>4, <1>5, <1>6 DEF Next

-----------------------------------------------------------------------------
(***************************************************************************)
(* The theorems.                                                           *)
(***************************************************************************)
LEMMA Invariance == Spec => []IInv
BY IInvInit, IInvStep, PTL DEF Spec

\* The state of the adapter, of the optimistic oracle and of the keeper's workers
\* and proposals is of its type.
THEOREM TypeCorrect == Spec => []TypeOK
BY Invariance, PTL DEF IInv

\* However often the keeper proposes, and whoever else does: a market has at most
\* one assertion, and costs its proposers at most one bond.
THEOREM OneBondPerMarketCorrect == Spec => []OneBondPerMarket
<1>1. IInv => OneBondPerMarket
    BY DEF IInv, Books, Filed, OneBondPerMarket
<1> QED BY <1>1, Invariance, PTL

\* A result that getResult calls final was asserted for the market, and stood
\* undisputed to the end of the window or was upheld by the vote.
THEOREM FinalWasContestableCorrect == Spec => []FinalWasContestable
<1>1. IInv => FinalWasContestable
    <2> SUFFICES ASSUME IInv, NEW id \in Ids, getResult(id).final
                 PROVE  \E a \in DOMAIN assertions :
                            /\ assertionMarkets[a] = id
                            /\ assertions[a].claim = getResult(id).facts
                            /\ assertions[a].resolved /\ assertions[a].settlementResolution
                            /\ assertions[a].disputed \/ clock >= assertions[a].expirationTime
        BY DEF FinalWasContestable
    <2> DEFINE a == marketAssertions[id]
    <2>1. Accepted(id) /\ getResult(id).facts = proposedResults[id]
        BY DEF getResult, IInv, Books, FinalAccepted
    <2>2. a \in DOMAIN assertions
        BY <2>1, TypedAssertions DEF Accepted, IInv, TypeOK, AdapterTypeOK
    <2> WITNESS a \in DOMAIN assertions
    <2> QED BY <2>1, <2>2 DEF Accepted, IInv, Books, Claimed, Contestable
<1> QED BY <1>1, Invariance, PTL

\* No step takes back an accepted assertion, or changes what it was for.
LEMMA AcceptedKept ==
    ASSUME IInv, [Next]_vars, NEW id \in Ids, Accepted(id)
    PROVE  Accepted(id)' /\ proposedResults'[id] = proposedResults[id]
<1>1. AdapterTypeOK /\ Books
    BY DEF IInv, TypeOK
<1>2. marketAssertions[id] \in DOMAIN assertions /\ marketAssertions[id] # 0
    BY <1>1, TypedAssertions DEF Accepted, AdapterTypeOK
<1>3. ASSUME NEW c, NEW i \in Ids, NEW f, proposeResult(c, i, f)
      PROVE  Accepted(id)' /\ proposedResults'[id] = proposedResults[id]
    <2>1. i # id
        BY <1>2, <1>3 DEF proposeResult, MayPropose, Unasserted
    <2>2. marketAssertions'[id] = marketAssertions[id] /\ proposedResults'[id] = proposedResults[id]
        BY <1>1, <1>3, <2>1 DEF proposeResult, AdapterTypeOK
    <2>3. PICK new : assertions' = Append(assertions, new)
        BY <1>3 DEF proposeResult, assertTruth
    <2>4. assertions'[marketAssertions[id]] = assertions[marketAssertions[id]]
        BY <1>1, <1>2, <2>3, TypedAssertions
    <2> QED BY <2>2, <2>4 DEF Accepted
<1>4. ASSUME NEW a \in DOMAIN assertions, NEW b \in BOOLEAN, SettleDirectly(a, b)
      PROVE  Accepted(id)' /\ proposedResults'[id] = proposedResults[id]
    BY <1>1, <1>4, SettlesEffect DEF SettleDirectly, bookVars
<1>5. ASSUME NEW i \in Ids, settleAssertion(i)
      PROVE  Accepted(id)' /\ proposedResults'[id] = proposedResults[id]
    <2>1. marketAssertions[i] \in DOMAIN assertions /\ UNCHANGED <<clock, bookVars>>
        BY <1>1, <1>5, TypedAssertions DEF settleAssertion, AdapterTypeOK
    <2>2. CASE Settles(marketAssertions[i], TRUE)
        BY <1>1, <2>1, <2>2, SettlesEffect DEF bookVars
    <2>3. CASE UNCHANGED umaVars
        BY <2>1, <2>3 DEF umaVars, bookVars, Accepted
    <2> QED BY <1>5, <2>2, <2>3 DEF settleAssertion
<1>6. ASSUME NEW c \in Accounts, NEW i \in Ids, disputeAssertion(c, i)
      PROVE  Accepted(id)' /\ proposedResults'[id] = proposedResults[id]
    <2>1. /\ marketAssertions[i] # marketAssertions[id]
          /\ assertions' = [assertions EXCEPT ![marketAssertions[i]].disputed = TRUE,
                                             ![marketAssertions[i]].disputer = c]
        BY <1>6 DEF disputeAssertion, Accepted
    <2>2. assertions'[marketAssertions[id]] = assertions[marketAssertions[id]]
        BY <1>2, <2>1
    <2> QED BY <1>6, <2>2 DEF disputeAssertion, bookVars, Accepted
<1>7. CASE UNCHANGED <<assertions, bookVars>>
    BY <1>7 DEF bookVars, Accepted
<1>8. CASE Tick
    BY <1>7, <1>8 DEF Tick, Pass, umaVars
<1>9. CASE RoundStarts \/ \E m \in Markets : WorkerSteps(m) \/ CallFails(m) \/ WaitTimesOut(m)
    <2>1. KeeperOK /\ clock <= MaxTime
        BY TypeParts DEF IInv
    <2>2. UNCHANGED adapterVars
        BY <1>1, <1>9, <2>1, KeeperKeeps
    <2> QED BY <1>7, <2>2 DEF adapterVars, umaVars
<1>10. CASE \E tx \in mempool : Mine(tx)
    BY <1>3, <1>7, <1>10, OracleAssumption DEF Mine, adapterVars, umaVars, IInv, TypeOK, KeeperId
<1>11. CASE OthersCall
    BY <1>3, <1>4, <1>5, <1>6, <1>11 DEF OthersCall
<1>12. CASE UNCHANGED vars
    BY <1>7, <1>12 DEF vars, adapterVars, umaVars
<1> QED BY <1>8, <1>9, <1>10, <1>11, <1>12 DEF Next

\* A result that getResult has called final stays the market's result, whether it
\* is settled by hand afterwards or not.
THEOREM FinalForGoodCorrect == Spec => FinalForGood
<1>1. ASSUME IInv, NEW id \in Ids, getResult(id).final
      PROVE  Accepted(id) /\ getResult(id) = [facts |-> proposedResults[id], final |-> TRUE]
    <2>1. CASE id \in finalized
        BY <1>1, <2>1 DEF getResult, IInv, Books, FinalAccepted
    <2>2. CASE id \notin finalized
        BY <1>1, <2>2 DEF getResult, Accepted
    <2> QED BY <2>1, <2>2
<1>2. ASSUME IInv, IInv', [Next]_vars, NEW id \in Ids, getResult(id).final
      PROVE  getResult(id)' = getResult(id)
    <2>1. Accepted(id) /\ getResult(id) = [facts |-> proposedResults[id], final |-> TRUE]
        BY <1>1, <1>2
    <2>2. Accepted(id)' /\ proposedResults'[id] = proposedResults[id]
        BY <1>2, <2>1, AcceptedKept
    <2>3. getResult(id)' = [facts |-> proposedResults'[id], final |-> TRUE]
        <3>1. CASE id \in finalized'
            BY <1>2, <3>1 DEF getResult, IInv, Books, FinalAccepted
        <3>2. CASE id \notin finalized'
            BY <2>2, <3>2 DEF getResult, Accepted
        <3> QED BY <3>1, <3>2
    <2> QED BY <2>1, <2>2, <2>3
<1>3. IInv /\ IInv' /\ [Next]_vars =>
          [\A id \in Ids : getResult(id).final => getResult(id)' = getResult(id)]_adapterVars
    BY <1>2
<1> QED BY <1>3, Invariance, PTL DEF Spec, FinalForGood
=============================================================================
