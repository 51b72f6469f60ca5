----------------------------- MODULE UmaAdapter -----------------------------
(***************************************************************************)
(* The oracle adapter (contracts/src/oracle/UMAOptimisticOracleAdapter.sol) *)
(* over UMA's optimistic oracle, which is external: an assertion can be    *)
(* disputed once while its window is open; undisputed it is settled as     *)
(* true after the window, disputed it is settled the way the DVM votes.    *)
(* The assertions are a sequence, and an assertion's id is its place in it. *)
(*                                                                         *)
(* Bonds are counted, not valued: every assertion and every dispute takes  *)
(* bondAmount, and the winner gets what was put up.                        *)
(***************************************************************************)
EXTENDS Integers, Sequences, FiniteSets

CONSTANTS
    Ids,        \* market ids
    Accounts,
    Facts,      \* the MatchFacts that callers pass
    NoFacts,    \* the zero MatchFacts
    liveness,   \* length of the dispute window
    Bonds       \* bonds that an account owns and has approved at the start

ASSUME AdapterAssumption ==
    /\ NoFacts \notin Facts
    /\ liveness \in Nat \ {0}
    /\ Bonds \in [Accounts -> Nat]

VARIABLES
    clock,              \* block.timestamp
    assertions,         \* of the optimistic oracle
    bonds,              \* bonds that an account can still put up
    marketAssertions,   \* id -> assertion, 0 without one
    assertionMarkets,   \* the reverse, a sequence
    proposedResults, finalizedResults,
    finalized           \* the ids with _finalized

umaVars == <<assertions, bonds>>
bookVars == <<marketAssertions, assertionMarkets, proposedResults>>
finalVars == <<finalizedResults, finalized>>
adapterVars == <<clock, umaVars, bookVars, finalVars>>

AdapterInit ==
    /\ clock = 0
    /\ assertions = <<>>
    /\ bonds = Bonds
    /\ marketAssertions = [id \in Ids |-> 0]
    /\ assertionMarkets = <<>>
    /\ proposedResults = [id \in Ids |-> NoFacts]
    /\ finalizedResults = [id \in Ids |-> NoFacts]
    /\ finalized = {}

Pass == clock' = clock + 1 /\ UNCHANGED <<umaVars, bookVars, finalVars>>

-----------------------------------------------------------------------------
(***************************************************************************)
(* The optimistic oracle.                                                  *)
(***************************************************************************)
assertTruth(claim, asserter) ==
    /\ bonds[asserter] > 0
    /\ bonds' = [bonds EXCEPT ![asserter] = @ - 1]
    /\ assertions' = Append(assertions,
           [claim |-> claim, asserter |-> asserter, disputed |-> FALSE, disputer |-> asserter,
            expirationTime |-> clock + liveness, resolved |-> FALSE,
            settlementResolution |-> FALSE])

Winner(a, accepted) == IF accepted THEN assertions[a].asserter ELSE assertions[a].disputer

Resolve(a, accepted) ==
    /\ assertions' = [assertions EXCEPT ![a].resolved = TRUE, ![a].settlementResolution = accepted]
    /\ bonds' = [bonds EXCEPT ![Winner(a, accepted)] = @ + IF assertions[a].disputed THEN 2 ELSE 1]

\* What a settlement can come to: the vote is anyone's guess.
Settles(a, accepted) ==
    /\ ~assertions[a].resolved
    /\ assertions[a].disputed \/ (clock >= assertions[a].expirationTime /\ accepted)
    /\ Resolve(a, accepted)

\* Anyone settles at the optimistic oracle itself.
SettleDirectly(a, accepted) ==
    /\ Settles(a, accepted)
    /\ UNCHANGED <<clock, bookVars, finalVars>>

-----------------------------------------------------------------------------
(***************************************************************************)
(* The adapter.                                                            *)
(***************************************************************************)
_validateMatchFacts(facts) ==
    /\ facts.scope \in {"FT_90", "FT_120", "Penalties"}
    /\ facts.homeGoals <= 50 /\ facts.awayGoals <= 50
    /\ IF facts.scope = "Penalties"
       THEN facts.extraTime /\ ~(facts.penaltiesHome = 0 /\ facts.penaltiesAway = 0)
       ELSE facts.penaltiesHome = 0 /\ facts.penaltiesAway = 0
    /\ facts.reportedAt <= clock

\* Mutant: AssertionAlreadyExists is not checked.
UnassertedAlways(id) == TRUE

Unasserted(id) == marketAssertions[id] = 0

MayPropose(caller, id, facts) ==
    /\ Unasserted(id)
    /\ _validateMatchFacts(facts)
    /\ bonds[caller] > 0

proposeResult(caller, id, facts) ==
    /\ MayPropose(caller, id, facts)
    /\ assertTruth(facts, caller)
    /\ marketAssertions' = [marketAssertions EXCEPT ![id] = Len(assertions')]
    /\ assertionMarkets' = Append(assertionMarkets, id)
    /\ proposedResults' = [proposedResults EXCEPT ![id] = facts]
    /\ UNCHANGED <<clock, finalVars>>

\* Reverts, the settlement with it, when the assertion is not accepted.
settleAssertion(id) ==
    /\ marketAssertions[id] # 0
    /\ LET a == marketAssertions[id]
       IN \/ Settles(a, TRUE)
          \/ assertions[a].resolved /\ assertions[a].settlementResolution /\ UNCHANGED umaVars
    /\ finalizedResults' = [finalizedResults EXCEPT ![id] = proposedResults[id]]
    /\ finalized' = finalized \cup {id}
    /\ UNCHANGED <<clock, bookVars>>

disputeAssertion(caller, id) ==
    /\ marketAssertions[id] # 0
    /\ bonds[caller] > 0
    /\ LET a == marketAssertions[id]
       IN /\ ~assertions[a].resolved /\ ~assertions[a].disputed
          /\ clock < assertions[a].expirationTime
          /\ assertions' = [assertions EXCEPT ![a].disputed = TRUE, ![a].disputer = caller]
    /\ bonds' = [bonds EXCEPT ![caller] = @ - 1]
    /\ UNCHANGED <<clock, bookVars, finalVars>>

\* Mutant: a resolved assertion is taken for an accepted one, as isFinalized does.
AcceptedResolved(id) ==
    marketAssertions[id] # 0 /\ assertions[marketAssertions[id]].resolved

\* The assertion of the market is settled in favour of the proposer.
Accepted(id) ==
    /\ marketAssertions[id] # 0
    /\ assertions[marketAssertions[id]].resolved
    /\ assertions[marketAssertions[id]].settlementResolution

getResult(id) ==
    IF id \in finalized THEN [facts |-> finalizedResults[id], final |-> TRUE]
    ELSE [facts |-> proposedResults[id], final |-> Accepted(id)]

isFinalized(id) ==
    id \in finalized \/ (marketAssertions[id] # 0 /\ assertions[marketAssertions[id]].resolved)

-----------------------------------------------------------------------------
AdapterTypeOK ==
    /\ clock \in Nat
    /\ assertions \in Seq([claim : Facts, asserter : Accounts, disputed : BOOLEAN,
                           disputer : Accounts, expirationTime : Nat, resolved : BOOLEAN,
                           settlementResolution : BOOLEAN])
    /\ bonds \in [Accounts -> Nat]
    /\ marketAssertions \in [Ids -> 0 .. Len(assertions)]
    /\ assertionMarkets \in Seq(Ids) /\ Len(assertionMarkets) = Len(assertions)
    /\ proposedResults \in [Ids -> Facts \cup {NoFacts}]
    /\ finalizedResults \in [Ids -> Facts \cup {NoFacts}]
    /\ finalized \subseteq Ids

\* UMAOptimisticOracleAdapter.sol:146, with a keeper that proposes again every
\* round and whose late transactions may all be mined: one assertion of a market
\* exists, so that one bond of a proposer is all a market ever takes.
OneBondPerMarket ==
    \A a, b \in DOMAIN assertions : assertionMarkets[a] = assertionMarkets[b] => a = b

\* getResult calls a result final only if these facts were asserted for the
\* market, and stood undisputed to the end of the window or were upheld by the
\* vote; a market that was settled by hand has the same result as one read from
\* the optimistic oracle.
FinalWasContestable ==
    \A id \in Ids : getResult(id).final =>
        \E a \in DOMAIN assertions :
            /\ assertionMarkets[a] = id
            /\ assertions[a].claim = getResult(id).facts
            /\ assertions[a].resolved /\ assertions[a].settlementResolution
            /\ assertions[a].disputed \/ clock >= assertions[a].expirationTime

\* A result that getResult has called final is the market's result for good.
FinalForGood ==
    [][\A id \in Ids : getResult(id).final => getResult(id)' = getResult(id)]_adapterVars
=============================================================================
