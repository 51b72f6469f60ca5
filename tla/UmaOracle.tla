----------------------------- MODULE UmaOracle -----------------------------
(***************************************************************************)
(* The keeper's proposals to the oracle adapter                            *)
(* (internal/keeper/settle_task_uma.go) with everyone else who calls the   *)
(* adapter or the optimistic oracle.  The worker pool of the task is that  *)
(* of module SettlePool, and nonces are in KeeperChain: here each market   *)
(* of a round has a worker, and a transaction that was accepted stays with *)
(* the node until it is mined.                                             *)
(*                                                                         *)
(* A market stays in the keeper's query until it is resolved, which no     *)
(* code of the repository does with the adapter's result: so every round   *)
(* proposes for every market.                                              *)
(***************************************************************************)
EXTENDS UmaAdapter

CONSTANTS
    Markets,
    IdForms,        \* the ways to make 32 bytes of an address
    KeeperForm,     \* the keeper's: the address comes first (settle_task_uma.go:124)
    KeeperAccount,
    Results,        \* [home, away, extraTime] the data source may answer with
    OtherFacts,     \* MatchFacts that others propose
    MaxTime,        \* bound on the clock
    MaxFaults       \* bound on failed calls and receipts that do not come in time

\* The facts that are sent: never any penalties.
FactsOf(result, now) ==
    [scope |-> IF result.extraTime THEN "FT_120" ELSE "FT_90",
     homeGoals |-> result.home, awayGoals |-> result.away, extraTime |-> result.extraTime,
     penaltiesHome |-> 0, penaltiesAway |-> 0, reportedAt |-> now]

ASSUME OracleAssumption ==
    /\ KeeperAccount \in Accounts
    /\ KeeperForm \in IdForms
    /\ Ids = Markets \X IdForms
    /\ OtherFacts \subseteq Facts
    /\ \A result \in Results, now \in 0 .. MaxTime : FactsOf(result, now) \in Facts
    /\ {MaxTime, MaxFaults} \subseteq Nat

VARIABLES
    worker,     \* market -> what its worker is doing
    mempool,    \* proposals that are not mined
    faults

keeperVars == <<worker, mempool, faults>>
vars == <<adapterVars, keeperVars>>

Idle == [step |-> "idle", facts |-> NoFacts, receipt |-> "none"]
Fetching == [Idle EXCEPT !.step = "fetch"]
KeeperId(m) == <<m, KeeperForm>>

Init ==
    /\ AdapterInit
    /\ worker = [m \in Markets |-> Idle]
    /\ mempool = {}
    /\ faults = 0

Fault == faults < MaxFaults /\ faults' = faults + 1
Goto(m, next) == worker' = [worker EXCEPT ![m] = next]

Tick == clock < MaxTime /\ Pass /\ UNCHANGED keeperVars

\* Execute: a round ends when every proposal has ended.
RoundStarts ==
    /\ \A m \in Markets : worker[m] = Idle
    /\ worker' = [m \in Markets |-> Fetching]
    /\ UNCHANGED <<adapterVars, mempool, faults>>

\* The result of the data source; the last or the next round may get another.
FetchResult(m) ==
    /\ worker[m].step = "fetch"
    /\ \E result \in Results :
           Goto(m, [Idle EXCEPT !.step = "send", !.facts = FactsOf(result, clock)])
    /\ UNCHANGED <<adapterVars, mempool, faults>>

Proposal(m, awaited) == [market |-> m, facts |-> worker[m].facts, awaited |-> awaited]

SendProposal(m) ==
    /\ worker[m].step = "send"
    /\ Goto(m, [Idle EXCEPT !.step = "wait"])
    /\ mempool' = mempool \cup {Proposal(m, TRUE)}
    /\ UNCHANGED <<adapterVars, faults>>

\* The data source or the node answers with an error, or the node takes the
\* transaction and its answer is lost.
CallFails(m) ==
    /\ worker[m].step \in {"fetch", "send"}
    /\ Fault
    /\ Goto(m, Idle)
    /\ \/ UNCHANGED mempool
       \/ /\ worker[m].step = "send"
          /\ mempool' = mempool \cup {Proposal(m, FALSE)}
    /\ UNCHANGED adapterVars

\* A receipt of either status ends the wait: one that failed is an error, which
\* is logged.
Confirmed(m) ==
    /\ worker[m].step = "wait"
    /\ worker[m].receipt # "none"
    /\ Goto(m, Idle)
    /\ UNCHANGED <<adapterVars, mempool, faults>>

\* Two minutes without a receipt: the transaction may still be mined.
WaitTimesOut(m) ==
    /\ worker[m].step = "wait"
    /\ worker[m].receipt = "none"
    /\ Fault
    /\ Goto(m, Idle)
    /\ mempool' = {IF tx.market = m THEN [tx EXCEPT !.awaited = FALSE] ELSE tx : tx \in mempool}
    /\ UNCHANGED adapterVars

Receipt(tx, status) ==
    worker' = IF tx.awaited THEN [worker EXCEPT ![tx.market].receipt = status] ELSE worker

Mine(tx) ==
    /\ IF MayPropose(KeeperAccount, KeeperId(tx.market), tx.facts)
       THEN proposeResult(KeeperAccount, KeeperId(tx.market), tx.facts) /\ Receipt(tx, "ok")
       ELSE UNCHANGED adapterVars /\ Receipt(tx, "reverted")
    /\ mempool' = mempool \ {tx}
    /\ UNCHANGED faults

OthersCall ==
    /\ \/ \E a \in Accounts, id \in Ids :
              disputeAssertion(a, id) \/ \E f \in OtherFacts : proposeResult(a, id, f)
       \/ \E id \in Ids : settleAssertion(id)
       \/ \E a \in DOMAIN assertions, accepted \in BOOLEAN : SettleDirectly(a, accepted)
    /\ UNCHANGED keeperVars

WorkerSteps(m) == FetchResult(m) \/ SendProposal(m) \/ Confirmed(m)

Next ==
    \/ Tick
    \/ RoundStarts
    \/ \E m \in Markets : WorkerSteps(m) \/ CallFails(m) \/ WaitTimesOut(m)
    \/ \E tx \in mempool : Mine(tx)
    \/ OthersCall

Spec == Init /\ [][Next]_vars

-----------------------------------------------------------------------------
TypeOK ==
    /\ AdapterTypeOK
    /\ clock <= MaxTime
    /\ worker \in [Markets -> [step : {"idle", "fetch", "send", "wait"},
                              facts : Facts \cup {NoFacts}, receipt : {"none", "ok", "reverted"}]]
    /\ \A m \in Markets : worker[m].step = "send" => worker[m].facts \in Facts
    /\ mempool \subseteq [market : Markets, facts : Facts, awaited : BOOLEAN]
    /\ faults \in 0 .. MaxFaults
=============================================================================
