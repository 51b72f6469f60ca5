------------------------------ MODULE Rewards ------------------------------
(***************************************************************************)
(* The weekly distribution of rewards: the keeper's rewards task           *)
(* (internal/keeper/rewards_task.go) and the command an operator runs      *)
(* (cmd/rewards/main.go) both aggregate a week from the subgraph, build a  *)
(* Merkle tree, save it in the database and publish its root; users then   *)
(* claim from the contract (RewardsDistributor).                           *)
(*                                                                         *)
(* Subgraph, database and node are external; what the program gets from    *)
(* them is an answer, an error, or no answer.  The clock counts units of   *)
(* which a week has WeekLength; the last unit of a week is its Sunday      *)
(* after 23:00.                                                            *)
(***************************************************************************)
EXTENDS RewardsDistributor, Sequences, TLC

CONSTANTS
    Task, Tool,     \* the two programs
    Nobody,         \* sender of a transaction nobody waits for
    KeeperKey,      \* the address of the private key both use
    TaskPublishes,  \* the keeper has a publisher (CreateRewardsPublisher)
    Reports,        \* week -> sequence of the contents the index shows, one after the other
    PageSize,       \* the 1000 of the queries
    MinVolume,      \* 1000 USDC
    HandRoots,      \* roots that the owner publishes without these programs
    WeekLength,
    MaxTime,        \* bound on the clock
    MaxToolRuns,    \* bound on the operator's runs
    MaxFaults       \* bound on failed calls, lost transactions and crashes

ASSUME RewardsAssumption ==
    /\ Task # Tool /\ Nobody \notin {Task, Tool}
    /\ KeeperKey \in Callers
    /\ WeekLength \in Nat \ {0}
    /\ {MaxTime, MaxToolRuns, MaxFaults, PageSize} \subseteq Nat
    /\ TaskPublishes \in BOOLEAN

VARIABLES
    index,      \* week -> how many of its Reports the subgraph has gone through
    db,         \* reward_distributions: week -> merkle_root, {} without a row
    run,        \* program -> what its current run is doing
    mempool,    \* publishRoot transactions that are not mined
    exported,   \* distributions written to a file, with their proofs
    completed,  \* runs that have ended with the report of a published root
    toolRuns,
    faults

backVars == <<index, db, run, mempool, exported, completed, toolRuns, faults>>
vars == <<distributorVars, backVars>>

Programs == {Task, Tool}
NoEntries == <<>>
Idle == [step |-> "idle", week |-> 0, entries |-> NoEntries, receipt |-> "none"]

-----------------------------------------------------------------------------
(***************************************************************************)
(* AggregateWeeklyRewards.  A report has the week's referral rewards,      *)
(* orders and quest claims, each a sequence of [user, amount].             *)
(***************************************************************************)
SumFor(u, items) ==
    MapThenSumSet(LAMBDA i : items[i].amount, {i \in DOMAIN items : items[i].user = u})

\* The first page: the queries for referrals and quests ask for no other.
FirstPage(items) == SubSeq(items, 1, IF Len(items) < PageSize THEN Len(items) ELSE PageSize)

\* Orders are read page by page to the end.
TradingReward(u, orders) ==
    LET volume == SumFor(u, orders) IN IF volume >= MinVolume THEN volume \div 1000 ELSE 0

TotalReward(u, report) ==
    SumFor(u, FirstPage(report.referrals)) + TradingReward(u, report.orders)
        + SumFor(u, FirstPage(report.quests))

Aggregate(report) ==
    [u \in {x \in Users : TotalReward(x, report) > 0} |-> TotalReward(u, report)]

(***************************************************************************)
(* GenerateLeaf.  The week is cut to its lowest byte, and the amount is    *)
(* the bytes of its decimal digits, read as one big-endian word.           *)
(***************************************************************************)
DecimalBytes[n \in Nat] ==
    IF n < 10 THEN 48 + n ELSE 256 * DecimalBytes[n \div 10] + 48 + (n % 10)

GenerateLeaf(u, w, amount) == <<u, w % 256, DecimalBytes[amount]>>

\* The root of the tree that BuildDistribution makes.
RootOf(w, entries) == {GenerateLeaf(u, w, entries[u]) : u \in DOMAIN entries}

\* The lists the programs can come to work with; the amounts are words.
WeekLists == UNION {{Aggregate(Reports[w][k]) : k \in DOMAIN Reports[w]} : w \in Weeks}
EntryLists == WeekLists \cup {NoEntries}

ASSUME ReportsAssumption ==
    /\ \A w \in Weeks : Len(Reports[w]) \in Nat \ {0} /\ DOMAIN Reports[w] = 1 .. Len(Reports[w])
    /\ \A w \in Weeks, entries \in EntryLists : RootOf(w, entries) \in Roots
    /\ HandRoots \subseteq Roots

-----------------------------------------------------------------------------
Init ==
    /\ DistributorInit
    /\ clock = WeekLength
    /\ index = [w \in Weeks |-> 1]
    /\ db = [w \in Weeks |-> {}]
    /\ run = [p \in Programs |-> Idle]
    /\ mempool = {}
    /\ exported = {}
    /\ completed = {}
    /\ toolRuns = 0
    /\ faults = 0

Fault == faults < MaxFaults /\ faults' = faults + 1

GetCurrentWeek == clock \div WeekLength
shouldRunNow == clock % WeekLength = WeekLength - 1

Tick ==
    /\ clock < MaxTime
    /\ clock' = clock + 1
    /\ UNCHANGED <<weekly, currentWeek, moneyVars, adminVars, backVars>>

\* The subgraph indexes more of the week, or corrects it after a reorganisation.
IndexMoves(w) ==
    /\ index[w] < Len(Reports[w])
    /\ index' = [index EXCEPT ![w] = @ + 1]
    /\ UNCHANGED <<distributorVars, db, run, mempool, exported, completed, toolRuns, faults>>

-----------------------------------------------------------------------------
(***************************************************************************)
(* The two programs.                                                       *)
(***************************************************************************)
Goto(p, next) == run' = [run EXCEPT ![p] = next]
Quiet == UNCHANGED <<distributorVars, index>>

\* The task looks at the week before the current one, in the last hour of the
\* week, unless it has a row.  The error of GetDistribution is dropped: a week
\* that cannot be read counts as not processed.
TaskStarts ==
    /\ run[Task] = Idle
    /\ shouldRunNow
    /\ GetCurrentWeek - 1 \in Weeks
    /\ IF db[GetCurrentWeek - 1] = {} THEN UNCHANGED faults ELSE Fault
    /\ Goto(Task, [Idle EXCEPT !.step = "aggregate", !.week = GetCurrentWeek - 1])
    /\ Quiet /\ UNCHANGED <<db, mempool, exported, completed, toolRuns>>

\* The operator names any week; nothing asks whether it has been processed.
ToolStarts(w) ==
    /\ run[Tool] = Idle
    /\ toolRuns < MaxToolRuns
    /\ toolRuns' = toolRuns + 1
    /\ Goto(Tool, [Idle EXCEPT !.step = "aggregate", !.week = w])
    /\ Quiet /\ UNCHANGED <<db, mempool, exported, completed, faults>>

\* The queries and the tree; a week without rewards ends the run.
Aggregates(p) ==
    /\ run[p].step = "aggregate"
    /\ LET w == run[p].week
           entries == Aggregate(Reports[w][index[w]])
       IN Goto(p, IF DOMAIN entries = {} THEN Idle
                  ELSE [run[p] EXCEPT !.step = "save", !.entries = entries])
    /\ Quiet /\ UNCHANGED <<db, mempool, exported, completed, toolRuns, faults>>

\* INSERT ... ON CONFLICT (week) DO UPDATE.
SaveDistribution(p) ==
    /\ run[p].step = "save"
    /\ db' = [db EXCEPT ![run[p].week] = RootOf(run[p].week, run[p].entries)]
    /\ Goto(p, IF p = Tool THEN [run[p] EXCEPT !.step = "export"]
               ELSE IF TaskPublishes THEN [run[p] EXCEPT !.step = "publish"] ELSE Idle)
    /\ Quiet /\ UNCHANGED <<mempool, exported, completed, toolRuns, faults>>

\* With -output the distribution goes to a file; with -dry-run, or without an
\* RPC address and a key, the run ends here.
ExportDistribution(output, publishes) ==
    /\ run[Tool].step = "export"
    /\ exported' = IF output
                   THEN exported \cup {[week |-> run[Tool].week, entries |-> run[Tool].entries]}
                   ELSE exported
    /\ Goto(Tool, IF publishes THEN [run[Tool] EXCEPT !.step = "publish"] ELSE Idle)
    /\ Quiet /\ UNCHANGED <<db, mempool, completed, toolRuns, faults>>

Tx(p, by) == [by |-> by, week |-> run[p].week, root |-> RootOf(run[p].week, run[p].entries)]

PublishRoot(p) ==
    /\ run[p].step = "publish"
    /\ mempool' = mempool \cup {Tx(p, p)}
    /\ Goto(p, [run[p] EXCEPT !.step = "confirm"])
    /\ Quiet /\ UNCHANGED <<db, exported, completed, toolRuns, faults>>

\* A call that fails ends the run: the task returns an error, which the
\* scheduler retries, or after the save only an alert; the tool exits.
CallFails(p) ==
    /\ run[p].step \in {"aggregate", "save", "export", "publish"}
    /\ Fault
    /\ Goto(p, Idle)
    /\ Quiet /\ UNCHANGED <<db, mempool, exported, completed, toolRuns>>

\* The node has taken the transaction, but its answer is an error.
SendAnswerLost(p) ==
    /\ run[p].step = "publish"
    /\ Fault
    /\ mempool' = mempool \cup {Tx(p, Nobody)}
    /\ Goto(p, Idle)
    /\ Quiet /\ UNCHANGED <<db, exported, completed, toolRuns>>

\* Mutant: the status of the receipt is not looked at.
ReceiptGoodAny(p) == run[p].receipt # "none"

ReceiptGood(p) == run[p].receipt = "ok"

\* Mutant: a transaction that has failed is waited for like a missing one.
WaitOverGood(p) == run[p].receipt = "ok"

WaitOver(p) == run[p].receipt # "none"

\* WaitForConfirmation returns, and the root is read back; for a good receipt
\* the answer to that is logged, but the run has succeeded.
Confirmed(p) ==
    /\ run[p].step = "confirm"
    /\ WaitOver(p)
    /\ completed' = IF ReceiptGood(p)
                    THEN completed \cup {[week |-> run[p].week, root |-> Tx(p, p).root]}
                    ELSE completed
    /\ Goto(p, Idle)
    /\ Quiet /\ UNCHANGED <<db, mempool, exported, toolRuns, faults>>

\* The receipt is good, but the node does not answer while the confirmations
\* on top of it are counted: the run ends with an error.
ConfirmationFails(p) ==
    /\ run[p].step = "confirm"
    /\ ReceiptGood(p)
    /\ Fault
    /\ Goto(p, Idle)
    /\ Quiet /\ UNCHANGED <<db, mempool, exported, completed, toolRuns>>

\* The program is stopped or crashes; what it has sent stays with the node.
Crash(p) ==
    /\ run[p] # Idle
    /\ Fault
    /\ Goto(p, Idle)
    /\ mempool' = {IF tx.by = p THEN [tx EXCEPT !.by = Nobody] ELSE tx : tx \in mempool}
    /\ Quiet /\ UNCHANGED <<db, exported, completed, toolRuns>>

-----------------------------------------------------------------------------
(***************************************************************************)
(* The chain.                                                              *)
(***************************************************************************)
Receipt(tx, status) ==
    run' = [p \in Programs |-> IF p = tx.by THEN [run[p] EXCEPT !.receipt = status] ELSE run[p]]

\* The scale the programs publish with, and the call on the chain.
Mine(tx) ==
    /\ tx \in mempool
    /\ IF MayPublish(KeeperKey, tx.week, tx.root, BPS_DENOMINATOR)
       THEN publishRoot(KeeperKey, tx.week, tx.root, BPS_DENOMINATOR) /\ Receipt(tx, "ok")
       ELSE UNCHANGED distributorVars /\ Receipt(tx, "reverted")
    /\ mempool' = mempool \ {tx}
    /\ UNCHANGED <<index, db, exported, completed, toolRuns, faults>>

\* The node drops a transaction: its gas price is too low, or its nonce was used.
DropTx(tx) ==
    /\ tx \in mempool
    /\ Fault
    /\ mempool' = mempool \ {tx}
    /\ Quiet /\ UNCHANGED <<db, run, exported, completed, toolRuns>>

ContractCalls ==
    /\ \/ UserClaims
       \/ OwnerCalls
       \/ \E a \in Amounts : Fund(a)
       \/ \E w \in Weeks, root \in HandRoots, scale \in Scales : publishRoot(Owner, w, root, scale)
    /\ UNCHANGED backVars

ProgramSteps(p) ==
    \/ Aggregates(p)
    \/ SaveDistribution(p)
    \/ PublishRoot(p)
    \/ Confirmed(p)
    \/ p = Tool /\ \E output, publishes \in BOOLEAN : ExportDistribution(output, publishes)

Failure(p) == CallFails(p) \/ SendAnswerLost(p) \/ ConfirmationFails(p) \/ Crash(p)

Next ==
    \/ Tick
    \/ \E w \in Weeks : IndexMoves(w) \/ ToolStarts(w)
    \/ TaskStarts
    \/ \E p \in Programs : ProgramSteps(p) \/ Failure(p)
    \/ \E tx \in mempool : Mine(tx) \/ DropTx(tx)
    \/ ContractCalls

Spec == Init /\ [][Next]_vars

\* The programs run on, and what the node has taken and not dropped is mined.
Fairness ==
    /\ \A p \in Programs : WF_vars(ProgramSteps(p))
    /\ WF_vars(\E tx \in mempool : Mine(tx))

FairSpec == Spec /\ Fairness

-----------------------------------------------------------------------------
Runs == [step : {"idle", "aggregate", "save", "export", "publish", "confirm"},
         week : Nat, entries : EntryLists, receipt : {"none", "ok", "reverted"}]

Distributions == [week : Weeks, entries : EntryLists]

TypeOK ==
    /\ DistributorTypeOK
    /\ index \in [Weeks -> Nat]
    /\ \A w \in Weeks : index[w] \in DOMAIN Reports[w]
    /\ db \in [Weeks -> Roots]
    /\ run \in [Programs -> Runs]
    /\ \A p \in Programs : run[p].step # "idle" => run[p].week \in Weeks
    /\ mempool \subseteq [by : Programs \cup {Nobody}, week : Weeks, root : Roots]
    /\ exported \subseteq Distributions
    /\ completed \subseteq [week : Weeks, root : Roots]
    /\ toolRuns \in 0 .. MaxToolRuns
    /\ faults \in 0 .. MaxFaults

\* However the runs of the two programs, restarts and late or lost transactions
\* overlap, a run that reports its root as published has published it: no other
\* root is, or will be, that of the week.
CompletedIsPublished ==
    \A c \in completed : weekly[c.week].merkleRoot = c.root

\* The wait of p can go on for ever: its transaction is gone, and WaitMined has
\* no time limit of its own (publisher.go:138).
Stranded(p) == run[p].step = "confirm" /\ run[p].receipt = "none"
                   /\ \A tx \in mempool : tx.by # p

\* Every run of either program ends, unless its transaction was dropped.
RunsEnd == \A p \in Programs : []<>(run[p] = Idle \/ Stranded(p))

\* What merkle.go:89 says its leaf is, and cmd/rewards/README.md of the claim:
\* the users of a published distribution can claim what its file says.
ExportedEntriesClaimable ==
    \A d \in exported :
        weekly[d.week].merkleRoot = RootOf(d.week, d.entries) =>
            \A u \in DOMAIN d.entries : Proves(u, d.week, d.entries[u])
=============================================================================
