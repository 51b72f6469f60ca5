---------------------------- MODULE KeeperChain ----------------------------
(***************************************************************************)
(* What the lock task and the settle workers of the keeper do on the       *)
(* chain.  They share one account: each of them asks the node for the next *)
(* nonce, signs, sends and waits two minutes for the receipt, while the    *)
(* others do the same.  They find their markets in the index of the        *)
(* subgraph, which follows the chain with a delay.  Node, chain and index  *)
(* are modelled as the keeper uses them.                                   *)
(*                                                                         *)
(* The account's pending transactions are a sequence: a nonce is given by  *)
(* its place in it (slot), 0 is a nonce that has been used.  How a round   *)
(* hands its markets to the workers is the subject of SettlePool; a        *)
(* restart ends everything the process holds.                              *)
(***************************************************************************)
EXTENDS Integers, Sequences

CONSTANTS
    Markets,
    SettleWorkers,
    LockTask,       \* the goroutine of the lock task
    Nobody,         \* sender of a transaction nobody waits for
    Null,           \* the null of the index
    LockTime,       \* market -> lockTime
    MatchEnd,       \* market -> matchEndTime, or Null
    Refused,        \* markets that have no outcome for what their mapper makes of
                    \* the result, or too much weight on their outcomes
    LockLead,       \* config.LockLeadTime
    FinalizeDelay,  \* config.FinalizeDelay
    MaxTime,        \* bound on the clock
    MaxPending,     \* the node's limit on the account's pending transactions
    MaxFaults       \* bound on failed calls, late receipts, restarts and cancellations

ASSUME KeeperChainConstants ==
    /\ LockTask \notin SettleWorkers
    /\ Nobody \notin SettleWorkers \cup {LockTask}
    /\ Null \notin Int
    /\ LockTime \in [Markets -> Nat]
    /\ MatchEnd \in [Markets -> Nat \cup {Null}]
    /\ Refused \subseteq Markets
    /\ {LockLead, FinalizeDelay, MaxTime, MaxPending, MaxFaults} \subseteq Nat

Senders == SettleWorkers \cup {LockTask}
Idle == [step |-> "idle"]

VARIABLES
    now,       \* the clock
    chain,     \* market -> its status on the chain
    executed,  \* the calls that have succeeded on the chain
    queue,     \* the account's pending transactions, by nonce
    index,     \* market -> its state in the subgraph
    worker,    \* sender -> what it is doing
    toLock,    \* markets the lock task still has to handle
    jobs,      \* markets of the settle round that no worker has taken
    reported,  \* the calls the keeper has logged as successful
    faults

vars == <<now, chain, executed, queue, index, worker, toLock, jobs, reported, faults>>

Statuses == {"Open", "Locked", "Resolved", "Cancelled"}
Calls == [kind : {"lock", "resolve"}, market : Markets]

KindOf(s) == IF s = LockTask THEN "lock" ELSE "resolve"
CallOf(s) == [kind |-> KindOf(s), market |-> worker[s].market]
TxOf(s, by) == [call |-> CallOf(s), by |-> by]

Init ==
    /\ now = 0
    /\ chain = [m \in Markets |-> "Open"]
    /\ executed = {}
    /\ queue = <<>>
    /\ index = chain
    /\ worker = [s \in Senders |-> Idle]
    /\ toLock = {}
    /\ jobs = {}
    /\ reported = {}
    /\ faults = 0

Fault == faults < MaxFaults /\ faults' = faults + 1

-----------------------------------------------------------------------------
(***************************************************************************)
(* The world around the keeper.                                            *)
(***************************************************************************)
Tick ==
    /\ now < MaxTime
    /\ now' = now + 1
    /\ UNCHANGED <<chain, executed, queue, index, worker, toLock, jobs, reported, faults>>

\* The admin cancels a market (cancel, cancelResolved).
AdminCancel(m) ==
    /\ Fault
    /\ chain[m] # "Cancelled"
    /\ chain' = [chain EXCEPT ![m] = "Cancelled"]
    /\ UNCHANGED <<now, executed, queue, index, worker, toLock, jobs, reported>>

IndexSync(m) ==
    /\ index[m] # chain[m]
    /\ index' = [index EXCEPT ![m] = chain[m]]
    /\ UNCHANGED <<now, chain, executed, queue, worker, toLock, jobs, reported, faults>>

\* lock needs an open market; resolve needs a locked one that can take the
\* mapped result.  Else the call reverts.
CallSucceeds(c) ==
    \/ c.kind = "lock" /\ chain[c.market] = "Open"
    \/ c.kind = "resolve" /\ chain[c.market] = "Locked" /\ c.market \notin Refused
StatusAfter(c) == IF c.kind = "lock" THEN "Locked" ELSE "Resolved"

\* The nonce somebody has read gets one place closer to being used.
SlotAfterMining(w) ==
    IF w.step = "send" /\ w.slot > 0 THEN [w EXCEPT !.slot = @ - 1] ELSE w

\* The next transaction of the account is mined; its sender can see the receipt.
Mine ==
    /\ queue # <<>>
    /\ LET tx == Head(queue)
           ok == CallSucceeds(tx.call)
       IN /\ chain' = IF ok THEN [chain EXCEPT ![tx.call.market] = StatusAfter(tx.call)] ELSE chain
          /\ executed' = IF ok THEN executed \cup {tx.call} ELSE executed
          /\ worker' = [s \in Senders |->
                            IF s = tx.by
                            THEN [worker[s] EXCEPT !.receipt = IF ok THEN "ok" ELSE "reverted"]
                            ELSE SlotAfterMining(worker[s])]
    /\ queue' = Tail(queue)
    /\ UNCHANGED <<now, index, toLock, jobs, reported, faults>>

-----------------------------------------------------------------------------
(***************************************************************************)
(* Finding work.  Each task runs again and again, one run after the other. *)
(***************************************************************************)
InLockWindow(m) == index[m] = "Open" /\ now < LockTime[m] /\ LockTime[m] <= now + LockLead

QueryLock ==
    /\ worker[LockTask] = Idle
    /\ toLock = {}
    /\ toLock' = {m \in Markets : InLockWindow(m)}
    /\ UNCHANGED <<now, chain, executed, queue, index, worker, jobs, reported, faults>>

\* Mutant: the window of the query leaves the delay out.
DueAtOnce(m) == index[m] = "Locked" /\ MatchEnd[m] # Null /\ MatchEnd[m] <= now

Due(m) == index[m] = "Locked" /\ MatchEnd[m] # Null /\ MatchEnd[m] <= now - FinalizeDelay

QuerySettle ==
    /\ jobs = {}
    /\ \A s \in SettleWorkers : worker[s] = Idle
    /\ jobs' = {m \in Markets : Due(m)}
    /\ UNCHANGED <<now, chain, executed, queue, index, worker, toLock, reported, faults>>

\* A sender starts on market m and reads the next nonce (PendingNonceAt).
ReadNonce(s, m) ==
    worker' = [worker EXCEPT ![s] = [step |-> "send", market |-> m, slot |-> Len(queue) + 1]]

\* Fetching the result of the match, the gas price and the nonce: a call that
\* fails ends the work on this market.
Prepare(s, m) ==
    /\ worker[s] = Idle
    /\ (ReadNonce(s, m) /\ UNCHANGED faults) \/ (Fault /\ UNCHANGED worker)

TakeLock(m) ==
    /\ m \in toLock
    /\ toLock' = toLock \ {m}
    /\ Prepare(LockTask, m)
    /\ UNCHANGED <<now, chain, executed, queue, index, jobs, reported>>

TakeJob(s, m) ==
    /\ m \in jobs
    /\ jobs' = jobs \ {m}
    /\ Prepare(s, m)
    /\ UNCHANGED <<now, chain, executed, queue, index, toLock, reported>>

-----------------------------------------------------------------------------
(***************************************************************************)
(* Sending one transaction: SendTransaction, then the receipt.             *)
(***************************************************************************)
Keeps == UNCHANGED <<now, chain, executed, index, toLock, jobs, reported>>

\* The sender is done with its market, one way or the other.
GiveUp(s) == worker' = [worker EXCEPT ![s] = Idle]

Waiting(s) ==
    worker' = [worker EXCEPT ![s] = [step |-> "wait", market |-> @.market, receipt |-> "none"]]

\* What the node does with tx in that slot: it takes the next free nonce while
\* there is room, and a nonce that is pending if the gas price has risen.
Accepted(tx, slot) ==
    \/ /\ slot = Len(queue) + 1
       /\ Len(queue) < MaxPending
       /\ queue' = Append(queue, tx)
    \/ /\ slot \in DOMAIN queue
       /\ queue' = [queue EXCEPT ![slot] = tx]

Send(s) ==
    /\ worker[s].step = "send"
    /\ Accepted(TxOf(s, s), worker[s].slot)
    /\ Waiting(s)
    /\ Keeps /\ UNCHANGED faults

\* Nonce too low, replacement underpriced, or too many pending transactions.
SendRejected(s) ==
    /\ worker[s].step = "send"
    /\ worker[s].slot <= Len(queue) \/ Len(queue) >= MaxPending
    /\ GiveUp(s)
    /\ Keeps /\ UNCHANGED <<queue, faults>>

CallFails(s) ==
    /\ worker[s].step = "send"
    /\ Fault
    /\ GiveUp(s)
    /\ Keeps /\ UNCHANGED queue

\* Mutant: any receipt counts as a success, as if Status were not looked at.
ReceiptUnread(s) ==
    /\ worker[s].step = "wait"
    /\ worker[s].receipt # "none"
    /\ reported' = reported \cup {CallOf(s)}
    /\ GiveUp(s)
    /\ UNCHANGED <<now, chain, executed, queue, index, toLock, jobs, faults>>

\* Mutant: a reverted transaction is sent again before the round goes on.
ReceiptRetried(s) ==
    /\ worker[s].step = "wait"
    /\ worker[s].receipt # "none"
    /\ IF worker[s].receipt = "ok"
       THEN GiveUp(s) /\ reported' = reported \cup {CallOf(s)}
       ELSE ReadNonce(s, worker[s].market) /\ UNCHANGED reported
    /\ UNCHANGED <<now, chain, executed, queue, index, toLock, jobs, faults>>

Receipt(s) ==
    /\ worker[s].step = "wait"
    /\ worker[s].receipt # "none"
    /\ reported' = IF worker[s].receipt = "ok" THEN reported \cup {CallOf(s)} ELSE reported
    /\ GiveUp(s)
    /\ UNCHANGED <<now, chain, executed, queue, index, toLock, jobs, faults>>

\* Mutant: the transactions keep their sender's name.
DisownedNot(txs, senders) == txs

Disowned(txs, senders) ==
    [i \in DOMAIN txs |-> IF txs[i].by \in senders THEN [txs[i] EXCEPT !.by = Nobody] ELSE txs[i]]

\* A transaction was replaced by that of another sender: no receipt will come.
Replaced(s) == worker[s].receipt = "none" /\ \A i \in DOMAIN queue : queue[i].by # s

Disown(s) ==
    /\ worker[s].step = "wait"
    /\ queue' = Disowned(queue, {s})
    /\ GiveUp(s)
    /\ Keeps

\* Mutant: the wait for a receipt has no end of its own.
WaitForever(s) == Disown(s) /\ Fault

\* The two minutes are over: the sender goes on without knowing.  That the chain
\* is so slow, or the receipt not seen, counts as a fault.
WaitExpires(s) ==
    /\ Disown(s)
    /\ IF Replaced(s) THEN UNCHANGED faults ELSE Fault

\* The keeper is stopped and started again: nothing is kept but the chain.
Restart ==
    /\ Fault
    /\ queue' = Disowned(queue, Senders)
    /\ worker' = [s \in Senders |-> Idle]
    /\ toLock' = {}
    /\ jobs' = {}
    /\ UNCHANGED <<now, chain, executed, index, reported>>

-----------------------------------------------------------------------------
\* What sender s does by itself, failures of its calls apart.
SendStep(s) == Send(s) \/ SendRejected(s) \/ Receipt(s) \/ WaitExpires(s)
LockTaskRuns == QueryLock \/ \E m \in Markets : TakeLock(m)
SettleTaskRuns == QuerySettle \/ \E s \in SettleWorkers, m \in Markets : TakeJob(s, m)

Next ==
    \/ Tick
    \/ Mine
    \/ \E m \in Markets : AdminCancel(m) \/ IndexSync(m)
    \/ LockTaskRuns
    \/ SettleTaskRuns
    \/ \E s \in Senders : SendStep(s) \/ CallFails(s)
    \/ Restart

Spec == Init /\ [][Next]_vars

\* The clock goes on, the chain mines what is pending, the subgraph catches up,
\* and no goroutine of the keeper is kept from running.
Fairness ==
    /\ WF_vars(Tick)
    /\ WF_vars(Mine)
    /\ \A m \in Markets : WF_vars(IndexSync(m))
    /\ WF_vars(LockTaskRuns)
    /\ WF_vars(SettleTaskRuns)
    /\ \A s \in Senders : WF_vars(SendStep(s))

FairSpec == Spec /\ Fairness

\* The settlement of market m loses the nonce that its worker has read: the node
\* turns it away, or takes another transaction in its place.
LosesNonce(m) ==
    \E s \in Senders :
        \/ SendRejected(s) /\ CallOf(s) = [kind |-> "resolve", market |-> m]
        \/ /\ Send(s)
           /\ worker[s].slot \in DOMAIN queue
           /\ queue[worker[s].slot].call = [kind |-> "resolve", market |-> m]

-----------------------------------------------------------------------------
WorkerStates ==
    {Idle}
    \cup [step : {"send"}, market : Markets, slot : 0 .. MaxPending + 1]
    \cup [step : {"wait"}, market : Markets, receipt : {"none", "ok", "reverted"}]

TypeOK ==
    /\ now \in Nat
    /\ chain \in [Markets -> Statuses]
    /\ executed \subseteq Calls
    /\ queue \in Seq([call : Calls, by : Senders \cup {Nobody}])
    /\ Len(queue) <= MaxPending
    /\ index \in [Markets -> Statuses]
    /\ worker \in [Senders -> WorkerStates]
    /\ toLock \subseteq Markets
    /\ jobs \subseteq Markets
    /\ reported \subseteq Calls
    /\ faults \in 0 .. MaxFaults

\* A pending transaction with a sender's name is the only one of that sender,
\* who waits for the receipt of this very call: no receipt is taken for that
\* of another transaction, and none comes to a sender who works on something
\* else by now.
OneReader ==
    \A i \in DOMAIN queue :
        LET s == queue[i].by IN s # Nobody =>
            /\ worker[s].step = "wait"
            /\ worker[s].receipt = "none"
            /\ queue[i].call = CallOf(s)
            /\ \A j \in DOMAIN queue : queue[j].by = s => j = i

\* What the keeper reports as locked or settled has been locked or settled on
\* the chain, whichever transaction was replaced, repeated or lost.
ReportsTrue == reported \subseteq executed

\* No market is settled before its match has been over for FinalizeDelay.
NoneSettledEarly ==
    \A m \in Markets : [kind |-> "resolve", market |-> m] \in executed =>
        MatchEnd[m] # Null /\ MatchEnd[m] + FinalizeDelay <= now

\* Whatever becomes of its transactions, every round of either task ends, so
\* that the scheduler can run the task again (EndSettling in SettlePool and the
\* end of a run in Scheduler rely on it).
RoundsEnd ==
    /\ []<>(toLock = {} /\ worker[LockTask] = Idle)
    /\ []<>(jobs = {} /\ \A s \in SettleWorkers : worker[s] = Idle)

\* A market that is locked, that can take its result and whose match has an end
\* in the index is settled, or cancelled by the admin, in spite of stale queries,
\* nonces taken by other workers, expired waits and restarts.  A market that
\* refuses its result is tried again in every round; all it can do to the others
\* is take their nonces, again and again, for nothing in the code gives them a turn.
DueMarketsResolve ==
    \A m \in Markets \ Refused :
        MatchEnd[m] # Null =>
            \/ [](chain[m] = "Locked" => <>(chain[m] # "Locked"))
            \/ Refused # {} /\ []<><<LosesNonce(m)>>_vars

\* What cmd/keeper/README.md:6 says of the settle task: after the match it
\* reports the result and triggers the settlement, of any locked market.
EveryLockedMarketResolves ==
    \A m \in Markets : [](chain[m] = "Locked" => <>(chain[m] # "Locked"))
===========================================================================
