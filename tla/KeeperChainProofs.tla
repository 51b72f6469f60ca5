------------------------- MODULE KeeperChainProofs -------------------------
(***************************************************************************)
(* The safety properties of KeeperChain, for any number of markets and     *)
(* workers, any deadlines and any bounds.                                  *)
(***************************************************************************)
EXTENDS KeeperChain, TLAPS

Txs == [call : Calls, by : Senders \cup {Nobody}]
Busy(s) == worker[s].step # "idle"

-----------------------------------------------------------------------------
(***************************************************************************)
(* What happens to the queue.                                              *)
(***************************************************************************)

\* An accepted transaction has one place in the queue; the others stay where
\* they were.
LEMMA AcceptedEffect ==
    ASSUME queue \in Seq(Txs), Len(queue) <= MaxPending, MaxPending \in Nat,
           NEW tx \in Txs, NEW slot \in Nat, Accepted(tx, slot)
    PROVE  /\ queue' \in Seq(Txs)
           /\ Len(queue') <= MaxPending
           /\ \E k \in DOMAIN queue' :
                 /\ queue'[k] = tx
                 /\ \A i \in DOMAIN queue' \ {k} : i \in DOMAIN queue /\ queue'[i] = queue[i]
<1>1. CASE slot \in DOMAIN queue /\ queue' = [queue EXCEPT ![slot] = tx]
    BY <1>1
<1>2. CASE slot = Len(queue) + 1 /\ Len(queue) < MaxPending /\ queue' = Append(queue, tx)
    <2>1. queue' \in Seq(Txs) /\ Len(queue') = Len(queue) + 1
        BY <1>2
    <2>2. queue'[Len(queue) + 1] = tx
        BY <1>2
    <2>3. \A i \in 1 .. Len(queue) : queue'[i] = queue[i]
        BY <1>2
    <2> QED BY <2>1, <2>2, <2>3, <1>2
<1> QED BY <1>1, <1>2 DEF Accepted

\* Disowned transactions keep their place and their call.
LEMMA DisownedEffect ==
    ASSUME queue \in Seq(Txs), NEW senders, queue' = Disowned(queue, senders)
    PROVE  /\ queue' \in Seq(Txs)
           /\ Len(queue') = Len(queue)
           /\ \A i \in DOMAIN queue :
                 /\ queue'[i].call = queue[i].call
                 /\ queue'[i].by = IF queue[i].by \in senders THEN Nobody ELSE queue[i].by
<1> DEFINE disowned(i) == IF queue[i].by \in senders THEN [queue[i] EXCEPT !.by = Nobody] ELSE queue[i]
<1>1. queue' = [i \in 1 .. Len(queue) |-> disowned(i)]
    BY DEF Disowned
<1>2. ASSUME NEW i \in 1 .. Len(queue)
      PROVE  /\ disowned(i) \in Txs
             /\ disowned(i).call = queue[i].call
             /\ disowned(i).by = IF queue[i].by \in senders THEN Nobody ELSE queue[i].by
    <2>1. queue[i] \in Txs
        OBVIOUS
    <2>2. CASE queue[i].by \in senders
        <3>1. disowned(i) = [queue[i] EXCEPT !.by = Nobody]
            BY <2>2
        <3>2. [queue[i] EXCEPT !.by = Nobody] \in Txs
            BY <2>1 DEF Txs
        <3>3. [queue[i] EXCEPT !.by = Nobody].call = queue[i].call
            BY <2>1 DEF Txs
        <3>4. [queue[i] EXCEPT !.by = Nobody].by = Nobody
            BY <2>1 DEF Txs
        <3> QED BY <3>1, <3>2, <3>3, <3>4, <2>2
    <2>3. CASE queue[i].by \notin senders
        BY <2>1, <2>3
    <2> QED BY <2>2, <2>3
<1>3. Len(queue) \in Nat /\ DOMAIN queue = 1 .. Len(queue)
    OBVIOUS
<1> HIDE DEF disowned
<1>4. queue' \in Seq(Txs) /\ Len(queue') = Len(queue)
    BY <1>1, <1>2, <1>3
<1> QED BY <1>1, <1>2, <1>3, <1>4

\* Mining moves every other transaction one place forward.
LEMMA TailEffect ==
    ASSUME queue \in Seq(Txs), queue # <<>>, queue' = Tail(queue)
    PROVE  /\ queue' \in Seq(Txs)
           /\ Len(queue') = Len(queue) - 1
           /\ \A i \in DOMAIN queue' : i + 1 \in DOMAIN queue /\ queue'[i] = queue[i + 1]
OBVIOUS

-----------------------------------------------------------------------------
(***************************************************************************)
(* What a sender is doing.                                                 *)
(***************************************************************************)

\* The states of a sender, told apart by their step.
LEMMA WorkerCases ==
    ASSUME NEW w \in WorkerStates
    PROVE  \/ w = Idle /\ w.step = "idle"
           \/ w.step = "send" /\ w \in [step : {"send"}, market : Markets, slot : 0 .. MaxPending + 1]
           \/ w.step = "wait" /\ w \in [step : {"wait"}, market : Markets, receipt : {"none", "ok", "reverted"}]
BY DEF WorkerStates, Idle

\* Counting a nonce down changes nothing else.
LEMMA SlotUpdate ==
    ASSUME NEW w \in WorkerStates, MaxPending \in Nat
    PROVE  /\ SlotAfterMining(w) \in WorkerStates
           /\ SlotAfterMining(w).step = w.step
           /\ w.step # "idle" => SlotAfterMining(w).market = w.market
           /\ w.step # "send" => SlotAfterMining(w) = w
<1>1. CASE w.step = "send" /\ w.slot > 0
    <2> DEFINE sends == [step : {"send"}, market : Markets, slot : 0 .. MaxPending + 1]
    <2>1. w \in sends
        BY <1>1, WorkerCases
    <2>2. SlotAfterMining(w) = [w EXCEPT !.slot = w.slot - 1]
        BY <1>1 DEF SlotAfterMining
    <2>3. [w EXCEPT !.slot = w.slot - 1] \in sends
        BY <2>1, <1>1
    <2>4. /\ [w EXCEPT !.slot = w.slot - 1].step = w.step
          /\ [w EXCEPT !.slot = w.slot - 1].market = w.market
        BY <2>1
    <2> QED BY <2>2, <2>3, <2>4, <1>1 DEF WorkerStates
<1>2. CASE ~(w.step = "send" /\ w.slot > 0)
    BY <1>2 DEF SlotAfterMining
<1> QED BY <1>1, <1>2

\* A receipt changes nothing but the receipt.
LEMMA ReceiptUpdate ==
    ASSUME NEW w \in WorkerStates, w.step = "wait", NEW r \in {"ok", "reverted"}
    PROVE  /\ [w EXCEPT !.receipt = r] \in WorkerStates
           /\ [w EXCEPT !.receipt = r].step = "wait"
           /\ [w EXCEPT !.receipt = r].market = w.market
           /\ [w EXCEPT !.receipt = r].receipt = r
<1> DEFINE waits == [step : {"wait"}, market : Markets, receipt : {"none", "ok", "reverted"}]
<1>1. w \in waits
    BY WorkerCases
<1>2. [w EXCEPT !.receipt = r] \in waits
    BY <1>1
<1>3. [w EXCEPT !.receipt = r].market = w.market /\ [w EXCEPT !.receipt = r].receipt = r
    BY <1>1
<1> QED BY <1>1, <1>2, <1>3 DEF WorkerStates

-----------------------------------------------------------------------------
(***************************************************************************)
(* The inductive invariant.                                                *)
(***************************************************************************)

\* What has been reported, or is about to be, has been executed.
Reports ==
    /\ reported \subseteq executed
    /\ \A s \in Senders :
          worker[s].step = "wait" /\ worker[s].receipt = "ok" => CallOf(s) \in executed

Past(m) == MatchEnd[m] # Null /\ MatchEnd[m] + FinalizeDelay <= now

\* Every market on its way to be settled, from the query to the chain, has
\* waited for its delay.
Timely ==
    /\ \A m \in jobs : Past(m)
    /\ \A s \in SettleWorkers : Busy(s) => Past(worker[s].market)
    /\ \A i \in DOMAIN queue : queue[i].call.kind = "resolve" => Past(queue[i].call.market)
    /\ NoneSettledEarly

KeeperInv == TypeOK /\ OneReader /\ Reports /\ Timely

\* Sender s is waiting for the transaction in place i and for no other.
Reads(s, i) ==
    /\ worker[s].step = "wait"
    /\ worker[s].receipt = "none"
    /\ queue[i].call = CallOf(s)
    /\ \A j \in DOMAIN queue : queue[j].by = s => j = i

LEMMA Readers ==
    OneReader <=> \A i \in DOMAIN queue : \A s : s = queue[i].by /\ s # Nobody => Reads(s, i)
BY DEF OneReader, Reads

LEMMA ReadersNext ==
    OneReader' <=> \A i \in DOMAIN queue' : \A s : s = queue'[i].by /\ s # Nobody => Reads(s, i)'
BY DEF OneReader, Reads

LEMMA KeeperInit == Init => KeeperInv
<1> SUFFICES ASSUME Init PROVE KeeperInv
    OBVIOUS
<1> USE KeeperChainConstants
<1>1. TypeOK
    <2>1. worker \in [Senders -> WorkerStates]
        BY DEF Init, WorkerStates
    <2> QED BY <2>1 DEF Init, TypeOK, Statuses
<1>2. \A s \in Senders : worker[s].step = "idle"
    BY DEF Init, Idle
<1>3. OneReader /\ Reports /\ Timely
    BY <1>2 DEF Init, OneReader, Reports, Timely, NoneSettledEarly, Busy, Senders
<1> QED BY <1>1, <1>3 DEF KeeperInv

\* A deadline that has passed stays passed.
LEMMA PastKept ==
    ASSUME now \in Nat, now' \in Nat, now' >= now, NEW m \in Markets, Past(m)
    PROVE  Past(m)'
BY KeeperChainConstants DEF Past

\* Types of what is pending.
LEMMA QueuedCalls == TypeOK => \A i \in DOMAIN queue : queue[i] \in Txs /\ queue[i].call \in Calls
<1> SUFFICES ASSUME TypeOK, NEW i \in DOMAIN queue
             PROVE  queue[i] \in Txs /\ queue[i].call \in Calls
    OBVIOUS
<1>1. queue \in Seq(Txs)
    BY DEF TypeOK, Txs
<1>2. queue[i] \in Txs
    BY <1>1
<1> QED BY <1>2 DEF Txs

\* The clock, the chain without its queue, and the index.
LEMMA WorldKeeps ==
    ASSUME KeeperInv, Tick \/ \E m \in Markets : AdminCancel(m) \/ IndexSync(m)
    PROVE  KeeperInv'
<1> USE KeeperChainConstants
<1>1. /\ UNCHANGED <<executed, queue, worker, toLock, jobs, reported>>
      /\ now' \in Nat /\ now' >= now
      /\ chain' \in [Markets -> Statuses] /\ index' \in [Markets -> Statuses]
      /\ faults' \in 0 .. MaxFaults
    <2>1. CASE Tick
        BY <2>1 DEF Tick, KeeperInv, TypeOK
    <2> DEFINE Kept ==
            /\ UNCHANGED <<executed, queue, worker, toLock, jobs, reported, now>>
            /\ chain' \in [Markets -> Statuses] /\ index' \in [Markets -> Statuses]
            /\ faults' \in 0 .. MaxFaults
    <2>2. ASSUME NEW m \in Markets, AdminCancel(m) PROVE Kept
        <3>1. chain' \in [Markets -> Statuses]
            BY <2>2 DEF AdminCancel, KeeperInv, TypeOK, Statuses
        <3>2. faults' \in 0 .. MaxFaults
            BY <2>2 DEF AdminCancel, Fault, KeeperInv, TypeOK
        <3> QED BY <3>1, <3>2, <2>2 DEF AdminCancel, KeeperInv, TypeOK
    <2>3. ASSUME NEW m \in Markets, IndexSync(m) PROVE Kept
        BY <2>3 DEF IndexSync, KeeperInv, TypeOK
    <2>4. CASE Kept
        BY <2>4 DEF KeeperInv, TypeOK
    <2> QED BY <2>1, <2>2, <2>3, <2>4
<1>2. TypeOK'
    BY <1>1 DEF KeeperInv, TypeOK
<1>3. OneReader' /\ Reports'
    BY <1>1 DEF KeeperInv, OneReader, Reports, CallOf
<1>4. Timely'
    <2>1. \A m \in Markets : Past(m) => Past(m)'
        BY <1>1, PastKept DEF KeeperInv, TypeOK
    <2>2. \A m \in jobs : m \in Markets
        BY DEF KeeperInv, TypeOK
    <2>3. \A s \in SettleWorkers : Busy(s) => worker[s].market \in Markets
        BY WorkerCases DEF KeeperInv, TypeOK, Busy, Senders
    <2>4. \A i \in DOMAIN queue : queue[i].call.market \in Markets
        BY QueuedCalls DEF KeeperInv, Txs, Calls
    <2>5. NoneSettledEarly'
        BY <2>1, <1>1 DEF KeeperInv, Timely, NoneSettledEarly, Past
    <2> QED BY <2>1, <2>2, <2>3, <2>4, <2>5, <1>1 DEF KeeperInv, Timely, Busy
<1> QED BY <1>2, <1>3, <1>4 DEF KeeperInv

\* The queries: markets that are due have waited for their delay.
LEMMA QueriesKeep ==
    ASSUME KeeperInv, QueryLock \/ QuerySettle
    PROVE  KeeperInv'
<1> USE KeeperChainConstants
<1>1. CASE QueryLock
    BY <1>1 DEF QueryLock, KeeperInv, TypeOK, OneReader, Reports, Timely, NoneSettledEarly,
                Past, Busy, CallOf
<1>2. CASE QuerySettle
    <2>1. \A m \in Markets : Due(m) => Past(m)
        BY DEF Due, Past, KeeperInv, TypeOK
    <2>2. Timely'
        BY <1>2, <2>1 DEF QuerySettle, KeeperInv, Timely, NoneSettledEarly, Past, Busy
    <2>3. TypeOK' /\ OneReader' /\ Reports'
        BY <1>2 DEF QuerySettle, KeeperInv, TypeOK, OneReader, Reports, CallOf
    <2> QED BY <2>2, <2>3 DEF KeeperInv
<1> QED BY <1>1, <1>2

\* A sender that waits for nothing may get another state in which it waits for
\* nothing: no transaction in the queue has its name.
LEMMA SenderMoves ==
    ASSUME KeeperInv,
           NEW s \in Senders, NEW w \in WorkerStates, w.step # "wait",
           \/ worker[s].step # "wait"
           \/ worker[s].receipt # "none",
           worker' = [worker EXCEPT ![s] = w],
           s \in SettleWorkers /\ w.step # "idle" => Past(w.market),
           UNCHANGED <<now, chain, executed, queue, index>>,
           toLock' \subseteq Markets, jobs' \subseteq jobs,
           reported' \subseteq executed, faults' \in 0 .. MaxFaults
    PROVE  KeeperInv'
<1>1. worker' \in [Senders -> WorkerStates] /\ worker'[s] = w
      /\ \A t \in Senders \ {s} : worker'[t] = worker[t]
    BY DEF KeeperInv, TypeOK
<1>2. TypeOK'
    BY <1>1 DEF KeeperInv, TypeOK
<1>3. \A i \in DOMAIN queue : queue[i].by # s /\ queue[i].by \in Senders \cup {Nobody}
    BY QueuedCalls, KeeperChainConstants DEF KeeperInv, OneReader, Txs, Senders
<1>4. OneReader'
    <2> SUFFICES ASSUME NEW i \in DOMAIN queue, queue[i].by # Nobody
                 PROVE  LET t == queue[i].by IN
                            /\ worker'[t].step = "wait"
                            /\ worker'[t].receipt = "none"
                            /\ queue[i].call = CallOf(t)'
                            /\ \A j \in DOMAIN queue : queue[j].by = t => j = i
        BY DEF OneReader
    <2>1. queue[i].by \in Senders \ {s}
        BY <1>3
    <2> QED BY <2>1, <1>1 DEF KeeperInv, OneReader, CallOf
<1>5. Reports'
    BY <1>1 DEF KeeperInv, Reports, CallOf
<1>6. Timely'
    BY <1>1 DEF KeeperInv, Timely, NoneSettledEarly, Past, Busy, Senders
<1> QED BY <1>2, <1>4, <1>5, <1>6 DEF KeeperInv

\* A sender takes a market and a nonce, or fails to.
LEMMA TakeKeeps ==
    ASSUME KeeperInv,
           \/ \E m \in Markets : TakeLock(m)
           \/ \E s \in SettleWorkers, m \in Markets : TakeJob(s, m)
    PROVE  KeeperInv'
<1> USE KeeperChainConstants
<1>1. ASSUME NEW s \in Senders, NEW m \in Markets, Prepare(s, m),
             s \in SettleWorkers => Past(m),
             UNCHANGED <<now, chain, executed, queue, index, reported>>,
             toLock' \subseteq Markets, jobs' \subseteq jobs
      PROVE  KeeperInv'
    <2>1. worker[s] = Idle /\ worker[s].step = "idle"
        BY <1>1 DEF Prepare, Idle
    <2>2. reported' \subseteq executed /\ faults \in 0 .. MaxFaults
        BY <1>1 DEF KeeperInv, Reports, TypeOK
    <2>3. CASE ReadNonce(s, m) /\ UNCHANGED faults
        <3> DEFINE w == [step |-> "send", market |-> m, slot |-> Len(queue) + 1]
        <3>1. Len(queue) + 1 \in 0 .. MaxPending + 1
            BY DEF KeeperInv, TypeOK
        <3>2. w \in WorkerStates
            BY <3>1 DEF WorkerStates
        <3>3. w.step = "send" /\ w.market = m
            OBVIOUS
        <3>4. worker' = [worker EXCEPT ![s] = w]
            BY <2>3 DEF ReadNonce
        <3> HIDE DEF w
        <3> QED BY <1>1, <2>1, <2>2, <2>3, <3>2, <3>3, <3>4, SenderMoves
    <2>4. CASE Fault /\ UNCHANGED worker
        <3>1. worker' = [worker EXCEPT ![s] = Idle]
            BY <2>1, <2>4 DEF KeeperInv, TypeOK
        <3>2. faults' \in 0 .. MaxFaults
            BY <2>2, <2>4 DEF Fault
        <3>3. Idle \in WorkerStates /\ Idle.step = "idle"
            BY DEF WorkerStates, Idle
        <3> QED BY <1>1, <2>1, <2>2, <3>1, <3>2, <3>3, SenderMoves
    <2> QED BY <1>1, <2>3, <2>4 DEF Prepare
<1>2. ASSUME NEW m \in Markets, TakeLock(m) PROVE KeeperInv'
    <2>1. LockTask \in Senders /\ LockTask \notin SettleWorkers
        BY DEF Senders
    <2>2. toLock' \subseteq Markets
        BY <1>2 DEF TakeLock, KeeperInv, TypeOK
    <2> QED BY <1>1, <1>2, <2>1, <2>2 DEF TakeLock
<1>3. ASSUME NEW s \in SettleWorkers, NEW m \in Markets, TakeJob(s, m) PROVE KeeperInv'
    <2>1. s \in Senders /\ Past(m)
        BY <1>3 DEF TakeJob, Senders, KeeperInv, Timely
    <2>2. toLock' \subseteq Markets /\ jobs' \subseteq jobs
        BY <1>3 DEF TakeJob, KeeperInv, TypeOK
    <2> QED BY <1>1, <1>3, <2>1, <2>2 DEF TakeJob
<1> QED BY <1>2, <1>3

\* A sender is done: it has failed to send, or has read its receipt.
LEMMA GivingUpKeeps ==
    ASSUME KeeperInv, NEW s \in Senders, SendRejected(s) \/ CallFails(s) \/ Receipt(s)
    PROVE  KeeperInv'
<1>1. Idle \in WorkerStates /\ Idle.step = "idle"
    BY DEF WorkerStates, Idle
<1>2. worker' = [worker EXCEPT ![s] = Idle]
    BY DEF SendRejected, CallFails, Receipt, GiveUp
<1>3. worker[s].step # "wait" \/ worker[s].receipt # "none"
    BY DEF SendRejected, CallFails, Receipt
<1>4. UNCHANGED <<now, chain, executed, queue, index, toLock, jobs>>
    BY DEF SendRejected, CallFails, Receipt, Keeps
<1>5. reported' \subseteq executed
    BY DEF SendRejected, CallFails, Receipt, Keeps, KeeperInv, Reports
<1>6. faults' \in 0 .. MaxFaults
    BY KeeperChainConstants DEF SendRejected, CallFails, Receipt, Fault, KeeperInv, TypeOK
<1>7. toLock' \subseteq Markets
    BY <1>4 DEF KeeperInv, TypeOK
<1> QED BY <1>1, <1>2, <1>3, <1>4, <1>5, <1>6, <1>7, SenderMoves

\* The node accepts a transaction: it has a place of its own, and its sender
\* is the only one who waits for it.
LEMMA SendKeeps ==
    ASSUME KeeperInv, NEW s \in Senders, Send(s)
    PROVE  KeeperInv'
<1> DEFINE m == worker[s].market
           w == [step |-> "wait", market |-> m, receipt |-> "none"]
           tx == TxOf(s, s)
<1> USE KeeperChainConstants
<1>1. m \in Markets /\ worker[s].slot \in Nat /\ worker[s].step = "send"
    BY WorkerCases DEF Send, KeeperInv, TypeOK
<1>2. tx \in Txs /\ tx.by = s /\ tx.call = CallOf(s) /\ tx.call.market = m
      /\ tx.call.kind = KindOf(s)
    BY <1>1 DEF TxOf, CallOf, KindOf, Txs, Calls
<1>3. worker' \in [Senders -> WorkerStates] /\ worker'[s] = w
      /\ \A t \in Senders \ {s} : worker'[t] = worker[t]
    BY <1>1 DEF Send, Waiting, KeeperInv, TypeOK, WorkerStates
<1>4. w.step = "wait" /\ w.market = m /\ w.receipt = "none"
    OBVIOUS
<1>5. UNCHANGED <<now, chain, executed, index, toLock, jobs, reported, faults>>
    BY DEF Send, Keeps
<1> HIDE DEF w, m, tx
<1>6. Accepted(tx, worker[s].slot) /\ queue \in Seq(Txs) /\ Len(queue) <= MaxPending
    BY DEF Send, KeeperInv, TypeOK, tx, Txs
<1>7. queue' \in Seq(Txs) /\ Len(queue') <= MaxPending
    BY <1>1, <1>2, <1>6, AcceptedEffect
<1>8. PICK k \in DOMAIN queue' :
          /\ queue'[k] = tx
          /\ \A i \in DOMAIN queue' \ {k} : i \in DOMAIN queue /\ queue'[i] = queue[i]
    BY <1>1, <1>2, <1>6, AcceptedEffect
<1>9. TypeOK'
    BY <1>3, <1>5, <1>7 DEF KeeperInv, TypeOK, Txs
<1>10. \A i \in DOMAIN queue : queue[i].by # s /\ queue[i].by \in Senders \cup {Nobody}
    BY <1>1, QueuedCalls DEF KeeperInv, OneReader, Txs, Senders
<1>11. CallOf(s)' = CallOf(s)
    BY <1>3, <1>4 DEF CallOf, m
<1>12. OneReader'
    <2>1. ASSUME NEW i \in DOMAIN queue', NEW t, t = queue'[i].by, t # Nobody
          PROVE  Reads(t, i)'
        <3>1. CASE i = k
            <4>1. t = s /\ queue'[i].call = CallOf(s)'
                BY <2>1, <3>1, <1>2, <1>8, <1>11
            <4>2. \A j \in DOMAIN queue' : queue'[j].by = s => j = i
                BY <3>1, <1>8, <1>10
            <4>3. worker'[s].step = "wait" /\ worker'[s].receipt = "none"
                BY <1>3, <1>4
            <4> QED BY <4>1, <4>2, <4>3 DEF Reads
        <3>2. CASE i # k
            <4>1. i \in DOMAIN queue /\ queue'[i] = queue[i] /\ t \in Senders \ {s} /\ t = queue[i].by
                BY <2>1, <3>2, <1>8, <1>10
            <4>2. Reads(t, i)
                BY <2>1, <4>1, Readers DEF KeeperInv
            <4>3. worker'[t] = worker[t]
                BY <4>1, <1>3
            <4>4. \A j \in DOMAIN queue' : queue'[j].by = t => j = i
                BY <4>1, <4>2, <1>2, <1>8 DEF Reads
            <4> QED BY <4>1, <4>2, <4>3, <4>4 DEF Reads, CallOf
        <3> QED BY <3>1, <3>2
    <2> QED BY <2>1, ReadersNext
<1>13. Reports'
    BY <1>3, <1>4, <1>5 DEF KeeperInv, Reports, CallOf
<1>14. Timely'
    <2>1. s \in SettleWorkers => Past(m)
        BY <1>1 DEF KeeperInv, Timely, Busy, m
    <2>2. tx.call.kind = "resolve" => s \in SettleWorkers
        BY <1>2 DEF KindOf, Senders
    <2>3. \A i \in DOMAIN queue' : queue'[i].call.kind = "resolve" => Past(queue'[i].call.market)
        BY <2>1, <2>2, <1>2, <1>8 DEF KeeperInv, Timely
    <2>4. \A t \in SettleWorkers : Busy(t)' => Past(worker'[t].market)
        BY <2>1, <1>3, <1>4 DEF KeeperInv, Timely, Busy, Senders
    <2> QED BY <2>3, <2>4, <1>5 DEF KeeperInv, Timely, NoneSettledEarly, Past
<1> QED BY <1>9, <1>12, <1>13, <1>14 DEF KeeperInv

\* Some senders leave their transactions behind, and do nothing.
LEMMA DisownKeeps ==
    ASSUME KeeperInv, NEW senders \in SUBSET Senders,
           queue' = Disowned(queue, senders),
           worker' = [t \in Senders |-> IF t \in senders THEN Idle ELSE worker[t]],
           UNCHANGED <<now, chain, executed, index, reported>>,
           toLock' \subseteq Markets, jobs' \subseteq jobs, faults' \in 0 .. MaxFaults
    PROVE  KeeperInv'
<1> USE KeeperChainConstants
<1>1. /\ worker' \in [Senders -> WorkerStates]
      /\ \A t \in senders : worker'[t] = Idle
      /\ \A t \in Senders \ senders : worker'[t] = worker[t]
    BY DEF KeeperInv, TypeOK, WorkerStates
<1>2. queue \in Seq(Txs) /\ Len(queue) <= MaxPending
    BY DEF KeeperInv, TypeOK, Txs
<1>3. /\ queue' \in Seq(Txs) /\ Len(queue') = Len(queue)
      /\ \A i \in DOMAIN queue :
            /\ queue'[i].call = queue[i].call
            /\ queue'[i].by = IF queue[i].by \in senders THEN Nobody ELSE queue[i].by
    BY <1>2, DisownedEffect
<1>4. DOMAIN queue' = DOMAIN queue
    BY <1>2, <1>3
<1>5. Idle.step = "idle"
    BY DEF Idle
<1>6. TypeOK'
    BY <1>1, <1>2, <1>3 DEF KeeperInv, TypeOK, Txs
<1>7. OneReader'
    <2>1. ASSUME NEW i \in DOMAIN queue', NEW t, t = queue'[i].by, t # Nobody
          PROVE  Reads(t, i)'
        <3>1. i \in DOMAIN queue /\ t = queue[i].by /\ t \in Senders \ senders
            BY <2>1, <1>3, <1>4, QueuedCalls DEF KeeperInv, Txs
        <3>2. Reads(t, i)
            BY <2>1, <3>1, Readers DEF KeeperInv
        <3>3. worker'[t] = worker[t] /\ queue'[i].call = queue[i].call
            BY <3>1, <1>1, <1>3
        <3>4. \A j \in DOMAIN queue' : queue'[j].by = t => j = i
            BY <2>1, <3>2, <1>3, <1>4 DEF Reads
        <3> QED BY <3>2, <3>3, <3>4 DEF Reads, CallOf
    <2> QED BY <2>1, ReadersNext
<1>8. Reports'
    BY <1>1, <1>5 DEF KeeperInv, Reports, CallOf
<1>9. Timely'
    <2>1. \A t \in SettleWorkers : Busy(t)' => Past(worker'[t].market)
        BY <1>1, <1>5 DEF KeeperInv, Timely, Busy, Senders
    <2>2. \A i \in DOMAIN queue' : queue'[i].call.kind = "resolve" => Past(queue'[i].call.market)
        BY <1>3, <1>4 DEF KeeperInv, Timely
    <2> QED BY <2>1, <2>2 DEF KeeperInv, Timely, NoneSettledEarly, Past
<1> QED BY <1>6, <1>7, <1>8, <1>9 DEF KeeperInv

\* The wait for a receipt ends, or the process.
LEMMA LeavingKeeps ==
    ASSUME KeeperInv, Restart \/ \E s \in Senders : WaitExpires(s)
    PROVE  KeeperInv'
<1> USE KeeperChainConstants
<1>1. CASE Restart
    <2>1. worker' = [t \in Senders |-> IF t \in Senders THEN Idle ELSE worker[t]]
        BY <1>1 DEF Restart
    <2>2. faults' \in 0 .. MaxFaults
        BY <1>1 DEF Restart, Fault, KeeperInv, TypeOK
    <2> QED BY <1>1, <2>1, <2>2, DisownKeeps DEF Restart
<1>2. ASSUME NEW s \in Senders, WaitExpires(s) PROVE KeeperInv'
    <2>1. worker' = [t \in Senders |-> IF t \in {s} THEN Idle ELSE worker[t]]
        BY <1>2 DEF WaitExpires, Disown, GiveUp, KeeperInv, TypeOK
    <2>2. faults' \in 0 .. MaxFaults
        BY <1>2 DEF WaitExpires, Fault, KeeperInv, TypeOK
    <2>3. toLock' \subseteq Markets /\ jobs' \subseteq jobs
        BY <1>2 DEF WaitExpires, Disown, Keeps, KeeperInv, TypeOK
    <2> QED BY <1>2, <2>1, <2>2, <2>3, DisownKeeps DEF WaitExpires, Disown, Keeps
<1> QED BY <1>1, <1>2

\* A transaction is mined: the one sender who waits for it gets its receipt.
LEMMA MineKeeps ==
    ASSUME KeeperInv, Mine
    PROVE  KeeperInv'
<1> USE KeeperChainConstants
<1> DEFINE tx == Head(queue)
           ok == CallSucceeds(tx.call)
           r  == IF ok THEN "ok" ELSE "reverted"
<1>1. queue \in Seq(Txs) /\ queue # <<>> /\ Len(queue) <= MaxPending /\ queue' = Tail(queue)
    BY DEF Mine, KeeperInv, TypeOK, Txs
<1>2. /\ queue' \in Seq(Txs) /\ Len(queue') = Len(queue) - 1
      /\ \A i \in DOMAIN queue' : i + 1 \in DOMAIN queue /\ queue'[i] = queue[i + 1]
    BY <1>1, TailEffect
<1>3. 1 \in DOMAIN queue /\ tx = queue[1] /\ tx \in Txs
    BY <1>1
<1>4. tx.call \in Calls /\ tx.call.market \in Markets /\ tx.call.kind \in {"lock", "resolve"}
    BY <1>3 DEF Txs, Calls
<1>5. /\ chain' = IF ok THEN [chain EXCEPT ![tx.call.market] = StatusAfter(tx.call)] ELSE chain
      /\ executed' = IF ok THEN executed \cup {tx.call} ELSE executed
      /\ worker' = [s \in Senders |->
                        IF s = tx.by THEN [worker[s] EXCEPT !.receipt = r] ELSE SlotAfterMining(worker[s])]
      /\ UNCHANGED <<now, index, toLock, jobs, reported, faults>>
    BY DEF Mine
<1>6. r \in {"ok", "reverted"} /\ (r = "ok" <=> ok)
    OBVIOUS
<1>7. tx.by # Nobody => tx.by \in Senders /\ Reads(tx.by, 1)
    BY <1>3, Readers DEF KeeperInv, Txs
<1> HIDE DEF tx, ok, r
<1>8. ASSUME NEW s \in Senders
      PROVE  /\ worker'[s] \in WorkerStates
             /\ worker'[s].step = worker[s].step
             /\ worker[s].step # "idle" => worker'[s].market = worker[s].market
             /\ worker[s].step = "wait" =>
                    worker'[s] = IF s = tx.by THEN [worker[s] EXCEPT !.receipt = r] ELSE worker[s]
             /\ s = tx.by => worker'[s].receipt = r
    <2>1. worker[s] \in WorkerStates
        BY DEF KeeperInv, TypeOK
    <2>2. CASE s = tx.by
        <3>1. worker[s].step = "wait" /\ worker'[s] = [worker[s] EXCEPT !.receipt = r]
            BY <2>2, <1>5, <1>7 DEF Reads, Senders
        <3>2. /\ worker'[s] \in WorkerStates /\ worker'[s].step = "wait"
              /\ worker'[s].market = worker[s].market /\ worker'[s].receipt = r
            <4> DEFINE v == worker[s]
            <4>1. v \in WorkerStates /\ v.step = "wait" /\ worker'[s] = [v EXCEPT !.receipt = r]
                BY <2>1, <3>1
            <4> HIDE DEF v
            <4>2. /\ [v EXCEPT !.receipt = r] \in WorkerStates
                  /\ [v EXCEPT !.receipt = r].step = "wait"
                  /\ [v EXCEPT !.receipt = r].market = v.market
                  /\ [v EXCEPT !.receipt = r].receipt = r
                BY <4>1, <1>6, ReceiptUpdate
            <4> QED BY <4>1, <4>2 DEF v
        <3> QED BY <2>2, <3>1, <3>2
    <2>3. CASE s # tx.by
        <3>1. worker'[s] = SlotAfterMining(worker[s])
            BY <2>3, <1>5
        <3> QED BY <2>1, <2>3, <3>1, SlotUpdate
    <2> QED BY <2>2, <2>3
<1>9. TypeOK'
    <2>1. chain' \in [Markets -> Statuses]
        BY <1>4, <1>5 DEF KeeperInv, TypeOK, Statuses, StatusAfter
    <2>2. executed' \subseteq Calls
        BY <1>4, <1>5 DEF KeeperInv, TypeOK
    <2>3. worker' \in [Senders -> WorkerStates]
        BY <1>5, <1>8
    <2>4. queue' \in Seq([call : Calls, by : Senders \cup {Nobody}]) /\ Len(queue') <= MaxPending
        BY <1>1, <1>2 DEF Txs
    <2> QED BY <1>5, <2>1, <2>2, <2>3, <2>4 DEF KeeperInv, TypeOK
<1>10. OneReader'
    <2>1. ASSUME NEW i \in DOMAIN queue', NEW t, t = queue'[i].by, t # Nobody
          PROVE  Reads(t, i)'
        <3>1. i + 1 \in DOMAIN queue /\ queue'[i] = queue[i + 1] /\ i >= 1 /\ i \in Int
            BY <1>2
        <3>2. Reads(t, i + 1) /\ t \in Senders
            BY <2>1, <3>1, Readers, QueuedCalls DEF KeeperInv, Txs
        <3>3. t # tx.by
            BY <3>1, <3>2, <1>3 DEF Reads
        <3>4. worker'[t] = worker[t]
            BY <3>2, <3>3, <1>8 DEF Reads
        <3>5. \A j \in DOMAIN queue' : queue'[j].by = t => j = i
            BY <3>1, <3>2, <1>2 DEF Reads
        <3> QED BY <3>1, <3>2, <3>4, <3>5 DEF Reads, CallOf
    <2> QED BY <2>1, ReadersNext
<1>11. Reports'
    <2>1. reported' \subseteq executed'
        BY <1>5 DEF KeeperInv, Reports
    <2>2. ASSUME NEW s \in Senders, worker'[s].step = "wait", worker'[s].receipt = "ok"
          PROVE  CallOf(s)' \in executed'
        <3>1. CallOf(s)' = CallOf(s)
            BY <2>2, <1>8 DEF CallOf
        <3>2. CASE s = tx.by
            <4>1. ok /\ tx.call = CallOf(s)
                BY <2>2, <3>2, <1>3, <1>6, <1>7, <1>8 DEF Reads, Senders
            <4> QED BY <4>1, <3>1, <1>5
        <3>3. CASE s # tx.by
            BY <2>2, <3>1, <3>3, <1>5, <1>8 DEF KeeperInv, Reports
        <3> QED BY <3>2, <3>3
    <2> QED BY <2>1, <2>2 DEF Reports
<1>12. Timely'
    <2>1. \A s \in SettleWorkers : Busy(s)' => Past(worker'[s].market)
        BY <1>8 DEF KeeperInv, Timely, Busy, Senders
    <2>2. \A i \in DOMAIN queue' : queue'[i].call.kind = "resolve" => Past(queue'[i].call.market)
        BY <1>2 DEF KeeperInv, Timely
    <2>3. ASSUME NEW m \in Markets, [kind |-> "resolve", market |-> m] \in executed' PROVE Past(m)
        <3>1. CASE [kind |-> "resolve", market |-> m] \in executed
            BY <3>1 DEF KeeperInv, Timely, NoneSettledEarly, Past
        <3>2. CASE [kind |-> "resolve", market |-> m] = tx.call
            BY <3>2, <1>3 DEF KeeperInv, Timely
        <3> QED BY <2>3, <3>1, <3>2, <1>5
    <2> QED BY <2>1, <2>2, <2>3, <1>5 DEF KeeperInv, Timely, NoneSettledEarly, Past
<1> QED BY <1>9, <1>10, <1>11, <1>12 DEF KeeperInv

-----------------------------------------------------------------------------
LEMMA KeeperStep == KeeperInv /\ [Next]_vars => KeeperInv'
<1> SUFFICES ASSUME KeeperInv, [Next]_vars PROVE KeeperInv'
    OBVIOUS
<1>1. CASE Tick \/ \E m \in Markets : AdminCancel(m) \/ IndexSync(m)
    BY <1>1, WorldKeeps
<1>2. CASE Mine
    BY <1>2, MineKeeps
<1>3. CASE LockTaskRuns
    BY <1>3, QueriesKeep, TakeKeeps DEF LockTaskRuns
<1>4. CASE SettleTaskRuns
    BY <1>4, QueriesKeep, TakeKeeps DEF SettleTaskRuns
<1>5. ASSUME NEW s \in Senders, SendStep(s) \/ CallFails(s) PROVE KeeperInv'
    BY <1>5, SendKeeps, GivingUpKeeps, LeavingKeeps DEF SendStep
<1>6. CASE Restart
    BY <1>6, LeavingKeeps
<1>7. CASE UNCHANGED vars
    BY <1>7 DEF vars, KeeperInv, TypeOK, OneReader, Reports, Timely, NoneSettledEarly,
                Past, Busy, CallOf
<1> QED BY <1>1, <1>2, <1>3, <1>4, <1>5, <1>6, <1>7 DEF Next

\* The invariant of the keeper's transactions, whatever the senders, the node
\* and the admin do, for any number of them.
THEOREM KeeperCorrect == Spec => []KeeperInv
BY KeeperInit, KeeperStep, PTL DEF Spec

\* The state of the keeper and of its account is well formed.
THEOREM KeeperTyped == Spec => []TypeOK
<1>1. KeeperInv => TypeOK
    BY DEF KeeperInv
<1> QED BY <1>1, KeeperCorrect, PTL

\* No sender takes the receipt of another transaction for that of its own
\* (sendTransaction and waitForTransaction over one shared nonce).
THEOREM KeeperReadsItsOwn == Spec => []OneReader
<1>1. KeeperInv => OneReader
    BY DEF KeeperInv
<1> QED BY <1>1, KeeperCorrect, PTL

\* What the lock task and the settle workers report has happened on the chain.
THEOREM KeeperReportsTrue == Spec => []ReportsTrue
<1>1. KeeperInv => ReportsTrue
    BY DEF KeeperInv, Reports, ReportsTrue
<1> QED BY <1>1, KeeperCorrect, PTL

\* No market is settled before its match has been over for FinalizeDelay,
\* however long its transaction was on the way or in the queue.
THEOREM KeeperWaitsForTheMatch == Spec => []NoneSettledEarly
<1>1. KeeperInv => NoneSettledEarly
    BY DEF KeeperInv, Timely
<1> QED BY <1>1, KeeperCorrect, PTL
=============================================================================
