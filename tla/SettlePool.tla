---------------------------- MODULE SettlePool ----------------------------
(***************************************************************************)
(* The worker pools of the keeper's settle tasks: processMarketsParallel   *)
(* (settle_task.go) and processMarketsParallelUMA (settle_task_uma.go).    *)
(* One call of the pool gets NumMarkets markets, hands them to a few       *)
(* worker goroutines over a buffered channel and gathers one answer per    *)
(* market through collector goroutines, while the context of the call may  *)
(* be cancelled at any moment.                                             *)
(*                                                                         *)
(* The channel of jobs is FIFO and markets are sent in the order of the    *)
(* slice, so its content is always the jobs taken+1 .. sent.  What         *)
(* settling a market does on the chain is left to the answer it gives.     *)
(***************************************************************************)
EXTENDS Integers, FiniteSets

CONSTANTS
    NumMarkets,     \* len(markets)
    MaxConcurrent,  \* config.MaxConcurrent
    TaskKinds       \* the tasks that may call the pool

ASSUME PoolConstants ==
    /\ NumMarkets \in Nat \ {0}
    /\ MaxConcurrent \in Nat
    /\ TaskKinds \subseteq {"oracle", "uma"}

Jobs == 1 .. NumMarkets

\* Three workers when the configuration gives none, and never more than jobs.
Configured == IF MaxConcurrent = 0 THEN 3 ELSE MaxConcurrent
numWorkers == IF NumMarkets < Configured THEN NumMarkets ELSE Configured

Workers == 1 .. numWorkers
NoJob == 0

VARIABLES
    kind,       \* the task: "oracle" is settle_task.go, "uma" is settle_task_uma.go
    cancelled,  \* the context of Execute is done
    pool,       \* where processMarketsParallel is
    sent,       \* jobs put into the channel
    taken,      \* jobs received from the channel
    closed,     \* the channel of jobs is closed
    at,         \* where each worker is
    job,        \* the job each worker holds
    answer,     \* what job.Result (capacity 1) has been given
    forwarded,  \* jobs whose collector has written to resultChan
    received    \* jobs whose answer the pool has read from resultChan

poolVars   == <<pool, sent, closed, received>>
workerVars == <<taken, at, job, answer>>
settleVars == <<kind, cancelled, poolVars, workerVars, forwarded>>

\* In settle_task.go a worker returns when it sees the cancellation, and the
\* pool waits for its workers (wg.Wait); in settle_task_uma.go neither.
StopsOnCancel == kind = "oracle"
JoinsWorkers == kind = "oracle"

PoolSteps   == {"sending", "joining", "collecting", "aborting", "returned", "interrupted"}
WorkerSteps == {"range", "check", "settle", "gone"}
Answers     == {"none", "ok", "failed", "cancelled"}

PoolInit ==
    /\ kind \in TaskKinds
    /\ cancelled = FALSE
    /\ pool = "sending"
    /\ sent = 0
    /\ taken = 0
    /\ closed = FALSE
    /\ at = [w \in Workers |-> "range"]
    /\ job = [w \in Workers |-> NoJob]
    /\ answer = [j \in Jobs |-> "none"]
    /\ forwarded = {}
    /\ received = {}

\* The keeper is told to stop, or the deadline of its context passes.
Cancel ==
    /\ ~cancelled
    /\ cancelled' = TRUE
    /\ UNCHANGED <<kind, poolVars, workerVars, forwarded>>

-----------------------------------------------------------------------------
(***************************************************************************)
(* The goroutine that runs the pool.  Its select between the send, which   *)
(* never blocks on this buffer, and a cancelled context may go either way. *)
(***************************************************************************)
SendJob ==
    /\ pool = "sending"
    /\ sent < NumMarkets
    /\ sent' = sent + 1
    /\ UNCHANGED <<kind, cancelled, pool, closed, received, workerVars, forwarded>>

AbortSending ==
    /\ pool = "sending"
    /\ sent < NumMarkets
    /\ cancelled
    /\ closed' = TRUE
    /\ pool' = IF JoinsWorkers THEN "aborting" ELSE "interrupted"
    /\ UNCHANGED <<kind, cancelled, sent, received, workerVars, forwarded>>

CloseJobs ==
    /\ pool = "sending"
    /\ sent = NumMarkets
    /\ closed' = TRUE
    /\ pool' = IF JoinsWorkers THEN "joining" ELSE "collecting"
    /\ UNCHANGED <<kind, cancelled, sent, received, workerVars, forwarded>>

WorkersGone == \A w \in Workers : at[w] = "gone"

\* Mutant: a pool that was interrupted does not wait for its workers.
JoinWorkersOnlyWhenSent ==
    /\ pool \in {"joining", "aborting"}
    /\ pool = "joining" => WorkersGone
    /\ pool' = IF pool = "joining" THEN "collecting" ELSE "interrupted"
    /\ UNCHANGED <<kind, cancelled, sent, closed, received, workerVars, forwarded>>

JoinWorkers ==
    /\ pool \in {"joining", "aborting"}
    /\ WorkersGone
    /\ pool' = IF pool = "joining" THEN "collecting" ELSE "interrupted"
    /\ UNCHANGED <<kind, cancelled, sent, closed, received, workerVars, forwarded>>

ReceiveAnswer ==
    /\ pool = "collecting"
    /\ \E j \in forwarded \ received : received' = received \cup {j}
    /\ UNCHANGED <<kind, cancelled, pool, sent, closed, workerVars, forwarded>>

\* Mutant: the pool stops collecting one answer too early.
ReturnEarly ==
    /\ pool = "collecting"
    /\ Cardinality(received) >= NumMarkets - 1
    /\ pool' = "returned"
    /\ UNCHANGED <<kind, cancelled, sent, closed, received, workerVars, forwarded>>

Return ==
    /\ pool = "collecting"
    /\ received = Jobs
    /\ pool' = "returned"
    /\ UNCHANGED <<kind, cancelled, sent, closed, received, workerVars, forwarded>>

PoolStep ==
    SendJob \/ AbortSending \/ CloseJobs \/ JoinWorkers \/ ReceiveAnswer \/ Return

-----------------------------------------------------------------------------
(***************************************************************************)
(* A worker: for job := range jobs { select ctx.Done / default }.          *)
(***************************************************************************)

\* Mutant: two workers may receive the same job.
TakeJobShared(w) ==
    /\ at[w] = "range"
    /\ taken < sent
    /\ taken' \in {taken, taken + 1}
    /\ job' = [job EXCEPT ![w] = taken + 1]
    /\ at' = [at EXCEPT ![w] = "check"]
    /\ UNCHANGED <<kind, cancelled, poolVars, answer, forwarded>>

TakeJob(w) ==
    /\ at[w] = "range"
    /\ taken < sent
    /\ taken' = taken + 1
    /\ job' = [job EXCEPT ![w] = taken + 1]
    /\ at' = [at EXCEPT ![w] = "check"]
    /\ UNCHANGED <<kind, cancelled, poolVars, answer, forwarded>>

\* The channel is closed and empty.
LeaveRange(w) ==
    /\ at[w] = "range"
    /\ taken = sent
    /\ closed
    /\ at' = [at EXCEPT ![w] = "gone"]
    /\ UNCHANGED <<kind, cancelled, poolVars, taken, job, answer, forwarded>>

\* The worker gives its job the answer a and goes on to the step next.
AnswerJob(w, a, next) ==
    /\ answer' = [answer EXCEPT ![job[w]] = a]
    /\ job' = [job EXCEPT ![w] = NoJob]
    /\ at' = [at EXCEPT ![w] = next]
    /\ UNCHANGED <<kind, cancelled, poolVars, taken, forwarded>>

\* Mutant: a worker that sees the cancellation returns, as in the other pool.
SkipJobAndReturn(w) ==
    /\ at[w] = "check"
    /\ cancelled
    /\ AnswerJob(w, "cancelled", "gone")

\* Mutant: a worker that sees the cancellation drops its job unanswered.
SkipJobUnanswered(w) ==
    /\ at[w] = "check"
    /\ cancelled
    /\ job' = [job EXCEPT ![w] = NoJob]
    /\ at' = [at EXCEPT ![w] = IF StopsOnCancel THEN "gone" ELSE "range"]
    /\ UNCHANGED <<kind, cancelled, poolVars, taken, answer, forwarded>>

SkipJob(w) ==
    /\ at[w] = "check"
    /\ cancelled
    /\ AnswerJob(w, "cancelled", IF StopsOnCancel THEN "gone" ELSE "range")

BeginSettling(w) ==
    /\ at[w] = "check"
    /\ ~cancelled
    /\ at' = [at EXCEPT ![w] = "settle"]
    /\ UNCHANGED <<kind, cancelled, poolVars, taken, job, answer, forwarded>>

\* settleMarket returns: the receipt came, or any of its calls failed.
EndSettling(w) ==
    /\ at[w] = "settle"
    /\ \E a \in {"ok", "failed"} : AnswerJob(w, a, "range")

WorkerStep(w) ==
    \/ TakeJob(w)
    \/ LeaveRange(w)
    \/ SkipJob(w)
    \/ BeginSettling(w)
    \/ EndSettling(w)

\* The collector goroutine of a job, started when the job was sent.
ForwardAnswer(j) ==
    /\ j <= sent
    /\ answer[j] # "none"
    /\ j \notin forwarded
    /\ forwarded' = forwarded \cup {j}
    /\ UNCHANGED <<kind, cancelled, poolVars, workerVars>>

-----------------------------------------------------------------------------
PoolNext ==
    \/ Cancel
    \/ PoolStep
    \/ \E w \in Workers : WorkerStep(w)
    \/ \E j \in Jobs : ForwardAnswer(j)

PoolSpec == PoolInit /\ [][PoolNext]_settleVars

\* Every goroutine that can run is scheduled eventually, and every call that
\* settles a market comes back (its receipt is awaited for two minutes).
PoolFairness ==
    /\ WF_settleVars(PoolStep)
    /\ \A w \in Workers : WF_settleVars(WorkerStep(w))
    /\ \A j \in Jobs : WF_settleVars(ForwardAnswer(j))

PoolFairSpec == PoolSpec /\ PoolFairness

-----------------------------------------------------------------------------
PoolTypeOK ==
    /\ kind \in TaskKinds
    /\ cancelled \in BOOLEAN
    /\ pool \in PoolSteps
    /\ sent \in 0 .. NumMarkets
    /\ taken \in 0 .. sent
    /\ closed \in BOOLEAN
    /\ at \in [Workers -> WorkerSteps]
    /\ job \in [Workers -> Jobs \cup {NoJob}]
    /\ answer \in [Jobs -> Answers]
    /\ forwarded \subseteq Jobs
    /\ received \subseteq forwarded

\* A job is held by a worker, at most one of them, only while it is out of
\* the channel and unanswered: no market is settled twice in one round and no
\* Result channel is written to twice (its second write would block the worker).
OneHolder ==
    \A w \in Workers : at[w] \in {"check", "settle"} =>
        /\ job[w] \in 1 .. taken
        /\ answer[job[w]] = "none"
        /\ \A v \in Workers \ {w} : at[v] \in {"check", "settle"} => job[v] # job[w]

\* Every job taken from the channel is being handled or has its answer: the
\* workers lose none.
NoJobLost ==
    \A j \in 1 .. taken :
        answer[j] # "none" \/ \E w \in Workers : at[w] \in {"check", "settle"} /\ job[w] = j

\* When the pool reports the round as complete, every market has been given
\* an answer, and none was passed over unless the round was cancelled.
RoundComplete ==
    pool = "returned" =>
        \A j \in Jobs : answer[j] \in {"ok", "failed"} \cup (IF cancelled THEN {"cancelled"} ELSE {})

\* A pool that waits for its workers leaves none behind: when Execute goes on,
\* no worker of the round still sends transactions.
QuietAfterJoin ==
    JoinsWorkers /\ pool \in {"collecting", "returned", "interrupted"} => WorkersGone

\* The pool always returns, so that the scheduler can run the task again or
\* stop.
PoolReturns == <>(pool \in {"returned", "interrupted"})

\* The pool of settle_task.go collects, but its workers have left on a
\* cancellation, and a job that was sent has no answer.
Stranded ==
    /\ StopsOnCancel /\ cancelled
    /\ pool = "collecting" /\ WorkersGone
    /\ \E j \in Jobs : answer[j] = "none"

\* Only a cancellation, and in the pool of settle_task.go only, can leave a round
\* waiting: every other round returns, cancelled or not.
PoolReturnsUnlessStranded == <>(pool \in {"returned", "interrupted"} \/ Stranded)
===========================================================================
