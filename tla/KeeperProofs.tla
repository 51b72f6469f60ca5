---------------------------- MODULE KeeperProofs ----------------------------
(***************************************************************************)
(* The goroutines of the keeper.                                           *)
(*                                                                         *)
(* The worker pool of a settle task, for any number of markets and workers *)
(* and for both variants of the pool: no job is lost or handled twice, a   *)
(* round that returns is complete, a pool that waits for its workers       *)
(* leaves none of them running, and none strands that has enough workers.  *)
(*                                                                         *)
(* The life of the service, for any number of tasks, servers and           *)
(* goroutines that call Start and Shutdown: nothing runs but under a Start *)
(* that will wait for it, also when Starts follow each other, and a Keeper *)
(* that is started once closes its connections under nothing that runs.    *)
(***************************************************************************)
EXTENDS Keeper, SettlePool, FiniteSetTheorems, TLAPS

-----------------------------------------------------------------------------
(***************************************************************************)
(* A round of the worker pool.                                             *)
(***************************************************************************)
Holds(w) == at[w] \in {"check", "settle"}

\* What ties answers to the channel, to the collectors and to the context.
AnswersInv ==
    /\ \A j \in Jobs : answer[j] # "none" => j <= taken
    /\ \A j \in forwarded : answer[j] # "none"
    /\ \A j \in Jobs : answer[j] = "cancelled" => cancelled

\* The pool collects until it has read every answer.
CollectedInv == pool = "returned" => received = Jobs

\* The inductive invariant.
RoundInv ==
    /\ PoolTypeOK
    /\ OneHolder
    /\ NoJobLost
    /\ AnswersInv
    /\ CollectedInv
    /\ QuietAfterJoin

-----------------------------------------------------------------------------

\* A call has at least one job, so it starts at least one worker.
LEMMA PoolSizes == NumMarkets \in Nat \ {0} /\ numWorkers \in Nat \ {0}
  BY PoolConstants DEF numWorkers, Configured

\* The invariant holds before anything is sent.
LEMMA RoundInit == PoolInit => RoundInv
  <1> SUFFICES ASSUME PoolInit PROVE RoundInv
    OBVIOUS
  <1> USE PoolSizes DEF PoolInit
  <1>1. PoolTypeOK
    <2>1. at \in [Workers -> WorkerSteps]
      BY DEF WorkerSteps
    <2>2. job \in [Workers -> Jobs \cup {NoJob}]
      OBVIOUS
    <2>3. answer \in [Jobs -> Answers]
      BY DEF Answers
    <2>4. sent \in 0 .. NumMarkets /\ taken \in 0 .. sent
      OBVIOUS
    <2>5. pool \in PoolSteps /\ forwarded \subseteq Jobs /\ received \subseteq forwarded
      BY DEF PoolSteps
    <2> HIDE DEF PoolInit
    <2>6. kind \in TaskKinds /\ cancelled \in BOOLEAN /\ closed \in BOOLEAN
      BY DEF PoolInit
    <2> QED
      BY <2>1, <2>2, <2>3, <2>4, <2>5, <2>6 DEF PoolTypeOK
  <1>2. OneHolder /\ AnswersInv
    BY DEF OneHolder, AnswersInv
  <1>3. NoJobLost
    BY DEF NoJobLost
  <1>4. CollectedInv /\ QuietAfterJoin
    BY DEF CollectedInv, QuietAfterJoin
  <1> QED
    BY <1>1, <1>2, <1>3, <1>4 DEF RoundInv

\* Sending, closing, joining and collecting touch neither workers nor answers.
LEMMA PoolStepKeeps ==
    ASSUME RoundInv, PoolStep
    PROVE  RoundInv'
  <1> USE PoolSizes DEF RoundInv, poolVars, workerVars, PoolTypeOK, PoolSteps, Jobs, JoinsWorkers
  <1>1. UNCHANGED <<kind, cancelled, workerVars, forwarded>>
    BY DEF PoolStep, SendJob, AbortSending, CloseJobs, JoinWorkers, ReceiveAnswer, Return
  <1>2. PoolTypeOK'
    <2>1. CASE SendJob
      BY <1>1, <2>1 DEF SendJob
    <2>2. CASE AbortSending \/ CloseJobs \/ JoinWorkers
      BY <1>1, <2>2 DEF AbortSending, CloseJobs, JoinWorkers
    <2>3. CASE ReceiveAnswer \/ Return
      BY <1>1, <2>3 DEF ReceiveAnswer, Return
    <2> QED
      BY <2>1, <2>2, <2>3 DEF PoolStep
  <1>3. OneHolder' /\ NoJobLost' /\ AnswersInv'
    BY <1>1 DEF OneHolder, NoJobLost, AnswersInv
  <1>4. CollectedInv'
    BY DEF CollectedInv, PoolStep, SendJob, AbortSending, CloseJobs, JoinWorkers, ReceiveAnswer,
       Return
  <1>5. QuietAfterJoin'
    BY <1>1 DEF QuietAfterJoin, WorkersGone, PoolStep, SendJob, AbortSending, CloseJobs,
       JoinWorkers, ReceiveAnswer, Return
  <1> QED
    BY <1>2, <1>3, <1>4, <1>5

\* Receiving a job from the channel: the job was unanswered and nobody's.
LEMMA TakeJobKeeps ==
    ASSUME RoundInv, NEW w \in Workers, TakeJob(w)
    PROVE  RoundInv'
  <1> USE PoolSizes DEF RoundInv, TakeJob, poolVars, PoolTypeOK, Jobs, Workers
  <1>1. taken + 1 \in Jobs /\ answer[taken + 1] = "none"
    BY DEF AnswersInv
  <1>2. PoolTypeOK'
    BY DEF WorkerSteps
  <1>3. OneHolder'
    BY <1>1 DEF OneHolder
  <1>4. NoJobLost'
    BY <1>1 DEF NoJobLost, WorkerSteps
  <1>5. AnswersInv' /\ CollectedInv'
    BY DEF AnswersInv, CollectedInv
  <1>6. QuietAfterJoin'
    BY DEF QuietAfterJoin, WorkersGone, JoinsWorkers
  <1> QED
    BY <1>2, <1>3, <1>4, <1>5, <1>6

\* Answering the job one holds: nobody else holds it, and it was taken.
LEMMA AnswerJobKeeps ==
    ASSUME RoundInv, NEW w \in Workers, Holds(w),
           NEW a \in Answers \ {"none"}, a = "cancelled" => cancelled,
           NEW next \in {"range", "gone"}, AnswerJob(w, a, next)
    PROVE  RoundInv'
  <1> USE PoolSizes DEF RoundInv, AnswerJob, Holds, poolVars, PoolTypeOK, Jobs, Workers
  <1>1. job[w] \in 1 .. taken /\ job[w] \in Jobs /\ answer[job[w]] = "none"
    BY DEF OneHolder
  <1>2. PoolTypeOK'
    BY DEF WorkerSteps, Answers
  <1>3. OneHolder'
    BY <1>1 DEF OneHolder
  <1>4. NoJobLost'
    <2> SUFFICES ASSUME NEW j \in 1 .. taken
                 PROVE  \/ answer'[j] # "none"
                        \/ \E v \in Workers : at'[v] \in {"check", "settle"} /\ job'[v] = j
      BY DEF NoJobLost
    <2>1. CASE j = job[w]
      BY <1>1, <2>1
    <2>2. CASE j # job[w]
      BY <1>1, <2>2 DEF NoJobLost
    <2> QED
      BY <2>1, <2>2
  <1>5. AnswersInv' /\ CollectedInv'
    BY <1>1 DEF AnswersInv, CollectedInv
  <1>6. QuietAfterJoin'
    BY DEF QuietAfterJoin, WorkersGone, JoinsWorkers
  <1> QED
    BY <1>2, <1>3, <1>4, <1>5, <1>6

\* The steps of a worker that only move it.
LEMMA WorkerMoveKeeps ==
    ASSUME RoundInv, NEW w \in Workers, LeaveRange(w) \/ BeginSettling(w)
    PROVE  RoundInv'
  <1> USE PoolSizes DEF RoundInv, LeaveRange, BeginSettling, poolVars, PoolTypeOK
  <1>1. PoolTypeOK'
    BY DEF WorkerSteps
  <1>2. \A v \in Workers : Holds(v)' <=> Holds(v)
    BY DEF Holds
  <1>3. OneHolder' /\ NoJobLost'
    BY <1>2 DEF OneHolder, NoJobLost, Holds
  <1>4. AnswersInv' /\ CollectedInv'
    BY DEF AnswersInv, CollectedInv
  <1>5. QuietAfterJoin'
    BY DEF QuietAfterJoin, WorkersGone, JoinsWorkers
  <1> QED
    BY <1>1, <1>3, <1>4, <1>5

\* Every step of the round keeps the invariant.
LEMMA RoundStep == RoundInv /\ [PoolNext]_settleVars => RoundInv'
  <1> SUFFICES ASSUME RoundInv, [PoolNext]_settleVars
               PROVE  RoundInv'
    OBVIOUS
  <1>1. CASE Cancel
    BY <1>1 DEF Cancel, poolVars, workerVars, JoinsWorkers, RoundInv, PoolTypeOK, OneHolder, NoJobLost, AnswersInv,
       CollectedInv, QuietAfterJoin, WorkersGone, JoinsWorkers
  <1>2. CASE PoolStep
    BY <1>2, PoolStepKeeps
  <1>3. ASSUME NEW w \in Workers, WorkerStep(w)
        PROVE  RoundInv'
    <2>1. CASE TakeJob(w)
      BY <2>1, TakeJobKeeps
    <2>2. CASE LeaveRange(w) \/ BeginSettling(w)
      BY <2>2, WorkerMoveKeeps
    <2>3. CASE SkipJob(w)
      <3>1. CASE StopsOnCancel
        BY <2>3, <3>1, AnswerJobKeeps DEF SkipJob, Holds, Answers
      <3>2. CASE ~StopsOnCancel
        BY <2>3, <3>2, AnswerJobKeeps DEF SkipJob, Holds, Answers
      <3> QED
        BY <3>1, <3>2
    <2>4. CASE EndSettling(w)
      BY <2>4, AnswerJobKeeps DEF EndSettling, Holds, Answers
    <2> QED
      BY <1>3, <2>1, <2>2, <2>3, <2>4 DEF WorkerStep
  <1>4. ASSUME NEW j \in Jobs, ForwardAnswer(j)
        PROVE  RoundInv'
    BY <1>4 DEF ForwardAnswer, poolVars, workerVars, RoundInv, PoolTypeOK, OneHolder, NoJobLost,
       AnswersInv, CollectedInv, QuietAfterJoin, WorkersGone, JoinsWorkers
  <1>5. CASE UNCHANGED settleVars
    BY <1>5 DEF settleVars, poolVars, workerVars, RoundInv, PoolTypeOK, OneHolder, NoJobLost, AnswersInv,
       CollectedInv, QuietAfterJoin, WorkersGone, JoinsWorkers
  <1> QED
    BY <1>1, <1>2, <1>3, <1>4, <1>5 DEF PoolNext

\* The invariant holds in every reachable state.
THEOREM RoundCorrect == PoolSpec => []RoundInv
  BY RoundInit, RoundStep, PTL DEF PoolSpec

\* The counters, the channels and the answers stay in their ranges.
THEOREM PoolTypeCorrect == PoolSpec => []PoolTypeOK
  <1>1. RoundInv => PoolTypeOK
    BY DEF RoundInv
  <1> QED
    BY <1>1, RoundCorrect, PTL

\* No market is handled by two workers of a round.
THEOREM HoldersAreAlone == PoolSpec => []OneHolder
  <1>1. RoundInv => OneHolder
    BY DEF RoundInv
  <1> QED
    BY <1>1, RoundCorrect, PTL

\* No job that was taken from the channel disappears without an answer.
THEOREM JobsAreKept == PoolSpec => []NoJobLost
  <1>1. RoundInv => NoJobLost
    BY DEF RoundInv
  <1> QED
    BY <1>1, RoundCorrect, PTL

\* A round that is reported complete has an answer for every market.
THEOREM RoundsAreComplete == PoolSpec => []RoundComplete
  <1>1. RoundInv => RoundComplete
    BY DEF RoundInv, PoolTypeOK, AnswersInv, CollectedInv, RoundComplete, Answers
  <1> QED
    BY <1>1, RoundCorrect, PTL

\* A pool that waits for its workers leaves none behind.
THEOREM NoWorkerLeft == PoolSpec => []QuietAfterJoin
  <1>1. RoundInv => QuietAfterJoin
    BY DEF RoundInv
  <1> QED
    BY <1>1, RoundCorrect, PTL

-----------------------------------------------------------------------------
(***************************************************************************)
(* A cancelled round strands when its workers leave with jobs still in the *)
(* channel.  Counting leavers shows that enough workers prevent it.        *)
(***************************************************************************)
GoneWorkers == {w \in Workers : at[w] = "gone"}
SkippedJobs == {j \in Jobs : answer[j] = "cancelled"}

\* The channel is closed and empty, which ends the range of every worker.
Drained == closed /\ taken = sent

\* Until the channel is drained only workers that answered a job as cancelled
\* have left, and only where a worker leaves at a cancellation.
LeaversInv ==
    /\ closed <=> pool # "sending"
    /\ Drained \/ Cardinality(GoneWorkers) <= Cardinality(SkippedJobs)
    /\ Drained \/ StopsOnCancel \/ GoneWorkers = {}

\* With a worker per market, or workers that stay, no job is left behind.
NothingStranded ==
    (NumMarkets <= Configured \/ ~StopsOnCancel) /\ WorkersGone =>
        \A j \in 1 .. sent : answer[j] # "none"

\* The sets that are counted are finite.
LEMMA CountedFinite ==
    /\ IsFiniteSet(GoneWorkers) /\ Cardinality(GoneWorkers) \in Nat
    /\ IsFiniteSet(SkippedJobs) /\ Cardinality(SkippedJobs) \in Nat
  <1>1. IsFiniteSet(Workers) /\ IsFiniteSet(Jobs)
    BY PoolSizes, FS_Interval DEF Workers, Jobs
  <1>2. GoneWorkers \subseteq Workers /\ SkippedJobs \subseteq Jobs
    BY DEF GoneWorkers, SkippedJobs
  <1>3. IsFiniteSet(GoneWorkers) /\ IsFiniteSet(SkippedJobs)
    BY <1>1, <1>2, FS_Subset
  <1> QED
    BY <1>3, FS_CardinalityType

\* Nobody has left before the start.
LEMMA LeaversInit == PoolInit => LeaversInv
  <1> SUFFICES ASSUME PoolInit PROVE LeaversInv
    OBVIOUS
  <1>1. GoneWorkers = {} /\ SkippedJobs = {}
    BY DEF PoolInit, GoneWorkers, SkippedJobs
  <1>2. closed <=> pool # "sending"
    BY DEF PoolInit
  <1>3. Cardinality({}) = 0
    BY FS_EmptySet
  <1>4. Cardinality(GoneWorkers) <= Cardinality(SkippedJobs)
    BY <1>1, <1>3
  <1> QED
    BY <1>1, <1>2, <1>4 DEF LeaversInv

\* A worker that leaves with a job answers that job, which had no answer.
LEMMA SkipCounts ==
    ASSUME RoundInv, LeaversInv, NEW w \in Workers, SkipJob(w), StopsOnCancel
    PROVE  LeaversInv'
  <1>1. /\ at[w] = "check" /\ job[w] \in Jobs /\ answer[job[w]] = "none"
        /\ answer' = [answer EXCEPT ![job[w]] = "cancelled"]
        /\ at' = [at EXCEPT ![w] = "gone"]
        /\ UNCHANGED <<kind, sent, taken, closed, pool>>
    <2>1. at[w] = "check" /\ AnswerJob(w, "cancelled", "gone")
      BY DEF SkipJob
    <2>2. job[w] \in 1 .. taken /\ answer[job[w]] = "none"
      BY <2>1 DEF RoundInv, OneHolder
    <2>3. taken \in Nat /\ taken <= NumMarkets
      BY PoolSizes DEF RoundInv, PoolTypeOK
    <2>4. job[w] \in Jobs
      BY <2>2, <2>3, PoolSizes DEF Jobs
    <2> QED
      BY <2>1, <2>2, <2>4 DEF AnswerJob, poolVars
  <1>2. GoneWorkers' = GoneWorkers \cup {w} /\ w \notin GoneWorkers
    BY <1>1 DEF GoneWorkers, RoundInv, PoolTypeOK
  <1>3. SkippedJobs' = SkippedJobs \cup {job[w]} /\ job[w] \notin SkippedJobs
    BY <1>1 DEF SkippedJobs, RoundInv, PoolTypeOK
  <1>4. /\ Cardinality(GoneWorkers') = Cardinality(GoneWorkers) + 1
        /\ Cardinality(SkippedJobs') = Cardinality(SkippedJobs) + 1
    BY <1>2, <1>3, CountedFinite, FS_AddElement
  <1>5. Drained' <=> Drained
    BY <1>1 DEF Drained
  <1>6. StopsOnCancel'
    BY <1>1 DEF StopsOnCancel
  <1> QED
    BY <1>1, <1>4, <1>5, <1>6, CountedFinite DEF LeaversInv

\* Steps after which nobody else has left, with no answer taken back.
LEMMA NobodyLeaves ==
    ASSUME RoundInv, LeaversInv, GoneWorkers' = GoneWorkers, SkippedJobs \subseteq SkippedJobs',
           IsFiniteSet(SkippedJobs'), (closed <=> pool # "sending")', kind' = kind,
           Drained => Drained'
    PROVE  LeaversInv'
  <1>1. Cardinality(SkippedJobs) <= Cardinality(SkippedJobs') /\ Cardinality(SkippedJobs') \in Nat
    BY FS_Subset, FS_CardinalityType
  <1>2. StopsOnCancel' <=> StopsOnCancel
    BY DEF StopsOnCancel
  <1> QED
    BY <1>1, <1>2, CountedFinite DEF LeaversInv

\* Every step of the round keeps the count.
LEMMA LeaversStep ==
    ASSUME RoundInv, RoundInv', LeaversInv, [PoolNext]_settleVars
    PROVE  LeaversInv'
  <1>1. IsFiniteSet(SkippedJobs')
    <2>1. SkippedJobs' \subseteq Jobs /\ IsFiniteSet(Jobs)
      BY PoolSizes, FS_Interval DEF SkippedJobs, Jobs
    <2> QED
      BY <2>1, FS_Subset
  <1>2. CASE PoolStep
    <2>1. /\ UNCHANGED <<kind, workerVars>>
          /\ (closed <=> pool # "sending")'
          /\ Drained => Drained'
      BY <1>2 DEF PoolStep, SendJob, AbortSending, CloseJobs, JoinWorkers, ReceiveAnswer, Return,
         LeaversInv, Drained, workerVars, RoundInv, PoolTypeOK, PoolSteps, JoinsWorkers
    <2>2. GoneWorkers' = GoneWorkers /\ SkippedJobs' = SkippedJobs
      BY <2>1 DEF GoneWorkers, SkippedJobs, workerVars
    <2> QED
      BY <1>1, <2>1, <2>2, NobodyLeaves
  <1>3. ASSUME NEW w \in Workers, WorkerStep(w) PROVE LeaversInv'
    <2>1. CASE TakeJob(w)
      <3>1. GoneWorkers' = GoneWorkers /\ SkippedJobs' = SkippedJobs
        BY <2>1 DEF TakeJob, GoneWorkers, SkippedJobs, RoundInv, PoolTypeOK
      <3>2. (closed <=> pool # "sending")' /\ kind' = kind /\ ~Drained
        BY <2>1 DEF TakeJob, poolVars, LeaversInv, Drained, RoundInv, PoolTypeOK
      <3> QED
        BY <1>1, <3>1, <3>2, NobodyLeaves
    <2>2. CASE LeaveRange(w)
      <3>1. Drained' /\ (closed <=> pool # "sending")'
        BY <2>2 DEF LeaveRange, Drained, poolVars, LeaversInv
      <3> QED
        BY <3>1 DEF LeaversInv
    <2>3. CASE SkipJob(w)
      <3>1. CASE StopsOnCancel
        BY <2>3, <3>1, SkipCounts
      <3>2. CASE ~StopsOnCancel
        <4>1. /\ at[w] = "check" /\ job[w] \in Jobs
              /\ answer' = [answer EXCEPT ![job[w]] = "cancelled"]
              /\ at' = [at EXCEPT ![w] = "range"]
              /\ UNCHANGED <<kind, sent, taken, closed, pool>>
          BY <2>3, <3>2 DEF RoundInv, OneHolder, PoolTypeOK, SkipJob, AnswerJob, poolVars, Jobs
        <4>2. GoneWorkers' = GoneWorkers
          BY <4>1 DEF GoneWorkers, RoundInv, PoolTypeOK
        <4>3. SkippedJobs \subseteq SkippedJobs'
          BY <4>1 DEF SkippedJobs, RoundInv, PoolTypeOK
        <4>4. (closed <=> pool # "sending")' /\ (Drained => Drained')
          BY <4>1 DEF LeaversInv, Drained
        <4> QED
          BY <1>1, <4>1, <4>2, <4>3, <4>4, NobodyLeaves
      <3> QED
        BY <3>1, <3>2
    <2>4. CASE BeginSettling(w)
      <3>1. GoneWorkers' = GoneWorkers /\ SkippedJobs' = SkippedJobs
        BY <2>4 DEF BeginSettling, GoneWorkers, SkippedJobs, RoundInv, PoolTypeOK
      <3>2. (closed <=> pool # "sending")' /\ kind' = kind /\ (Drained => Drained')
        BY <2>4 DEF BeginSettling, poolVars, LeaversInv, Drained
      <3> QED
        BY <1>1, <3>1, <3>2, NobodyLeaves
    <2>5. CASE EndSettling(w)
      <3>1. PICK a \in {"ok", "failed"} : AnswerJob(w, a, "range")
        BY <2>5 DEF EndSettling
      <3>2. /\ at[w] = "settle" /\ job[w] \in Jobs /\ answer[job[w]] = "none"
            /\ answer' = [answer EXCEPT ![job[w]] = a]
            /\ at' = [at EXCEPT ![w] = "range"]
            /\ UNCHANGED <<kind, sent, taken, closed, pool>>
        BY <2>5, <3>1 DEF RoundInv, OneHolder, PoolTypeOK, EndSettling, AnswerJob, poolVars, Jobs
      <3>3. GoneWorkers' = GoneWorkers
        BY <3>2 DEF GoneWorkers, RoundInv, PoolTypeOK
      <3>4. SkippedJobs \subseteq SkippedJobs'
        BY <3>2 DEF SkippedJobs, RoundInv, PoolTypeOK
      <3>5. (closed <=> pool # "sending")' /\ (Drained => Drained')
        BY <3>2 DEF LeaversInv, Drained
      <3> QED
        BY <1>1, <3>2, <3>3, <3>4, <3>5, NobodyLeaves
    <2> QED
      BY <1>3, <2>1, <2>2, <2>3, <2>4, <2>5 DEF WorkerStep
  <1>4. ASSUME UNCHANGED <<kind, poolVars, workerVars>> PROVE LeaversInv'
    <2>1. GoneWorkers' = GoneWorkers /\ SkippedJobs' = SkippedJobs
      BY <1>4 DEF GoneWorkers, SkippedJobs, workerVars
    <2>2. (closed <=> pool # "sending")' /\ kind' = kind /\ (Drained => Drained')
      BY <1>4 DEF poolVars, workerVars, LeaversInv, Drained
    <2> QED
      BY <1>1, <2>1, <2>2, NobodyLeaves
  <1>5. CASE Cancel
    BY <1>4, <1>5 DEF Cancel
  <1>6. ASSUME NEW j \in Jobs, ForwardAnswer(j) PROVE LeaversInv'
    BY <1>4, <1>6 DEF ForwardAnswer
  <1>7. CASE UNCHANGED settleVars
    BY <1>4, <1>7 DEF settleVars
  <1> QED
    BY <1>2, <1>3, <1>5, <1>6, <1>7 DEF PoolNext

\* When all workers have left by themselves the channel is drained.
LEMMA LeaversDrain ==
    ASSUME RoundInv, LeaversInv, WorkersGone, NumMarkets <= Configured \/ ~StopsOnCancel
    PROVE  taken = sent
  <1> SUFFICES ASSUME ~Drained PROVE taken = sent
    BY DEF Drained
  <1>1. GoneWorkers = Workers /\ 1 \in Workers
    BY PoolSizes DEF GoneWorkers, WorkersGone, Workers
  <1>2. StopsOnCancel /\ Cardinality(GoneWorkers) <= Cardinality(SkippedJobs)
    BY <1>1 DEF LeaversInv
  <1>3. numWorkers = NumMarkets
    BY <1>2, PoolConstants DEF numWorkers, Configured
  <1>4. Cardinality(GoneWorkers) = NumMarkets
    BY <1>1, <1>3, PoolSizes, FS_Interval DEF Workers
  <1>5. taken \in Nat /\ sent \in 0 .. NumMarkets /\ taken <= sent
    BY PoolSizes DEF RoundInv, PoolTypeOK
  <1>6. SkippedJobs \subseteq 1 .. taken
    BY <1>5 DEF SkippedJobs, RoundInv, AnswersInv, Jobs
  <1>7. Cardinality(1 .. taken) = taken /\ IsFiniteSet(1 .. taken)
    BY <1>5, FS_Interval
  <1>8. Cardinality(SkippedJobs) <= taken
    BY <1>6, <1>7, FS_Subset
  <1> QED
    BY <1>2, <1>4, <1>5, <1>8, CountedFinite, PoolSizes

\* A round of as many workers as markets, and any round of the UMA task, gives
\* an answer for every market it has sent, however it is cancelled: only with
\* fewer workers can the pool of settle_task.go wait for ever.
THEOREM NoRoundStrands == PoolSpec => []NothingStranded
  <1>1. RoundInv /\ LeaversInv => NothingStranded
    <2> SUFFICES ASSUME RoundInv, LeaversInv, WorkersGone,
                        NumMarkets <= Configured \/ ~StopsOnCancel,
                        NEW j \in 1 .. sent
                 PROVE  answer[j] # "none"
      BY DEF NothingStranded
    <2>1. j \in 1 .. taken
      BY LeaversDrain
    <2> QED
      BY <2>1 DEF RoundInv, NoJobLost, WorkersGone
  <1>2. PoolInit => LeaversInv
    BY LeaversInit
  <1>3. RoundInv /\ RoundInv' /\ LeaversInv /\ [PoolNext]_settleVars => LeaversInv'
    BY LeaversStep
  <1> QED
    BY <1>1, <1>2, <1>3, RoundCorrect, PTL DEF PoolSpec

-----------------------------------------------------------------------------
(***************************************************************************)
(* The service.                                                            *)
(***************************************************************************)
Underway == {"entered", "waiting", "joining"}

\* The flag of the mutex lets a call of Start through only when none is between
\* its test-and-set and its wg.Wait.
OneUnderway ==
    /\ \A s \in Starters : start[s] \in Underway => running
    /\ \A s, r \in Starters : start[s] \in Underway /\ start[r] \in Underway => s = r

\* What the channels say: the scheduler has joined its tasks, doneChan is closed
\* by a Start that returns, and it is closed before the connections are.
Announced ==
    /\ scheduler = "returned" => TasksGone
    /\ doneChan => \E s \in Starters : start[s] = "returned"
    /\ \A c \in Stoppers : shutdown[c] \in {"released", "graceful"} => doneChan
    /\ ~connected => doneChan

\* A retry is waited for only while there is an attempt left.
AttemptLeft == \A t \in Tasks : task[t] = "backoff" => attempt[t] < RetryAttempts

\* The inductive invariant.
LifeInv == TypeOK /\ AttemptLeft /\ OneUnderway /\ Announced /\ StartLeavesNothing

-----------------------------------------------------------------------------

\* A service that was not started has nothing open.
LEMMA LifeInit == Init => LifeInv
  <1> SUFFICES ASSUME Init PROVE LifeInv
    OBVIOUS
  <1>1. SchedulerTypeOK
    <2>1. 0 \in 0 .. RetryAttempts
      BY SchedulerConstants
    <2> QED
      BY <2>1 DEF Init, SchedulerInit, SchedulerTypeOK, SchedulerSteps, TaskSteps
  <1>2. {running, stopChan, doneChan, panicked, connected} \subseteq BOOLEAN
    BY DEF Init
  <1>3. /\ start \in [Starters -> StartSteps] /\ shutdown \in [Stoppers -> ShutdownSteps]
        /\ server \in [Servers -> {"none", "serving", "gone"}]
    BY DEF Init, StartSteps, ShutdownSteps
  <1>4. AttemptLeft /\ OneUnderway /\ Announced /\ StartLeavesNothing
    BY DEF Init, SchedulerInit, AttemptLeft, OneUnderway, Underway, Announced,
           StartLeavesNothing, NothingRuns
  <1> QED
    BY <1>1, <1>2, <1>3, <1>4 DEF LifeInv, TypeOK

\* The scheduler and its tasks: a task that was not started or has gone stays so,
\* and attempts stay within their number.
LEMMA SchedulerKeeps ==
    ASSUME SchedulerTypeOK, AttemptLeft, scheduler = "returned" => TasksGone,
           \/ CancelContext \/ StopTasks \/ JoinTasks
           \/ \E t \in Tasks : TaskStep(t)
    PROVE  /\ SchedulerTypeOK' /\ AttemptLeft'
           /\ scheduler' = "returned" => TasksGone'
           /\ NothingRuns /\ UNCHANGED server => NothingRuns'
  <1> USE DEF NothingRuns, SchedulerTypeOK, SchedulerSteps, TaskSteps, TasksGone, AttemptLeft
  <1>1. CASE CancelContext
    BY <1>1 DEF CancelContext
  <1>2. CASE StopTasks
    BY <1>2 DEF StopTasks
  <1>3. CASE JoinTasks
    BY <1>3 DEF JoinTasks
  <1>4. ASSUME NEW t \in Tasks, TaskStep(t)
        PROVE  /\ SchedulerTypeOK' /\ AttemptLeft'
               /\ scheduler' = "returned" => TasksGone'
               /\ NothingRuns /\ UNCHANGED server => NothingRuns'
    <2>1. /\ attempt' \in [Tasks -> 0 .. RetryAttempts] /\ AttemptLeft'
          /\ \E from \in {"execute", "backoff", "select"}, to \in TaskSteps : MoveTask(t, from, to)
      <3>1. CASE EndExecute(t)
        BY <3>1, SchedulerConstants DEF EndExecute, TaskSucceeds, TaskGivesUp, TaskBacksOff, MoveTask
      <3>2. CASE RetryCancelled(t)
        BY <3>2, SchedulerConstants DEF RetryCancelled, MoveTask
      <3>3. CASE RetryNow(t)
        <4>1. attempt[t] + 1 \in 0 .. RetryAttempts
          BY <3>3, SchedulerConstants DEF RetryNow, MoveTask
        <4> QED
          BY <3>3, <4>1 DEF RetryNow, MoveTask
      <3>4. CASE TaskLeaves(t) \/ TaskTicks(t)
        BY <3>4, SchedulerConstants DEF TaskLeaves, TaskTicks, MoveTask
      <3>5. CASE TaskStrands(t)
        BY <3>5, SchedulerConstants DEF TaskStrands, MoveTask
      <3> QED
        BY <1>4, <3>1, <3>2, <3>3, <3>4, <3>5 DEF TaskStep, EndBackoff
    <2> QED
      BY <2>1 DEF MoveTask
  <1> QED
    BY <1>1, <1>2, <1>3, <1>4

\* A step of the scheduler or of a task leaves the service as it is.
LEMMA ElsewhereKeeps ==
    ASSUME LifeInv, UNCHANGED serviceVars,
           \/ CancelContext \/ StopTasks \/ JoinTasks
           \/ \E t \in Tasks : TaskStep(t)
    PROVE  LifeInv'
  <1> USE DEF serviceVars
  <1>1. /\ SchedulerTypeOK' /\ AttemptLeft'
        /\ scheduler' = "returned" => TasksGone'
        /\ NothingRuns => NothingRuns'
    BY SchedulerKeeps DEF LifeInv, TypeOK, Announced
  <1>2. TypeOK' /\ OneUnderway'
    BY <1>1 DEF LifeInv, TypeOK, OneUnderway
  <1>3. Announced' /\ StartLeavesNothing'
    BY <1>1 DEF LifeInv, Announced, StartLeavesNothing
  <1> QED
    BY <1>1, <1>2, <1>3 DEF LifeInv

\* A call of Start.  While it is underway no other is, and what it spawns has gone
\* when it resets the flag.
LEMMA StartKeeps ==
    ASSUME LifeInv, NEW s \in Starters, RefuseStart(s) \/ EnterStart(s) \/ StartStep(s)
    PROVE  LifeInv'
  <1>1. /\ TypeOK /\ AttemptLeft /\ OneUnderway /\ Announced /\ StartLeavesNothing
        /\ start \in [Starters -> StartSteps]
    BY DEF LifeInv, TypeOK
  <1> USE DEF MoveStart, Underway
  <1>0. CASE RefuseStart(s)
    <2>1. TypeOK' /\ AttemptLeft' /\ OneUnderway'
      BY <1>0, <1>1 DEF RefuseStart, TypeOK, SchedulerTypeOK, schedulerVars, StartSteps,
                        AttemptLeft, OneUnderway
    <2>2. Announced' /\ StartLeavesNothing'
      BY <1>0, <1>1 DEF RefuseStart, Announced, StartLeavesNothing, NothingRuns,
                        TasksGone, schedulerVars
    <2> QED
      BY <2>1, <2>2 DEF LifeInv
  <1>2. CASE EnterStart(s)
    <2>1. \A r \in Starters : start[r] \notin Underway
      BY <1>1, <1>2 DEF EnterStart, OneUnderway
    <2>2. TypeOK' /\ AttemptLeft'
      BY <1>1, <1>2 DEF EnterStart, TypeOK, SchedulerTypeOK, StartSteps, AttemptLeft
    <2>3. OneUnderway'
      BY <1>1, <1>2, <2>1 DEF EnterStart, OneUnderway
    <2>4. Announced' /\ StartLeavesNothing'
      BY <1>1, <1>2 DEF EnterStart, Announced, StartLeavesNothing, NothingRuns, TasksGone
    <2> QED
      BY <2>2, <2>3, <2>4 DEF LifeInv
  <1>3. CASE Spawn(s)
    <2>1. SchedulerTypeOK' /\ AttemptLeft'
      <3>1. ctxDone \in BOOLEAN /\ 1 \in 0 .. RetryAttempts
        BY <1>1, SchedulerConstants DEF TypeOK, SchedulerTypeOK
      <3>2. /\ ctxDone' = ctxDone /\ scheduler' = "waiting" /\ stopped' = FALSE
            /\ task' = [t \in Tasks |-> "execute"] /\ attempt' = [t \in Tasks |-> 1]
        BY <1>3 DEF Spawn, StartTasks
      <3> QED
        BY <3>1, <3>2 DEF SchedulerTypeOK, SchedulerSteps, TaskSteps, AttemptLeft
    <2>2. TypeOK'
      BY <1>1, <1>3, <2>1 DEF Spawn, TypeOK, StartSteps
    <2>3. OneUnderway'
      BY <1>1, <1>3 DEF Spawn, OneUnderway
    <2>4. Announced' /\ StartLeavesNothing'
      BY <1>1, <1>3 DEF Spawn, StartTasks, Announced, StartLeavesNothing
    <2> QED
      BY <2>1, <2>2, <2>3, <2>4 DEF LifeInv
  <1>4. CASE StopSeen(s)
    <2>1. TypeOK' /\ AttemptLeft' /\ OneUnderway'
      BY <1>1, <1>4 DEF StopSeen, TypeOK, SchedulerTypeOK, schedulerVars, StartSteps,
                        AttemptLeft, OneUnderway
    <2>2. Announced' /\ StartLeavesNothing'
      BY <1>1, <1>4 DEF StopSeen, Announced, StartLeavesNothing, NothingRuns,
                        TasksGone, schedulerVars
    <2> QED
      BY <2>1, <2>2 DEF LifeInv
  <1>5. CASE JoinService(s)
    <2>1. TypeOK' /\ AttemptLeft'
      BY <1>1, <1>5 DEF JoinService, TypeOK, SchedulerTypeOK, schedulerVars, StartSteps, AttemptLeft
    <2>2. OneUnderway'
      BY <1>1, <1>5 DEF JoinService, OneUnderway
    <2>3. TasksGone /\ ServersGone
      BY <1>1, <1>5 DEF JoinService, Announced
    <2>4. Announced' /\ StartLeavesNothing'
      BY <1>1, <1>5, <2>3 DEF JoinService, Announced, StartLeavesNothing, NothingRuns,
                              ServersGone, TasksGone, schedulerVars
    <2> QED
      BY <2>1, <2>2, <2>4 DEF LifeInv
  <1>6. CASE LeaveStart(s)
    <2>1. TypeOK' /\ AttemptLeft' /\ OneUnderway'
      BY <1>1, <1>6 DEF LeaveStart, TypeOK, SchedulerTypeOK, schedulerVars, StartSteps,
                        AttemptLeft, OneUnderway
    <2>2. Announced' /\ StartLeavesNothing'
      BY <1>1, <1>6 DEF LeaveStart, Announced, StartLeavesNothing, NothingRuns,
                        TasksGone, schedulerVars
    <2> QED
      BY <2>1, <2>2 DEF LifeInv
  <1> QED
    BY <1>0, <1>2, <1>3, <1>4, <1>5, <1>6 DEF StartStep

\* A server that ends is one goroutine less.
LEMMA ServerKeeps ==
    ASSUME LifeInv, NEW x \in Servers, ServerLeaves(x)
    PROVE  LifeInv'
  <1> USE DEF LifeInv, ServerLeaves
  <1>1. TypeOK' /\ AttemptLeft' /\ OneUnderway'
    BY DEF TypeOK, SchedulerTypeOK, schedulerVars, AttemptLeft, OneUnderway
  <1>2. Announced' /\ StartLeavesNothing'
    BY DEF TypeOK, Announced, StartLeavesNothing, NothingRuns, TasksGone, schedulerVars
  <1> QED
    BY <1>1, <1>2

\* A call of Shutdown goes on to close the connections only after doneChan.
LEMMA ShutdownKeeps ==
    ASSUME LifeInv, NEW c \in Stoppers,
           EnterShutdown(c) \/ ShutdownStep(c) \/ WaitExpires(c)
    PROVE  LifeInv'
  <1> USE DEF MoveShutdown
  <1>1. /\ UNCHANGED <<schedulerVars, running, doneChan, start, server>>
        /\ shutdown \in [Stoppers -> ShutdownSteps]
    BY DEF LifeInv, TypeOK, EnterShutdown, ShutdownStep, LookAtStopChan, CloseStopChan,
           ServiceDone, CloseConnections, WaitExpires
  <1>2. /\ shutdown' \in [Stoppers -> ShutdownSteps]
        /\ {stopChan', panicked', connected'} \subseteq BOOLEAN
    <2>1. stopChan \in BOOLEAN /\ panicked \in BOOLEAN /\ connected \in BOOLEAN
      BY DEF LifeInv, TypeOK
    <2>2. stopChan' \in BOOLEAN /\ panicked' \in BOOLEAN /\ connected' \in BOOLEAN
      BY <2>1 DEF EnterShutdown, ShutdownStep, LookAtStopChan, CloseStopChan,
                  ServiceDone, CloseConnections, WaitExpires
    <2>3. shutdown' \in [Stoppers -> ShutdownSteps]
      BY <1>1 DEF EnterShutdown, ShutdownStep, LookAtStopChan, CloseStopChan,
                  ServiceDone, CloseConnections, WaitExpires, ShutdownSteps
    <2> QED
      BY <2>2, <2>3
  <1>3. TypeOK' /\ AttemptLeft' /\ OneUnderway' /\ StartLeavesNothing'
    BY <1>1, <1>2 DEF LifeInv, TypeOK, SchedulerTypeOK, schedulerVars, AttemptLeft, OneUnderway,
                      StartLeavesNothing, NothingRuns, TasksGone
  <1>4. /\ \A d \in Stoppers : shutdown'[d] \in {"released", "graceful"} => doneChan
        /\ ~connected' => doneChan
    <2> USE <1>1 DEF LifeInv, Announced
    <2>1. CASE EnterShutdown(c) \/ LookAtStopChan(c) \/ CloseStopChan(c) \/ WaitExpires(c)
      BY <2>1 DEF EnterShutdown, LookAtStopChan, CloseStopChan, WaitExpires
    <2>2. CASE ServiceDone(c)
      BY <2>2 DEF ServiceDone
    <2>3. CASE CloseConnections(c)
      BY <2>3 DEF CloseConnections
    <2> QED
      BY <2>1, <2>2, <2>3 DEF ShutdownStep
  <1>5. Announced'
    BY <1>1, <1>4 DEF LifeInv, Announced, TasksGone, schedulerVars
  <1> QED
    BY <1>3, <1>5 DEF LifeInv

\* Every step of the process keeps the invariant of its life.
LEMMA LifeStep ==
    ASSUME LifeInv, [Next]_vars
    PROVE  LifeInv'
  <1>1. CASE UNCHANGED vars
    BY <1>1 DEF vars, schedulerVars, serviceVars, LifeInv, TypeOK, SchedulerTypeOK, AttemptLeft,
                OneUnderway, Announced, StartLeavesNothing, NothingRuns, TasksGone
  <1> QED
    BY <1>1, ElsewhereKeeps, StartKeeps, ServerKeeps, ShutdownKeeps, Zenon DEF Next, Elsewhere

\* The invariant of the keeper's life holds throughout.
LEMMA LifeAlways == Spec => []LifeInv
  <1>1. LifeInv /\ [Next]_vars => LifeInv'
    BY LifeStep
  <1> QED
    BY <1>1, LifeInit, PTL DEF Spec

-----------------------------------------------------------------------------
\* Attempts stay within config.RetryAttempts and every goroutine is at one of
\* its places, whatever fails and whenever the context is cancelled
\* (scheduler.go: executeTask).
THEOREM KeeperTypeCorrect == Spec => []TypeOK
  <1>1. LifeInv => TypeOK
    BY DEF LifeInv
  <1> QED
    BY <1>1, LifeAlways, PTL

\* For any number of callers of Start and Shutdown: if one call of Start, at
\* most, has been let through, however many were refused, the connections are
\* closed only when no task and no server runs (keeper.go: Shutdown).
THEOREM ConnectionsOutliveTasksCorrect == Spec => []ConnectionsOutliveTasks
  <1>1. LifeInv => ConnectionsOutliveTasks
    <2> SUFFICES ASSUME LifeInv, StartedOnce, ~connected PROVE NothingRuns
      BY DEF ConnectionsOutliveTasks
    <2>1. PICK s \in Starters : start[s] = "returned"
      BY DEF LifeInv, Announced
    <2>2. ASSUME NEW r \in Starters PROVE start[r] \notin {"waiting", "joining"}
      BY <2>1 DEF StartedOnce
    <2> QED
      BY <2>2 DEF LifeInv, StartLeavesNothing
  <1> QED
    BY <1>1, LifeAlways, PTL

\* A Start that resets the flag has waited for everything it started, so that
\* none of it runs before the next one spawns its own (keeper.go: Start).
THEOREM StartLeavesNothingCorrect == Spec => []StartLeavesNothing
  <1>1. LifeInv => StartLeavesNothing
    BY DEF LifeInv
  <1> QED
    BY <1>1, LifeAlways, PTL

=============================================================================
