----------------------------- MODULE Scheduler -----------------------------
(***************************************************************************)
(* The keeper's task scheduler (scheduler.go): one goroutine per           *)
(* registered task, which executes its task at once and then on every tick *)
(* of its ticker, with retries, until the context is cancelled.            *)
(*                                                                         *)
(* Times are not modelled: a tick and the end of a retry delay may come at *)
(* any moment.  A Go select with several ready cases takes any of them.    *)
(***************************************************************************)
EXTENDS Integers, FiniteSets

CONSTANTS
    Tasks,          \* the registered tasks
    Pooled,         \* those whose Execute is a pool that a cancellation can leave
                    \* waiting for ever (settle_task.go; see SettlePool)
    RetryAttempts   \* config.RetryAttempts; Validate replaces 0 by 3

ASSUME SchedulerConstants ==
    /\ Pooled \subseteq Tasks
    /\ RetryAttempts \in Nat \ {0}

VARIABLES
    ctxDone,    \* the context that Start was given is cancelled
    scheduler,  \* where Scheduler.Start is
    stopped,    \* the flag of Stop; the tasks' stop channels are closed with it
    task,       \* where the goroutine of each task is
    attempt     \* the attempt each task is at in executeTask

schedulerVars == <<ctxDone, scheduler, stopped, task, attempt>>

SchedulerSteps == {"idle", "waiting", "joining", "returned"}
TaskSteps == {"none", "execute", "stranded", "backoff", "select", "gone"}

SchedulerInit ==
    /\ ctxDone = FALSE
    /\ scheduler = "idle"
    /\ stopped = FALSE
    /\ task = [t \in Tasks |-> "none"]
    /\ attempt = [t \in Tasks |-> 0]

CancelContext ==
    /\ ~ctxDone
    /\ ctxDone' = TRUE
    /\ UNCHANGED <<scheduler, stopped, task, attempt>>

TasksGone == \A t \in Tasks : task[t] = "gone"

(***************************************************************************)
(* Scheduler.Start: spawn the tasks, wait for the context, stop, join.     *)
(* Every start of the service makes a scheduler of its own (NewScheduler), *)
(* whose tasks and flag take the place of those of the one before.         *)
(***************************************************************************)
StartTasks ==
    /\ scheduler' = "waiting"
    /\ stopped' = FALSE
    /\ task' = [t \in Tasks |-> "execute"]
    /\ attempt' = [t \in Tasks |-> 1]
    /\ UNCHANGED ctxDone

StopTasks ==
    /\ scheduler = "waiting"
    /\ ctxDone
    /\ stopped' = TRUE
    /\ scheduler' = "joining"
    /\ UNCHANGED <<ctxDone, task, attempt>>

\* Mutant: Start returns without waiting for its tasks.
JoinTasksNever ==
    /\ scheduler = "joining"
    /\ scheduler' = "returned"
    /\ UNCHANGED <<ctxDone, stopped, task, attempt>>

JoinTasks ==
    /\ scheduler = "joining"
    /\ TasksGone
    /\ scheduler' = "returned"
    /\ UNCHANGED <<ctxDone, stopped, task, attempt>>

SchedulerStep == StartTasks \/ StopTasks \/ JoinTasks

(***************************************************************************)
(* The goroutine of a task.                                                *)
(***************************************************************************)
MoveTask(t, from, to) ==
    /\ task[t] = from
    /\ task' = [task EXCEPT ![t] = to]
    /\ UNCHANGED <<ctxDone, scheduler, stopped>>

\* Execute succeeds.
TaskSucceeds(t) == MoveTask(t, "execute", "select") /\ UNCHANGED attempt

\* Execute fails and there is no retry: the context is done, or this was the
\* last attempt.
TaskGivesUp(t) ==
    /\ ctxDone \/ attempt[t] >= RetryAttempts
    /\ MoveTask(t, "execute", "select")
    /\ UNCHANGED attempt

\* The pool of Execute is cancelled with jobs left that no worker will answer.
TaskStrands(t) ==
    /\ t \in Pooled
    /\ ctxDone
    /\ MoveTask(t, "execute", "stranded")
    /\ UNCHANGED attempt

\* Mutant: one attempt too many.
TaskBacksOffOnceMore(t) ==
    /\ ~ctxDone
    /\ attempt[t] <= RetryAttempts
    /\ MoveTask(t, "execute", "backoff")
    /\ UNCHANGED attempt

\* Execute fails and will be retried.
TaskBacksOff(t) ==
    /\ ~ctxDone
    /\ attempt[t] < RetryAttempts
    /\ MoveTask(t, "execute", "backoff")
    /\ UNCHANGED attempt

RetryCancelled(t) ==
    /\ ctxDone
    /\ MoveTask(t, "backoff", "select")
    /\ UNCHANGED attempt

RetryNow(t) ==
    /\ MoveTask(t, "backoff", "execute")
    /\ attempt' = [attempt EXCEPT ![t] = @ + 1]

\* The cases of the loop's select: the context or the stop channel, a tick.
TaskLeaves(t) ==
    /\ ctxDone \/ stopped
    /\ MoveTask(t, "select", "gone")
    /\ UNCHANGED attempt

TaskTicks(t) ==
    /\ MoveTask(t, "select", "execute")
    /\ attempt' = [attempt EXCEPT ![t] = 1]

EndExecute(t) == TaskSucceeds(t) \/ TaskGivesUp(t) \/ TaskBacksOff(t)
EndBackoff(t) == RetryCancelled(t) \/ RetryNow(t)

TaskStep(t) ==
    EndExecute(t) \/ TaskStrands(t) \/ EndBackoff(t) \/ TaskLeaves(t) \/ TaskTicks(t)

SchedulerTypeOK ==
    /\ ctxDone \in BOOLEAN
    /\ scheduler \in SchedulerSteps
    /\ stopped \in BOOLEAN
    /\ task \in [Tasks -> TaskSteps]
    /\ attempt \in [Tasks -> 0 .. RetryAttempts]
=============================================================================
