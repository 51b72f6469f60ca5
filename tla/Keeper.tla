------------------------------- MODULE Keeper -------------------------------
(***************************************************************************)
(* The life of the keeper service (keeper.go): Start runs the task         *)
(* scheduler and the health and metrics servers as goroutines; Shutdown    *)
(* signals a stop, waits for Start to finish and closes the connections.   *)
(* Start and Shutdown are called by different goroutines, Shutdown with a  *)
(* context of its own that may expire.                                     *)
(*                                                                         *)
(* Start may be called again, while it runs (and is refused), while it     *)
(* leaves, or when it has returned; its channels are made by NewKeeper and *)
(* closed for good.  A Start enters only when the one before has joined    *)
(* its goroutines, so the variables of context, scheduler and servers are  *)
(* those of the last Start that entered.                                   *)
(***************************************************************************)
EXTENDS Scheduler

CONSTANTS
    Starters,   \* goroutines that call Start
    Stoppers,   \* goroutines that call Shutdown
    Servers     \* the health server, and the metrics server when it has a port

VARIABLES
    running,    \* the flag behind runningMutex
    stopChan,   \* stopChan is closed
    doneChan,   \* doneChan is closed
    panicked,   \* a channel was closed twice
    start,      \* where each call of Start is
    server,     \* where each server goroutine is
    shutdown,   \* where each call of Shutdown is
    connected   \* the connections made by NewKeeper are open

serviceVars == <<running, stopChan, doneChan, panicked, start, server, shutdown, connected>>
vars == <<schedulerVars, serviceVars>>

StartSteps == {"idle", "entered", "waiting", "joining", "leaving", "returned", "refused"}
ShutdownSteps == {"idle", "asked", "closing", "awaiting", "released",
                  "nothing", "graceful", "timeout"}

Init ==
    /\ SchedulerInit
    /\ running = FALSE
    /\ stopChan = FALSE
    /\ doneChan = FALSE
    /\ panicked = FALSE
    /\ start = [s \in Starters |-> "idle"]
    /\ server = [x \in Servers |-> "none"]
    /\ shutdown = [c \in Stoppers |-> "idle"]
    /\ connected = TRUE

-----------------------------------------------------------------------------
(***************************************************************************)
(* Start.                                                                  *)
(***************************************************************************)
MoveStart(s, from, to) ==
    /\ ~panicked
    /\ start[s] = from
    /\ start' = [start EXCEPT ![s] = to]

RefuseStart(s) ==
    /\ running
    /\ MoveStart(s, "idle", "refused")
    /\ UNCHANGED <<schedulerVars, running, stopChan, doneChan, panicked, server, shutdown, connected>>

\* Test and set of running, under the mutex.  The context is that of this call;
\* it may have been cancelled before, which CancelContext does next.
EnterStart(s) ==
    /\ ~running
    /\ MoveStart(s, "idle", "entered")
    /\ running' = TRUE
    /\ ctxDone' = FALSE
    /\ UNCHANGED <<scheduler, stopped, task, attempt, stopChan, doneChan, panicked,
                   server, shutdown, connected>>

\* The goroutines of the service are started; runTaskScheduler registers the
\* tasks and calls Scheduler.Start, which spawns theirs.
Spawn(s) ==
    /\ MoveStart(s, "entered", "waiting")
    /\ server' = [x \in Servers |-> "serving"]
    /\ StartTasks
    /\ UNCHANGED <<running, stopChan, doneChan, panicked, shutdown, connected>>

StopSeen(s) ==
    /\ ctxDone \/ stopChan
    /\ MoveStart(s, "waiting", "joining")
    /\ UNCHANGED <<schedulerVars, running, stopChan, doneChan, panicked, server, shutdown, connected>>

ServersGone == \A x \in Servers : server[x] = "gone"

\* wg.Wait, then the flag is reset.
JoinService(s) ==
    /\ ServersGone
    /\ scheduler = "returned"
    /\ MoveStart(s, "joining", "leaving")
    /\ running' = FALSE
    /\ UNCHANGED <<schedulerVars, stopChan, doneChan, panicked, server, shutdown, connected>>

LeaveStart(s) ==
    /\ MoveStart(s, "leaving", "returned")
    /\ doneChan' = TRUE
    /\ panicked' = (panicked \/ doneChan)
    /\ UNCHANGED <<schedulerVars, running, stopChan, server, shutdown, connected>>

StartStep(s) == Spawn(s) \/ StopSeen(s) \/ JoinService(s) \/ LeaveStart(s)

\* Mutant: a server does not watch the context.
ServerLeavesOnStop(x) ==
    /\ ~panicked
    /\ server[x] = "serving"
    /\ stopChan
    /\ server' = [server EXCEPT ![x] = "gone"]
    /\ UNCHANGED <<schedulerVars, running, stopChan, doneChan, panicked, start, shutdown, connected>>

\* The servers are only simulated: they wait for a signal and end.
ServerLeaves(x) ==
    /\ ~panicked
    /\ server[x] = "serving"
    /\ ctxDone \/ stopChan
    /\ server' = [server EXCEPT ![x] = "gone"]
    /\ UNCHANGED <<schedulerVars, running, stopChan, doneChan, panicked, start, shutdown, connected>>

-----------------------------------------------------------------------------
(***************************************************************************)
(* Shutdown.                                                               *)
(***************************************************************************)
MoveShutdown(c, from, to) ==
    /\ ~panicked
    /\ shutdown[c] = from
    /\ shutdown' = [shutdown EXCEPT ![c] = to]
    /\ UNCHANGED <<schedulerVars, running, doneChan, start, server>>

EnterShutdown(c) ==
    /\ MoveShutdown(c, "idle", IF running THEN "asked" ELSE "nothing")
    /\ UNCHANGED <<stopChan, panicked, connected>>

\* The select on stopChan, and the close of its default case: two steps.
LookAtStopChan(c) ==
    /\ MoveShutdown(c, "asked", IF stopChan THEN "awaiting" ELSE "closing")
    /\ UNCHANGED <<stopChan, panicked, connected>>

CloseStopChan(c) ==
    /\ MoveShutdown(c, "closing", "awaiting")
    /\ stopChan' = TRUE
    /\ panicked' = (panicked \/ stopChan)
    /\ UNCHANGED connected

\* Mutant: the connections are closed as well when the wait times out.
ReleaseAnyway(c) ==
    /\ MoveShutdown(c, "awaiting", "released")
    /\ UNCHANGED <<stopChan, panicked, connected>>

ServiceDone(c) ==
    /\ doneChan
    /\ MoveShutdown(c, "awaiting", "released")
    /\ UNCHANGED <<stopChan, panicked, connected>>

WaitExpires(c) ==
    /\ MoveShutdown(c, "awaiting", "timeout")
    /\ UNCHANGED <<stopChan, panicked, connected>>

CloseConnections(c) ==
    /\ MoveShutdown(c, "released", "graceful")
    /\ connected' = FALSE
    /\ UNCHANGED <<stopChan, panicked>>

ShutdownStep(c) ==
    LookAtStopChan(c) \/ CloseStopChan(c) \/ ServiceDone(c) \/ CloseConnections(c)

-----------------------------------------------------------------------------
\* A step of the scheduler or of a task.  A channel closed twice ends the
\* process.
Elsewhere == ~panicked /\ UNCHANGED serviceVars

Next ==
    \/ CancelContext /\ Elsewhere
    \/ StopTasks /\ Elsewhere
    \/ JoinTasks /\ Elsewhere
    \/ \E t \in Tasks : TaskStep(t) /\ Elsewhere
    \/ \E s \in Starters : RefuseStart(s) \/ EnterStart(s) \/ StartStep(s)
    \/ \E x \in Servers : ServerLeaves(x)
    \/ \E c \in Stoppers : EnterShutdown(c) \/ ShutdownStep(c) \/ WaitExpires(c)

Spec == Init /\ [][Next]_vars

\* Goroutines are scheduled, and Execute and the retry delay end, unless Execute
\* is stranded.  The loop of a task takes a ready case of its select at random,
\* so a case that stays ready is taken in the end (SF), however often the ticker
\* wins.  Nobody has to cancel the context or to call Start or Shutdown, and the
\* context of a Shutdown need not expire.
Fairness ==
    /\ WF_vars((StopTasks \/ JoinTasks) /\ Elsewhere)
    /\ \A t \in Tasks :
        /\ WF_vars(EndExecute(t) /\ Elsewhere)
        /\ WF_vars(EndBackoff(t) /\ Elsewhere)
        /\ SF_vars(TaskLeaves(t) /\ Elsewhere)
    /\ \A s \in Starters : WF_vars(StartStep(s))
    /\ \A x \in Servers : WF_vars(ServerLeaves(x))
    /\ \A c \in Stoppers : WF_vars(ShutdownStep(c))

FairSpec == Spec /\ Fairness

-----------------------------------------------------------------------------
TypeOK ==
    /\ SchedulerTypeOK
    /\ {running, stopChan, doneChan, panicked, connected} \subseteq BOOLEAN
    /\ start \in [Starters -> StartSteps]
    /\ server \in [Servers -> {"none", "serving", "gone"}]
    /\ shutdown \in [Stoppers -> ShutdownSteps]

\* No task and no server is running.
NothingRuns ==
    /\ \A t \in Tasks : task[t] \in {"none", "gone"}
    /\ \A x \in Servers : server[x] \in {"none", "gone"}

\* One call of Start, at most, has been let through.
StartedOnce ==
    \A s, r \in Starters : {start[s], start[r]} \cap {"idle", "refused"} = {} => s = r

\* The connections of a Keeper that is started once are closed only when no
\* task and no server runs: no task uses a client or a database that is gone.
ConnectionsOutliveTasks == StartedOnce /\ ~connected => NothingRuns

\* Tasks and servers run only under a Start that has not come past its wg.Wait:
\* not before, not after, and not between two Starts.
StartLeavesNothing ==
    (\A s \in Starters : start[s] \notin {"waiting", "joining"}) => NothingRuns

\* A cancelled service ends and Start returns, unless the settle task's pool is
\* stranded or the process has panicked.
CancelledServiceEnds ==
    \A s \in Starters : start[s] = "waiting" /\ ctxDone ~>
        \/ start[s] = "returned"
        \/ \E t \in Tasks : task[t] = "stranded"
        \/ panicked

\* What keeper.go says of every Shutdown, of a Keeper that was started again
\* too: the connections go after the tasks.  A second Start runs its tasks
\* while the first closes doneChan, or has closed it.
ShutdownLeavesNothing == ~connected => NothingRuns

\* What the test "shutdown when keeper is running" expects: a Shutdown whose
\* context does not expire completes, though nobody cancels that of Start.
ShutdownCompletes ==
    \A c \in Stoppers :
        [](shutdown[c] # "timeout") => (shutdown[c] = "asked" ~> shutdown[c] = "graceful")
=============================================================================
