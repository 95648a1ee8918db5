------------------------------ MODULE GuestJobs ------------------------------
(***************************************************************************)
(* The job engine of the guest controller (ops/guest-control/src/jobs.rs). *)
(* The engine is shared by the server threads of one process: one thread   *)
(* serves the sockets, a second one stdio when QEMU's control port is      *)
(* used.  Every running job has a waiter thread, and the first             *)
(* cancellation of a job starts a grace thread.  A step is what happens    *)
(* under one hold of a lock, or one call to the kernel.                    *)
(***************************************************************************)
EXTENDS Integers, FiniteSets, Sequences

CONSTANTS
    Servers,        \* the server threads
    Ids,            \* job ids a client may ask for
    Jobs,           \* the Job values allocated, one process each
    NoId, NoJob,
    Exits,          \* how a process may end: "zero", its exit code, or "other",
                    \* another code or a signal
    MaxActive,      \* MAX_ACTIVE_JOBS
    MaxRetained     \* MAX_RETAINED_JOBS

ASSUME JobsAssumption ==
    /\ IsFiniteSet(Servers) /\ Servers # {}
    /\ IsFiniteSet(Ids)
    /\ MaxActive \in Nat \ {0}
    /\ MaxRetained \in Nat \ {0}
    /\ Exits \subseteq {"zero", "other"} /\ "other" \in Exits
    /\ NoId \notin Ids
    /\ NoJob \notin Jobs

VARIABLES
    table,          \* jobs: the map from an id to its Job
    order,          \* order: the ids in the order they were inserted
    idOf,           \* job_id
    state,          \* state ("unused": not allocated yet)
    started,        \* started_at: null or set
    finished,       \* finished_at: null or set
    exit,           \* exit_code and signal_number
    cancel,         \* cancel_requested
    proc,           \* the process of a job, as the kernel sees it
    waiter,         \* the waiter thread: where it is
    timedOut,       \* its local timed_out
    outcome,        \* its local state, chosen and not yet written
    grace,          \* the grace thread of a cancellation
    pc, arg,        \* a server thread: where its handler is, and its Job or id
    contested       \* running jobs that were inserted while another handler was
                    \* starting their id

jobVars  == <<idOf, state, started, finished, exit, cancel, contested>>
procVars == <<proc, waiter, timedOut, outcome, grace>>
vars == <<table, order, jobVars, procVars, pc, arg>>

Terminal == {"succeeded", "failed", "cancelled", "timed_out"}
States   == {"unused", "queued", "running"} \cup Terminal

\* Every variable has its type.
TypeOK ==
    /\ table \in [Ids -> Jobs \cup {NoJob}]
    /\ order \in Seq(Ids)
    /\ idOf \in [Jobs -> Ids \cup {NoId}]
    /\ state \in [Jobs -> States]
    /\ started \in [Jobs -> {"null", "set"}]
    /\ finished \in [Jobs -> {"null", "set"}]
    /\ exit \in [Jobs -> {"none"} \cup Exits]
    /\ cancel \in [Jobs -> {"no", "yes"}]
    /\ proc \in [Jobs -> {"none", "alive", "reaped"} \cup Exits]
    /\ waiter \in [Jobs -> {"none", "poll", "grace", "decide", "finish", "done"}]
    /\ timedOut \in [Jobs -> {"no", "yes"}]
    /\ outcome \in [Jobs -> {"none"} \cup Exits \cup Terminal]
    /\ grace \in [Jobs -> {"none", "sleeping", "done"}]
    /\ pc \in [Servers -> {"idle", "prune", "retained", "launch", "insert", "order", "cancel"}]
    /\ arg \in [Servers -> Ids \cup Jobs \cup {NoId}]
    /\ contested \subseteq Jobs

Init ==
    /\ table = [i \in Ids |-> NoJob]
    /\ order = <<>>
    /\ idOf = [j \in Jobs |-> NoId]
    /\ state = [j \in Jobs |-> "unused"]
    /\ started = [j \in Jobs |-> "null"]
    /\ finished = [j \in Jobs |-> "null"]
    /\ exit = [j \in Jobs |-> "none"]
    /\ cancel = [j \in Jobs |-> "no"]
    /\ proc = [j \in Jobs |-> "none"]
    /\ waiter = [j \in Jobs |-> "none"]
    /\ timedOut = [j \in Jobs |-> "no"]
    /\ outcome = [j \in Jobs |-> "none"]
    /\ grace = [j \in Jobs |-> "none"]
    /\ pc = [s \in Servers |-> "idle"]
    /\ arg = [s \in Servers |-> NoId]
    /\ contested = {}

Present == {i \in Ids : table[i] # NoJob}
Active  == {i \in Present : state[table[i]] \notin Terminal}

Goto(s, where, what) ==
    /\ pc' = [pc EXCEPT ![s] = where]
    /\ arg' = [arg EXCEPT ![s] = what]

-------------------------------------------------------------------------------
(* job.start.  A refused request changes nothing. *)

\* Under one hold of the table's lock: the id is free and a job may be added.
StartCheck(s, i) ==
    /\ pc[s] = "idle"
    /\ i \notin Present
    /\ Cardinality(Active) < MaxActive
    /\ Goto(s, "prune", i)
    /\ UNCHANGED <<table, order, jobVars, procVars>>

\* Mutant: a job is pruned whatever its state.
PrunableAny == {k \in DOMAIN order : table[order[k]] # NoJob}

\* The places in order of jobs that may be pruned.
Prunable == {k \in DOMAIN order :
                table[order[k]] # NoJob /\ state[table[order[k]]] \in Terminal}

\* prune_terminal_jobs(), one job at a time: it holds both locks, but the
\* waiters go on, and may end a job between two rounds.
StartPrune(s) ==
    /\ pc[s] = "prune"
    /\ \/ \E k \in Prunable :
            /\ Cardinality(Present) >= MaxRetained
            /\ \A o \in Prunable : k <= o
            /\ table' = [table EXCEPT ![order[k]] = NoJob]
            /\ order' = SelectSeq(order, LAMBDA i : i # order[k])
            /\ UNCHANGED <<pc, arg>>
       \/ /\ Cardinality(Present) < MaxRetained \/ Prunable = {}
          /\ Goto(s, "retained", arg[s])
          /\ UNCHANGED <<table, order>>
    /\ UNCHANGED <<jobVars, procVars>>

\* The table has room after pruning, or the request is refused.
StartRetained(s) ==
    /\ pc[s] = "retained"
    /\ IF Cardinality(Present) < MaxRetained THEN Goto(s, "launch", arg[s]) ELSE Goto(s, "idle", NoId)
    /\ UNCHANGED <<table, order, jobVars, procVars>>

\* The working directory cannot be opened.
StartNoCwd(s) ==
    /\ pc[s] = "launch"
    /\ Goto(s, "idle", NoId)
    /\ UNCHANGED <<table, order, jobVars, procVars>>

\* The process is spawned; nobody else knows the Job yet.
Launch(s, j) ==
    /\ pc[s] = "launch"
    /\ state[j] = "unused"
    /\ idOf' = [idOf EXCEPT ![j] = arg[s]]
    /\ state' = [state EXCEPT ![j] = "running"]
    /\ started' = [started EXCEPT ![j] = "set"]
    /\ proc' = [proc EXCEPT ![j] = "alive"]
    /\ Goto(s, "insert", j)
    /\ UNCHANGED <<table, order, finished, exit, cancel, contested, waiter, timedOut, outcome, grace>>

\* The spawn fails: a failed job is retained, with no start time.
LaunchFails(s, j) ==
    /\ pc[s] = "launch"
    /\ state[j] = "unused"
    /\ idOf' = [idOf EXCEPT ![j] = arg[s]]
    /\ state' = [state EXCEPT ![j] = "failed"]
    /\ finished' = [finished EXCEPT ![j] = "set"]
    /\ Goto(s, "insert", j)
    /\ UNCHANGED <<table, order, started, exit, cancel, contested, procVars>>

\* A handler has passed the check for an id and has not inserted its Job.
Starts(s, i) ==
    \/ pc[s] \in {"prune", "retained", "launch"} /\ arg[s] = i
    \/ pc[s] = "insert" /\ idOf[arg[s]] = i

Insert(s) ==
    LET i == idOf[arg[s]]
        rival == \E t \in Servers \ {s} : Starts(t, i) IN
    /\ pc[s] = "insert"
    /\ table' = [table EXCEPT ![i] = arg[s]]
    /\ Goto(s, "order", arg[s])
    /\ contested' = IF rival /\ proc[arg[s]] # "none" THEN contested \cup {arg[s]} ELSE contested
    /\ UNCHANGED <<order, idOf, state, started, finished, exit, cancel, procVars>>

\* The id is pushed; a running job gets its waiter.
PushOrder(s) ==
    /\ pc[s] = "order"
    /\ order' = Append(order, idOf[arg[s]])
    /\ waiter' = IF proc[arg[s]] = "none" THEN waiter ELSE [waiter EXCEPT ![arg[s]] = "poll"]
    /\ Goto(s, "idle", NoId)
    /\ UNCHANGED <<table, jobVars, proc, timedOut, outcome, grace>>

-------------------------------------------------------------------------------
(* The process and its waiter *)

\* The process ends by itself, or by SIGTERM: it may ignore or handle it.
ProcessEnds(j, how) ==
    /\ proc[j] = "alive"
    /\ proc' = [proc EXCEPT ![j] = how]
    /\ UNCHANGED <<table, order, jobVars, waiter, timedOut, outcome, grace, pc, arg>>

\* waitpid(WNOHANG) finds the process ended, in the loop or in the second
\* that follows the timeout's SIGTERM.  It never returns an error: this thread
\* alone waits for this pid.  The drain of the pipes is in JobLogs.
Reap(j) ==
    /\ waiter[j] \in {"poll", "grace"}
    /\ proc[j] \in Exits
    /\ proc' = [proc EXCEPT ![j] = "reaped"]
    /\ outcome' = [outcome EXCEPT ![j] = proc[j]]
    /\ waiter' = [waiter EXCEPT ![j] = "decide"]
    /\ UNCHANGED <<table, order, jobVars, timedOut, grace, pc, arg>>

\* The deadline has passed: SIGTERM, and a second of grace.
Timeout(j) ==
    /\ waiter[j] = "poll"
    /\ timedOut' = [timedOut EXCEPT ![j] = "yes"]
    /\ waiter' = [waiter EXCEPT ![j] = "grace"]
    /\ UNCHANGED <<table, order, jobVars, proc, outcome, grace, pc, arg>>

\* Mutant: the waiter keeps waiting for a process that ignores SIGTERM.
TimeoutWaits(j) ==
    /\ waiter[j] = "grace"
    /\ proc[j] \in Exits
    /\ proc' = [proc EXCEPT ![j] = "reaped"]
    /\ outcome' = [outcome EXCEPT ![j] = proc[j]]
    /\ waiter' = [waiter EXCEPT ![j] = "decide"]
    /\ UNCHANGED <<table, order, jobVars, timedOut, grace, pc, arg>>

\* The second is over: SIGKILL, and a waitpid that blocks.
TimeoutKills(j) ==
    /\ waiter[j] = "grace"
    /\ proc' = [proc EXCEPT ![j] = "reaped"]
    /\ outcome' = [outcome EXCEPT ![j] = IF proc[j] = "alive" THEN "other" ELSE proc[j]]
    /\ waiter' = [waiter EXCEPT ![j] = "decide"]
    /\ UNCHANGED <<table, order, jobVars, timedOut, grace, pc, arg>>

\* Mutant: a timeout wins over a cancellation.
DecidedTimeoutFirst(j) ==
    IF timedOut[j] = "yes" THEN "timed_out"
    ELSE IF cancel[j] = "yes" THEN "cancelled"
    ELSE IF outcome[j] = "zero" THEN "succeeded" ELSE "failed"

\* The terminal state the waiter chooses.
Decided(j) ==
    IF timedOut[j] = "yes" /\ cancel[j] = "no" THEN "timed_out"
    ELSE IF cancel[j] = "yes" THEN "cancelled"
    ELSE IF outcome[j] = "zero" THEN "succeeded" ELSE "failed"

\* cancel_requested is read under the job's lock, which is then released.
\* The locals that end with this step, and with the next, are reset.
Decide(j) ==
    /\ waiter[j] = "decide"
    /\ outcome' = [outcome EXCEPT ![j] = Decided(j)]
    /\ timedOut' = [timedOut EXCEPT ![j] = "no"]
    /\ waiter' = [waiter EXCEPT ![j] = "finish"]
    /\ UNCHANGED <<table, order, jobVars, proc, grace, pc, arg>>

\* The exit code or signal recorded with a terminal state: none when the
\* engine ended the job.
ExitOf(final) ==
    IF final = "succeeded" THEN "zero" ELSE IF final = "failed" THEN "other" ELSE "none"

\* Mutant: the finish time is left to a later step.
FinishUndated(j) ==
    /\ waiter[j] = "finish"
    /\ state' = [state EXCEPT ![j] = outcome[j]]
    /\ exit' = [exit EXCEPT ![j] = ExitOf(outcome[j])]
    /\ waiter' = [waiter EXCEPT ![j] = "done"]
    /\ UNCHANGED <<table, order, idOf, started, finished, cancel, contested, proc, timedOut, outcome,
                   grace, pc, arg>>

\* The lock is taken again and the terminal state written.
Finish(j) ==
    /\ waiter[j] = "finish"
    /\ state' = [state EXCEPT ![j] = outcome[j]]
    /\ finished' = [finished EXCEPT ![j] = "set"]
    /\ exit' = [exit EXCEPT ![j] = ExitOf(outcome[j])]
    /\ outcome' = [outcome EXCEPT ![j] = "none"]
    /\ waiter' = [waiter EXCEPT ![j] = "done"]
    /\ contested' = contested \ {j}
    /\ UNCHANGED <<table, order, idOf, started, cancel, proc, timedOut, grace, pc, arg>>

-------------------------------------------------------------------------------
(* job.cancel *)

\* The Job is taken from the table, whose lock is released.  A job that
\* has already ended is only reported, which changes nothing.
CancelFind(s, i) ==
    /\ pc[s] = "idle"
    /\ i \in Active
    /\ Goto(s, "cancel", table[i])
    /\ UNCHANGED <<table, order, jobVars, procVars>>

\* Mutant: a job that ended since it was found is reported as cancelled.
CancelRewrites(s) ==
    LET j == arg[s]
        over == state[j] \in Terminal IN
    /\ pc[s] = "cancel"
    /\ state' = [state EXCEPT ![j] = IF over THEN "cancelled" ELSE @]
    /\ cancel' = [cancel EXCEPT ![j] = IF over THEN @ ELSE "yes"]
    /\ grace' = [grace EXCEPT ![j] = IF over \/ cancel[j] = "yes" THEN @ ELSE "sleeping"]
    /\ Goto(s, "idle", NoId)
    /\ UNCHANGED <<table, order, idOf, started, finished, exit, contested, proc, waiter, timedOut, outcome>>

\* Under the job's lock: SIGTERM, and on the first request a grace thread.
CancelSignal(s) ==
    LET j == arg[s] IN
    /\ pc[s] = "cancel"
    /\ IF state[j] \in Terminal
       THEN UNCHANGED <<cancel, grace>>
       ELSE /\ cancel' = [cancel EXCEPT ![j] = "yes"]
            /\ grace' = IF cancel[j] = "no" THEN [grace EXCEPT ![j] = "sleeping"] ELSE grace
    /\ Goto(s, "idle", NoId)
    /\ UNCHANGED <<table, order, idOf, state, started, finished, exit, contested, proc, waiter,
                   timedOut, outcome>>

\* The grace thread wakes up: SIGKILL to the group of the pid, whatever has
\* become of the process.
GraceKills(j) ==
    /\ grace[j] = "sleeping"
    /\ grace' = [grace EXCEPT ![j] = "done"]
    /\ proc' = [proc EXCEPT ![j] = IF @ = "alive" THEN "other" ELSE @]
    /\ UNCHANGED <<table, order, jobVars, waiter, timedOut, outcome, pc, arg>>

-------------------------------------------------------------------------------

Start(s) ==
    \/ \E i \in Ids : StartCheck(s, i)
    \/ StartPrune(s) \/ StartRetained(s) \/ StartNoCwd(s)
    \/ \E j \in Jobs : Launch(s, j) \/ LaunchFails(s, j)
    \/ Insert(s) \/ PushOrder(s)

Wait(j) == Reap(j) \/ TimeoutKills(j) \/ Decide(j) \/ Finish(j)

Next ==
    \/ \E s \in Servers : Start(s) \/ CancelSignal(s) \/ \E i \in Ids : CancelFind(s, i)
    \/ \E j \in Jobs :
        \/ \E how \in Exits : ProcessEnds(j, how)
        \/ Timeout(j) \/ Wait(j) \/ GraceKills(j)

Spec == Init /\ [][Next]_vars

\* A handler that has begun runs on, and so do the waiter and the grace
\* threads.  A process need not end by itself.
ThreadsRun ==
    /\ \A s \in Servers :
        WF_vars(StartPrune(s) \/ StartRetained(s) \/ StartNoCwd(s) \/ Insert(s) \/ PushOrder(s))
    /\ \A j \in Jobs : WF_vars(Wait(j)) /\ WF_vars(GraceKills(j))

\* Nothing is assumed of the clients, of the processes or of the deadlines.
FairSpec == Spec /\ ThreadsRun

-------------------------------------------------------------------------------
(* Properties *)

\* jobs/model.ts (isValidJobTransition): a terminal state is irreversible,
\* although waiter, cancellation and pruning touch a job at the same time.
TerminalIsFinal ==
    [][\A j \in Jobs : state[j] \in Terminal => state'[j] = state[j]]_vars

\* A Job is queued from its allocation to its launch, which only its handler
\* sees.
modelState == [j \in Jobs |-> IF state[j] = "unused" THEN "queued" ELSE state[j]]

Model == INSTANCE JobModel WITH jobState <- modelState

\* The engine implements the life of a job that jobs/model.ts tells the control
\* plane and its clients: one job moves at a time, along a valid transition,
\* whatever waiter, deadline, cancellation and launch do at the same time.
ImplementsModel == Model!ModelSpec

\* JobStatus of jobs/model.ts, whose rules the control plane parses every
\* answer of the guest with: a job has a finish time iff it has ended, a start
\* time iff it has left the queue, and only a job that exited with zero has
\* succeeded.  One status breaks the second rule: that of a job whose process
\* could not be spawned.
StatusConsistent ==
    \A j \in Jobs :
        /\ state[j] \in Terminal <=> finished[j] = "set"
        /\ started[j] = "null" <=> state[j] = "unused" \/ (state[j] = "failed" /\ proc[j] = "none")
        /\ state[j] = "succeeded" => exit[j] = "zero"

\* Pruning drops only jobs that have ended, although waiters, failed
\* launches and a second start of the same id change the table meanwhile:
\* a job never leaves the table by pruning while it runs.
OnlyEndedPruned ==
    [][\A i \in Present : table'[i] = NoJob => state[table[i]] \in Terminal]_vars

\* A job that is waited for is the one that status and cancel find under its
\* id, although the check of the id, the pruning and the insert are separate
\* holds of the lock; except when it was inserted while a second handler had
\* passed the check for the same id, whose Job may replace it.
RunningKnown ==
    \A j \in Jobs :
        waiter[j] \in {"poll", "grace", "decide", "finish"}
            => table[idOf[j]] = j \/ j \in contested

\* jobs-guest.test.ts, "enforces active-job limits": start counts under one
\* hold of the lock and inserts under a later one, so that the handlers that
\* have passed the check exceed MaxActive by the number of the other server
\* threads, and no more: proved only, in GuestJobsProofs.
ActiveBound == Cardinality(Active) <= MaxActive + Cardinality(Servers) - 1

\* The same of the jobs that are kept, running or ended, proved there too.
RetainedBound == Cardinality(Present) <= MaxRetained + Cardinality(Servers) - 1

\* A job whose deadline has passed ends, though its process may ignore
\* SIGTERM and never exit.
DeadlineEnds == \A j \in Jobs : waiter[j] = "grace" ~> state[j] \in Terminal

\* A cancellation accepted before the waiter has chosen the final state is
\* what that state says, whatever the process or the deadline does.  (Once it
\* has chosen, and before it writes, a cancellation is accepted and lost.)
CancelPrevails ==
    \A j \in Jobs :
        (cancel[j] = "yes" /\ waiter[j] \in {"none", "poll", "grace", "decide"}) ~> state[j] = "cancelled"

===============================================================================
