--------------------------- MODULE GuestJobsProofs ---------------------------
(***************************************************************************)
(* What GuestJobs guarantees for any number of server threads, ids and     *)
(* jobs: a terminal state is final and consistently reported, and the two  *)
(* limits of the engine are exceeded by at most one job for each server    *)
(* thread beyond the first.                                                *)
(***************************************************************************)
EXTENDS GuestJobs, FiniteSetTheorems, TLAPS

USE JobsAssumption

Waiting   == {"poll", "grace", "decide", "finish"}
Publishing == {"insert", "order"}

\* The part of TypeOK the arguments need: the order of insertion is not in it.
JobTypes ==
    /\ table \in [Ids -> Jobs \cup {NoJob}]
    /\ idOf \in [Jobs -> Ids \cup {NoId}]
    /\ state \in [Jobs -> States]
    /\ started \in [Jobs -> {"null", "set"}]
    /\ finished \in [Jobs -> {"null", "set"}]
    /\ exit \in [Jobs -> {"none", "zero", "other"}]
    /\ proc \in [Jobs -> {"none", "alive", "reaped", "zero", "other"}]
    /\ waiter \in [Jobs -> {"none", "poll", "grace", "decide", "finish", "done"}]
    /\ outcome \in [Jobs -> {"none", "zero", "other", "alive", "reaped"} \cup Terminal]
    /\ pc \in [Servers -> {"idle", "prune", "retained", "launch", "insert", "order", "cancel"}]
    /\ arg \in [Servers -> Ids \cup Jobs \cup {NoId}]

\* A waiter works for a running job that has a process, and has chosen before it writes.
WaiterInv ==
    \A j \in Jobs :
        /\ waiter[j] \in Waiting => state[j] = "running" /\ proc[j] # "none"
        /\ waiter[j] = "finish" => outcome[j] \in Terminal
        /\ state[j] = "unused" => waiter[j] = "none" /\ finished[j] = "null" /\ proc[j] = "none"

\* A handler between the launch and the waiter's start owns its Job.
HandlerInv ==
    /\ \A s \in Servers : pc[s] \in {"prune", "retained", "launch"} => arg[s] \in Ids
    /\ \A s \in Servers : pc[s] = "cancel" => arg[s] \in Jobs
    /\ \A s \in Servers : pc[s] \in Publishing =>
        /\ arg[s] \in Jobs
        /\ idOf[arg[s]] \in Ids
        /\ state[arg[s]] # "unused"
        /\ waiter[arg[s]] = "none"
        /\ proc[arg[s]] # "none" => state[arg[s]] = "running"
    /\ \A s, t \in Servers :
        pc[s] \in Publishing /\ pc[t] \in Publishing /\ arg[s] = arg[t] => s = t

JobInv == JobTypes /\ WaiterInv /\ HandlerInv /\ StatusConsistent

-------------------------------------------------------------------------------
(* The state of a job *)

\* The engine starts with no job.
LEMMA JobInit == Init => JobInv
BY DEF Init, JobInv, JobTypes, WaiterInv, HandlerInv, StatusConsistent, States, Terminal,
       Waiting, Publishing

\* Steps of a request up to the launch touch no Job.
LEMMA StartStep ==
    ASSUME JobInv, NEW s \in Servers,
           \/ \E i \in Ids : StartCheck(s, i)
           \/ StartPrune(s) \/ StartRetained(s) \/ StartNoCwd(s)
    PROVE  JobInv'
<1> USE DEF JobInv, JobTypes, WaiterInv, HandlerInv, StatusConsistent, Waiting, Publishing, Goto
<1>1. CASE \E i \in Ids : StartCheck(s, i)
  BY <1>1 DEF StartCheck, jobVars, procVars
<1>2. CASE StartPrune(s)
  <2>0. UNCHANGED <<jobVars, procVars>>
    BY <1>2 DEF StartPrune
  <2>1. CASE UNCHANGED table /\ Goto(s, "retained", arg[s]) /\ pc[s] = "prune"
    BY <2>0, <2>1 DEF jobVars, procVars
  <2>2. CASE UNCHANGED <<pc, arg>> /\ \E k : table' = [table EXCEPT ![k] = NoJob]
    <3> PICK k : table' = [table EXCEPT ![k] = NoJob]
      BY <2>2
    <3>1. table' \in [Ids -> Jobs \cup {NoJob}]
      OBVIOUS
    <3> QED BY <2>0, <2>2, <3>1 DEF jobVars, procVars
  <2>3. \/ UNCHANGED table /\ Goto(s, "retained", arg[s]) /\ pc[s] = "prune"
        \/ UNCHANGED <<pc, arg>> /\ \E k : table' = [table EXCEPT ![k] = NoJob]
    BY <1>2 DEF StartPrune
  <2> QED BY <2>1, <2>2, <2>3
<1>3. CASE StartRetained(s)
  BY <1>3 DEF StartRetained, jobVars, procVars
<1>4. CASE StartNoCwd(s)
  BY <1>4 DEF StartNoCwd, jobVars, procVars
<1> QED BY <1>1, <1>2, <1>3, <1>4

\* A launch takes a Job nobody knows.
LEMMA LaunchStep ==
    ASSUME JobInv, NEW s \in Servers, NEW j \in Jobs, Launch(s, j) \/ LaunchFails(s, j)
    PROVE  JobInv'
<1> USE DEF JobInv, Goto, States, Terminal
<1>1. JobTypes'
  BY DEF JobTypes, HandlerInv, Launch, LaunchFails, procVars
<1>2. WaiterInv'
  BY DEF JobTypes, WaiterInv, Waiting, Launch, LaunchFails, procVars
<1>3. StatusConsistent'
  BY DEF JobTypes, WaiterInv, StatusConsistent, Launch, LaunchFails, procVars
<1>4. \A t \in Servers : pc[t] \in Publishing => arg[t] # j
  BY DEF HandlerInv, Launch, LaunchFails
<1>5. HandlerInv'
  <2>1. CASE Launch(s, j)
    BY <2>1, <1>4 DEF JobTypes, WaiterInv, HandlerInv, Publishing, Waiting, Launch
  <2>2. CASE LaunchFails(s, j)
    <3>1. proc[j] = "none"
      BY <2>2 DEF WaiterInv, LaunchFails
    <3> QED BY <2>2, <3>1, <1>4 DEF JobTypes, WaiterInv, HandlerInv, Publishing, Waiting, LaunchFails, procVars
  <2> QED BY <2>1, <2>2
<1> QED BY <1>1, <1>2, <1>3, <1>5

\* Publishing a Job, and starting its waiter, change none of its fields.
LEMMA PublishStep ==
    ASSUME JobInv, NEW s \in Servers, Insert(s) \/ PushOrder(s)
    PROVE  JobInv'
<1> USE DEF JobInv, Goto
<1>1. CASE Insert(s)
  BY <1>1 DEF JobTypes, WaiterInv, HandlerInv, StatusConsistent, Publishing, Insert, jobVars, procVars
<1>2. CASE PushOrder(s)
  <2>1. arg[s] \in Jobs /\ waiter[arg[s]] = "none"
    BY <1>2 DEF HandlerInv, Publishing, PushOrder
  <2>2. JobTypes'
    BY <1>2, <2>1 DEF JobTypes, PushOrder, jobVars
  <2>3. WaiterInv'
    BY <1>2, <2>1 DEF JobTypes, WaiterInv, HandlerInv, Waiting, Publishing, PushOrder, jobVars
  <2>4. HandlerInv'
    BY <1>2, <2>1 DEF JobTypes, HandlerInv, Publishing, PushOrder, jobVars
  <2>5. StatusConsistent'
    BY <1>2 DEF StatusConsistent, PushOrder, jobVars
  <2> QED BY <2>2, <2>3, <2>4, <2>5
<1> QED BY <1>1, <1>2

\* The process, the waiter up to its choice, and the grace thread.
LEMMA WaiterStep ==
    ASSUME JobInv, NEW j \in Jobs,
           \/ \E how \in Exits : ProcessEnds(j, how)
           \/ Timeout(j) \/ Reap(j) \/ TimeoutKills(j) \/ Decide(j) \/ GraceKills(j)
    PROVE  JobInv'
<1> USE DEF JobInv, JobTypes, WaiterInv, HandlerInv, StatusConsistent, Waiting, Publishing, jobVars
<1>1. CASE \E how \in Exits : ProcessEnds(j, how)
  BY <1>1 DEF ProcessEnds
<1>2. CASE Timeout(j)
  BY <1>2 DEF Timeout
<1>3. CASE Reap(j)
  BY <1>3 DEF Reap
<1>4. CASE TimeoutKills(j)
  BY <1>4 DEF TimeoutKills
<1>5. CASE Decide(j)
  <2>1. Decided(j) \in Terminal
    BY DEF Decided, Terminal
  <2> QED BY <1>5, <2>1 DEF Decide
<1>6. CASE GraceKills(j)
  BY <1>6 DEF GraceKills
<1> QED BY <1>1, <1>2, <1>3, <1>4, <1>5, <1>6

\* The waiter writes the terminal state it has chosen.
LEMMA FinishStep ==
    ASSUME JobInv, NEW j \in Jobs, Finish(j)
    PROVE  JobInv'
<1> USE DEF JobInv, JobTypes, Finish
<1>1. state[j] = "running" /\ outcome[j] \in Terminal /\ proc[j] # "none"
  BY DEF WaiterInv, Waiting
<1>2. ExitOf(outcome[j]) \in {"none", "zero", "other"}
      /\ (outcome[j] = "succeeded" => ExitOf(outcome[j]) = "zero")
  BY DEF ExitOf
<1>3. JobTypes'
  BY <1>1, <1>2 DEF States, Terminal
<1>4. WaiterInv'
  BY <1>1 DEF WaiterInv, Waiting, Terminal
<1>5. HandlerInv'
  BY <1>1 DEF HandlerInv, Publishing, Terminal
<1>6. StatusConsistent'
  <2>1. "running" \notin Terminal /\ "unused" \notin Terminal
    BY DEF Terminal
  <2>2. started[j] = "set"
    BY <1>1 DEF StatusConsistent
  <2> QED BY <1>1, <1>2, <2>1, <2>2 DEF StatusConsistent
<1> QED BY <1>3, <1>4, <1>5, <1>6

\* A cancellation only marks the Job.
LEMMA CancelStep ==
    ASSUME JobInv, NEW s \in Servers,
           CancelSignal(s) \/ \E i \in Ids : CancelFind(s, i)
    PROVE  JobInv'
<1> USE DEF JobInv, JobTypes, WaiterInv, HandlerInv, StatusConsistent, Waiting, Publishing,
            Goto, jobVars, procVars
<1>1. CASE CancelSignal(s)
  BY <1>1 DEF CancelSignal
<1>2. CASE \E i \in Ids : CancelFind(s, i)
  BY <1>2 DEF CancelFind, Active, Present
<1> QED BY <1>1, <1>2

\* JobInv is inductive.
LEMMA JobStep == JobInv /\ [Next]_vars => JobInv'
<1> SUFFICES ASSUME JobInv, [Next]_vars PROVE JobInv'
  OBVIOUS
<1>1. CASE UNCHANGED vars
  BY <1>1 DEF vars, jobVars, procVars, JobInv, JobTypes, WaiterInv, HandlerInv, StatusConsistent
<1>2. ASSUME NEW s \in Servers, Start(s) PROVE JobInv'
  BY <1>2, StartStep, LaunchStep, PublishStep DEF Start
<1>3. ASSUME NEW s \in Servers, CancelSignal(s) \/ \E i \in Ids : CancelFind(s, i) PROVE JobInv'
  BY <1>3, CancelStep
<1>4. ASSUME NEW j \in Jobs,
             (\E how \in Exits : ProcessEnds(j, how)) \/ Timeout(j) \/ Wait(j) \/ GraceKills(j)
      PROVE  JobInv'
  BY <1>4, WaiterStep, FinishStep DEF Wait
<1> QED BY <1>1, <1>2, <1>3, <1>4 DEF Next

\* Every status that can be reported of a job follows the rules of
\* jobs/model.ts: it has a finish time iff it has ended, a start time iff it
\* was launched, and has succeeded only with exit code zero; the one exception
\* is the start time of a job whose process could not be spawned.
THEOREM StatusAlwaysConsistent == Spec => []StatusConsistent
<1>1. JobInv => StatusConsistent
  BY DEF JobInv
<1> QED BY JobInit, JobStep, <1>1, PTL DEF Spec

\* A step that changes the state of a job that has ended does not exist.
LEMMA TerminalStep ==
    JobInv /\ [Next]_vars => [\A j \in Jobs : state[j] \in Terminal => state'[j] = state[j]]_vars
<1> SUFFICES ASSUME JobInv, Next, NEW j \in Jobs, state[j] \in Terminal PROVE state'[j] = state[j]
  OBVIOUS
<1>1. state[j] # "unused" /\ state[j] # "running"
  BY DEF Terminal
<1>2. ASSUME NEW s \in Servers, Start(s) PROVE state'[j] = state[j]
  <2>1. CASE \E k \in Jobs : Launch(s, k) \/ LaunchFails(s, k)
    BY <1>1, <2>1 DEF Launch, LaunchFails, JobInv, JobTypes
  <2>2. CASE StartPrune(s)
    BY <2>2 DEF StartPrune, jobVars
  <2>3. CASE (\E i \in Ids : StartCheck(s, i)) \/ StartRetained(s) \/ StartNoCwd(s) \/ Insert(s) \/ PushOrder(s)
    BY <2>3 DEF StartCheck, StartRetained, StartNoCwd, Insert, PushOrder, jobVars
  <2> QED BY <1>2, <2>1, <2>2, <2>3 DEF Start
<1>3. ASSUME NEW s \in Servers, CancelSignal(s) \/ \E i \in Ids : CancelFind(s, i)
      PROVE  state'[j] = state[j]
  BY <1>3 DEF CancelSignal, CancelFind, jobVars
<1>4. ASSUME NEW k \in Jobs,
             (\E how \in Exits : ProcessEnds(k, how)) \/ Timeout(k) \/ Wait(k) \/ GraceKills(k)
      PROVE  state'[j] = state[j]
  BY <1>1, <1>4 DEF ProcessEnds, Timeout, Wait, Reap, TimeoutKills, Decide, Finish, GraceKills,
     jobVars, JobInv, JobTypes, WaiterInv, Waiting
<1> QED BY <1>2, <1>3, <1>4 DEF Next

\* The terminal states of jobs.rs are final, as jobs/model.ts requires.
THEOREM TerminalAlwaysFinal == Spec => TerminalIsFinal
BY JobInit, JobStep, TerminalStep, PTL DEF Spec, TerminalIsFinal

\* A step that takes a job from the table takes one that has ended.
LEMMA PruneStep ==
    JobInv /\ [Next]_vars
        => [\A i \in Present : table'[i] = NoJob => state[table[i]] \in Terminal]_vars
<1> SUFFICES ASSUME JobInv, Next, NEW i \in Present, table'[i] = NoJob
             PROVE  state[table[i]] \in Terminal
  OBVIOUS
<1>1. table[i] # NoJob /\ i \in Ids /\ table \in [Ids -> Jobs \cup {NoJob}]
  BY DEF Present, JobInv, JobTypes
<1>2. table' # table
  BY <1>1
<1>3. PICK s \in Servers : StartPrune(s) \/ Insert(s)
  BY <1>2 DEF Next, Start, Wait, StartCheck, StartRetained, StartNoCwd, Launch, LaunchFails,
     PushOrder, CancelSignal, CancelFind, ProcessEnds, Timeout, Reap, TimeoutKills, Decide, Finish,
     GraceKills
<1>4. CASE StartPrune(s)
  <2>1. PICK k \in Prunable : table' = [table EXCEPT ![order[k]] = NoJob]
    BY <1>2, <1>4 DEF StartPrune
  <2>2. i = order[k]
    BY <1>1, <2>1
  <2> QED BY <2>2 DEF Prunable
<1>5. CASE Insert(s)
  <2>1. arg[s] \in Jobs /\ table' = [table EXCEPT ![idOf[arg[s]]] = arg[s]]
    BY <1>5 DEF Insert, JobInv, HandlerInv, Publishing
  <2> QED BY <1>1, <2>1
<1> QED BY <1>3, <1>4, <1>5

\* prune_terminal_jobs() drops only jobs that have ended, and no other step
\* empties an entry: an id never leaves the table while its job runs.  (A second
\* start of the same id may replace the job; the entry stays.)
THEOREM OnlyEndedEverPruned == Spec => OnlyEndedPruned
BY JobInit, JobStep, PruneStep, PTL DEF Spec, OnlyEndedPruned

-------------------------------------------------------------------------------
(* The life of a job *)

\* No job has been launched.
LEMMA ModelInitial == Init => Model!ModelInit
BY DEF Init, modelState, Model!ModelInit

\* A launch, a failed launch and the waiter's last step move one job along a
\* transition of jobs/model.ts; no other step moves any.
LEMMA ModelStep == JobInv /\ [Next]_vars => [Model!ModelNext]_modelState
<1> SUFFICES ASSUME JobInv, [Next]_vars PROVE Model!ModelNext \/ UNCHANGED modelState
  OBVIOUS
<1>1. ASSUME NEW j \in Jobs, NEW to \in Model!JobStates, to \in Model!Transitions(modelState[j]),
             state' = [state EXCEPT ![j] = to]
      PROVE  Model!ModelNext
  <2>1. to # "unused"
    BY DEF Model!JobStates
  <2>2. modelState' = [modelState EXCEPT ![j] = to]
    BY <1>1, <2>1 DEF modelState, JobInv, JobTypes
  <2> QED BY <1>1, <2>2 DEF Model!ModelNext, Model!Move
<1>2. ASSUME NEW s \in Servers, NEW j \in Jobs, Launch(s, j) \/ LaunchFails(s, j)
      PROVE  Model!ModelNext
  <2>1. modelState[j] = "queued"
    BY <1>2 DEF Launch, LaunchFails, modelState
  <2>2. {"running", "failed"} \subseteq Model!Transitions(modelState[j])
        /\ {"running", "failed"} \subseteq Model!JobStates
    BY <2>1 DEF Model!Transitions, Model!JobStates
  <2> QED BY <1>1, <1>2, <2>2 DEF Launch, LaunchFails
<1>3. ASSUME NEW j \in Jobs, Finish(j) PROVE Model!ModelNext
  <2>1. state[j] = "running" /\ outcome[j] \in Terminal
    BY <1>3 DEF Finish, JobInv, WaiterInv, Waiting
  <2>2. modelState[j] = "running"
    BY <2>1 DEF modelState
  <2>3. outcome[j] \in Model!JobStates /\ outcome[j] \in Model!Transitions(modelState[j])
    BY <2>1, <2>2 DEF Terminal, Model!Transitions, Model!JobStates
  <2> QED BY <1>1, <1>3, <2>3 DEF Finish
<1>4. ASSUME UNCHANGED state PROVE UNCHANGED modelState
  BY <1>4 DEF modelState
<1>5. \/ UNCHANGED state
      \/ \E s \in Servers, j \in Jobs : Launch(s, j) \/ LaunchFails(s, j)
      \/ \E j \in Jobs : Finish(j)
  <2>1. ASSUME NEW s \in Servers, Start(s)
        PROVE  UNCHANGED state \/ \E j \in Jobs : Launch(s, j) \/ LaunchFails(s, j)
    BY <2>1 DEF Start, StartCheck, StartPrune, StartRetained, StartNoCwd, Insert, PushOrder, jobVars
  <2>2. ASSUME NEW s \in Servers, CancelSignal(s) \/ \E i \in Ids : CancelFind(s, i)
        PROVE  UNCHANGED state
    BY <2>2 DEF CancelSignal, CancelFind, jobVars
  <2>3. ASSUME NEW j \in Jobs,
               (\E how \in Exits : ProcessEnds(j, how)) \/ Timeout(j) \/ Reap(j) \/ TimeoutKills(j)
               \/ Decide(j) \/ GraceKills(j)
        PROVE  UNCHANGED state
    BY <2>3 DEF ProcessEnds, Timeout, Reap, TimeoutKills, Decide, GraceKills, jobVars
  <2>4. CASE UNCHANGED vars
    BY <2>4 DEF vars, jobVars
  <2> QED BY <2>1, <2>2, <2>3, <2>4 DEF Next, Wait
<1> QED BY <1>2, <1>3, <1>4, <1>5

\* The engine of jobs.rs implements the life of a job that jobs/model.ts
\* describes to the control plane.
THEOREM EngineImplementsModel == Spec => ImplementsModel
BY JobInit, JobStep, ModelInitial, ModelStep, PTL DEF Spec, ImplementsModel, Model!ModelSpec

-------------------------------------------------------------------------------
(* The jobs the table knows *)

Runs(j) == proc[j] # "none" /\ state[j] \notin Terminal

\* The table has launched jobs only, and a job that is waited for has an id
\* and a process.
EntriesInv ==
    /\ \A i \in Ids : table[i] # NoJob => state[table[i]] # "unused"
    /\ \A j \in Jobs : waiter[j] \in Waiting => proc[j] # "none" /\ idOf[j] \in Ids

\* Whoever is about to replace a running job came before it was inserted.
RivalInv ==
    \A s \in Servers, i \in Ids :
        Starts(s, i) /\ table[i] # NoJob /\ Runs(table[i]) => table[i] \in contested

\* A job is known from its insertion on, not only from the start of its waiter.
OrderInv ==
    \A s \in Servers : pc[s] = "order" /\ proc[arg[s]] # "none"
        => table[idOf[arg[s]]] = arg[s] \/ arg[s] \in contested

KnownInv == JobInv /\ EntriesInv /\ RivalInv /\ OrderInv /\ RunningKnown

\* The engine starts with no job.
LEMMA KnownInit == Init => KnownInv
<1> SUFFICES ASSUME Init PROVE KnownInv
  OBVIOUS
<1> QED BY JobInit DEF Init, KnownInv, EntriesInv, RivalInv, OrderInv, RunningKnown, Waiting

\* An entry stays, or goes with a job that has ended.
EntryKept(i) ==
    \/ table'[i] = table[i]
    \/ table'[i] = NoJob /\ table[i] \in Jobs /\ state[table[i]] \in Terminal

\* A step in which no job is launched, published, waited for anew or ended:
\* entries may go, but not of jobs that run, and a handler that begins to
\* start an id finds no entry.
LEMMA KnownKept ==
    ASSUME KnownInv, JobInv',
           UNCHANGED <<state, idOf, contested>>,
           \A j \in Jobs : proc'[j] = "none" <=> proc[j] = "none",
           \A j \in Jobs : waiter'[j] \in Waiting => waiter[j] \in Waiting,
           \A i \in Ids : EntryKept(i),
           \A s \in Servers : pc'[s] = "order" => pc[s] = "order" /\ arg'[s] = arg[s],
           \A s \in Servers, i \in Ids : Starts(s, i)' => Starts(s, i) \/ table[i] = NoJob
    PROVE  KnownInv'
<1> USE DEF KnownInv
<1>0. /\ table \in [Ids -> Jobs \cup {NoJob}] /\ table' \in [Ids -> Jobs \cup {NoJob}]
      /\ \A j \in Jobs : waiter[j] \in Waiting => state[j] = "running"
      /\ \A s \in Servers : pc[s] = "order" =>
            /\ arg[s] \in Jobs /\ idOf[arg[s]] \in Ids
            /\ proc[arg[s]] # "none" => state[arg[s]] = "running"
      /\ "running" \notin Terminal
  BY DEF JobInv, JobTypes, WaiterInv, HandlerInv, Publishing, Terminal
<1>1. EntriesInv'
  BY <1>0 DEF EntriesInv, EntryKept
<1>2. RivalInv'
  BY <1>0 DEF RivalInv, Runs, EntryKept
<1>3. OrderInv'
  BY <1>0 DEF OrderInv, EntryKept
<1>4. RunningKnown'
  BY <1>0 DEF RunningKnown, EntriesInv, Waiting, EntryKept
<1> QED BY <1>1, <1>2, <1>3, <1>4

\* The check of an id, the pruning and the other steps up to the launch.
LEMMA StartKnown ==
    ASSUME KnownInv, JobInv', NEW s \in Servers,
           \/ \E i \in Ids : StartCheck(s, i)
           \/ StartPrune(s) \/ StartRetained(s) \/ StartNoCwd(s)
           \/ CancelSignal(s) \/ \E i \in Ids : CancelFind(s, i)
    PROVE  KnownInv'
<1> USE DEF Goto, jobVars, procVars
<1>0. /\ UNCHANGED <<state, idOf, contested, proc, waiter>>
      /\ table \in [Ids -> Jobs \cup {NoJob}]
      /\ pc \in [Servers -> {"idle", "prune", "retained", "launch", "insert", "order", "cancel"}]
      /\ arg \in [Servers -> Ids \cup Jobs \cup {NoId}]
  <2>1. table \in [Ids -> Jobs \cup {NoJob}]
        /\ pc \in [Servers -> {"idle", "prune", "retained", "launch", "insert", "order", "cancel"}]
        /\ arg \in [Servers -> Ids \cup Jobs \cup {NoId}]
    BY DEF KnownInv, JobInv, JobTypes
  <2>2. UNCHANGED <<state, idOf, contested, proc, waiter>>
    BY DEF StartCheck, StartPrune, StartRetained, StartNoCwd, CancelSignal, CancelFind
  <2> QED BY <2>1, <2>2
<1>1. CASE StartPrune(s)
  <2>1. \/ table' = table
        \/ \E k \in Prunable : table' = [table EXCEPT ![order[k]] = NoJob]
    BY <1>1 DEF StartPrune
  <2>2. ASSUME NEW k \in Prunable, table' = [table EXCEPT ![order[k]] = NoJob], NEW i \in Ids
        PROVE  EntryKept(i)
    <3>1. table[order[k]] # NoJob /\ state[table[order[k]]] \in Terminal
      BY DEF Prunable
    <3>2. CASE i = order[k]
      <4>1. table'[i] = NoJob /\ table[i] # NoJob /\ table[i] \in Jobs
        BY <1>0, <2>2, <3>1, <3>2
      <4> QED BY <3>1, <3>2, <4>1 DEF EntryKept
    <3>3. CASE i # order[k]
      <4>1. table'[i] = table[i]
        BY <1>0, <2>2, <3>3
      <4> QED BY <4>1 DEF EntryKept
    <3> QED BY <3>2, <3>3
  <2>3. \A i \in Ids : EntryKept(i)
    BY <2>1, <2>2 DEF EntryKept
  <2>4. \/ UNCHANGED <<pc, arg>>
        \/ /\ pc[s] = "prune" /\ pc' = [pc EXCEPT ![s] = "retained"]
           /\ arg' = [arg EXCEPT ![s] = arg[s]]
    BY <1>1 DEF StartPrune
  <2>5. \A t \in Servers : pc'[t] = "order" => pc[t] = "order" /\ arg'[t] = arg[t]
    BY <1>0, <2>4
  <2>6. \A t \in Servers, i \in Ids : Starts(t, i)' => Starts(t, i)
    BY <1>0, <2>4 DEF Starts
  <2> QED BY <1>0, <2>3, <2>5, <2>6, KnownKept
<1>2. CASE (\E i \in Ids : StartCheck(s, i)) \/ StartRetained(s) \/ StartNoCwd(s)
           \/ CancelSignal(s) \/ \E i \in Ids : CancelFind(s, i)
  <2>1. \A i \in Ids : EntryKept(i)
    BY <1>2 DEF StartCheck, StartRetained, StartNoCwd, CancelSignal, CancelFind, EntryKept
  <2>2. \A t \in Servers : pc'[t] = "order" => pc[t] = "order" /\ arg'[t] = arg[t]
    BY <1>0, <1>2 DEF StartCheck, StartRetained, StartNoCwd, CancelSignal, CancelFind
  <2>3. \A t \in Servers, i \in Ids : Starts(t, i)' => Starts(t, i) \/ table[i] = NoJob
    BY <1>0, <1>2 DEF StartCheck, StartRetained, StartNoCwd, CancelSignal, CancelFind, Starts, Present
  <2> QED BY <1>0, <2>1, <2>2, <2>3, KnownKept
<1> QED BY <1>1, <1>2

\* The process, the waiter up to its choice, and the grace thread.
LEMMA WaiterKnown ==
    ASSUME KnownInv, JobInv', NEW j \in Jobs,
           \/ \E how \in Exits : ProcessEnds(j, how)
           \/ Timeout(j) \/ Reap(j) \/ TimeoutKills(j) \/ Decide(j) \/ GraceKills(j)
    PROVE  KnownInv'
<1> USE DEF KnownInv, JobInv, JobTypes, jobVars
<1>1. UNCHANGED <<state, idOf, contested, table, pc, arg>>
  BY DEF ProcessEnds, Timeout, Reap, TimeoutKills, Decide, GraceKills
<1>2. \A k \in Jobs : waiter'[k] \in Waiting => waiter[k] \in Waiting
  BY DEF ProcessEnds, Timeout, Reap, TimeoutKills, Decide, GraceKills, Waiting
<1>3. \A k \in Jobs : proc'[k] = "none" <=> proc[k] = "none"
  BY DEF ProcessEnds, Timeout, Reap, TimeoutKills, Decide, GraceKills, Waiting, EntriesInv
<1>4. \A s \in Servers, i \in Ids : Starts(s, i)' => Starts(s, i)
  BY <1>1 DEF Starts
<1>5. \A i \in Ids : EntryKept(i)
  BY <1>1 DEF EntryKept
<1> HIDE DEF KnownInv, JobInv, JobTypes
<1> QED BY <1>1, <1>2, <1>3, <1>4, <1>5, KnownKept

\* The job of the finishing waiter no longer counts.
LEMMA FinishKnown ==
    ASSUME KnownInv, JobInv', NEW j \in Jobs, Finish(j)
    PROVE  KnownInv'
<1> USE DEF KnownInv
<1>0. /\ table \in [Ids -> Jobs \cup {NoJob}]
      /\ waiter \in [Jobs -> {"none", "poll", "grace", "decide", "finish", "done"}]
      /\ state \in [Jobs -> States]
      /\ \A s \in Servers : pc[s] = "order" => arg[s] \in Jobs /\ arg[s] # j
  BY DEF JobInv, JobTypes, HandlerInv, Publishing, Finish
<1>1. /\ UNCHANGED <<table, idOf, proc, pc, arg>>
      /\ contested' = contested \ {j}
      /\ waiter'[j] = "done" /\ \A k \in Jobs \ {j} : waiter'[k] = waiter[k]
      /\ state'[j] \in Terminal /\ \A k \in Jobs \ {j} : state'[k] = state[k]
  BY <1>0 DEF Finish, JobInv, WaiterInv
<1>2. EntriesInv'
  BY <1>0, <1>1 DEF EntriesInv, Waiting, Terminal
<1>3. RivalInv'
  BY <1>0, <1>1 DEF RivalInv, Runs, Starts
<1>4. OrderInv'
  BY <1>0, <1>1 DEF OrderInv
<1>5. RunningKnown'
  BY <1>1 DEF RunningKnown
<1> QED BY <1>2, <1>3, <1>4, <1>5

\* A launch takes a Job that the table does not have, for the id its handler
\* has been starting.
LEMMA LaunchKnown ==
    ASSUME KnownInv, JobInv', NEW s \in Servers, NEW j \in Jobs, Launch(s, j) \/ LaunchFails(s, j)
    PROVE  KnownInv'
<1> USE DEF KnownInv
<1>0. /\ table \in [Ids -> Jobs \cup {NoJob}]
      /\ waiter[j] = "none" /\ state[j] = "unused"
      /\ \A t \in Servers : pc[t] \in Publishing => arg[t] \in Jobs /\ arg[t] # j
      /\ \A i \in Ids : table[i] # j
      /\ arg[s] \in Ids /\ pc[s] = "launch"
  BY DEF JobInv, JobTypes, WaiterInv, HandlerInv, Launch, LaunchFails, EntriesInv
<1>1. /\ UNCHANGED <<table, contested, waiter>>
      /\ idOf'[j] = arg[s] /\ state'[j] # "unused"
      /\ \A k \in Jobs \ {j} : idOf'[k] = idOf[k] /\ state'[k] = state[k] /\ proc'[k] = proc[k]
      /\ pc'[s] = "insert" /\ arg'[s] = j
      /\ \A t \in Servers \ {s} : pc'[t] = pc[t] /\ arg'[t] = arg[t]
  BY DEF Launch, LaunchFails, Goto, procVars, JobInv, JobTypes
<1>2. EntriesInv'
  BY <1>0, <1>1 DEF EntriesInv, Waiting
<1>3. \A t \in Servers, i \in Ids : Starts(t, i)' => Starts(t, i)
  BY <1>0, <1>1 DEF Starts, Publishing
<1>4. \A i \in Ids : table[i] # NoJob => (Runs(table[i])' <=> Runs(table[i]))
  BY <1>0, <1>1 DEF Runs
<1>5. RivalInv'
  BY <1>1, <1>3, <1>4 DEF RivalInv, Runs
<1>6. OrderInv'
  BY <1>0, <1>1 DEF OrderInv, Publishing
<1>7. RunningKnown'
  BY <1>0, <1>1 DEF RunningKnown
<1> QED BY <1>2, <1>5, <1>6, <1>7

\* An insert replaces only a job that has ended, or one that was inserted
\* while this handler had already passed its check.
LEMMA InsertKnown ==
    ASSUME KnownInv, JobInv', NEW s \in Servers, Insert(s)
    PROVE  KnownInv'
<1> USE DEF KnownInv
<1> DEFINE n == arg[s]
           id == idOf[n]
<1>0. /\ table \in [Ids -> Jobs \cup {NoJob}]
      /\ n \in Jobs /\ id \in Ids /\ state[n] # "unused" /\ waiter[n] = "none"
      /\ pc[s] = "insert" /\ Starts(s, id)
      /\ \A j \in Jobs : waiter[j] \in Waiting => state[j] = "running"
      /\ \A t \in Servers : pc[t] = "order" =>
            /\ arg[t] \in Jobs /\ idOf[arg[t]] \in Ids /\ arg[t] # n
            /\ proc[arg[t]] # "none" => state[arg[t]] = "running"
      /\ "running" \notin Terminal
  BY DEF Insert, JobInv, JobTypes, WaiterInv, HandlerInv, Publishing, Starts, Terminal
<1>1. /\ UNCHANGED <<idOf, state, proc, waiter>>
      /\ table'[id] = n /\ \A i \in Ids \ {id} : table'[i] = table[i]
      /\ pc'[s] = "order" /\ arg'[s] = n
      /\ \A t \in Servers \ {s} : pc'[t] = pc[t] /\ arg'[t] = arg[t]
      /\ contested \subseteq contested'
      /\ (\E t \in Servers \ {s} : Starts(t, id)) /\ proc[n] # "none" => n \in contested'
  BY <1>0 DEF Insert, Goto, procVars, JobInv, JobTypes
<1>2. table[id] # NoJob /\ Runs(table[id]) => table[id] \in contested
  BY <1>0 DEF RivalInv
<1> HIDE DEF n, id
<1>3. EntriesInv'
  BY <1>0, <1>1 DEF EntriesInv
<1>4. RivalInv'
  <2> SUFFICES ASSUME NEW t \in Servers, NEW i \in Ids, Starts(t, i)', table'[i] # NoJob, Runs(table[i])'
               PROVE  table'[i] \in contested'
    BY DEF RivalInv
  <2>1. t # s /\ Starts(t, i)
    BY <1>1 DEF Starts
  <2>2. CASE i = id
    <3>1. proc[n] # "none"
      BY <1>1, <2>2 DEF Runs
    <3> QED BY <1>1, <2>1, <2>2, <3>1
  <2>3. CASE i # id
    BY <1>1, <2>1, <2>3 DEF RivalInv, Runs
  <2> QED BY <2>2, <2>3
<1>5. OrderInv'
  <2> SUFFICES ASSUME NEW t \in Servers, pc'[t] = "order", proc'[arg'[t]] # "none"
               PROVE  table'[idOf'[arg'[t]]] = arg'[t] \/ arg'[t] \in contested'
    BY DEF OrderInv
  <2>1. CASE t = s
    BY <1>1, <2>1 DEF id
  <2>2. CASE t # s
    BY <1>0, <1>1, <1>2, <2>2 DEF OrderInv, Runs
  <2> QED BY <2>1, <2>2
<1>6. RunningKnown'
  <2> SUFFICES ASSUME NEW j \in Jobs, waiter[j] \in Waiting
               PROVE  table'[idOf[j]] = j \/ j \in contested'
    BY <1>1 DEF RunningKnown, Waiting
  <2>1. proc[j] # "none" /\ idOf[j] \in Ids /\ state[j] = "running"
    BY <1>0 DEF EntriesInv
  <2>2. table[idOf[j]] = j \/ j \in contested
    BY DEF RunningKnown, Waiting
  <2> QED BY <1>0, <1>1, <1>2, <2>1, <2>2 DEF Runs
<1> QED BY <1>3, <1>4, <1>5, <1>6

\* The waiter starts for the job that was inserted.
LEMMA PushKnown ==
    ASSUME KnownInv, JobInv', NEW s \in Servers, PushOrder(s)
    PROVE  KnownInv'
<1> USE DEF KnownInv
<1> DEFINE n == arg[s]
<1>0. /\ n \in Jobs /\ idOf[n] \in Ids /\ pc[s] = "order"
      /\ pc'[s] = "idle" /\ \A t \in Servers \ {s} : pc'[t] = pc[t] /\ arg'[t] = arg[t]
      /\ UNCHANGED <<table, idOf, state, proc, contested>>
      /\ \A j \in Jobs : waiter'[j] \in Waiting => waiter[j] \in Waiting \/ (j = n /\ proc[n] # "none")
  BY DEF PushOrder, Goto, jobVars, JobInv, JobTypes, HandlerInv, Publishing
<1>1. EntriesInv'
  BY <1>0 DEF EntriesInv
<1>2. RivalInv'
  BY <1>0 DEF RivalInv, Runs, Starts
<1>3. OrderInv'
  BY <1>0 DEF OrderInv
<1>4. RunningKnown'
  BY <1>0 DEF RunningKnown, OrderInv, Waiting
<1> QED BY <1>1, <1>2, <1>3, <1>4

\* KnownInv is inductive.
LEMMA KnownStep == KnownInv /\ [Next]_vars => KnownInv'
<1> SUFFICES ASSUME KnownInv, [Next]_vars PROVE KnownInv'
  OBVIOUS
<1>0. JobInv'
  BY JobStep DEF KnownInv
<1>1. CASE UNCHANGED vars
  <2>1. UNCHANGED <<table, idOf, state, proc, waiter, contested, pc, arg>>
    BY <1>1 DEF vars, jobVars, procVars
  <2> QED BY <1>0, <2>1 DEF KnownInv, EntriesInv, RivalInv, OrderInv, RunningKnown, Runs, Starts
<1>2. ASSUME NEW s \in Servers, Start(s) \/ CancelSignal(s) \/ \E i \in Ids : CancelFind(s, i)
      PROVE  KnownInv'
  BY <1>0, <1>2, StartKnown, LaunchKnown, InsertKnown, PushKnown DEF Start
<1>3. ASSUME NEW j \in Jobs,
             (\E how \in Exits : ProcessEnds(j, how)) \/ Timeout(j) \/ Wait(j) \/ GraceKills(j)
      PROVE  KnownInv'
  BY <1>0, <1>3, WaiterKnown, FinishKnown DEF Wait
<1> QED BY <1>1, <1>2, <1>3 DEF Next

\* A job that runs is the one the table has for its id, whatever is checked,
\* pruned and inserted between; only a second start of the same id that had
\* passed its check before the job was inserted can hide it.
THEOREM RunningAlwaysKnown == Spec => []RunningKnown
<1>1. KnownInv => RunningKnown
  BY DEF KnownInv
<1> QED BY KnownInit, KnownStep, <1>1, PTL DEF Spec

-------------------------------------------------------------------------------
(* The limits *)

\* The handlers that have passed the check of the table's size, or the check
\* of the active jobs, and have not inserted their job.
Admitted == {s \in Servers : pc[s] \in {"launch", "insert"}}
Accepted == {s \in Servers : pc[s] \in {"prune", "retained", "launch", "insert"}}

\* Each handler on its way counts as a job.
LimitInv ==
    /\ Cardinality(Present) + Cardinality(Admitted) <= MaxRetained + Cardinality(Servers) - 1
    /\ Cardinality(Active) + Cardinality(Accepted) <= MaxActive + Cardinality(Servers) - 1

\* The cardinalities are numbers, bounded by those of the sets around them.
LEMMA Counts ==
    ASSUME NEW S, NEW T, IsFiniteSet(T), S \subseteq T
    PROVE  IsFiniteSet(S) /\ Cardinality(S) \in Nat /\ Cardinality(T) \in Nat
           /\ Cardinality(S) <= Cardinality(T)
BY FS_Subset, FS_CardinalityType

\* The four sets are finite, now and after a step.
LEMMA SetsFinite ==
    /\ IsFiniteSet(Present) /\ IsFiniteSet(Active) /\ IsFiniteSet(Admitted) /\ IsFiniteSet(Accepted)
    /\ IsFiniteSet(Present') /\ IsFiniteSet(Active') /\ IsFiniteSet(Admitted') /\ IsFiniteSet(Accepted')
<1>1. Present \subseteq Ids /\ Active \subseteq Ids /\ Present' \subseteq Ids /\ Active' \subseteq Ids
  BY DEF Present, Active
<1>2. Admitted \subseteq Servers /\ Accepted \subseteq Servers
      /\ Admitted' \subseteq Servers /\ Accepted' \subseteq Servers
  BY DEF Admitted, Accepted
<1> QED BY <1>1, <1>2, FS_Subset

\* A handler that passes a check of A against a limit N joins B.
LEMMA JoinCount ==
    ASSUME NEW A, NEW N \in Nat, NEW B, B \subseteq Servers, Cardinality(A) < N, IsFiniteSet(A)
    PROVE  Cardinality(A) + Cardinality(B) <= N + Cardinality(Servers) - 1
BY Counts, FS_CardinalityType

\* A handler that inserts its job leaves B, and A grows by one at most.
LEMMA InsertCount ==
    ASSUME NEW A, NEW A1, NEW i, NEW B, NEW B1, NEW s, IsFiniteSet(A), IsFiniteSet(B),
           A1 \subseteq A \cup {i}, s \in B, B1 \subseteq B \ {s}
    PROVE  Cardinality(A1) + Cardinality(B1) <= Cardinality(A) + Cardinality(B)
<1>1. IsFiniteSet(A \cup {i}) /\ Cardinality(A \cup {i}) <= Cardinality(A) + 1
  <2>1. /\ IsFiniteSet(A \cup {i})
        /\ Cardinality(A \cup {i}) = IF i \in A THEN Cardinality(A) ELSE Cardinality(A) + 1
    BY FS_AddElement
  <2>2. Cardinality(A) \in Nat
    BY FS_CardinalityType
  <2> QED BY <2>1, <2>2
<1>2. IsFiniteSet(B \ {s}) /\ Cardinality(B \ {s}) = Cardinality(B) - 1
  BY FS_RemoveElement
<1>3. Cardinality(A1) <= Cardinality(A \cup {i}) /\ Cardinality(A1) \in Nat
      /\ Cardinality(A \cup {i}) \in Nat
  BY <1>1, Counts
<1>4. Cardinality(B1) <= Cardinality(B \ {s}) /\ Cardinality(B1) \in Nat
  BY <1>2, Counts
<1>5. Cardinality(A) \in Nat /\ Cardinality(B) \in Nat
  BY FS_CardinalityType
<1> QED BY <1>1, <1>2, <1>3, <1>4, <1>5

\* No other step adds to either side.
LEMMA ShrinkCount ==
    ASSUME NEW A, NEW A1, NEW B, NEW B1, IsFiniteSet(A), IsFiniteSet(B),
           A1 \subseteq A, B1 \subseteq B
    PROVE  Cardinality(A1) + Cardinality(B1) <= Cardinality(A) + Cardinality(B)
BY Counts

\* The four things a step can do to the sets that are counted.
Fewer  == Present' \subseteq Present /\ Active' \subseteq Active
          /\ Admitted' \subseteq Admitted /\ Accepted' \subseteq Accepted
Accept == Present' = Present /\ Active' = Active /\ Admitted' \subseteq Admitted
          /\ Cardinality(Active) < MaxActive
Admit  == Present' = Present /\ Active' = Active /\ Accepted' \subseteq Accepted
          /\ Cardinality(Present) < MaxRetained
Publish(i, s) ==
    /\ Present' \subseteq Present \cup {i} /\ Active' \subseteq Active \cup {i}
    /\ s \in Admitted /\ s \in Accepted
    /\ Admitted' \subseteq Admitted \ {s} /\ Accepted' \subseteq Accepted \ {s}

\* Checks accept or admit a handler, Insert publishes, pruning and the end
\* of a job make the sets smaller, and no other step grows them.
LEMMA StepShape ==
    ASSUME JobInv, Next
    PROVE  Fewer \/ Accept \/ Admit \/ \E i \in Ids, s \in Servers : Publish(i, s)
<1> USE DEF JobInv, JobTypes, Goto
<1>1. ASSUME NEW s \in Servers, NEW i \in Ids, StartCheck(s, i) PROVE Accept
  BY <1>1 DEF StartCheck, Accept, Present, Active, Admitted, jobVars
<1>2. ASSUME NEW s \in Servers, StartPrune(s) PROVE Fewer
  <2>1. UNCHANGED state /\ \A i \in Ids : table'[i] # NoJob => table'[i] = table[i]
    BY <1>2 DEF StartPrune, jobVars
  <2>2. Present' \subseteq Present /\ Active' \subseteq Active
    BY <2>1 DEF Present, Active
  <2>3. \/ UNCHANGED pc
        \/ pc[s] = "prune" /\ pc' = [pc EXCEPT ![s] = "retained"]
    BY <1>2 DEF StartPrune
  <2>4. Admitted' \subseteq Admitted /\ Accepted' \subseteq Accepted
    BY <2>3 DEF Admitted, Accepted
  <2> QED BY <2>2, <2>4 DEF Fewer
<1>3. ASSUME NEW s \in Servers, StartRetained(s) PROVE Fewer \/ Admit
  BY <1>3 DEF StartRetained, Fewer, Admit, Present, Active, Admitted, Accepted, jobVars
<1>4. ASSUME NEW s \in Servers, StartNoCwd(s) PROVE Fewer
  BY <1>4 DEF StartNoCwd, Fewer, Present, Active, Admitted, Accepted, jobVars
<1>5. ASSUME NEW s \in Servers, NEW j \in Jobs, Launch(s, j) \/ LaunchFails(s, j) PROVE Fewer
  BY <1>5 DEF Launch, LaunchFails, Fewer, Present, Active, Admitted, Accepted, Terminal
<1>6. ASSUME NEW s \in Servers, Insert(s) PROVE \E i \in Ids : Publish(i, s)
  <2>1. idOf[arg[s]] \in Ids /\ pc[s] = "insert"
    BY <1>6 DEF HandlerInv, Publishing, Insert
  <2>2. Publish(idOf[arg[s]], s)
    BY <1>6, <2>1 DEF Insert, Publish, Present, Active, Admitted, Accepted, jobVars
  <2> QED BY <2>1, <2>2
<1>7. ASSUME NEW s \in Servers, PushOrder(s) \/ CancelSignal(s) \/ \E i \in Ids : CancelFind(s, i)
      PROVE  Fewer
  BY <1>7 DEF PushOrder, CancelSignal, CancelFind, Fewer, Present, Active, Admitted, Accepted, jobVars
<1>8. ASSUME NEW j \in Jobs,
             (\E how \in Exits : ProcessEnds(j, how)) \/ Timeout(j) \/ Reap(j) \/ TimeoutKills(j)
             \/ Decide(j) \/ GraceKills(j)
      PROVE  Fewer
  BY <1>8 DEF ProcessEnds, Timeout, Reap, TimeoutKills, Decide, GraceKills, Fewer,
     Present, Active, Admitted, Accepted, jobVars
<1>9. ASSUME NEW j \in Jobs, Finish(j) PROVE Fewer
  BY <1>9 DEF Finish, WaiterInv, Fewer, Present, Active, Admitted, Accepted
<1> QED BY <1>1, <1>2, <1>3, <1>4, <1>5, <1>6, <1>7, <1>8, <1>9 DEF Next, Start, Wait

\* No server thread has begun, and there is at least one.
LEMMA LimitInit == Init => LimitInv
<1> SUFFICES ASSUME Init PROVE LimitInv
  OBVIOUS
<1>1. Present = {} /\ Active = {} /\ Admitted = {} /\ Accepted = {}
  BY DEF Init, Present, Active, Admitted, Accepted
<1>2. Cardinality(Servers) \in Nat /\ Cardinality(Servers) # 0
  BY FS_CardinalityType, FS_EmptySet
<1> QED BY <1>1, <1>2, FS_EmptySet DEF LimitInv

\* LimitInv is inductive together with JobInv.
LEMMA LimitStep == JobInv /\ LimitInv /\ [Next]_vars => LimitInv'
<1> SUFFICES ASSUME JobInv, LimitInv, [Next]_vars PROVE LimitInv'
  OBVIOUS
<1> DEFINE P == Present  A == Active  D == Admitted  C == Accepted
           P1 == Present' A1 == Active' D1 == Admitted' C1 == Accepted'
           N == Cardinality(Servers)
<1>1. N \in Nat
  BY FS_CardinalityType
<1>2. /\ Cardinality(P) \in Nat /\ Cardinality(A) \in Nat /\ Cardinality(D) \in Nat
      /\ Cardinality(C) \in Nat /\ Cardinality(P1) \in Nat /\ Cardinality(A1) \in Nat
      /\ Cardinality(D1) \in Nat /\ Cardinality(C1) \in Nat
  BY SetsFinite, FS_CardinalityType
<1>3. D1 \subseteq Servers /\ C1 \subseteq Servers
  BY DEF Admitted, Accepted
<1>4. /\ Cardinality(P) + Cardinality(D) <= MaxRetained + N - 1
      /\ Cardinality(A) + Cardinality(C) <= MaxActive + N - 1
  BY DEF LimitInv
<1> SUFFICES /\ Cardinality(P1) + Cardinality(D1) <= MaxRetained + N - 1
             /\ Cardinality(A1) + Cardinality(C1) <= MaxActive + N - 1
  BY DEF LimitInv
<1>5. CASE UNCHANGED vars
  <2>1. P1 = P /\ A1 = A /\ D1 = D /\ C1 = C
    BY <1>5 DEF vars, jobVars, Present, Active, Admitted, Accepted
  <2> QED BY <2>1, <1>4
<1>6. CASE Fewer
  <2>1. Cardinality(P1) + Cardinality(D1) <= Cardinality(P) + Cardinality(D)
    BY <1>6, ShrinkCount, SetsFinite DEF Fewer
  <2>2. Cardinality(A1) + Cardinality(C1) <= Cardinality(A) + Cardinality(C)
    BY <1>6, ShrinkCount, SetsFinite DEF Fewer
  <2> HIDE DEF P, A, D, C, P1, A1, D1, C1, N
  <2> QED BY <1>1, <1>2, <1>4, <2>1, <2>2
<1>7. CASE Accept
  <2>1. Cardinality(P1) + Cardinality(D1) <= Cardinality(P) + Cardinality(D)
    BY <1>7, ShrinkCount, SetsFinite DEF Accept
  <2>2. Cardinality(A1) + Cardinality(C1) <= MaxActive + N - 1
    BY <1>3, <1>7, JoinCount, SetsFinite DEF Accept
  <2> HIDE DEF P, A, D, C, P1, A1, D1, C1, N
  <2> QED BY <1>1, <1>2, <1>4, <2>1, <2>2
<1>8. CASE Admit
  <2>1. Cardinality(P1) + Cardinality(D1) <= MaxRetained + N - 1
    BY <1>3, <1>8, JoinCount, SetsFinite DEF Admit
  <2>2. Cardinality(A1) + Cardinality(C1) <= Cardinality(A) + Cardinality(C)
    BY <1>8, ShrinkCount, SetsFinite DEF Admit
  <2> HIDE DEF P, A, D, C, P1, A1, D1, C1, N
  <2> QED BY <1>1, <1>2, <1>4, <2>1, <2>2
<1>9. ASSUME NEW i \in Ids, NEW s \in Servers, Publish(i, s)
      PROVE  /\ Cardinality(P1) + Cardinality(D1) <= MaxRetained + N - 1
             /\ Cardinality(A1) + Cardinality(C1) <= MaxActive + N - 1
  <2>1. Cardinality(P1) + Cardinality(D1) <= Cardinality(P) + Cardinality(D)
    BY <1>9, InsertCount, SetsFinite DEF Publish
  <2>2. Cardinality(A1) + Cardinality(C1) <= Cardinality(A) + Cardinality(C)
    BY <1>9, InsertCount, SetsFinite DEF Publish
  <2> HIDE DEF P, A, D, C, P1, A1, D1, C1, N
  <2> QED BY <1>1, <1>2, <1>4, <2>1, <2>2
<1> QED BY <1>5, <1>6, <1>7, <1>8, <1>9, StepShape

\* The engine's limits hold up to one job for each server thread but one:
\* with the sockets alone they hold as jobs.rs states them.
THEOREM LimitsAlwaysBounded == Spec => [](ActiveBound /\ RetainedBound)
<1>1. JobInv /\ LimitInv => ActiveBound /\ RetainedBound
  <2> SUFFICES ASSUME LimitInv PROVE ActiveBound /\ RetainedBound
    OBVIOUS
  <2>1. /\ Cardinality(Present) \in Nat /\ Cardinality(Active) \in Nat /\ Cardinality(Admitted) \in Nat
        /\ Cardinality(Accepted) \in Nat /\ Cardinality(Servers) \in Nat
    BY SetsFinite, FS_CardinalityType
  <2> QED BY <2>1 DEF LimitInv, ActiveBound, RetainedBound
<1> QED BY JobInit, JobStep, LimitInit, LimitStep, <1>1, PTL DEF Spec

===============================================================================
