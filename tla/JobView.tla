------------------------------- MODULE JobView -------------------------------
(***************************************************************************)
(* A job's output from the guest's log to the page: the handler of         *)
(* GET .../jobs/:jobId/events (control/server.ts), which polls the guest   *)
(* through jobs/client.ts, and the page's job panel (web/main.ts), which   *)
(* reads that stream, polls when it breaks, cancels, and starts further    *)
(* jobs while answers about the last one are still on their way.  Of the   *)
(* guest's jobs only the one started last is followed; an older one may    *)
(* be in any state when it is asked about.                                 *)
(***************************************************************************)
EXTENDS JobLogs

CONSTANTS
    StreamChunk,    \* what the handler asks for, 64 KiB
    PollChunk,      \* what the page asks for and a start answers with, 256 KiB
    MaxFeed,        \* bound: events on their way to the page
    MaxJobs,        \* bound: jobs the page starts
    MaxBreaks       \* bound: streams that break and requests that fail

ASSUME ViewAssumption ==
    /\ {StreamChunk, PollChunk, MaxFeed, MaxJobs} \subseteq Nat \ {0}
    /\ MaxBreaks \in Nat

VARIABLES
    job,            \* the jobs started so far, and the last of them
    handler,        \* the events handler: polling, ended, broken or gone; its offset
    feed,           \* its events on their way
    events,         \* whether the page has an EventSource (jobEvents)
    poll,           \* the page's poll of each job
    timers, timer,  \* the poll timers set, and jobPollTimer
    cancel,         \* the page's cancel request
    active,         \* activeJob: the job and its state
    jobLogOffset, text, skipped,    \* what the page has shown
    breaks,         \* how often a stream or a request broke
    crossed,        \* whether an answer about an older job was applied
    failed          \* whether a poll failed

viewVars == <<events, timers, timer, active, jobLogOffset, text, skipped, crossed>>
ghosts == <<breaks, failed>>
vars == <<guestVars, job, handler, feed, poll, cancel, viewVars, ghosts>>

Jobs == 1..MaxJobs
NoStatus == [job |-> 0, st |-> "running", offset |-> 0, data |-> <<>>, next |-> 0,
             truncated |-> FALSE]
Status == [job : 0..MaxJobs, st : {"running", "terminal"}, offset : 0..MaxBytes,
           data : Seq(1..MaxBytes), next : 0..MaxBytes, truncated : BOOLEAN]
Calls == [st : {"none", "sent", "ok", "error"}, status : Status]
NoCall == [st |-> "none", status |-> NoStatus]

TypeOK ==
    /\ job \in Jobs
    /\ handler \in [st : {"polling", "ended", "broken", "gone"}, offset : 0..MaxBytes]
    /\ feed \in Seq(Status) /\ Len(feed) <= MaxFeed
    /\ poll \in [Jobs -> Calls] /\ cancel \in Calls
    /\ timers \subseteq Jobs /\ timer \in 0..MaxJobs
    /\ active \in [job : Jobs, st : {"running", "terminal"}]
    /\ jobLogOffset \in 0..MaxBytes /\ skipped \subseteq 1..MaxBytes
    /\ text \in Seq(1..MaxBytes)
    /\ {events, crossed, failed} \subseteq BOOLEAN /\ breaks \in 0..MaxBreaks

\* A job was just started, the answer brought no bytes yet, and its stream is
\* asked for.
Init ==
    /\ GuestInit
    /\ job = 1
    /\ handler = [st |-> "polling", offset |-> 0] /\ feed = <<>> /\ events = TRUE
    /\ poll = [j \in Jobs |-> NoCall] /\ cancel = NoCall
    /\ timers = {} /\ timer = 0
    /\ active = [job |-> 1, st |-> "running"]
    /\ jobLogOffset = 0 /\ text = <<>> /\ skipped = {}
    /\ breaks = 0 /\ crossed = FALSE /\ failed = FALSE

-------------------------------------------------------------------------------
(* The guest's answers *)

Break == breaks < MaxBreaks /\ breaks' = breaks + 1

\* The guest's status of the job started last, from an offset.
StatusFrom(offset, chunk) ==
    LET s == Slice(offset, chunk) IN
    [job |-> job, st |-> state, offset |-> s.offset, data |-> s.data, next |-> s.next,
     truncated |-> s.truncated]

\* The status of a job whose ring has taken n bytes, from a cursor.
StatusOf(j, st, n, c) ==
    LET kept == Greatest(n - RingSize, 0)
        a == Greatest(c, kept)
        b == Least(a + PollChunk, n) IN
    [job |-> j, st |-> st, offset |-> a, data |-> Bytes(a, b), next |-> b, truncated |-> c < kept]

\* Of an older job: whatever it has written, and whatever was asked for.
OldStatus == [j \in Jobs |->
    UNION {{StatusOf(j, st, n, c) : st \in {"running", "terminal"}, c \in 0..n} : n \in 0..MaxBytes}]

\* cancel's answer is read at the end of the log: it brings no bytes.
CancelStatus(j) ==
    {[NoStatus EXCEPT !.job = j, !.st = st] :
        st \in IF j = job THEN {state} ELSE {"running", "terminal"}}

-------------------------------------------------------------------------------
(* The events handler *)

HandlerPolls ==
    LET s == StatusFrom(handler.offset, StreamChunk) IN
    /\ handler.st = "polling" /\ Len(feed) < MaxFeed
    /\ feed' = Append(feed, s)
    /\ handler' = [st |-> IF s.st = "terminal" THEN "ended" ELSE "polling", offset |-> s.next]
    /\ UNCHANGED <<guestVars, job, poll, cancel, viewVars, ghosts>>

\* A status request fails, or the connection does, with what it carried.
StreamBreaks ==
    /\ handler.st \in {"polling", "ended"} /\ Break
    /\ handler' = [handler EXCEPT !.st = "broken"]
    /\ \E n \in 0..Len(feed) : feed' = SubSeq(feed, 1, n)
    /\ UNCHANGED <<guestVars, job, poll, cancel, viewVars, failed>>

-------------------------------------------------------------------------------
(* The page *)

\* jobEvents.close(): the handler sees its request closed.
CloseEvents == events' = FALSE /\ feed' = <<>> /\ handler' = [st |-> "gone", offset |-> 0]

\* window.clearTimeout(jobPollTimer), which knows the timer set last.
ClearTimer == timers' = timers \ {timer} /\ timer' = 0

\* applyJobStatus, on the text shown.
ShowLog(s) ==
    /\ skipped' = skipped \cup (IF s.truncated /\ s.offset > jobLogOffset
                                THEN (jobLogOffset + 1)..s.offset ELSE {})
    /\ IF s.next > jobLogOffset /\ s.data # <<>>
       THEN text' = text \o s.data /\ jobLogOffset' = s.next
       ELSE UNCHANGED <<text, jobLogOffset>>

\* applyJobStatus: closeJobStream with a terminal state.  `again` is the timer
\* that the caller sets for a job that runs on.
ApplyJobStatus(s, again) ==
    /\ active' = [job |-> s.job, st |-> s.st]
    /\ ShowLog(s)
    /\ crossed' = (crossed \/ s.job # job)
    /\ IF s.st = "terminal"
       THEN CloseEvents /\ ClearTimer
       ELSE /\ timers' = timers \cup again
            /\ timer' \in (IF again = {} THEN {timer} ELSE again)
            /\ UNCHANGED <<events, handler>>

EventArrives ==
    /\ events /\ feed # <<>>
    /\ ApplyJobStatus(Head(feed), {})
    /\ Head(feed).st # "terminal" => feed' = Tail(feed)
    /\ UNCHANGED <<guestVars, job, poll, cancel, ghosts>>

\* Mutant: the page waits for the stream to come back.
NeverFallsBack == FALSE

FallsBack == active.st # "terminal"

\* onerror, when the stream has ended or broken: fallbackJobPolling.
StreamError ==
    /\ events /\ feed = <<>> /\ handler.st \in {"ended", "broken"}
    /\ CloseEvents /\ ClearTimer
    /\ poll' = IF FallsBack THEN [poll EXCEPT ![job].st = "sent"] ELSE poll
    /\ UNCHANGED <<guestVars, job, cancel, ghosts, active, jobLogOffset, text, skipped, crossed>>

PollFires(j) ==
    /\ j \in timers
    /\ timers' = timers \ {j} /\ timer' = IF timer = j THEN 0 ELSE timer
    /\ poll' = [poll EXCEPT ![j].st = "sent"]
    /\ UNCHANGED <<guestVars, job, handler, feed, cancel, ghosts, events, active, jobLogOffset,
                   text, skipped, crossed>>

\* The cursor a poll sends.
PollCursor == jobLogOffset

\* The offset of a poll is taken when it is sent; it changes before the answer
\* only with a further job.  The guest refuses a cursor beyond the log's end.
\* What is said of an older job is told when it is applied.
PollAnswered(j) ==
    /\ poll[j].st = "sent"
    /\ \/ /\ \E s \in IF j # job THEN {[NoStatus EXCEPT !.job = j]}
                     ELSE {StatusFrom(c, PollChunk) : c \in {PollCursor} \cap 0..end} :
                poll' = [poll EXCEPT ![j] = [st |-> "ok", status |-> s]]
          /\ UNCHANGED breaks
       \/ /\ IF j = job /\ PollCursor > end THEN UNCHANGED breaks ELSE Break
          /\ poll' = [poll EXCEPT ![j].st = "error"]
    /\ UNCHANGED <<guestVars, job, handler, feed, cancel, viewVars, failed>>

\* What the answer to a poll may say.
Answers(j) == IF j # job THEN OldStatus[j] ELSE {poll[j].status}

\* A failed poll is the last one.
PollReturns(j) ==
    /\ \/ /\ poll[j].st = "ok"
          /\ \E s \in Answers(j) : ApplyJobStatus(s, {j}) /\ (s.st # "terminal" => UNCHANGED feed)
          /\ UNCHANGED failed
       \/ /\ poll[j].st = "error" /\ failed' = TRUE
          /\ UNCHANGED <<viewVars, handler, feed>>
    /\ poll' = [poll EXCEPT ![j] = NoCall]
    /\ UNCHANGED <<guestVars, job, cancel, breaks>>

\* cancelJob.
CancelSent ==
    /\ active.st # "terminal" /\ cancel = NoCall
    /\ cancel' = [st |-> "sent", status |-> [NoStatus EXCEPT !.job = active.job]]
    /\ UNCHANGED <<guestVars, job, handler, feed, poll, viewVars, ghosts>>

CancelAnswered ==
    /\ cancel.st = "sent"
    /\ \/ /\ \E s \in CancelStatus(cancel.status.job) : cancel' = [st |-> "ok", status |-> s]
          /\ UNCHANGED breaks
       \/ Break /\ cancel' = [cancel EXCEPT !.st = "error"]
    /\ UNCHANGED <<guestVars, job, handler, feed, poll, viewVars, failed>>

CancelReturns ==
    /\ \/ /\ cancel.st = "ok"
          /\ ApplyJobStatus(cancel.status, {})
          /\ cancel.status.st # "terminal" => UNCHANGED feed
       \/ cancel.st = "error" /\ UNCHANGED <<viewVars, handler, feed>>
    /\ cancel' = NoCall
    /\ UNCHANGED <<guestVars, job, poll, ghosts>>

\* startJob, when the guest's answer about the new job is there, and streamJob
\* from where that ends.  The job may have written n bytes by then, and be over;
\* the answer is the first chunk of what the ring has kept.  Polls and cancels
\* on their way are not stopped.
StartJob ==
    /\ job < MaxJobs /\ job' = job + 1
    /\ \/ proc' = "writing" /\ waiter' = "loop" /\ state' = "running"
       \/ proc' = "reaped" /\ waiter' = "done" /\ state' = "terminal"
    /\ \E n \in 0..MaxBytes :
        LET s == StatusOf(job', state', n, 0) IN
        /\ written' = n /\ pipe' = <<>>
        /\ start' = s.offset /\ end' = n /\ buf' = Bytes(s.offset, n)
        /\ jobLogOffset' = s.next /\ text' = s.data /\ skipped' = 1..s.offset
        /\ handler' = [st |-> "polling", offset |-> s.next]
    /\ active' = [job |-> job', st |-> state'] /\ crossed' = FALSE
    /\ ClearTimer
    /\ events' = TRUE /\ feed' = <<>>
    /\ UNCHANGED <<poll, cancel, ghosts>>

-------------------------------------------------------------------------------

CancelStep == CancelSent \/ CancelAnswered \/ CancelReturns

FollowStep ==
    \/ EventArrives \/ StreamError
    \/ \E j \in Jobs : PollFires(j) \/ PollAnswered(j) \/ PollReturns(j)

Next ==
    \/ GuestStep /\ UNCHANGED <<job, handler, feed, poll, cancel, viewVars, ghosts>>
    \/ HandlerPolls \/ StreamBreaks \/ StartJob \/ FollowStep \/ CancelStep

Spec == Init /\ [][Next]_vars

\* The waiter thread runs on, and the process need not end; the handler polls,
\* and the page handles its events, answers and timers; cancels need not end.
FairSpec ==
    /\ Spec
    /\ WF_vars(WaiterStep /\ UNCHANGED <<job, handler, feed, poll, cancel, viewVars, ghosts>>)
    /\ WF_vars(HandlerPolls) /\ WF_vars(FollowStep)

-------------------------------------------------------------------------------
(* Properties *)

\* The page shows a job's bytes in order, none twice, and says of every byte
\* before its cursor that it does not show that older logs were truncated,
\* however its stream breaks and polling takes over; except when the answer to
\* a poll or a cancel of an older job is applied to it.
ViewExact ==
    ~crossed =>
        /\ \A k \in 1..Len(text) - 1 : text[k] < text[k + 1]
        /\ ToSet(text) \cup skipped = 1..jobLogOffset
        /\ ToSet(text) \cap skipped = {}

Reader == INSTANCE LogReader WITH
    first <- start, last <- end, cursor <- jobLogOffset, shown <- text, lost <- skipped,
    astray <- crossed

\* The page follows the log as a reader of it should, although what it applies
\* was read from the ring a while ago, over a stream or by a poll, and the ring
\* has moved on: it never goes back, never shows a byte the log has not got
\* yet, and says that bytes were truncated only of bytes the ring has dropped.
ImplementsReader == Reader!ReaderSpec

\* What the process writes reaches the log, although it may end right after;
\* only a child that outlives it can lose bytes.  (Less is written only when the
\* page has started another job.)
AllLogged == (proc = "writing" /\ written = MaxBytes) ~> (end = MaxBytes \/ written < MaxBytes)

\* The end of a process reaches the page: its output (bounded) is drained, and
\* the terminal state comes by the stream or, once that breaks, by a poll; except
\* after a poll that failed, an answer about an older job, or the start of another.
ViewEnds ==
    (proc = "ended")
        ~> (active = [job |-> job, st |-> "terminal"] \/ proc = "writing" \/ crossed \/ failed)

===============================================================================
