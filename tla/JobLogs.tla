------------------------------- MODULE JobLogs -------------------------------
(***************************************************************************)
(* The output of one job in the guest: the pipe, the waiter thread that    *)
(* drains it (jobs.rs) and the ring that keeps the last bytes (logs.rs).   *)
(* The k-th byte the process writes is the number k.  JobView adds the     *)
(* readers.                                                                *)
(***************************************************************************)
EXTENDS Integers, Sequences, SequencesExt

CONSTANTS
    MaxBytes,       \* bound: the bytes a process writes
    PipeSize,       \* what the kernel's pipe holds
    ReadSize,       \* the waiter's read buffer, 16 KiB
    RingSize        \* MAX_LOG_BYTES

ASSUME LogsAssumption ==
    /\ MaxBytes \in Nat
    /\ {PipeSize, ReadSize, RingSize} \subseteq Nat \ {0}

VARIABLES
    proc,           \* the process: writing, ended, or reaped by the waiter
    pipe,           \* the bytes in the pipe
    written,        \* how many bytes the process and its children have written
    buf, start, end,    \* LogInner: buf, start_offset, end_offset
    waiter,         \* the waiter: in its loop, in the final drain, past it, done
    state           \* the job's state: running or terminal

logVars == <<buf, start, end>>
guestVars == <<proc, pipe, written, logVars, waiter, state>>

Bytes(a, b) == [k \in 1..(b - a) |-> a + k]   \* the bytes from offset a to b
Least(a, b) == IF a < b THEN a ELSE b
Greatest(a, b) == IF a > b THEN a ELSE b

GuestInit ==
    /\ proc = "writing"
    /\ pipe = <<>>
    /\ written = 0
    /\ buf = <<>> /\ start = 0 /\ end = 0
    /\ waiter = "loop"
    /\ state = "running"

-------------------------------------------------------------------------------
(* The process *)

\* The process writes, or a child that outlives it, until the waiter is
\* gone and the pipe closed.
Write(n) ==
    /\ waiter # "done"
    /\ written + n <= MaxBytes
    /\ Len(pipe) + n <= PipeSize
    /\ pipe' = pipe \o Bytes(written, written + n)
    /\ written' = written + n
    /\ UNCHANGED <<proc, logVars, waiter, state>>

End ==
    /\ proc = "writing"
    /\ proc' = "ended"
    /\ UNCHANGED <<pipe, written, logVars, waiter, state>>

-------------------------------------------------------------------------------
(* The ring *)

\* Mutant: the start offset is not moved with the bytes dropped.
AppendUncounted(chunk) ==
    LET all == buf \o chunk
        overflow == Greatest(Len(all) - RingSize, 0) IN
    /\ buf' = SubSeq(all, overflow + 1, Len(all))
    /\ end' = end + Len(chunk)
    /\ start' = start

\* LogRing::append.
AppendLog(chunk) ==
    LET all == buf \o chunk
        overflow == Greatest(Len(all) - RingSize, 0) IN
    /\ buf' = SubSeq(all, overflow + 1, Len(all))
    /\ end' = end + Len(chunk)
    /\ start' = start + overflow

\* Mutant: the newest bytes are preferred to those that were asked for.
SliceNewest(requested, maximum) ==
    LET from == Greatest(requested, Greatest(start, end - maximum))
        relative == from - start
        chunk == SubSeq(buf, relative + 1, Least(relative + maximum, Len(buf))) IN
    [offset |-> from, data |-> chunk, next |-> from + Len(chunk),
     truncated |-> requested < from,
     eof |-> state = "terminal" /\ from + Len(chunk) = end]

\* LogRing::slice of a cursor that is not beyond the end.
Slice(requested, maximum) ==
    LET from == Greatest(requested, start)
        relative == from - start
        chunk == SubSeq(buf, relative + 1, Least(relative + maximum, Len(buf))) IN
    [offset |-> from, data |-> chunk, next |-> from + Len(chunk),
     truncated |-> requested < start,
     eof |-> state = "terminal" /\ from + Len(chunk) = end]

-------------------------------------------------------------------------------
(* The waiter thread *)

\* One read of the pipe, in the loop or in the final drain.
Drain ==
    /\ waiter \in {"loop", "drain"}
    /\ pipe # <<>>
    /\ LET n == Least(ReadSize, Len(pipe)) IN
        /\ AppendLog(SubSeq(pipe, 1, n))
        /\ pipe' = SubSeq(pipe, n + 1, Len(pipe))
    /\ UNCHANGED <<proc, written, waiter, state>>

\* waitpid finds the process ended: one more drain follows.
Reap ==
    /\ waiter = "loop"
    /\ proc = "ended"
    /\ proc' = "reaped"
    /\ waiter' = "drain"
    /\ UNCHANGED <<pipe, written, logVars, state>>

\* Mutant: what the process wrote last is left in the pipe.
DrainedAtOnce ==
    /\ waiter = "drain"
    /\ waiter' = "finish"
    /\ UNCHANGED <<proc, pipe, written, logVars, state>>

\* The pipe would block.
Drained ==
    /\ waiter = "drain"
    /\ pipe = <<>>
    /\ waiter' = "finish"
    /\ UNCHANGED <<proc, pipe, written, logVars, state>>

\* The terminal state is written.
Finish ==
    /\ waiter = "finish"
    /\ state' = "terminal"
    /\ waiter' = "done"
    /\ UNCHANGED <<proc, pipe, written, logVars>>

-------------------------------------------------------------------------------

WaiterStep == Drain \/ Reap \/ Drained \/ Finish
GuestStep == WaiterStep \/ End \/ \E n \in 1..PipeSize : Write(n)

-------------------------------------------------------------------------------
(* Properties *)

\* The ring holds exactly the last bytes, at the offsets it says.
RingExact ==
    /\ buf = Bytes(start, end)
    /\ Len(buf) <= RingSize
    /\ start > 0 => Len(buf) = RingSize

===============================================================================
