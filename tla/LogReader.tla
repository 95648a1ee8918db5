------------------------------ MODULE LogReader ------------------------------
(***************************************************************************)
(* What a reader of a job's log is promised, whatever carries the bytes:   *)
(* it moves forward only, over bytes the log has, shows each byte it       *)
(* passes, and passes one over, saying so, only when the log has dropped   *)
(* it.  The k-th byte of a log is the number k.  JobView implements it.    *)
(***************************************************************************)
EXTENDS Integers, Sequences

VARIABLES
    first, last,    \* the offsets between which the log has its bytes
    cursor,         \* how far the reader is
    shown, lost,    \* the bytes it has shown, and those it said were dropped
    astray          \* whether it has taken something for another log

readerVars == <<first, last, cursor, shown, lost, astray>>

ReaderInit ==
    /\ first = 0 /\ last = 0
    /\ cursor = 0 /\ shown = <<>> /\ lost = {}
    /\ astray = FALSE

\* The log grows, and may drop its oldest bytes.
Grow ==
    /\ last' >= last /\ first' >= first
    /\ UNCHANGED <<cursor, shown, lost, astray>>

\* The bytes from offset a to b.
Run(a, b) == [k \in 1..(b - a) |-> a + k]

\* The reader shows the bytes from a to b; those before a were dropped.
Read(a, b) ==
    /\ a = cursor \/ a <= first
    /\ cursor' = b
    /\ shown' = shown \o Run(a, b)
    /\ lost' = lost \cup (cursor + 1)..a
    /\ UNCHANGED <<first, last, astray>>

\* It turns to a new log, and reads what that has already.
Restart ==
    /\ {first', last'} \subseteq Nat
    /\ \E a \in 0..first' : \E b \in a..last' :
        cursor' = b /\ shown' = Run(a, b) /\ lost' = 1..a
    /\ astray' = FALSE

\* It is given what belongs to another log: nothing is promised until it turns
\* to a new one.
Stray == astray' = TRUE

ReaderNext ==
    \/ Grow \/ Restart \/ Stray
    \/ \E a \in cursor..last : \E b \in a..last : Read(a, b)

ReaderSpec == ReaderInit /\ [][ReaderNext]_readerVars

==============================================================================
