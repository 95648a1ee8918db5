---------------------------- MODULE JobViewProofs ----------------------------
(***************************************************************************)
(* The guarantees of JobLogs and JobView for any number of bytes and jobs  *)
(* and any sizes of pipe, ring and answers: the ring keeps exactly the     *)
(* last bytes, the page shows each byte once, in order, or says that it    *)
(* was dropped, and it follows the log as LogReader allows.                *)
(***************************************************************************)
EXTENDS JobView, TLAPS

-------------------------------------------------------------------------------
(* Runs of bytes *)

\* Two sequences with the same entries.
LEMMA SameEntries ==
    ASSUME NEW s \in Seq(Nat), NEW t \in Seq(Nat), Len(s) = Len(t),
           \A i \in 1..Len(s) : s[i] = t[i]
    PROVE  s = t
  OBVIOUS

\* The entries of a run.
LEMMA BytesEntries ==
    ASSUME NEW a \in Nat, NEW b \in Nat, a <= b
    PROVE  /\ Bytes(a, b) \in Seq(Nat) /\ Len(Bytes(a, b)) = b - a /\ b - a \in Nat
           /\ \A i \in 1..(b - a) : Bytes(a, b)[i] = a + i
<1>1. b - a \in Nat
  OBVIOUS
<1>2. \A i \in 1..(b - a) : a + i \in Nat
  OBVIOUS
<1>3. Bytes(a, b) \in [1..(b - a) -> Nat]
  BY <1>2 DEF Bytes
<1>4. Bytes(a, b) \in Seq(Nat) /\ Len(Bytes(a, b)) = b - a
  BY <1>1, <1>3
<1> QED BY <1>1, <1>4 DEF Bytes

\* A run of no bytes.
LEMMA BytesEmpty ==
    ASSUME NEW a \in Nat
    PROVE  Bytes(a, a) = <<>>
<1>1. Bytes(a, a) \in Seq(Nat) /\ Len(Bytes(a, a)) = 0
  BY BytesEntries
<1> QED BY <1>1

\* The entries of a concatenation.
LEMMA ConcatEntries ==
    ASSUME NEW s \in Seq(Nat), NEW t \in Seq(Nat)
    PROVE  /\ s \o t \in Seq(Nat) /\ Len(s \o t) = Len(s) + Len(t)
           /\ \A i \in 1..Len(s) : (s \o t)[i] = s[i]
           /\ \A i \in 1..Len(t) : (s \o t)[Len(s) + i] = t[i]
  OBVIOUS

\* The entries of a part.
LEMMA PartEntries ==
    ASSUME NEW s \in Seq(Nat), NEW i \in Nat, NEW j \in Nat, i <= j, j <= Len(s)
    PROVE  /\ SubSeq(s, i + 1, j) \in Seq(Nat) /\ Len(SubSeq(s, i + 1, j)) = j - i
           /\ \A k \in 1..(j - i) : SubSeq(s, i + 1, j)[k] = s[i + k]
<1>1. \A k \in (i + 1)..j : s[k] \in Nat
  OBVIOUS
<1>2. SubSeq(s, i + 1, j) \in Seq(Nat)
  BY <1>1
<1>3. Len(SubSeq(s, i + 1, j)) = j - i
  OBVIOUS
<1>4. \A k \in 1..(j - i) : SubSeq(s, i + 1, j)[k] = s[i + k]
  OBVIOUS
<1> QED BY <1>2, <1>3, <1>4

\* What a run is, by its entries.
LEMMA BytesUnique ==
    ASSUME NEW a \in Nat, NEW b \in Nat, a <= b, NEW s \in Seq(Nat), Len(s) = b - a,
           \A i \in 1..(b - a) : s[i] = a + i
    PROVE  s = Bytes(a, b)
<1>1. PICK u \in Seq(Nat) : u = Bytes(a, b)
  BY BytesEntries
<1>2. Len(u) = b - a /\ \A i \in 1..(b - a) : u[i] = a + i
  BY <1>1, BytesEntries
<1>3. s = u
  BY <1>2, SameEntries
<1> QED BY <1>1, <1>3

\* A run followed by the next one.
LEMMA BytesConcat ==
    ASSUME NEW a \in Nat, NEW b \in Nat, NEW c \in Nat, a <= b, b <= c
    PROVE  Bytes(a, b) \o Bytes(b, c) = Bytes(a, c)
<1>1. PICK s \in Seq(Nat) : s = Bytes(a, b)
  BY BytesEntries
<1>2. PICK t \in Seq(Nat) : t = Bytes(b, c)
  BY BytesEntries
<1>3. Len(s) = b - a /\ \A i \in 1..(b - a) : s[i] = a + i
  BY <1>1, BytesEntries
<1>4. Len(t) = c - b /\ \A i \in 1..(c - b) : t[i] = b + i
  BY <1>2, BytesEntries
<1>5. PICK r \in Seq(Nat) :
            /\ r = s \o t /\ Len(r) = Len(s) + Len(t)
            /\ \A i \in 1..Len(s) : r[i] = s[i]
            /\ \A i \in 1..Len(t) : r[Len(s) + i] = t[i]
  BY ConcatEntries
<1>6. Len(r) = c - a /\ a <= c
  BY <1>3, <1>4, <1>5
<1>7. ASSUME NEW i \in 1..(c - a) PROVE r[i] = a + i
  <2>1. CASE i \in 1..(b - a)
    BY <1>3, <1>5, <2>1
  <2>2. CASE i > b - a
    <3>1. PICK k \in 1..(c - b) : (b - a) + k = i /\ b + k = a + i
      <4>1. i - (b - a) \in 1..(c - b) /\ (b - a) + (i - (b - a)) = i /\ b + (i - (b - a)) = a + i
        BY <2>2
      <4> QED BY <4>1
    <3>2. r[(b - a) + k] = t[k]
      BY <1>3, <1>4, <1>5
    <3>3. t[k] = b + k
      BY <1>4
    <3> QED BY <3>1, <3>2, <3>3
  <2> QED BY <2>1, <2>2
<1>8. r = Bytes(a, c)
  BY <1>6, <1>7, BytesUnique
<1> QED BY <1>1, <1>2, <1>5, <1>8

\* The entries after the first i, up to the j-th.
Cut(s, i, j) == SubSeq(s, i + 1, j)

\* Part of a run.
LEMMA BytesPart ==
    ASSUME NEW a \in Nat, NEW b \in Nat, a <= b, NEW i \in Nat, NEW j \in Nat, i <= j, j <= b - a
    PROVE  Cut(Bytes(a, b), i, j) = Bytes(a + i, a + j)
<1>1. PICK s \in Seq(Nat) : s = Bytes(a, b)
  BY BytesEntries
<1>2. Len(s) = b - a /\ \A k \in 1..(b - a) : s[k] = a + k
  BY <1>1, BytesEntries
<1>3. PICK c \in Nat : c = a + i
  OBVIOUS
<1>4. PICK d \in Nat : d = a + j
  OBVIOUS
<1>5. c <= d /\ d - c = j - i
  BY <1>3, <1>4
<1>6. j <= Len(s)
  BY <1>2
<1>7. PICK r \in Seq(Nat) :
        r = SubSeq(s, i + 1, j) /\ Len(r) = j - i /\ \A k \in 1..(j - i) : r[k] = s[i + k]
  BY <1>6, PartEntries
<1>8. ASSUME NEW k \in 1..(d - c) PROVE r[k] = c + k
  <2>1. k \in 1..(j - i)
    BY <1>5
  <2>2. i + k \in 1..(b - a) /\ a + (i + k) = c + k
    BY <1>3, <2>1
  <2>3. r[k] = s[i + k]
    BY <1>7, <2>1
  <2>4. s[i + k] = a + (i + k)
    BY <1>2, <2>2
  <2> QED BY <2>2, <2>3, <2>4
<1>9. Len(r) = d - c
  BY <1>5, <1>7
<1>10. r = Bytes(c, d)
  BY <1>5, <1>8, <1>9, BytesUnique
<1> QED BY <1>1, <1>3, <1>4, <1>7, <1>10 DEF Cut

-------------------------------------------------------------------------------
(* The ring *)

\* The bytes written are in the ring, dropped from it, or in the pipe.
RingInv ==
    /\ start \in Nat /\ end \in Nat /\ written \in Nat
    /\ start <= end /\ end <= written
    /\ buf = Bytes(start, end) /\ pipe = Bytes(end, written)
    /\ end - start <= RingSize
    /\ start > 0 => end - start = RingSize
    /\ state \in {"running", "terminal"}

\* LogRing::append of the bytes that follow.
LEMMA AppendEffect ==
    ASSUME RingInv, NEW m \in Nat, end <= m, AppendLog(Bytes(end, m))
    PROVE  /\ start' \in Nat /\ start <= start' /\ start' <= m /\ end' = m
           /\ buf' = Bytes(start', m)
           /\ m - start' <= RingSize
           /\ start' > 0 => m - start' = RingSize
<1>1. /\ start \in Nat /\ end \in Nat /\ start <= end /\ buf = Bytes(start, end)
      /\ end - start <= RingSize /\ (start > 0 => end - start = RingSize)
  BY DEF RingInv
<1>2. buf \o Bytes(end, m) = Bytes(start, m)
  BY <1>1, BytesConcat
<1>3. start <= m /\ RingSize \in Nat \ {0}
  BY <1>1, LogsAssumption
<1>4. Len(Bytes(start, m)) = m - start /\ Len(Bytes(end, m)) = m - end
  BY <1>1, <1>3, BytesEntries
<1>5. PICK o : o = Greatest((m - start) - RingSize, 0)
  OBVIOUS
<1>6. o \in Nat /\ o <= m - start /\ (o = (m - start) - RingSize \/ (o = 0 /\ m - start <= RingSize))
  BY <1>1, <1>3, <1>5 DEF Greatest
<1>7. buf' = Cut(Bytes(start, m), o, m - start) /\ start' = start + o /\ end' = end + (m - end)
  BY <1>2, <1>4, <1>5 DEF AppendLog, Cut
<1>8. m - start \in Nat /\ start + (m - start) = m /\ end + (m - end) = m
  BY <1>1, <1>3
<1>9. Cut(Bytes(start, m), o, m - start) = Bytes(start + o, start + (m - start))
  BY <1>1, <1>3, <1>6, <1>8, BytesPart
<1>10. buf' = Bytes(start', m) /\ end' = m
  BY <1>7, <1>8, <1>9
<1>11. start + o \in Nat /\ start <= start + o /\ start + o <= m /\ m - (start + o) <= RingSize
  BY <1>1, <1>3, <1>6
<1>12. start + o > 0 => m - (start + o) = RingSize
  BY <1>1, <1>3, <1>6
<1> QED BY <1>7, <1>10, <1>11, <1>12

\* One read of the pipe.
LEMMA DrainEffect ==
    ASSUME RingInv, Drain
    PROVE  RingInv' /\ end <= end' /\ start <= start'
<1>1. /\ end \in Nat /\ written \in Nat /\ end <= written /\ pipe = Bytes(end, written)
  BY DEF RingInv
<1>2. Len(pipe) = written - end /\ written - end \in Nat /\ ReadSize \in Nat \ {0}
  BY <1>1, BytesEntries, LogsAssumption
<1>3. PICK n : n = Least(ReadSize, Len(pipe))
  OBVIOUS
<1>4. n \in Nat /\ n <= written - end
  BY <1>2, <1>3 DEF Least
<1>5. AppendLog(Cut(pipe, 0, n)) /\ pipe' = Cut(pipe, n, written - end)
  BY <1>2, <1>3 DEF Drain, Cut
<1>6. PICK m \in Nat : m = end + n
  BY <1>1, <1>4
<1>7. /\ end + 0 = end /\ end + (written - end) = written /\ end <= m /\ m <= written
      /\ 0 <= n /\ 0 \in Nat
  BY <1>1, <1>4, <1>6
<1>8. Cut(pipe, 0, n) = Bytes(end, m)
  <2>1. Cut(Bytes(end, written), 0, n) = Bytes(end + 0, end + n)
    BY <1>1, <1>4, <1>7, BytesPart
  <2> QED BY <1>1, <1>6, <1>7, <2>1
<1>9. pipe' = Bytes(m, written)
  <2>1. Cut(Bytes(end, written), n, written - end) = Bytes(end + n, end + (written - end))
    BY <1>1, <1>2, <1>4, BytesPart
  <2> QED BY <1>1, <1>5, <1>6, <1>7, <2>1
<1>10. /\ start' \in Nat /\ start <= start' /\ start' <= m /\ end' = m
       /\ buf' = Bytes(start', m)
       /\ m - start' <= RingSize
       /\ start' > 0 => m - start' = RingSize
  BY <1>5, <1>7, <1>8, AppendEffect
<1>11. written' = written /\ state' = state /\ state \in {"running", "terminal"}
  BY DEF Drain, RingInv
<1> QED BY <1>1, <1>7, <1>9, <1>10, <1>11 DEF RingInv

\* The process writes.
LEMMA WriteEffect ==
    ASSUME RingInv, NEW n \in 1..PipeSize, Write(n)
    PROVE  RingInv' /\ end <= end' /\ start <= start'
<1>1. /\ end \in Nat /\ written \in Nat /\ end <= written /\ pipe = Bytes(end, written)
  BY DEF RingInv
<1>2. PICK m \in Nat : m = written + n
  BY <1>1
<1>3. written <= m /\ end <= m
  BY <1>1, <1>2
<1>4. pipe' = Bytes(end, m)
  <2>1. Bytes(end, written) \o Bytes(written, m) = Bytes(end, m)
    BY <1>1, <1>3, BytesConcat
  <2> QED BY <1>1, <1>2, <2>1 DEF Write
<1>5. written' = m /\ UNCHANGED <<buf, start, end, state>>
  BY <1>2 DEF Write, logVars
<1> QED BY <1>1, <1>3, <1>4, <1>5 DEF RingInv

\* The ring as it is when a job starts.
LEMMA RingInit ==
    ASSUME start = 0, end = 0, written = 0, buf = <<>>, pipe = <<>>, state = "running"
    PROVE  RingInv
<1>1. Bytes(0, 0) = <<>>
  BY BytesEmpty
<1> QED BY <1>1, LogsAssumption DEF RingInv

\* The guest's steps.
LEMMA GuestEffect ==
    ASSUME RingInv, GuestStep
    PROVE  RingInv' /\ end <= end' /\ start <= start'
<1>1. CASE Drain
  BY <1>1, DrainEffect
<1>2. CASE Reap \/ Drained \/ End
  <2>1. UNCHANGED <<buf, start, end, pipe, written, state>>
    BY <1>2 DEF Reap, Drained, End, logVars
  <2> QED BY <2>1 DEF RingInv
<1>3. CASE Finish
  <2>1. UNCHANGED <<buf, start, end, pipe, written>> /\ state' = "terminal"
    BY <1>3 DEF Finish, logVars
  <2> QED BY <2>1 DEF RingInv
<1>4. ASSUME NEW n \in 1..PipeSize, Write(n)
      PROVE  RingInv' /\ end <= end' /\ start <= start'
  BY <1>4, WriteEffect
<1> QED BY <1>1, <1>2, <1>3, <1>4 DEF GuestStep, WaiterStep

\* The answer about a job whose ring has taken n bytes.
LEMMA StatusRuns ==
    ASSUME NEW j, NEW st, NEW n \in Nat, NEW c \in Nat, c <= n
    PROVE  \E a, b \in Nat, cut \in BOOLEAN :
                /\ a <= b /\ b <= n
                /\ StatusOf(j, st, n, c) = [job |-> j, st |-> st, offset |-> a, data |-> Bytes(a, b),
                                           next |-> b, truncated |-> cut]
                /\ c = 0 => n - a <= RingSize /\ (a > 0 => n - a = RingSize)
<1>1. RingSize \in Nat \ {0} /\ PollChunk \in Nat \ {0}
  BY LogsAssumption, ViewAssumption
<1>2. PICK kept : kept = Greatest(n - RingSize, 0)
  OBVIOUS
<1>3. kept \in Nat /\ kept <= n /\ n - kept <= RingSize /\ (kept > 0 => n - kept = RingSize)
  BY <1>1, <1>2 DEF Greatest
<1>4. PICK a : a = Greatest(c, kept)
  OBVIOUS
<1>5. a \in Nat /\ a <= n /\ (c = 0 => a = kept)
  BY <1>3, <1>4 DEF Greatest
<1>6. PICK b : b = Least(a + PollChunk, n)
  OBVIOUS
<1>7. b \in Nat /\ a <= b /\ b <= n
  BY <1>1, <1>5, <1>6 DEF Least
<1>8. StatusOf(j, st, n, c) = [job |-> j, st |-> st, offset |-> a, data |-> Bytes(a, b),
                               next |-> b, truncated |-> c < kept]
  BY <1>2, <1>4, <1>6 DEF StatusOf
<1>9. c = 0 => n - a <= RingSize /\ (a > 0 => n - a = RingSize)
  BY <1>3, <1>5
<1>10. (c < kept) \in BOOLEAN
  OBVIOUS
<1> QED BY <1>5, <1>7, <1>8, <1>9, <1>10

\* A further job, when the page has its answer: the ring has n bytes or the last
\* of them, from a on, and the page has shown those up to b.
LEMMA StartEffect ==
    ASSUME StartJob
    PROVE  \E n, a, b \in Nat :
                /\ a <= b /\ b <= n
                /\ n - a <= RingSize /\ (a > 0 => n - a = RingSize)
                /\ start' = a /\ end' = n /\ written' = n /\ buf' = Bytes(a, n) /\ pipe' = <<>>
                /\ jobLogOffset' = b /\ text' = Bytes(a, b) /\ skipped' = 1..a
                /\ handler' = [st |-> "polling", offset |-> b]
<1>1. PICK n \in 0..MaxBytes :
        /\ written' = n /\ pipe' = <<>>
        /\ start' = StatusOf(job', state', n, 0).offset /\ end' = n
        /\ buf' = Bytes(StatusOf(job', state', n, 0).offset, n)
        /\ jobLogOffset' = StatusOf(job', state', n, 0).next
        /\ text' = StatusOf(job', state', n, 0).data
        /\ skipped' = 1..StatusOf(job', state', n, 0).offset
        /\ handler' = [st |-> "polling", offset |-> StatusOf(job', state', n, 0).next]
  BY DEF StartJob
<1>2. n \in Nat /\ 0 \in Nat /\ 0 <= n
  OBVIOUS
<1>3. PICK a, b \in Nat, cut \in BOOLEAN :
        /\ a <= b /\ b <= n
        /\ StatusOf(job', state', n, 0) = [job |-> job', st |-> state', offset |-> a,
                                          data |-> Bytes(a, b), next |-> b, truncated |-> cut]
        /\ n - a <= RingSize /\ (a > 0 => n - a = RingSize)
  BY <1>2, StatusRuns
<1>4. /\ StatusOf(job', state', n, 0).offset = a
      /\ StatusOf(job', state', n, 0).next = b
      /\ StatusOf(job', state', n, 0).data = Bytes(a, b)
  BY <1>3
<1> QED BY <1>1, <1>2, <1>3, <1>4

\* Every step of the system leaves the log as it is, or is one of these.
LEMMA RingStep ==
    ASSUME RingInv, [Next]_vars
    PROVE  RingInv'
<1>1. CASE GuestStep
  BY <1>1, GuestEffect
<1>2. CASE StartJob
  <2>1. PICK n, a, b \in Nat :
            /\ a <= b /\ b <= n
            /\ n - a <= RingSize /\ (a > 0 => n - a = RingSize)
            /\ start' = a /\ end' = n /\ written' = n /\ buf' = Bytes(a, n) /\ pipe' = <<>>
    BY <1>2, StartEffect
  <2>2. Bytes(n, n) = <<>> /\ a <= n
    BY <2>1, BytesEmpty
  <2>3. state' \in {"running", "terminal"}
    BY <1>2 DEF StartJob
  <2> QED BY <2>1, <2>2, <2>3 DEF RingInv
<1>3. CASE UNCHANGED guestVars
  BY <1>3 DEF guestVars, logVars, RingInv
<1>4. ASSUME HandlerPolls \/ StreamBreaks \/ FollowStep \/ CancelStep
      PROVE  UNCHANGED guestVars
  BY <1>4 DEF HandlerPolls, StreamBreaks, FollowStep, CancelStep, EventArrives, StreamError,
              PollFires, PollAnswered, PollReturns, CancelSent, CancelAnswered, CancelReturns
<1>5. ASSUME UNCHANGED vars PROVE UNCHANGED guestVars
  BY <1>5 DEF vars
<1> QED BY <1>1, <1>2, <1>3, <1>4, <1>5 DEF Next

\* The guest's log ring holds exactly the last bytes its job wrote, at the
\* offsets it says, whatever the sizes of writes, reads and ring.
THEOREM RingAlwaysExact == Spec => []RingExact
<1>1. Init => RingInv
  BY RingInit DEF Init, GuestInit
<1>2. RingInv /\ [Next]_vars => RingInv'
  BY RingStep
<1>3. RingInv => RingExact
  <2>1. ASSUME RingInv PROVE Len(buf) = end - start
    BY <2>1, BytesEntries DEF RingInv
  <2> QED BY <2>1 DEF RingInv, RingExact
<1> QED BY <1>1, <1>2, <1>3, PTL DEF Spec

-------------------------------------------------------------------------------
(* The page *)

\* A status is right for a reader at offset r of a log that ends at e.
Fits(s, r, e) ==
    /\ r <= s.offset /\ s.offset <= s.next /\ s.next <= e
    /\ s.data = Bytes(s.offset, s.next)
    /\ s.truncated = (r < s.offset)
    /\ r < s.offset => s.offset < s.next

\* Each event is right for a reader that has read the ones before it.
Before(f, r, i) == IF i = 1 THEN r ELSE f[i - 1].next
Chain(f, r, e) == \A i \in 1..Len(f) : Fits(f[i], Before(f, r, i), e)

\* A text t that shows the bytes up to r but those in d.
Shows(t, d, r) ==
    /\ t \in Seq(Nat)
    /\ \A k \in 1..Len(t) - 1 : t[k] < t[k + 1]
    /\ ToSet(t) \cup d = 1..r
    /\ ToSet(t) \cap d = {}

Statuses == [job : Nat, st : {"running", "terminal"}, offset : Nat, data : Seq(Nat), next : Nat,
             truncated : BOOLEAN]
Requests == [st : {"none", "sent", "ok", "error"}, status : Statuses]

\* The guest's status of the job started last is right for who asked.
LEMMA StatusFits ==
    ASSUME RingInv, job \in Nat, NEW r \in Nat, r <= end, NEW chunk \in Nat \ {0}
    PROVE  /\ StatusFrom(r, chunk) \in Statuses
           /\ StatusFrom(r, chunk).job = job
           /\ StatusFrom(r, chunk).st = state
           /\ Fits(StatusFrom(r, chunk), r, end)
<1>1. /\ start \in Nat /\ end \in Nat /\ start <= end /\ buf = Bytes(start, end)
      /\ (start > 0 => end - start = RingSize) /\ RingSize \in Nat \ {0}
      /\ state \in {"running", "terminal"}
  BY LogsAssumption DEF RingInv
<1>2. PICK f : f = Greatest(r, start)
  OBVIOUS
<1>3. /\ f \in Nat /\ start <= f /\ f <= end /\ r <= f
      /\ (r < f) = (r < start)
      /\ r < f => f = start /\ start > 0
  BY <1>1, <1>2 DEF Greatest
<1>4. PICK p \in Nat : p = f - start
  BY <1>1, <1>3
<1>5. Len(buf) = end - start /\ end - start \in Nat
  BY <1>1, BytesEntries
<1>6. PICK k : k = Least(p + chunk, end - start)
  OBVIOUS
<1>7. k \in Nat /\ p <= k /\ k <= end - start
  BY <1>1, <1>3, <1>4, <1>6 DEF Least
<1>8. PICK d \in Nat : d = start + k
  BY <1>1, <1>7
<1>9. f <= d /\ d <= end /\ start + p = f /\ f + (d - f) = d
  BY <1>1, <1>3, <1>4, <1>7, <1>8
<1>10. r < f => f < d
  <2>1. ASSUME r < f PROVE p = 0 /\ end - start > 0
    BY <1>1, <1>3, <1>4, <2>1
  <2>2. ASSUME r < f PROVE k > 0
    BY <1>1, <1>6, <2>1, <2>2 DEF Least
  <2> QED BY <1>1, <1>3, <1>7, <1>8, <2>2
<1>11. Cut(buf, p, k) = Bytes(f, d)
  <2>1. Cut(Bytes(start, end), p, k) = Bytes(start + p, start + k)
    BY <1>1, <1>4, <1>7, BytesPart
  <2> QED BY <1>1, <1>8, <1>9, <2>1
<1>12. Bytes(f, d) \in Seq(Nat) /\ Len(Bytes(f, d)) = d - f
  BY <1>3, <1>9, BytesEntries
<1>13. StatusFrom(r, chunk) = [job |-> job, st |-> state, offset |-> f, data |-> Bytes(f, d),
                               next |-> d, truncated |-> r < start]
  <2>1. SubSeq(buf, (f - start) + 1, Least((f - start) + chunk, Len(buf))) = Bytes(f, d)
    BY <1>4, <1>5, <1>6, <1>11 DEF Cut
  <2> QED BY <1>2, <1>9, <1>12, <2>1 DEF StatusFrom, Slice
<1>14. Fits(StatusFrom(r, chunk), r, end)
  BY <1>3, <1>9, <1>10, <1>13 DEF Fits
<1> QED BY <1>1, <1>3, <1>12, <1>13, <1>14 DEF Statuses

\* Nothing shown.
LEMMA ShowsEmpty == Shows(<<>>, {}, 0)
<1>1. <<>> \in Seq(Nat) /\ Len(<<>>) = 0 /\ ToSet(<<>>) = {}
  BY DEF ToSet
<1>2. 1..0 = {}
  OBVIOUS
<1> QED BY <1>1, <1>2 DEF Shows

\* The text grows by the bytes from a to b, and those before a are dropped.
LEMMA ShowsMore ==
    ASSUME NEW t \in Seq(Nat), NEW d, NEW r \in Nat, NEW a \in Nat, NEW b \in Nat, r <= a, a <= b,
           Shows(t, d, r)
    PROVE  Shows(t \o Bytes(a, b), d \cup (r + 1)..a, b)
<1>1. PICK s \in Seq(Nat) : s = Bytes(a, b)
  BY BytesEntries
<1>2. Len(s) = b - a /\ \A i \in 1..(b - a) : s[i] = a + i
  BY <1>1, BytesEntries
<1>3. PICK u \in Seq(Nat) :
            /\ u = t \o s /\ Len(u) = Len(t) + Len(s)
            /\ \A i \in 1..Len(t) : u[i] = t[i]
            /\ \A i \in 1..Len(s) : u[Len(t) + i] = s[i]
  BY ConcatEntries
<1>4. PICK n \in Nat : n = Len(t)
  OBVIOUS
<1>5. /\ Len(u) = n + (b - a)
      /\ \A i \in 1..n : u[i] = t[i]
      /\ \A i \in 1..(b - a) : u[n + i] = a + i
  BY <1>2, <1>3, <1>4
<1>6. /\ \A i \in 1..n : t[i] \in 1..r
      /\ \A x \in d : x \in 1..r
      /\ \A i \in 1..n : t[i] \notin d
      /\ \A x \in 1..r : x \in d \/ \E i \in 1..n : x = t[i]
      /\ \A k \in 1..n - 1 : t[k] < t[k + 1]
  <2>1. DOMAIN t = 1..n
    BY <1>4
  <2>2. /\ \A i \in 1..n : t[i] \in ToSet(t)
        /\ \A x \in ToSet(t) : \E i \in 1..n : x = t[i]
    BY <2>1 DEF ToSet
  <2>3. ToSet(t) \cup d = 1..r /\ ToSet(t) \cap d = {}
    BY DEF Shows
  <2>4. \A k \in 1..n - 1 : t[k] < t[k + 1]
    BY <1>4 DEF Shows
  <2>5. \A x \in ToSet(t) \cup d : x \in 1..r
    BY <2>3
  <2>6. \A x \in 1..r : x \in ToSet(t) \/ x \in d
    BY <2>3
  <2>7. \A x \in ToSet(t) : x \notin d
    BY <2>3
  <2> QED BY <2>2, <2>4, <2>5, <2>6, <2>7
<1>7. ASSUME NEW k \in 1..Len(u) - 1 PROVE u[k] < u[k + 1]
  <2>1. CASE k < n
    <3>1. k \in 1..n /\ k + 1 \in 1..n /\ k \in 1..n - 1
      BY <2>1
    <3> QED BY <1>5, <1>6, <3>1
  <2>2. CASE k = n
    <3>1. 1 \in 1..(b - a) /\ n \in 1..n
      BY <1>5, <2>2
    <3>2. u[n + 1] = a + 1 /\ u[n] = t[n] /\ t[n] \in 1..r
      BY <1>5, <1>6, <3>1
    <3> QED BY <2>2, <3>2
  <2>3. CASE k > n
    <3>1. PICK i \in 1..(b - a) : k = n + i /\ i + 1 \in 1..(b - a) /\ k + 1 = n + (i + 1)
      <4>1. k - n \in 1..(b - a) /\ k = n + (k - n) /\ (k - n) + 1 \in 1..(b - a) /\ k + 1 = n + ((k - n) + 1)
        BY <1>5, <2>3
      <4> QED BY <4>1
    <3>2. u[k] = a + i /\ u[k + 1] = a + (i + 1)
      BY <1>5, <3>1
    <3> QED BY <3>2
  <2> QED BY <1>5, <2>1, <2>2, <2>3
<1>8. ASSUME NEW k \in 1..Len(u) PROVE (k \in 1..n /\ u[k] = t[k]) \/ u[k] \in (a + 1)..b
  <2>1. CASE k <= n
    BY <1>5, <2>1
  <2>2. CASE k > n
    <3>1. PICK i \in 1..(b - a) : k = n + i
      <4>1. k - n \in 1..(b - a) /\ k = n + (k - n)
        BY <1>5, <2>2
      <4> QED BY <4>1
    <3>2. u[k] = a + i
      BY <1>5, <3>1
    <3> QED BY <3>2
  <2> QED BY <1>5, <2>1, <2>2
<1>9. ASSUME NEW x \in 1..b, x \notin d \cup (r + 1)..a
      PROVE  x \in ToSet(u)
  <2>1. CASE x <= r
    <3>1. PICK i \in 1..n : x = t[i]
      BY <1>6, <1>9, <2>1
    <3>2. i \in 1..Len(u) /\ x = u[i]
      BY <1>5, <3>1
    <3> QED BY <3>2 DEF ToSet
  <2>2. CASE x > a
    <3>1. PICK i \in 1..(b - a) : x = a + i
      <4>1. x - a \in 1..(b - a) /\ x = a + (x - a)
        BY <2>2
      <4> QED BY <4>1
    <3>2. n + i \in 1..Len(u) /\ x = u[n + i]
      BY <1>5, <3>1
    <3> QED BY <3>2 DEF ToSet
  <2> QED BY <1>9, <2>1, <2>2
<1>10. ASSUME NEW x \in ToSet(u)
       PROVE  x \in 1..b /\ x \notin d \cup (r + 1)..a
  <2>1. PICK k \in 1..Len(u) : x = u[k]
    BY <1>10 DEF ToSet
  <2>2. CASE u[k] \in (a + 1)..b
    BY <1>6, <2>1, <2>2
  <2>3. CASE k \in 1..n /\ u[k] = t[k]
    <3>1. x \in 1..r /\ x \notin d
      BY <1>6, <2>1, <2>3
    <3> QED BY <3>1
  <2> QED BY <1>8, <2>2, <2>3
<1>11. \A x \in d \cup (r + 1)..a : x \in 1..b
  BY <1>6
<1>12. ToSet(u) \cup (d \cup (r + 1)..a) = 1..b /\ ToSet(u) \cap (d \cup (r + 1)..a) = {}
  BY <1>9, <1>10, <1>11
<1>13. Shows(u, d \cup (r + 1)..a, b)
  BY <1>7, <1>12 DEF Shows
<1> QED BY <1>1, <1>3, <1>13

\* applyJobStatus with a status that is right for the cursor: its bytes are
\* added, and those before them admitted.
LEMMA ShowEffect ==
    ASSUME NEW s \in Statuses, jobLogOffset \in Nat, text \in Seq(Nat),
           Fits(s, jobLogOffset, end), ShowLog(s)
    PROVE  /\ jobLogOffset' = s.next
           /\ text' = text \o Bytes(s.offset, s.next)
           /\ skipped' = skipped \cup (jobLogOffset + 1)..s.offset
<1>1. PICK r \in Nat : r = jobLogOffset
  OBVIOUS
<1>2. PICK a \in Nat : a = s.offset
  BY DEF Statuses
<1>3. PICK b \in Nat : b = s.next
  BY DEF Statuses
<1>4. /\ r <= a /\ a <= b /\ s.data = Bytes(a, b) /\ s.truncated = (r < a)
      /\ r < a => a < b
  BY <1>1, <1>2, <1>3 DEF Fits
<1>5. (a < b) = (s.data # <<>>)
  <2>1. Bytes(a, b) \in Seq(Nat) /\ Len(Bytes(a, b)) = b - a
    BY <1>4, BytesEntries
  <2> QED BY <1>4, <2>1
<1>6. skipped' = skipped \cup (r + 1)..a
  <2>1. CASE r < a
    BY <1>1, <1>2, <1>4, <2>1 DEF ShowLog
  <2>2. CASE r = a
    <3>1. (r + 1)..a = {}
      BY <2>2
    <3>2. ~(r < a)
      BY <2>2
    <3>3. ~s.truncated
      BY <1>4, <3>2
    <3> QED BY <3>1, <3>3 DEF ShowLog
  <2> QED BY <1>4, <2>1, <2>2
<1>7. CASE a < b
  <2>1. b > r /\ s.data # <<>>
    BY <1>4, <1>5, <1>7
  <2>2. text' = text \o Bytes(a, b) /\ jobLogOffset' = b
    BY <1>1, <1>3, <1>4, <2>1 DEF ShowLog
  <2> QED BY <1>1, <1>2, <1>3, <1>6, <2>2
<1>8. CASE a = b
  <2>1. r = b /\ s.data = <<>> /\ Bytes(a, b) = <<>>
    BY <1>4, <1>5, <1>8
  <2>2. UNCHANGED <<text, jobLogOffset>>
    BY <2>1 DEF ShowLog
  <2>3. text \o <<>> = text
    OBVIOUS
  <2> QED BY <1>1, <1>2, <1>3, <1>6, <2>1, <2>2, <2>3
<1> QED BY <1>4, <1>7, <1>8

\* What it then shows is right.
LEMMA ShowFits ==
    ASSUME NEW s \in Statuses, jobLogOffset \in Nat, Shows(text, skipped, jobLogOffset),
           Fits(s, jobLogOffset, end), ShowLog(s)
    PROVE  jobLogOffset' = s.next /\ Shows(text', skipped', s.next)
<1>1. text \in Seq(Nat)
  BY DEF Shows
<1>2. /\ jobLogOffset' = s.next /\ text' = text \o Bytes(s.offset, s.next)
      /\ skipped' = skipped \cup (jobLogOffset + 1)..s.offset
  BY <1>1, ShowEffect
<1>3. /\ s.offset \in Nat /\ s.next \in Nat
      /\ jobLogOffset <= s.offset /\ s.offset <= s.next
  BY DEF Statuses, Fits
<1>4. Shows(text \o Bytes(s.offset, s.next), skipped \cup (jobLogOffset + 1)..s.offset, s.next)
  BY <1>1, <1>3, ShowsMore
<1> QED BY <1>2, <1>4

\* applyJobStatus with the answer to a cancel.
LEMMA ShowNothing ==
    ASSUME NEW s, s.data = <<>>, s.truncated = FALSE, ShowLog(s)
    PROVE  UNCHANGED <<text, skipped, jobLogOffset>>
  BY DEF ShowLog

\* The events on their way, as they are added, lost and taken.
LEMMA ChainEmpty ==
    ASSUME NEW r, NEW e
    PROVE  Chain(<<>>, r, e) /\ Before(<<>>, r, Len(<<>>) + 1) = r
  BY DEF Chain, Before

LEMMA ChainLonger ==
    ASSUME NEW f, NEW r, NEW e \in Nat, NEW g \in Nat, e <= g, Chain(f, r, e),
           f \in Seq(Statuses)
    PROVE  Chain(f, r, g)
<1>1. ASSUME NEW i \in 1..Len(f) PROVE Fits(f[i], Before(f, r, i), g)
  <2>1. f[i].next \in Nat
    <3>1. f[i] \in Statuses
      OBVIOUS
    <3> QED BY <3>1 DEF Statuses
  <2>2. Fits(f[i], Before(f, r, i), e)
    BY DEF Chain
  <2> QED BY <2>1, <2>2 DEF Fits
<1> QED BY <1>1 DEF Chain

LEMMA ChainAppend ==
    ASSUME NEW f \in Seq(Statuses), NEW s \in Statuses, NEW r, NEW e, Chain(f, r, e),
           Fits(s, Before(f, r, Len(f) + 1), e)
    PROVE  /\ Chain(Append(f, s), r, e)
           /\ Before(Append(f, s), r, Len(Append(f, s)) + 1) = s.next
<1>1. PICK n \in Nat : n = Len(f)
  OBVIOUS
<1>2. PICK g : g = Append(f, s)
  OBVIOUS
<1>3. Len(g) = n + 1 /\ g[n + 1] = s /\ \A i \in 1..n : g[i] = f[i]
  BY <1>1, <1>2
<1>4. ASSUME NEW i \in 1..(n + 1) PROVE Before(g, r, i) = Before(f, r, i)
  BY <1>3 DEF Before
<1>5. \A i \in 1..n : Fits(f[i], Before(f, r, i), e)
  BY <1>1 DEF Chain
<1>6. ASSUME NEW i \in 1..(n + 1) PROVE Fits(g[i], Before(g, r, i), e)
  <2>1. CASE i \in 1..n
    BY <1>3, <1>4, <1>5, <2>1
  <2>2. CASE i = n + 1
    BY <1>1, <1>3, <1>4, <2>2
  <2> QED BY <2>1, <2>2
<1>7. Chain(g, r, e)
  BY <1>3, <1>6 DEF Chain
<1>8. Before(g, r, Len(g) + 1) = s.next
  <2>1. (n + 1) + 1 # 1 /\ ((n + 1) + 1) - 1 = n + 1
    OBVIOUS
  <2> QED BY <1>3, <2>1 DEF Before
<1> QED BY <1>2, <1>7, <1>8

LEMMA ChainPrefix ==
    ASSUME NEW f \in Seq(Statuses), NEW r, NEW e, NEW n \in 0..Len(f), Chain(f, r, e)
    PROVE  Chain(SubSeq(f, 1, n), r, e)
<1>1. PICK g : g = SubSeq(f, 1, n)
  OBVIOUS
<1>2. Len(g) = n /\ \A i \in 1..n : g[i] = f[i]
  BY <1>1
<1>3. ASSUME NEW i \in 1..n PROVE Before(g, r, i) = Before(f, r, i)
  BY <1>2 DEF Before
<1>4. ASSUME NEW i \in 1..n PROVE Fits(g[i], Before(g, r, i), e)
  BY <1>2, <1>3 DEF Chain
<1> QED BY <1>1, <1>2, <1>4 DEF Chain

LEMMA ChainTail ==
    ASSUME NEW f \in Seq(Statuses), f # <<>>, NEW r, NEW e, Chain(f, r, e)
    PROVE  /\ Fits(Head(f), r, e)
           /\ Chain(Tail(f), Head(f).next, e)
           /\ Before(Tail(f), Head(f).next, Len(Tail(f)) + 1) = Before(f, r, Len(f) + 1)
<1>1. PICK g : g = Tail(f)
  OBVIOUS
<1>2. PICK n \in Nat : n = Len(g)
  BY <1>1
<1>3. Len(f) = n + 1 /\ Head(f) = f[1] /\ \A i \in 1..n : g[i] = f[i + 1]
  BY <1>1, <1>2
<1>4. ASSUME NEW i \in 1..(n + 1) PROVE Before(g, f[1].next, i) = Before(f, r, i + 1)
  <2>1. i + 1 # 1 /\ (i + 1) - 1 = i
    OBVIOUS
  <2>2. CASE i = 1
    BY <2>1, <2>2 DEF Before
  <2>3. CASE i # 1
    <3>1. i - 1 \in 1..n /\ (i - 1) + 1 = i
      BY <2>3
    <3> QED BY <1>3, <2>1, <2>3, <3>1 DEF Before
  <2> QED BY <2>2, <2>3
<1>5. \A i \in 1..(n + 1) : Fits(f[i], Before(f, r, i), e)
  BY <1>3 DEF Chain
<1>6. ASSUME NEW i \in 1..n PROVE Fits(g[i], Before(g, f[1].next, i), e)
  <2>1. i \in 1..(n + 1) /\ i + 1 \in 1..(n + 1)
    OBVIOUS
  <2> QED BY <1>3, <1>4, <1>5, <2>1
<1>7. Fits(f[1], r, e)
  <2>1. 1 \in 1..(n + 1)
    OBVIOUS
  <2> QED BY <1>5, <2>1 DEF Before
<1>8. Before(g, f[1].next, n + 1) = Before(f, r, (n + 1) + 1)
  BY <1>4
<1>9. Chain(g, f[1].next, e)
  BY <1>2, <1>6 DEF Chain
<1> QED BY <1>1, <1>2, <1>3, <1>7, <1>8, <1>9

\* The page's stream: the handler polls only while the page listens, and its
\* events are about the last job.
StreamInv ==
    /\ job \in Jobs
    /\ handler \in [st : {"polling", "ended", "broken", "gone"}, offset : Nat]
    /\ handler.st = "polling" => events /\ handler.offset <= end
    /\ feed \in Seq(Statuses)
    /\ \A i \in 1..Len(feed) : feed[i].job = job
    /\ ~events => feed = <<>>

\* The polls: of the last job only without a stream; the answer to a poll of an
\* older job says so.
PollInv ==
    /\ poll \in [Jobs -> Requests]
    /\ timers \subseteq 1..job
    /\ \A j \in Jobs : poll[j].st # "none" => j <= job
    /\ \A j \in Jobs : poll[j].st = "ok" => poll[j].status.job = j
    /\ events => poll[job].st = "none" /\ job \notin timers

\* The cancel request: its answer names its job and brings no bytes.
CancelInv ==
    /\ cancel \in Requests
    /\ cancel.status.job <= job
    /\ cancel.st = "ok" => cancel.status.data = <<>> /\ cancel.status.truncated = FALSE
    /\ active.job \in Nat /\ active.job <= job

\* What is shown, and what the answers on their way will add.
ShownInv ==
    /\ jobLogOffset \in Nat /\ jobLogOffset <= end
    /\ Shows(text, skipped, jobLogOffset)
    /\ Chain(feed, jobLogOffset, end)
    /\ handler.st = "polling" => handler.offset = Before(feed, jobLogOffset, Len(feed) + 1)
    /\ poll[job].st = "ok" => Fits(poll[job].status, jobLogOffset, end)

\* Who may be asking is fixed whatever was applied; what is shown is right until
\* an answer about an older job is applied.
ViewInv ==
    /\ RingInv
    /\ StreamInv /\ PollInv /\ CancelInv
    /\ ~crossed => ShownInv

-------------------------------------------------------------------------------
(* Steps *)

\* What applyJobStatus does besides the text.
LEMMA ApplyEffect ==
    ASSUME NEW s, NEW again, ApplyJobStatus(s, again)
    PROVE  /\ active'.job = s.job /\ ShowLog(s)
           /\ ~crossed' => ~crossed /\ s.job = job
           /\ \/ s.st = "terminal" /\ CloseEvents /\ timers' \subseteq timers
              \/ s.st # "terminal" /\ UNCHANGED <<events, handler>> /\ timers' = timers \cup again
<1>1. active'.job = s.job /\ ShowLog(s)
  BY DEF ApplyJobStatus
<1>2. ~crossed' => ~crossed /\ s.job = job
  BY Zenon DEF ApplyJobStatus
<1>3. CASE s.st = "terminal"
  BY <1>1, <1>2, <1>3 DEF ApplyJobStatus, ClearTimer
<1>4. CASE s.st # "terminal"
  BY <1>1, <1>2, <1>4 DEF ApplyJobStatus
<1> QED BY <1>3, <1>4

\* A part of the invariant that a step does not disturb.
LEMMA StreamKept ==
    ASSUME StreamInv, UNCHANGED <<job, handler, feed, events, end>>
    PROVE  StreamInv'
  BY DEF StreamInv

LEMMA StreamClosed ==
    ASSUME StreamInv, CloseEvents, job' = job
    PROVE  StreamInv'
<1>1. /\ handler' = [st |-> "gone", offset |-> 0] /\ feed' = <<>> /\ events' = FALSE
  BY DEF CloseEvents
<1>2. <<>> \in Seq(Statuses) /\ Len(<<>>) = 0
  OBVIOUS
<1> QED BY <1>1, <1>2 DEF StreamInv

LEMMA PollKept ==
    ASSUME PollInv, UNCHANGED <<job, poll>>, timers' \subseteq timers, events' = events \/ events' = FALSE
    PROVE  PollInv'
<1>1. events' => events
  OBVIOUS
<1>2. job' = job /\ poll' = poll
  OBVIOUS
<1>3. events' => poll'[job'].st = "none" /\ job' \notin timers'
  BY <1>1, <1>2 DEF PollInv
<1>4. timers' \subseteq 1..job'
  BY <1>2 DEF PollInv
<1> QED BY <1>2, <1>3, <1>4 DEF PollInv

LEMMA CancelKept ==
    ASSUME CancelInv, UNCHANGED <<job, cancel, active>>
    PROVE  CancelInv'
  BY DEF CancelInv

\* What is shown is right of what the stream and the polls still bring.
LEMMA ShownKept ==
    ASSUME ShownInv, UNCHANGED <<end, jobLogOffset, text, skipped, handler, feed, poll, job>>
    PROVE  ShownInv'
  BY DEF ShownInv

LEMMA ShownClosed ==
    ASSUME CloseEvents, end' \in Nat, jobLogOffset' \in Nat, jobLogOffset' <= end',
           Shows(text', skipped', jobLogOffset'), poll'[job'].st # "ok"
    PROVE  ShownInv'
<1>1. feed' = <<>> /\ handler'.st = "gone"
  BY DEF CloseEvents
<1>2. Chain(feed', jobLogOffset', end')
  BY <1>1, ChainEmpty
<1> QED BY <1>1, <1>2 DEF ShownInv

-------------------------------------------------------------------------------

LEMMA HandlerPollsStep ==
    ASSUME ViewInv, HandlerPolls
    PROVE  StreamInv' /\ PollInv' /\ CancelInv' /\ (~crossed' => ShownInv')
<1>1. /\ RingInv /\ StreamInv /\ PollInv /\ CancelInv
      /\ ~crossed => ShownInv
  BY DEF ViewInv
<1>2. job \in Nat /\ StreamChunk \in Nat \ {0} /\ end \in Nat
  BY <1>1, ViewAssumption DEF StreamInv, Jobs, RingInv
<1>3. handler.st = "polling" /\ handler.offset \in Nat /\ handler.offset <= end /\ events
  BY <1>1 DEF HandlerPolls, StreamInv
<1>4. PICK s : s = StatusFrom(handler.offset, StreamChunk)
  OBVIOUS
<1>5. s \in Statuses /\ s.job = job /\ Fits(s, handler.offset, end)
  BY <1>1, <1>2, <1>3, <1>4, StatusFits
<1>6. s.next \in Nat /\ s.next <= end
  BY <1>5 DEF Statuses, Fits
<1>7. /\ feed' = Append(feed, s)
      /\ handler' = [st |-> IF s.st = "terminal" THEN "ended" ELSE "polling", offset |-> s.next]
      /\ UNCHANGED <<end, job, poll, cancel, events, timers, active, jobLogOffset, text, skipped, crossed>>
  BY <1>4 DEF HandlerPolls, viewVars, guestVars, logVars
<1>8. feed \in Seq(Statuses) /\ \A i \in 1..Len(feed) : feed[i].job = job
  BY <1>1 DEF StreamInv
<1>9. feed' \in Seq(Statuses)
  BY <1>5, <1>7, <1>8
<1>10. \A i \in 1..Len(feed') : feed'[i].job = job
  <2>1. Len(feed') = Len(feed) + 1 /\ feed'[Len(feed) + 1] = s /\ \A i \in 1..Len(feed) : feed'[i] = feed[i]
    BY <1>7, <1>8
  <2> QED BY <1>5, <1>8, <2>1
<1>11. StreamInv'
  <2>1. handler' \in [st : {"polling", "ended", "broken", "gone"}, offset : Nat] /\ handler'.offset = s.next
    BY <1>6, <1>7
  <2> QED BY <1>1, <1>3, <1>6, <1>7, <1>9, <1>10, <2>1 DEF StreamInv
<1>12. PollInv' /\ CancelInv'
  BY <1>1, <1>7, PollKept, CancelKept
<1>13. ASSUME ~crossed' PROVE ShownInv'
  <2>1. ShownInv
    BY <1>1, <1>7, <1>13
  <2>2. /\ Chain(feed, jobLogOffset, end) /\ handler.offset = Before(feed, jobLogOffset, Len(feed) + 1)
    BY <1>3, <2>1 DEF ShownInv
  <2>3. /\ Chain(feed', jobLogOffset, end) /\ Before(feed', jobLogOffset, Len(feed') + 1) = s.next
    BY <1>5, <1>7, <1>8, <2>2, ChainAppend
  <2>4. handler'.offset = s.next
    BY <1>7
  <2> QED BY <1>7, <2>1, <2>3, <2>4 DEF ShownInv
<1> QED BY <1>11, <1>12, <1>13

LEMMA StreamBreaksStep ==
    ASSUME ViewInv, StreamBreaks
    PROVE  StreamInv' /\ PollInv' /\ CancelInv' /\ (~crossed' => ShownInv')
<1>1. /\ StreamInv /\ PollInv /\ CancelInv
      /\ ~crossed => ShownInv
  BY DEF ViewInv
<1>2. /\ handler' = [handler EXCEPT !.st = "broken"]
      /\ UNCHANGED <<end, job, poll, cancel, events, timers, active, jobLogOffset, text, skipped, crossed>>
  BY DEF StreamBreaks, viewVars, guestVars, logVars
<1>3. PICK n \in 0..Len(feed) : feed' = SubSeq(feed, 1, n)
  BY DEF StreamBreaks
<1>4. feed \in Seq(Statuses) /\ \A i \in 1..Len(feed) : feed[i].job = job
  BY <1>1 DEF StreamInv
<1>5. feed' \in Seq(Statuses) /\ Len(feed') = n /\ \A i \in 1..n : feed'[i] = feed[i]
  BY <1>3, <1>4
<1>6. feed = <<>> => feed' = <<>>
  BY <1>3, <1>5
<1>7. handler' \in [st : {"polling", "ended", "broken", "gone"}, offset : Nat] /\ handler'.st = "broken"
  BY <1>1, <1>2 DEF StreamInv
<1>8. \A i \in 1..Len(feed') : feed'[i].job = job
  BY <1>4, <1>5
<1>9. StreamInv'
  BY <1>1, <1>2, <1>5, <1>6, <1>7, <1>8 DEF StreamInv
<1>10. PollInv' /\ CancelInv'
  BY <1>1, <1>2, PollKept, CancelKept
<1>11. ASSUME ~crossed' PROVE ShownInv'
  <2>1. ShownInv
    BY <1>1, <1>2, <1>11
  <2>2. Chain(feed, jobLogOffset, end)
    BY <2>1 DEF ShownInv
  <2>3. Chain(feed', jobLogOffset, end)
    BY <1>3, <1>4, <2>2, ChainPrefix
  <2> QED BY <1>2, <1>7, <2>1, <2>3 DEF ShownInv
<1> QED BY <1>9, <1>10, <1>11

LEMMA EventArrivesStep ==
    ASSUME ViewInv, EventArrives
    PROVE  StreamInv' /\ PollInv' /\ CancelInv' /\ (~crossed' => ShownInv')
<1>1. /\ RingInv /\ StreamInv /\ PollInv /\ CancelInv
      /\ ~crossed => ShownInv
  BY DEF ViewInv
<1>2. /\ events /\ feed # <<>> /\ feed \in Seq(Statuses) /\ end \in Nat /\ job \in Jobs
      /\ \A i \in 1..Len(feed) : feed[i].job = job
  BY <1>1 DEF EventArrives, StreamInv, RingInv
<1>3. PICK s : s = Head(feed)
  OBVIOUS
<1>4. s \in Statuses /\ s.job = job
  BY <1>2, <1>3
<1>5. /\ active'.job = s.job /\ ShowLog(s)
      /\ ~crossed' => ~crossed /\ s.job = job
      /\ \/ s.st = "terminal" /\ CloseEvents /\ timers' \subseteq timers
         \/ s.st # "terminal" /\ UNCHANGED <<events, handler>> /\ timers' = timers \cup {}
  BY <1>3, ApplyEffect DEF EventArrives
<1>6. UNCHANGED <<end, job, poll, cancel>> /\ (s.st # "terminal" => feed' = Tail(feed))
  BY <1>3 DEF EventArrives, guestVars, logVars
<1>7. CancelInv'
  BY <1>1, <1>2, <1>4, <1>5, <1>6 DEF CancelInv, Jobs
<1>8. timers' \subseteq timers /\ (events' = events \/ events' = FALSE)
  BY <1>5 DEF CloseEvents
<1>9. PollInv'
  BY <1>1, <1>6, <1>8, PollKept
<1>10. poll'[job'].st = "none"
  BY <1>1, <1>2, <1>6 DEF PollInv
<1>11. ASSUME ~crossed'
       PROVE  /\ jobLogOffset \in Nat /\ Chain(feed, jobLogOffset, end) /\ Shows(text, skipped, jobLogOffset)
              /\ handler.st = "polling" => handler.offset = Before(feed, jobLogOffset, Len(feed) + 1)
  BY <1>1, <1>5, <1>11 DEF ShownInv
<1>12. ASSUME ~crossed'
       PROVE  Fits(s, jobLogOffset, end) /\ Chain(Tail(feed), s.next, end)
              /\ Before(Tail(feed), s.next, Len(Tail(feed)) + 1) = Before(feed, jobLogOffset, Len(feed) + 1)
  BY <1>2, <1>3, <1>11, <1>12, ChainTail
<1>13. ASSUME ~crossed'
       PROVE  jobLogOffset' = s.next /\ Shows(text', skipped', s.next) /\ s.next \in Nat /\ s.next <= end
  <2>1. jobLogOffset' = s.next /\ Shows(text', skipped', s.next)
    BY <1>4, <1>5, <1>11, <1>12, <1>13, ShowFits
  <2>2. s.next \in Nat /\ s.next <= end
    BY <1>4, <1>12, <1>13 DEF Statuses, Fits
  <2> QED BY <2>1, <2>2
<1>14. CASE s.st = "terminal"
  <2>1. CloseEvents
    BY <1>5, <1>14
  <2>2. StreamInv'
    BY <1>1, <1>6, <2>1, StreamClosed
  <2>3. ASSUME ~crossed' PROVE ShownInv'
    BY <1>2, <1>6, <1>10, <1>13, <2>1, <2>3, ShownClosed
  <2> QED BY <1>7, <1>9, <2>2, <2>3
<1>15. CASE s.st # "terminal"
  <2>1. UNCHANGED <<events, handler>> /\ feed' = Tail(feed)
    BY <1>5, <1>6, <1>15
  <2>2. feed' \in Seq(Statuses) /\ \A i \in 1..Len(feed') : feed'[i] = feed[i + 1] /\ i + 1 \in 1..Len(feed)
    BY <1>2, <2>1
  <2>3. \A i \in 1..Len(feed') : feed'[i].job = job
    BY <1>2, <2>2
  <2>4. StreamInv'
    BY <1>1, <1>2, <1>6, <2>1, <2>2, <2>3 DEF StreamInv
  <2>5. ASSUME ~crossed' PROVE ShownInv'
    BY <1>6, <1>10, <1>11, <1>12, <1>13, <2>1, <2>5 DEF ShownInv
  <2> QED BY <1>7, <1>9, <2>4, <2>5
<1> QED BY <1>14, <1>15

LEMMA StreamErrorStep ==
    ASSUME ViewInv, StreamError
    PROVE  StreamInv' /\ PollInv' /\ CancelInv' /\ (~crossed' => ShownInv')
<1>1. /\ RingInv /\ StreamInv /\ PollInv /\ CancelInv
      /\ ~crossed => ShownInv
  BY DEF ViewInv
<1>2. /\ CloseEvents /\ timers' \subseteq timers
      /\ poll' = [poll EXCEPT ![job].st = "sent"] \/ poll' = poll
      /\ UNCHANGED <<end, job, cancel, active, jobLogOffset, text, skipped, crossed>>
  BY DEF StreamError, ClearTimer, guestVars, logVars
<1>3. /\ poll \in [Jobs -> Requests] /\ job \in Jobs /\ end \in Nat /\ poll[job].st = "none"
  BY <1>1 DEF PollInv, StreamInv, RingInv, StreamError
<1>4. StreamInv' /\ CancelInv'
  BY <1>1, <1>2, StreamClosed, CancelKept
<1>5. /\ poll' \in [Jobs -> Requests]
      /\ poll'[job].st \in {"none", "sent"}
      /\ \A j \in Jobs \ {job} : poll'[j] = poll[j]
  BY <1>2, <1>3 DEF Requests
<1>6. events' = FALSE
  BY <1>2 DEF CloseEvents
<1>7. job <= job
  BY <1>3 DEF Jobs
<1>8. PollInv'
  BY <1>1, <1>2, <1>3, <1>5, <1>6, <1>7 DEF PollInv
<1>9. ASSUME ~crossed' PROVE ShownInv'
  <2>1. ShownInv
    BY <1>1, <1>2, <1>9
  <2>2. jobLogOffset' \in Nat /\ jobLogOffset' <= end' /\ Shows(text', skipped', jobLogOffset')
    BY <1>2, <2>1 DEF ShownInv
  <2>3. poll'[job'].st # "ok" /\ end' \in Nat
    BY <1>2, <1>3, <1>5
  <2> QED BY <1>2, <2>2, <2>3, ShownClosed
<1> QED BY <1>4, <1>8, <1>9

LEMMA PollFiresStep ==
    ASSUME ViewInv, NEW j \in Jobs, PollFires(j)
    PROVE  StreamInv' /\ PollInv' /\ CancelInv' /\ (~crossed' => ShownInv')
<1>1. /\ StreamInv /\ PollInv /\ CancelInv
      /\ ~crossed => ShownInv
  BY DEF ViewInv
<1>2. /\ j \in timers /\ timers' \subseteq timers
      /\ poll' = [poll EXCEPT ![j].st = "sent"]
      /\ UNCHANGED <<end, job, handler, feed, events, cancel, active, jobLogOffset, text, skipped, crossed>>
  BY DEF PollFires, guestVars, logVars
<1>3. poll \in [Jobs -> Requests] /\ job \in Jobs /\ timers \subseteq 1..job
  BY <1>1 DEF PollInv, StreamInv
<1>4. StreamInv' /\ CancelInv'
  BY <1>1, <1>2, StreamKept, CancelKept
<1>5. /\ poll' \in [Jobs -> Requests]
      /\ poll'[j].st = "sent"
      /\ \A k \in Jobs \ {j} : poll'[k] = poll[k]
  BY <1>2, <1>3 DEF Requests
<1>6. j <= job /\ (events => j # job)
  BY <1>1, <1>2, <1>3 DEF PollInv, Jobs
<1>7. PollInv'
  BY <1>1, <1>2, <1>3, <1>5, <1>6 DEF PollInv
<1>8. ASSUME ~crossed' PROVE ShownInv'
  <2>1. ShownInv
    BY <1>1, <1>2, <1>8
  <2>2. poll'[job].st = "ok" => poll'[job] = poll[job]
    BY <1>3, <1>5
  <2> QED BY <1>2, <2>1, <2>2 DEF ShownInv
<1> QED BY <1>4, <1>7, <1>8

\* An answer about an older job names that job.
LEMMA OldFits ==
    ASSUME NEW j \in Jobs, NEW s \in OldStatus[j]
    PROVE  s \in Statuses /\ s.job = j
<1>1. PICK n \in 0..MaxBytes : \E st \in {"running", "terminal"}, c \in 0..n : s = StatusOf(j, st, n, c)
  BY DEF OldStatus
<1>2. PICK st \in {"running", "terminal"}, c \in 0..n : s = StatusOf(j, st, n, c)
  BY <1>1
<1>3. n \in Nat /\ c \in Nat /\ c <= n /\ j \in Nat
  BY DEF Jobs
<1>4. PICK a, b \in Nat, cut \in BOOLEAN :
        /\ a <= b
        /\ s = [job |-> j, st |-> st, offset |-> a, data |-> Bytes(a, b), next |-> b, truncated |-> cut]
  BY <1>3, <1>2, StatusRuns
<1>5. Bytes(a, b) \in Seq(Nat)
  BY <1>4, BytesEntries
<1> QED BY <1>3, <1>4, <1>5 DEF Statuses

\* The answer to a cancel names the job, and brings no bytes.
LEMMA CancelFits ==
    ASSUME RingInv, NEW j \in Nat, NEW s \in CancelStatus(j)
    PROVE  s \in Statuses /\ s.job = j /\ s.data = <<>> /\ s.truncated = FALSE
<1>1. state \in {"running", "terminal"}
  BY DEF RingInv
<1>2. PICK st \in {"running", "terminal"} : s = [NoStatus EXCEPT !.job = j, !.st = st]
  BY <1>1 DEF CancelStatus
<1>3. <<>> \in Seq(Nat)
  OBVIOUS
<1> QED BY <1>2, <1>3 DEF NoStatus, Statuses

LEMMA PollAnsweredStep ==
    ASSUME ViewInv, NEW j \in Jobs, PollAnswered(j)
    PROVE  StreamInv' /\ PollInv' /\ CancelInv' /\ (~crossed' => ShownInv')
<1>1. /\ RingInv /\ StreamInv /\ PollInv /\ CancelInv
      /\ ~crossed => ShownInv
  BY DEF ViewInv
<1>2. /\ poll[j].st = "sent"
      /\ UNCHANGED <<end, job, handler, feed, events, timers, cancel, active, jobLogOffset, text, skipped, crossed>>
  BY DEF PollAnswered, viewVars, guestVars, logVars
<1>3. /\ poll \in [Jobs -> Requests] /\ job \in Jobs /\ job \in Nat /\ j \in Nat /\ j <= job
      /\ PollChunk \in Nat \ {0} /\ end \in Nat /\ (events => j # job)
  BY <1>1, <1>2, ViewAssumption DEF PollInv, StreamInv, Jobs, RingInv
<1>4. StreamInv' /\ CancelInv'
  BY <1>1, <1>2, StreamKept, CancelKept
<1>5. CASE poll' = [poll EXCEPT ![j].st = "error"]
  <2>1. /\ poll' \in [Jobs -> Requests]
        /\ poll'[j].st = "error"
        /\ \A k \in Jobs \ {j} : poll'[k] = poll[k]
    BY <1>3, <1>5 DEF Requests
  <2>2. PollInv'
    BY <1>1, <1>2, <1>3, <2>1 DEF PollInv
  <2>3. ASSUME ~crossed' PROVE ShownInv'
    <3>1. ShownInv
      BY <1>1, <1>2, <2>3
    <3>2. poll'[job].st = "ok" => poll'[job] = poll[job]
      BY <1>3, <2>1
    <3> QED BY <1>2, <3>1, <3>2 DEF ShownInv
  <2> QED BY <1>4, <2>2, <2>3
<1>6. ASSUME NEW s \in Statuses, poll' = [poll EXCEPT ![j] = [st |-> "ok", status |-> s]],
             s.job = j, ~crossed /\ j = job => Fits(s, jobLogOffset, end)
      PROVE  PollInv' /\ (~crossed' => ShownInv')
  <2>1. /\ poll' \in [Jobs -> Requests]
        /\ poll'[j].st = "ok" /\ poll'[j].status = s
        /\ \A k \in Jobs \ {j} : poll'[k] = poll[k]
    BY <1>3, <1>6 DEF Requests
  <2>2. PollInv'
    BY <1>1, <1>2, <1>3, <1>6, <2>1 DEF PollInv
  <2>3. ASSUME ~crossed' PROVE ShownInv'
    <3>1. ShownInv /\ ~crossed
      BY <1>1, <1>2, <2>3
    <3>2. CASE j = job
      BY <1>2, <1>6, <2>1, <3>1, <3>2 DEF ShownInv
    <3>3. CASE j # job
      <4>1. poll'[job] = poll[job]
        BY <1>3, <2>1, <3>3
      <4> QED BY <1>2, <3>1, <4>1 DEF ShownInv
    <3> QED BY <3>2, <3>3
  <2> QED BY <2>2, <2>3
<1>7. ASSUME NEW s \in IF j # job THEN {[NoStatus EXCEPT !.job = j]}
                       ELSE {StatusFrom(c, PollChunk) : c \in {PollCursor} \cap 0..end},
             poll' = [poll EXCEPT ![j] = [st |-> "ok", status |-> s]]
      PROVE  PollInv' /\ (~crossed' => ShownInv')
  <2>1. CASE j # job
    <3>1. s = [NoStatus EXCEPT !.job = j] /\ <<>> \in Seq(Nat)
      BY <1>7, <2>1
    <3>2. s \in Statuses /\ s.job = j
      BY <1>3, <3>1 DEF NoStatus, Statuses
    <3> QED BY <1>6, <1>7, <2>1, <3>2
  <2>2. CASE j = job
    <3>1. PICK c \in {PollCursor} \cap 0..end : s = StatusFrom(c, PollChunk)
      BY <1>7, <2>2
    <3>2. c = jobLogOffset /\ c \in Nat /\ c <= end
      BY <1>3 DEF PollCursor
    <3>3. s \in Statuses /\ s.job = job /\ Fits(s, jobLogOffset, end)
      BY <1>1, <1>3, <3>1, <3>2, StatusFits
    <3> QED BY <1>6, <1>7, <2>2, <3>3
  <2> QED BY <2>1, <2>2
<1>8. PollInv' /\ (~crossed' => ShownInv')
  BY <1>5, <1>7 DEF PollAnswered
<1> QED BY <1>4, <1>8

\* The answer to a poll names the job it was about; of the last job it is the
\* one that came.
LEMMA AnswersFit ==
    ASSUME PollInv, NEW j \in Jobs, poll[j].st = "ok", NEW s \in Answers(j)
    PROVE  s \in Statuses /\ s.job = j /\ (j = job => s = poll[j].status)
<1>1. j \in Nat /\ poll \in [Jobs -> Requests] /\ poll[j].status.job = j
  BY DEF PollInv, Jobs
<1>2. CASE j # job
  BY <1>1, <1>2, OldFits DEF Answers
<1>3. CASE j = job
  BY <1>1, <1>3 DEF Answers, Requests
<1> QED BY <1>2, <1>3

LEMMA PollReturnsStep ==
    ASSUME ViewInv, NEW j \in Jobs, PollReturns(j)
    PROVE  StreamInv' /\ PollInv' /\ CancelInv' /\ (~crossed' => ShownInv')
<1>1. /\ RingInv /\ StreamInv /\ PollInv /\ CancelInv
      /\ ~crossed => ShownInv
  BY DEF ViewInv
<1>2. /\ poll' = [poll EXCEPT ![j] = NoCall]
      /\ UNCHANGED <<end, job, cancel>>
      /\ poll[j].st \in {"ok", "error"}
  BY DEF PollReturns, guestVars, logVars
<1>3. /\ poll \in [Jobs -> Requests] /\ job \in Jobs /\ job \in Nat /\ j \in Nat /\ 1 <= j /\ j <= job
      /\ end \in Nat /\ (events => j # job)
  BY <1>1, <1>2 DEF PollInv, StreamInv, Jobs, RingInv
<1>4. NoCall \in Requests /\ NoCall.st = "none"
  <2>1. <<>> \in Seq(Nat)
    OBVIOUS
  <2>2. NoStatus \in Statuses
    BY <2>1 DEF NoStatus, Statuses
  <2> QED BY <2>2 DEF NoCall, Requests
<1>5. /\ poll' \in [Jobs -> Requests]
      /\ poll'[j].st = "none"
      /\ \A k \in Jobs \ {j} : poll'[k] = poll[k]
  BY <1>2, <1>3, <1>4
<1>6. CASE poll[j].st = "error" /\ UNCHANGED <<viewVars, handler, feed>>
  <2>1. UNCHANGED <<handler, feed, events, timers, active, jobLogOffset, text, skipped, crossed>>
    BY <1>6 DEF viewVars
  <2>2. StreamInv' /\ CancelInv'
    BY <1>1, <1>2, <2>1, StreamKept, CancelKept
  <2>3. PollInv'
    BY <1>1, <1>2, <1>3, <1>5, <2>1 DEF PollInv
  <2>4. ASSUME ~crossed' PROVE ShownInv'
    <3>1. ShownInv
      BY <1>1, <2>1, <2>4
    <3>2. poll'[job].st = "ok" => poll'[job] = poll[job]
      BY <1>3, <1>5
    <3> QED BY <1>2, <2>1, <3>1, <3>2 DEF ShownInv
  <2> QED BY <2>2, <2>3, <2>4
<1>7. ASSUME poll[j].st = "ok", NEW s \in Answers(j),
             ApplyJobStatus(s, {j}), s.st # "terminal" => UNCHANGED feed
      PROVE  StreamInv' /\ PollInv' /\ CancelInv' /\ (~crossed' => ShownInv')
  <2>1. s \in Statuses /\ (j = job => s = poll[j].status)
    BY <1>1, <1>7, AnswersFit
  <2>2. s.job = j
    BY <1>1, <1>7, AnswersFit
  <2>3. /\ active'.job = s.job /\ ShowLog(s)
        /\ ~crossed' => ~crossed /\ s.job = job
        /\ \/ s.st = "terminal" /\ CloseEvents /\ timers' \subseteq timers
           \/ s.st # "terminal" /\ UNCHANGED <<events, handler>> /\ timers' = timers \cup {j}
    BY <1>7, <2>1, ApplyEffect
  <2>4. CancelInv'
    BY <1>1, <1>2, <1>3, <2>2, <2>3 DEF CancelInv
  <2>5. StreamInv'
    <3>1. CASE CloseEvents
      BY <1>1, <1>2, <3>1, StreamClosed
    <3>2. CASE s.st # "terminal" /\ UNCHANGED <<events, handler>>
      <4>1. feed' = feed
        BY <1>7, <2>1, <3>2
      <4> QED BY <1>1, <1>2, <3>2, <4>1, StreamKept
    <3> QED BY <2>3, <3>1, <3>2
  <2>6. timers' \subseteq 1..job
    <3>1. timers \subseteq 1..job /\ j \in 1..job
      BY <1>1, <1>3 DEF PollInv
    <3> QED BY <2>3, <3>1
  <2>7. events' => events /\ job \notin timers'
    <3>1. CASE CloseEvents
      BY <3>1 DEF CloseEvents
    <3>2. CASE events' = events /\ timers' = timers \cup {j}
      BY <1>1, <1>3, <3>2 DEF PollInv
    <3> QED BY <2>3, <3>1, <3>2
  <2>8. PollInv'
    BY <1>1, <1>2, <1>3, <1>5, <2>6, <2>7 DEF PollInv
  <2>9. ASSUME ~crossed' PROVE ShownInv'
    <3>1. ShownInv /\ j = job /\ ~events
      BY <1>1, <1>3, <2>2, <2>3, <2>9
    <3>2. feed = <<>> /\ handler.st # "polling"
      BY <1>1, <3>1 DEF StreamInv
    <3>3. /\ jobLogOffset \in Nat /\ Shows(text, skipped, jobLogOffset) /\ Fits(s, jobLogOffset, end)
      BY <1>7, <2>1, <3>1 DEF ShownInv
    <3>4. jobLogOffset' = s.next /\ Shows(text', skipped', s.next)
      BY <2>1, <2>3, <3>3, ShowFits
    <3>5. s.next \in Nat /\ s.next <= end
      BY <2>1, <3>3 DEF Statuses, Fits
    <3>6. poll'[job'].st # "ok" /\ end' \in Nat
      BY <1>2, <1>3, <1>5, <3>1
    <3>7. CASE CloseEvents
      BY <1>2, <3>4, <3>5, <3>6, <3>7, ShownClosed
    <3>8. CASE s.st # "terminal" /\ UNCHANGED <<events, handler>>
      <4>1. feed' = <<>> /\ handler'.st # "polling"
        BY <1>7, <2>1, <3>2, <3>8
      <4>2. Chain(feed', jobLogOffset', end')
        BY <4>1, ChainEmpty
      <4> QED BY <1>2, <3>4, <3>5, <3>6, <4>1, <4>2 DEF ShownInv
    <3> QED BY <2>3, <3>7, <3>8
  <2> QED BY <2>4, <2>5, <2>8, <2>9
<1> QED BY <1>6, <1>7 DEF PollReturns

LEMMA CancelRequestStep ==
    ASSUME ViewInv, CancelSent \/ CancelAnswered
    PROVE  StreamInv' /\ PollInv' /\ CancelInv' /\ (~crossed' => ShownInv')
<1>1. /\ RingInv /\ StreamInv /\ PollInv /\ CancelInv
      /\ ~crossed => ShownInv
  BY DEF ViewInv
<1>2. /\ UNCHANGED <<end, job, poll, handler, feed, events, timers, active, jobLogOffset, text, skipped, crossed>>
  BY DEF CancelSent, CancelAnswered, viewVars, guestVars, logVars
<1>3. StreamInv' /\ PollInv'
  BY <1>1, <1>2, StreamKept, PollKept
<1>4. ~crossed' => ShownInv'
  BY <1>1, <1>2, ShownKept
<1>5. /\ job \in Nat /\ active.job \in Nat /\ active.job <= job
      /\ cancel \in Requests /\ cancel.status.job \in Nat /\ cancel.status.job <= job
      /\ state \in {"running", "terminal"}
  BY <1>1 DEF StreamInv, CancelInv, Jobs, Requests, Statuses, RingInv
<1>6. <<>> \in Seq(Nat)
  OBVIOUS
<1>7. CASE CancelSent
  <2>1. cancel' = [st |-> "sent", status |-> [NoStatus EXCEPT !.job = active.job]]
    BY <1>7 DEF CancelSent
  <2>2. cancel' \in Requests /\ cancel'.st = "sent" /\ cancel'.status.job = active.job
    BY <1>5, <1>6, <2>1 DEF NoStatus, Requests, Statuses
  <2>3. CancelInv'
    BY <1>2, <1>5, <2>2 DEF CancelInv
  <2> QED BY <1>3, <1>4, <2>3
<1>8. CASE CancelAnswered
  <2>1. ASSUME cancel' = [cancel EXCEPT !.st = "error"] PROVE CancelInv'
    <3>1. cancel' \in Requests /\ cancel'.st = "error" /\ cancel'.status = cancel.status
      BY <1>5, <2>1 DEF Requests
    <3> QED BY <1>2, <1>5, <3>1 DEF CancelInv
  <2>2. ASSUME NEW s \in CancelStatus(cancel.status.job), cancel' = [st |-> "ok", status |-> s]
        PROVE  CancelInv'
    <3>1. s \in Statuses /\ s.job <= job /\ s.data = <<>> /\ s.truncated = FALSE
      <4>1. /\ s \in Statuses /\ s.job = cancel.status.job
            /\ s.data = <<>> /\ s.truncated = FALSE
        BY <1>1, <1>5, <2>2, CancelFits
      <4> QED BY <1>5, <4>1
    <3>2. cancel' \in Requests /\ cancel'.status = s
      BY <2>2, <3>1 DEF Requests
    <3> QED BY <1>2, <1>5, <3>1, <3>2 DEF CancelInv
  <2>3. CancelInv'
    BY <1>8, <2>1, <2>2 DEF CancelAnswered
  <2> QED BY <1>3, <1>4, <2>3
<1> QED BY <1>7, <1>8

LEMMA CancelReturnsStep ==
    ASSUME ViewInv, CancelReturns
    PROVE  StreamInv' /\ PollInv' /\ CancelInv' /\ (~crossed' => ShownInv')
<1>1. /\ RingInv /\ StreamInv /\ PollInv /\ CancelInv
      /\ ~crossed => ShownInv
  BY DEF ViewInv
<1>2. cancel' = NoCall /\ UNCHANGED <<end, job, poll>>
  BY DEF CancelReturns, guestVars, logVars
<1>3. /\ job \in Nat /\ end \in Nat /\ cancel \in Requests
      /\ cancel.status \in Statuses /\ cancel.status.job \in Nat /\ cancel.status.job <= job
  BY <1>1 DEF StreamInv, CancelInv, Jobs, RingInv, Requests, Statuses
<1>4. NoCall \in Requests /\ NoCall.st = "none" /\ NoCall.status.job = 0
  <2>1. <<>> \in Seq(Nat)
    OBVIOUS
  <2>2. NoStatus \in Statuses /\ NoStatus.job = 0
    BY <2>1 DEF NoStatus, Statuses
  <2> QED BY <2>2 DEF NoCall, Requests
<1>5. CASE cancel.st = "error" /\ UNCHANGED <<viewVars, handler, feed>>
  <2>1. UNCHANGED <<handler, feed, events, timers, active, jobLogOffset, text, skipped, crossed>>
    BY <1>5 DEF viewVars
  <2>2. StreamInv' /\ PollInv'
    BY <1>1, <1>2, <2>1, StreamKept, PollKept
  <2>3. ~crossed' => ShownInv'
    BY <1>1, <1>2, <2>1, ShownKept
  <2>4. CancelInv'
    BY <1>1, <1>2, <1>3, <1>4, <2>1 DEF CancelInv
  <2> QED BY <2>2, <2>3, <2>4
<1>6. CASE /\ cancel.st = "ok"
           /\ ApplyJobStatus(cancel.status, {})
           /\ cancel.status.st # "terminal" => UNCHANGED feed
  <2>1. PICK s \in Statuses : s = cancel.status
    BY <1>3
  <2>2. s.data = <<>> /\ s.truncated = FALSE
    BY <1>1, <1>6, <2>1 DEF CancelInv
  <2>3. /\ active'.job = s.job /\ ShowLog(s)
        /\ ~crossed' => ~crossed /\ s.job = job
        /\ \/ s.st = "terminal" /\ CloseEvents /\ timers' \subseteq timers
           \/ s.st # "terminal" /\ UNCHANGED <<events, handler>> /\ timers' = timers \cup {}
    BY <1>6, <2>1, ApplyEffect
  <2>4. UNCHANGED <<text, skipped, jobLogOffset>>
    BY <2>2, <2>3, ShowNothing
  <2>5. CancelInv'
    BY <1>2, <1>3, <1>4, <2>1, <2>3 DEF CancelInv
  <2>6. timers' \subseteq timers /\ (events' = events \/ events' = FALSE)
    BY <2>3 DEF CloseEvents
  <2>7. PollInv'
    BY <1>1, <1>2, <2>6, PollKept
  <2>8. CASE CloseEvents
    <3>1. StreamInv'
      BY <1>1, <1>2, <2>8, StreamClosed
    <3>2. ASSUME ~crossed' PROVE ShownInv'
      <4>1. ShownInv
        BY <1>1, <2>3, <3>2
      <4>2. feed' = <<>> /\ handler'.st = "gone"
        BY <2>8 DEF CloseEvents
      <4>3. Chain(feed', jobLogOffset', end')
        BY <4>2, ChainEmpty
      <4> QED BY <1>2, <2>4, <4>1, <4>2, <4>3 DEF ShownInv
    <3> QED BY <2>5, <2>7, <3>1, <3>2
  <2>9. CASE s.st # "terminal" /\ UNCHANGED <<events, handler>>
    <3>1. feed' = feed
      BY <1>6, <2>1, <2>9
    <3>2. StreamInv'
      BY <1>1, <1>2, <2>9, <3>1, StreamKept
    <3>3. ASSUME ~crossed' PROVE ShownInv'
      BY <1>1, <1>2, <2>3, <2>4, <2>9, <3>1, <3>3, ShownKept
    <3> QED BY <2>5, <2>7, <3>2, <3>3
  <2> QED BY <2>3, <2>8, <2>9
<1> QED BY <1>5, <1>6 DEF CancelReturns

LEMMA StartJobStep ==
    ASSUME ViewInv, StartJob
    PROVE  StreamInv' /\ PollInv' /\ CancelInv' /\ (~crossed' => ShownInv')
<1>1. StreamInv /\ PollInv /\ CancelInv
  BY DEF ViewInv
<1>2. /\ job < MaxJobs /\ job' = job + 1
      /\ active'.job = job + 1
      /\ timers' \subseteq timers
      /\ feed' = <<>> /\ events' = TRUE
      /\ UNCHANGED <<poll, cancel>>
  BY DEF StartJob, ClearTimer
<1>3. PICK n, a, b \in Nat :
        /\ a <= b /\ b <= n /\ end' = n
        /\ jobLogOffset' = b /\ text' = Bytes(a, b) /\ skipped' = 1..a
        /\ handler' = [st |-> "polling", offset |-> b]
  BY StartEffect
<1>4. job \in Jobs /\ MaxJobs \in Nat /\ poll \in [Jobs -> Requests] /\ timers \subseteq 1..job
  BY <1>1, ViewAssumption DEF StreamInv, PollInv
<1>5. PICK last \in Nat : last = job
  BY <1>4 DEF Jobs
<1>6. /\ job' = last + 1 /\ last + 1 \in Jobs /\ ~(last + 1 <= last) /\ last + 1 \notin 1..last /\ 1..last \subseteq 1..(last + 1)
      /\ \A k \in Nat : k <= last => k <= last + 1
  BY <1>2, <1>4, <1>5 DEF Jobs
<1>7. StreamInv'
  <2>1. <<>> \in Seq(Statuses) /\ Len(<<>>) = 0
    OBVIOUS
  <2> QED BY <1>2, <1>6, <1>3, <2>1 DEF StreamInv
<1>8. poll[last + 1].st = "none"
  BY <1>1, <1>5, <1>6 DEF PollInv
<1>9. PollInv'
  <2>1. \A j \in Jobs : j \in Nat
    BY DEF Jobs
  <2>2. timers' \subseteq 1..job' /\ job' \notin timers'
    BY <1>2, <1>4, <1>5, <1>6
  <2>3. \A j \in Jobs : poll'[j].st # "none" => j <= job'
    BY <1>1, <1>2, <1>5, <1>6, <2>1 DEF PollInv
  <2> QED BY <1>1, <1>2, <1>6, <1>8, <2>2, <2>3 DEF PollInv
<1>10. CancelInv'
  <2>1. cancel.status.job \in Nat /\ cancel.status.job <= last
    BY <1>1, <1>5 DEF CancelInv, Requests, Statuses
  <2> QED BY <1>1, <1>2, <1>6, <2>1 DEF CancelInv
<1>11. ShownInv'
  <2>1. Shows(Bytes(a, b), 1..a, b)
    <3>1. <<>> \in Seq(Nat) /\ 0 \in Nat /\ 0 <= a
      OBVIOUS
    <3>2. Shows(<<>> \o Bytes(a, b), {} \cup (0 + 1)..a, b)
      BY <1>3, <3>1, ShowsEmpty, ShowsMore
    <3>3. <<>> \o Bytes(a, b) = Bytes(a, b)
      <4>1. PICK t \in Seq(Nat) : t = Bytes(a, b)
        BY <1>3, BytesEntries
      <4>2. <<>> \o t = t
        OBVIOUS
      <4> QED BY <4>1, <4>2
    <3>4. {} \cup (0 + 1)..a = 1..a
      OBVIOUS
    <3> QED BY <3>2, <3>3, <3>4
  <2>2. /\ Chain(feed', jobLogOffset', end')
        /\ Before(feed', jobLogOffset', Len(feed') + 1) = jobLogOffset'
    BY <1>2, ChainEmpty
  <2>3. jobLogOffset' \in Nat /\ jobLogOffset' <= end' /\ Shows(text', skipped', jobLogOffset')
    BY <1>3, <2>1
  <2>4. handler'.offset = jobLogOffset' /\ ~(poll'[job'].st = "ok")
    BY <1>2, <1>5, <1>6, <1>8, <1>3
  <2> QED BY <2>2, <2>3, <2>4 DEF ShownInv
<1> QED BY <1>7, <1>9, <1>10, <1>11

\* The guest's log only grows: what was right stays right.
LEMMA GuestViewStep ==
    ASSUME ViewInv, GuestStep, UNCHANGED <<job, handler, feed, poll, cancel, viewVars, ghosts>>
    PROVE  StreamInv' /\ PollInv' /\ CancelInv' /\ (~crossed' => ShownInv')
<1>1. /\ RingInv /\ StreamInv /\ PollInv /\ CancelInv
      /\ ~crossed => ShownInv
  BY DEF ViewInv
<1>2. UNCHANGED <<job, handler, feed, poll, cancel, events, timers, active, jobLogOffset, text, skipped, crossed>>
  BY DEF viewVars
<1>3. end \in Nat /\ end' \in Nat /\ end <= end'
  BY <1>1, GuestEffect DEF RingInv
<1>4. StreamInv'
  BY <1>1, <1>2, <1>3 DEF StreamInv
<1>5. PollInv' /\ CancelInv'
  BY <1>1, <1>2, PollKept, CancelKept
<1>6. ASSUME ~crossed' PROVE ShownInv'
  <2>1. ShownInv
    BY <1>1, <1>2, <1>6
  <2>2. feed \in Seq(Statuses) /\ poll[job].status.next \in Nat
    BY <1>1 DEF StreamInv, PollInv, Requests, Statuses
  <2>3. Chain(feed, jobLogOffset, end')
    BY <1>3, <2>1, <2>2, ChainLonger DEF ShownInv
  <2>4. poll[job].st = "ok" => Fits(poll[job].status, jobLogOffset, end')
    BY <1>3, <2>1, <2>2 DEF ShownInv, Fits
  <2>5. jobLogOffset <= end'
    BY <1>3, <2>1 DEF ShownInv
  <2> QED BY <1>2, <2>1, <2>3, <2>4, <2>5 DEF ShownInv
<1> QED BY <1>4, <1>5, <1>6

-------------------------------------------------------------------------------

LEMMA ViewInit ==
    ASSUME Init
    PROVE  ViewInv
<1>1. RingInv
  BY RingInit DEF Init, GuestInit
<1>2. <<>> \in Seq(Nat) /\ <<>> \in Seq(Statuses) /\ Len(<<>>) = 0
  OBVIOUS
<1>3. NoStatus \in Statuses /\ NoStatus.job = 0
  BY <1>2 DEF NoStatus, Statuses
<1>4. NoCall \in Requests /\ NoCall.st = "none" /\ NoCall.status.job = 0
  BY <1>3 DEF NoCall, Requests
<1>5. 1 \in Jobs
  BY ViewAssumption DEF Jobs
<1>6. StreamInv
  BY <1>1, <1>2, <1>5 DEF Init, StreamInv, RingInv
<1>7. PollInv
  <2>1. poll = [j \in Jobs |-> NoCall] /\ job = 1 /\ timers = {}
    BY DEF Init
  <2> QED BY <1>4, <1>5, <2>1 DEF PollInv
<1>8. CancelInv
  <2>1. cancel = NoCall /\ job = 1 /\ active.job = 1
    BY DEF Init
  <2> QED BY <1>4, <2>1 DEF CancelInv
<1>9. ShownInv
  <2>1. /\ poll[job].st = "none" /\ feed = <<>> /\ handler.offset = 0 /\ end = 0
        /\ jobLogOffset = 0 /\ text = <<>> /\ skipped = {}
    BY <1>4, <1>5 DEF Init, GuestInit
  <2>2. Chain(feed, jobLogOffset, end) /\ Before(feed, jobLogOffset, Len(feed) + 1) = jobLogOffset
    BY <2>1, ChainEmpty
  <2> QED BY <2>1, <2>2, ShowsEmpty DEF ShownInv
<1> QED BY <1>1, <1>6, <1>7, <1>8, <1>9 DEF ViewInv

LEMMA ViewStep ==
    ASSUME ViewInv, [Next]_vars
    PROVE  ViewInv'
<1>1. RingInv'
  BY RingStep DEF ViewInv
<1>2. CASE UNCHANGED vars
  <2>1. /\ UNCHANGED <<end, job, handler, feed, poll, cancel, events, timers, active, jobLogOffset,
                       text, skipped, crossed>>
    BY <1>2 DEF vars, viewVars, guestVars, logVars
  <2>2. StreamInv' /\ PollInv' /\ CancelInv'
    BY <2>1, StreamKept, PollKept, CancelKept DEF ViewInv
  <2>3. ~crossed' => ShownInv'
    BY <2>1, ShownKept DEF ViewInv
  <2> QED BY <1>1, <2>2, <2>3 DEF ViewInv
<1>3. CASE Next
  <2>1. StreamInv' /\ PollInv' /\ CancelInv' /\ (~crossed' => ShownInv')
    BY <1>3, HandlerPollsStep, StreamBreaksStep, EventArrivesStep, StreamErrorStep, PollFiresStep,
       PollAnsweredStep, PollReturnsStep, CancelRequestStep, CancelReturnsStep, StartJobStep,
       GuestViewStep
       DEF Next, FollowStep, CancelStep
  <2> QED BY <1>1, <2>1 DEF ViewInv
<1> QED BY <1>2, <1>3

\* The page shows a job's bytes in order, none twice, and admits every byte it
\* does not show, however the stream breaks, polls take over and cancels cross
\* them, until the answer about an older job is applied: applyJobStatus, the
\* events handler and LogRing::slice agree for all sizes and chunks.
THEOREM ViewAlwaysExact == Spec => []ViewExact
<1>1. Init => ViewInv
  BY ViewInit
<1>2. ViewInv /\ [Next]_vars => ViewInv'
  BY ViewStep
<1>3. ViewInv => ViewExact
  BY DEF ViewInv, ViewExact, ShownInv, Shows
<1> QED BY <1>1, <1>2, <1>3, PTL DEF Spec

-------------------------------------------------------------------------------
(* The page as a reader of the log *)

\* A status about the last job admits only bytes that the ring has dropped.
Honest(s) == s.truncated => s.offset <= start

HonestInv ==
    /\ crossed \in BOOLEAN
    /\ \A i \in 1..Len(feed) : Honest(feed[i])
    /\ poll[job].st = "ok" => Honest(poll[job].status)

ReaderInv == ViewInv /\ HonestInv

\* The guest's answer says so only of what is dropped.
LEMMA StatusHonest ==
    ASSUME start \in Nat, NEW r \in Nat, NEW chunk
    PROVE  Honest(StatusFrom(r, chunk))
<1>1. PICK f : f = Greatest(r, start)
  OBVIOUS
<1>2. r < start => f <= start
  BY <1>1 DEF Greatest
<1>3. StatusFrom(r, chunk).offset = f /\ StatusFrom(r, chunk).truncated = (r < start)
  BY <1>1 DEF StatusFrom, Slice
<1> QED BY <1>2, <1>3 DEF Honest

\* A step that adds no answer.
LEMMA HonestKept ==
    ASSUME HonestInv, UNCHANGED <<start, job, crossed>>, feed' = feed \/ feed' = <<>>,
           poll'[job] = poll[job] \/ poll'[job].st # "ok"
    PROVE  HonestInv'
<1>1. \A i \in 1..Len(feed') : Honest(feed'[i])
  BY DEF HonestInv
<1>2. poll'[job].st = "ok" => Honest(poll'[job].status)
  BY DEF HonestInv
<1> QED BY <1>1, <1>2 DEF HonestInv, Honest

LEMMA HandlerHonest ==
    ASSUME ReaderInv, HandlerPolls
    PROVE  HonestInv'
<1>1. HonestInv /\ RingInv /\ StreamInv
  BY DEF ReaderInv, ViewInv
<1>2. start \in Nat /\ handler.offset \in Nat /\ feed \in Seq(Statuses)
  BY <1>1 DEF RingInv, StreamInv
<1>3. PICK s : s = StatusFrom(handler.offset, StreamChunk)
  OBVIOUS
<1>4. Honest(s)
  BY <1>2, <1>3, StatusHonest
<1>5. feed' = Append(feed, s) /\ UNCHANGED <<start, job, poll, crossed>>
  BY <1>3 DEF HandlerPolls, viewVars, guestVars, logVars
<1>6. /\ Len(feed') = Len(feed) + 1 /\ feed'[Len(feed) + 1] = s
      /\ \A i \in 1..Len(feed) : feed'[i] = feed[i]
  BY <1>2, <1>5
<1>7. ASSUME NEW i \in 1..Len(feed') PROVE Honest(feed'[i])
  <2>1. CASE i \in 1..Len(feed)
    BY <1>1, <1>6, <2>1 DEF HonestInv
  <2>2. CASE i = Len(feed) + 1
    BY <1>4, <1>6, <2>2
  <2> QED BY <1>2, <1>6, <2>1, <2>2
<1> QED BY <1>1, <1>5, <1>7 DEF HonestInv, Honest

LEMMA BreakHonest ==
    ASSUME ReaderInv, StreamBreaks
    PROVE  HonestInv'
<1>1. HonestInv /\ feed \in Seq(Statuses)
  BY DEF ReaderInv, ViewInv, StreamInv
<1>2. UNCHANGED <<start, job, poll, crossed>>
  BY DEF StreamBreaks, viewVars, guestVars, logVars
<1>3. PICK n \in 0..Len(feed) : feed' = SubSeq(feed, 1, n)
  BY DEF StreamBreaks
<1>4. Len(feed') = n /\ \A i \in 1..n : feed'[i] = feed[i] /\ i \in 1..Len(feed)
  BY <1>1, <1>3
<1> QED BY <1>1, <1>2, <1>4 DEF HonestInv, Honest

LEMMA EventHonest ==
    ASSUME ReaderInv, EventArrives
    PROVE  HonestInv'
<1>1. HonestInv /\ feed \in Seq(Statuses) /\ feed # <<>>
  BY DEF ReaderInv, ViewInv, StreamInv, EventArrives
<1>2. UNCHANGED <<start, job, poll>>
  BY DEF EventArrives, guestVars, logVars
<1>3. crossed' \in BOOLEAN
  BY DEF EventArrives, ApplyJobStatus
<1>4. feed' = Tail(feed) \/ feed' = <<>>
  BY DEF EventArrives, ApplyJobStatus, CloseEvents
<1>5. ASSUME NEW i \in 1..Len(feed') PROVE Honest(feed'[i])
  <2>1. feed' = Tail(feed)
    BY <1>4, <1>5
  <2>2. feed'[i] = feed[i + 1] /\ i + 1 \in 1..Len(feed)
    BY <1>1, <2>1
  <2> QED BY <1>1, <2>2 DEF HonestInv
<1> QED BY <1>1, <1>2, <1>3, <1>5 DEF HonestInv, Honest

LEMMA AnswerHonest ==
    ASSUME ReaderInv, NEW j \in Jobs, PollAnswered(j)
    PROVE  HonestInv'
<1>1. /\ HonestInv /\ job \in Jobs /\ poll \in [Jobs -> Requests]
      /\ start \in Nat /\ end \in Nat
  BY DEF ReaderInv, ViewInv, StreamInv, PollInv, RingInv
<1>2. UNCHANGED <<start, job, feed, crossed>>
  BY DEF PollAnswered, viewVars, guestVars, logVars
<1>3. ASSUME NEW s, poll' = [poll EXCEPT ![j] = [st |-> "ok", status |-> s]], j = job => Honest(s)
      PROVE  HonestInv'
  <2>1. poll'[job].st = "ok" => Honest(poll'[job].status)
    BY <1>1, <1>3 DEF HonestInv
  <2> QED BY <1>1, <1>2, <2>1 DEF HonestInv, Honest
<1>4. ASSUME poll' = [poll EXCEPT ![j].st = "error"]
      PROVE  HonestInv'
  <2>1. poll'[job] = poll[job] \/ poll'[job].st # "ok"
    BY <1>1, <1>4 DEF Requests
  <2> QED BY <1>1, <1>2, <2>1, HonestKept
<1>5. ASSUME NEW s \in IF j # job THEN {[NoStatus EXCEPT !.job = j]}
                       ELSE {StatusFrom(c, PollChunk) : c \in {PollCursor} \cap 0..end},
             poll' = [poll EXCEPT ![j] = [st |-> "ok", status |-> s]]
      PROVE  HonestInv'
  <2>1. ASSUME j = job PROVE Honest(s)
    <3>1. PICK c \in {PollCursor} \cap 0..end : s = StatusFrom(c, PollChunk)
      BY <1>5, <2>1
    <3>2. c \in Nat
      OBVIOUS
    <3> QED BY <1>1, <3>1, <3>2, StatusHonest
  <2> QED BY <1>3, <1>5, <2>1
<1> QED BY <1>4, <1>5 DEF PollAnswered

LEMMA ReturnHonest ==
    ASSUME ReaderInv, NEW j \in Jobs, PollReturns(j)
    PROVE  HonestInv'
<1>1. HonestInv /\ job \in Jobs /\ poll \in [Jobs -> Requests]
  BY DEF ReaderInv, ViewInv, StreamInv, PollInv
<1>2. UNCHANGED <<start, job>> /\ poll' = [poll EXCEPT ![j] = NoCall]
  BY DEF PollReturns, guestVars, logVars
<1>3. crossed' \in BOOLEAN
  BY <1>1 DEF PollReturns, ApplyJobStatus, HonestInv, viewVars
<1>4. feed' = feed \/ feed' = <<>>
  BY DEF PollReturns, ApplyJobStatus, CloseEvents
<1>5. poll'[job].st = "ok" => poll'[job] = poll[job]
  BY <1>1, <1>2 DEF NoCall
<1>6. \A i \in 1..Len(feed') : Honest(feed'[i])
  BY <1>1, <1>4 DEF HonestInv
<1> QED BY <1>1, <1>2, <1>3, <1>5, <1>6 DEF HonestInv, Honest

LEMMA CancelHonest ==
    ASSUME ReaderInv, CancelStep
    PROVE  HonestInv'
<1>1. HonestInv
  BY DEF ReaderInv
<1>2. UNCHANGED <<start, job, poll>>
  BY DEF CancelStep, CancelSent, CancelAnswered, CancelReturns, guestVars, logVars
<1>3. crossed' \in BOOLEAN
  BY <1>1 DEF CancelStep, CancelSent, CancelAnswered, CancelReturns, ApplyJobStatus, HonestInv, viewVars
<1>4. feed' = feed \/ feed' = <<>>
  BY DEF CancelStep, CancelSent, CancelAnswered, CancelReturns, ApplyJobStatus, CloseEvents
<1>5. \A i \in 1..Len(feed') : Honest(feed'[i])
  BY <1>1, <1>4 DEF HonestInv
<1> QED BY <1>1, <1>2, <1>3, <1>5 DEF HonestInv, Honest

LEMMA FallbackHonest ==
    ASSUME ReaderInv, StreamError \/ \E j \in Jobs : PollFires(j)
    PROVE  HonestInv'
<1>1. HonestInv /\ job \in Jobs /\ poll \in [Jobs -> Requests]
  BY DEF ReaderInv, ViewInv, StreamInv, PollInv
<1>2. UNCHANGED <<start, job, crossed>> /\ (feed' = feed \/ feed' = <<>>)
  BY DEF StreamError, CloseEvents, PollFires, guestVars, logVars
<1>3. poll'[job] = poll[job] \/ poll'[job].st # "ok"
  <2>1. poll' = poll \/ \E j \in Jobs : poll' = [poll EXCEPT ![j].st = "sent"]
    BY <1>1 DEF StreamError, PollFires
  <2> QED BY <1>1, <2>1 DEF Requests
<1> QED BY <1>1, <1>2, <1>3, HonestKept

\* A new job starts with no answers about it on their way.
LEMMA StartHonest ==
    ASSUME ReaderInv, StartJob
    PROVE  HonestInv'
<1>1. PollInv' /\ events' = TRUE /\ feed' = <<>> /\ crossed' = FALSE
  BY StartJobStep DEF ReaderInv, StartJob
<1>2. poll'[job'].st = "none"
  BY <1>1 DEF PollInv
<1>3. 1..Len(feed') = {}
  BY <1>1
<1>4. ~(poll'[job'].st = "ok") /\ crossed' \in BOOLEAN
  BY <1>1, <1>2
<1> QED BY <1>3, <1>4, Zenon DEF HonestInv

\* What the ring has dropped stays dropped.
LEMMA GuestHonest ==
    ASSUME ReaderInv, GuestStep, UNCHANGED <<job, handler, feed, poll, cancel, viewVars, ghosts>>
    PROVE  HonestInv'
<1>1. /\ HonestInv /\ RingInv /\ StreamInv /\ PollInv
  BY DEF ReaderInv, ViewInv
<1>2. start \in Nat /\ start' \in Nat /\ start <= start'
  BY <1>1, GuestEffect DEF RingInv
<1>3. UNCHANGED <<job, feed, poll, crossed>>
  BY DEF viewVars
<1>4. feed \in Seq(Statuses) /\ poll[job].status \in Statuses
  BY <1>1 DEF StreamInv, PollInv, Requests
<1>5. ASSUME NEW i \in 1..Len(feed) PROVE Honest(feed[i])'
  <2>1. feed[i] \in Statuses /\ feed'[i] = feed[i] /\ Honest(feed[i])
    BY <1>1, <1>3, <1>4 DEF HonestInv
  <2> QED BY <1>2, <2>1 DEF Honest, Statuses
<1>6. ASSUME poll[job].st = "ok" PROVE Honest(poll[job].status)'
  <2>1. poll'[job'].status = poll[job].status /\ Honest(poll[job].status)
    BY <1>1, <1>3, <1>6 DEF HonestInv
  <2> QED BY <1>2, <1>4, <2>1 DEF Honest, Statuses
<1> QED BY <1>1, <1>3, <1>5, <1>6 DEF HonestInv

LEMMA ReaderInvStep ==
    ASSUME ReaderInv, [Next]_vars
    PROVE  ReaderInv'
<1>1. ViewInv'
  BY ViewStep DEF ReaderInv
<1>2. CASE UNCHANGED vars
  <2>1. UNCHANGED <<start, job, crossed, feed, poll>>
    BY <1>2 DEF vars, viewVars, guestVars, logVars
  <2>2. HonestInv'
    BY <2>1, HonestKept DEF ReaderInv
  <2> QED BY <1>1, <2>2 DEF ReaderInv
<1>3. CASE Next
  <2>1. HonestInv'
    BY <1>3, HandlerHonest, BreakHonest, EventHonest, AnswerHonest, ReturnHonest, CancelHonest,
       FallbackHonest, StartHonest, GuestHonest
       DEF Next, FollowStep
  <2> QED BY <1>1, <2>1 DEF ReaderInv
<1> QED BY <1>2, <1>3

\* What the reader of LogReader does at a step of the page.
ReaderMove == [Reader!ReaderNext]_(Reader!readerVars)

LEMMA ReaderRests ==
    ASSUME UNCHANGED <<start, end, jobLogOffset, text, skipped, crossed>>
    PROVE  ReaderMove
  BY DEF ReaderMove, Reader!readerVars

LEMMA ReaderStrays ==
    ASSUME crossed' = TRUE
    PROVE  ReaderMove
  BY DEF ReaderMove, Reader!ReaderNext, Reader!Stray

\* The page applies a status that is right for its cursor, and honest.
LEMMA ReaderReads ==
    ASSUME NEW s \in Statuses, RingInv, ShownInv, Fits(s, jobLogOffset, end), Honest(s), ShowLog(s),
           UNCHANGED <<start, end, crossed>>
    PROVE  ReaderMove
<1>1. PICK r \in Nat : r = jobLogOffset
  BY DEF ShownInv
<1>2. PICK a \in Nat : a = s.offset
  BY DEF Statuses
<1>3. PICK b \in Nat : b = s.next
  BY DEF Statuses
<1>4. end \in Nat /\ start \in Nat /\ text \in Seq(Nat)
  BY DEF RingInv, ShownInv, Shows
<1>5. r <= a /\ a <= b /\ b <= end /\ s.truncated = (r < a)
  BY <1>1, <1>2, <1>3 DEF Fits
<1>6. a = r \/ a <= start
  <2>1. CASE r < a
    <3>1. s.truncated
      BY <1>5, <2>1
    <3> QED BY <1>2, <3>1 DEF Honest
  <2> QED BY <1>5, <2>1
<1>7. jobLogOffset' = b /\ text' = text \o Bytes(a, b) /\ skipped' = skipped \cup (r + 1)..a
  BY <1>1, <1>2, <1>3, <1>4, ShowEffect
<1>8. Bytes(a, b) = Reader!Run(a, b)
  BY DEF Bytes, Reader!Run
<1>9. Reader!Read(a, b)
  BY <1>1, <1>6, <1>7, <1>8 DEF Reader!Read
<1>10. a \in jobLogOffset..end /\ b \in a..end
  BY <1>1, <1>4, <1>5
<1> QED BY <1>9, <1>10 DEF ReaderMove, Reader!ReaderNext

LEMMA EventReads ==
    ASSUME ReaderInv, EventArrives
    PROVE  ReaderMove
<1>1. /\ HonestInv /\ RingInv /\ StreamInv
      /\ ~crossed => ShownInv
  BY DEF ReaderInv, ViewInv
<1>2. feed # <<>> /\ feed \in Seq(Statuses) /\ UNCHANGED <<start, end>>
  BY <1>1 DEF EventArrives, StreamInv, guestVars, logVars
<1>3. PICK s : s = Head(feed)
  OBVIOUS
<1>4. s \in Statuses /\ s = feed[1] /\ 1 \in 1..Len(feed)
  BY <1>2, <1>3
<1>5. ShowLog(s) /\ (~crossed' => ~crossed)
  BY <1>3, ApplyEffect DEF EventArrives
<1>6. crossed \in BOOLEAN /\ crossed' \in BOOLEAN
  BY <1>1, EventHonest DEF HonestInv
<1>7. CASE ~crossed'
  <2>1. ShownInv /\ crossed' = crossed
    BY <1>1, <1>5, <1>6, <1>7
  <2>2. Fits(s, jobLogOffset, end)
    BY <1>2, <1>3, <2>1, ChainTail DEF ShownInv
  <2>3. Honest(s)
    BY <1>1, <1>4 DEF HonestInv
  <2> QED BY <1>1, <1>2, <1>4, <1>5, <2>1, <2>2, <2>3, ReaderReads
<1>8. CASE crossed'
  BY <1>6, <1>8, ReaderStrays
<1> QED BY <1>7, <1>8

LEMMA PollReads ==
    ASSUME ReaderInv, NEW j \in Jobs, PollReturns(j)
    PROVE  ReaderMove
<1>1. /\ HonestInv /\ RingInv /\ StreamInv /\ PollInv
      /\ ~crossed => ShownInv
  BY DEF ReaderInv, ViewInv
<1>2. UNCHANGED <<start, end>> /\ poll \in [Jobs -> Requests]
  BY <1>1 DEF PollReturns, PollInv, guestVars, logVars
<1>3. crossed \in BOOLEAN /\ crossed' \in BOOLEAN
  BY <1>1, ReturnHonest DEF HonestInv
<1>4. CASE poll[j].st = "error" /\ UNCHANGED <<viewVars, handler, feed>>
  <2>1. UNCHANGED <<jobLogOffset, text, skipped, crossed>>
    BY <1>4 DEF viewVars
  <2> QED BY <1>2, <2>1, ReaderRests
<1>5. ASSUME poll[j].st = "ok", NEW s \in Answers(j), ApplyJobStatus(s, {j})
      PROVE  ReaderMove
  <2>1. s \in Statuses /\ (j = job => s = poll[j].status)
    BY <1>1, <1>5, AnswersFit
  <2>2. s.job = j
    BY <1>1, <1>5, AnswersFit
  <2>3. ShowLog(s) /\ (~crossed' => ~crossed /\ s.job = job)
    BY <1>5, <2>1, ApplyEffect
  <2>4. CASE ~crossed'
    <3>1. ShownInv /\ crossed' = crossed /\ j = job
      BY <1>1, <1>3, <2>2, <2>3, <2>4
    <3>2. Fits(s, jobLogOffset, end)
      BY <1>5, <2>1, <3>1 DEF ShownInv
    <3>3. Honest(s)
      BY <1>1, <1>5, <2>1, <3>1 DEF HonestInv
    <3> QED BY <1>1, <1>2, <2>1, <2>3, <3>1, <3>2, <3>3, ReaderReads
  <2>5. CASE crossed'
    BY <1>3, <2>5, ReaderStrays
  <2> QED BY <2>4, <2>5
<1> QED BY <1>4, <1>5 DEF PollReturns

\* The answer to a cancel brings no bytes.
LEMMA CancelReads ==
    ASSUME ReaderInv, CancelReturns
    PROVE  ReaderMove
<1>1. HonestInv /\ CancelInv
  BY DEF ReaderInv, ViewInv
<1>2. UNCHANGED <<start, end>>
  BY DEF CancelReturns, guestVars, logVars
<1>3. crossed \in BOOLEAN /\ crossed' \in BOOLEAN
  BY <1>1, CancelHonest DEF HonestInv, CancelStep
<1>4. CASE cancel.st = "error" /\ UNCHANGED <<viewVars, handler, feed>>
  <2>1. UNCHANGED <<jobLogOffset, text, skipped, crossed>>
    BY <1>4 DEF viewVars
  <2> QED BY <1>2, <2>1, ReaderRests
<1>5. CASE cancel.st = "ok" /\ ApplyJobStatus(cancel.status, {})
  <2>1. cancel.status.data = <<>> /\ cancel.status.truncated = FALSE
    BY <1>1, <1>5 DEF CancelInv
  <2>2. ShowLog(cancel.status) /\ (~crossed' => ~crossed)
    BY <1>5, ApplyEffect
  <2>3. UNCHANGED <<text, skipped, jobLogOffset>>
    BY <2>1, <2>2, ShowNothing
  <2>4. CASE ~crossed'
    <3>1. crossed' = crossed
      BY <1>3, <2>2, <2>4
    <3> QED BY <1>2, <2>3, <3>1, ReaderRests
  <2>5. CASE crossed'
    BY <1>3, <2>5, ReaderStrays
  <2> QED BY <2>4, <2>5
<1> QED BY <1>4, <1>5 DEF CancelReturns

LEMMA StartRestarts ==
    ASSUME StartJob
    PROVE  ReaderMove
<1>1. PICK n, a, b \in Nat :
        /\ a <= b /\ b <= n /\ start' = a /\ end' = n
        /\ jobLogOffset' = b /\ text' = Bytes(a, b) /\ skipped' = 1..a
  BY StartEffect
<1>2. a \in 0..start' /\ b \in a..end' /\ {start', end'} \subseteq Nat
  BY <1>1
<1>3. text' = Reader!Run(a, b) /\ crossed' = FALSE
  BY <1>1 DEF Bytes, Reader!Run, StartJob
<1>4. Reader!Restart
  BY <1>1, <1>2, <1>3 DEF Reader!Restart
<1> QED BY <1>4 DEF ReaderMove, Reader!ReaderNext

LEMMA GuestGrows ==
    ASSUME ReaderInv, GuestStep, UNCHANGED <<job, handler, feed, poll, cancel, viewVars, ghosts>>
    PROVE  ReaderMove
<1>1. RingInv
  BY DEF ReaderInv, ViewInv
<1>2. /\ start \in Nat /\ start' \in Nat /\ start <= start'
      /\ end \in Nat /\ end' \in Nat /\ end <= end'
  BY <1>1, GuestEffect DEF RingInv
<1>3. UNCHANGED <<jobLogOffset, text, skipped, crossed>>
  BY DEF viewVars
<1>4. Reader!Grow
  BY <1>2, <1>3 DEF Reader!Grow
<1> QED BY <1>4 DEF ReaderMove, Reader!ReaderNext

\* Every step of guest, handler and page is a step of the reader, or none.
LEMMA ReaderStep ==
    ASSUME ReaderInv, [Next]_vars
    PROVE  ReaderMove
<1>1. ASSUME \/ UNCHANGED vars \/ HandlerPolls \/ StreamBreaks \/ StreamError
             \/ CancelSent \/ CancelAnswered
             \/ \E j \in Jobs : PollFires(j) \/ PollAnswered(j)
      PROVE  UNCHANGED <<start, end, jobLogOffset, text, skipped, crossed>>
  BY <1>1 DEF vars, HandlerPolls, StreamBreaks, StreamError, CancelSent, CancelAnswered, PollFires,
              PollAnswered, viewVars, guestVars, logVars
<1>2. CASE UNCHANGED vars
  BY <1>1, <1>2, ReaderRests
<1>3. CASE Next
  BY <1>1, <1>3, ReaderRests, EventReads, PollReads, CancelReads, StartRestarts, GuestGrows
     DEF Next, FollowStep, CancelStep
<1> QED BY <1>2, <1>3

\* The page's job panel implements LogReader: applyJobStatus never goes back in a
\* job's log, never shows what the log has not got, and says "truncated" only of
\* bytes the ring has dropped, for any delays between LogRing::slice and the page,
\* any sizes, breaks and jobs; but for the answers about older jobs.
THEOREM PageImplementsReader == Spec => ImplementsReader
<1>1. Init => ReaderInv
  <2>1. ASSUME Init PROVE HonestInv
    <3>1. feed = <<>> /\ crossed = FALSE
      BY <2>1 DEF Init
    <3>2. 1..Len(feed) = {}
      BY <3>1
    <3>3. ~(poll[job].st = "ok")
      BY <2>1, ViewAssumption DEF Init, Jobs, NoCall
    <3> QED BY <3>1, <3>2, <3>3, Zenon DEF HonestInv
  <2> QED BY <2>1, ViewInit DEF ReaderInv
<1>2. Init => Reader!ReaderInit
  BY DEF Init, GuestInit, Reader!ReaderInit
<1>3. ReaderInv /\ [Next]_vars => ReaderInv'
  BY ReaderInvStep
<1>4. ReaderInv /\ [Next]_vars => [Reader!ReaderNext]_(Reader!readerVars)
  BY ReaderStep DEF ReaderMove
<1> QED BY <1>1, <1>2, <1>3, <1>4, PTL DEF Spec, ImplementsReader, Reader!ReaderSpec

===============================================================================
