--------------------------- MODULE EgressProxyProofs ---------------------------
(***************************************************************************)
(* The guarantees of EgressProxy for any number of connections, hosts and  *)
(* addresses and any limits.  The invariant that carries them says, for    *)
(* each await of a handler, what was established before it: the policy has *)
(* accepted the host, DNS's whole answer was public, the ClientHello names *)
(* the host of the CONNECT.                                                *)
(***************************************************************************)
EXTENDS EgressProxy, FiniteSetTheorems, TLAPS

USE EgressAssumption

\* What every step preserves of the types.
EgressTypes ==
    /\ kind \in [Conns -> {"none", "http", "connect"}]
    /\ phase \in [Conns -> Awaits \cup {"new", "done", "refused"}]
    /\ upstream \in [Conns -> {"none", "connecting", "open", "closed"}]
    /\ host \in [Conns -> Hosts \cup {NoHost}]
    /\ address \in [Conns -> Addresses \cup {NoAddress}]
    /\ sni \in [Conns -> Hosts \cup {NoHost}]
    /\ buffered \in [Conns -> Nat]
    /\ bytes \in [Conns -> Nat]
    /\ passed \in [Conns -> Nat]

\* What a handler has established at each of its awaits.
Established(c) ==
    /\ phase[c] \in {"new", "dns", "hello", "refused"} => upstream[c] = "none"
    /\ phase[c] \in Awaits => host[c] \in AllowedHosts
    /\ phase[c] \in Awaits \ {"dns"} => address[c] \in PublicAddresses
    /\ phase[c] \in {"hello", "connecting", "tunnel"} => kind[c] = "connect"
    /\ phase[c] = "transfer" => kind[c] = "http"
    /\ phase[c] \in {"connecting", "tunnel"} => sni[c] = host[c]

\* Nothing passes before the meter starts, then the meter knows all of it,
\* and it starts with a ClientHello that is within the limit.
Counted(c) ==
    /\ phase[c] \in {"new", "dns", "hello", "connecting", "refused"} => bytes[c] = 0 /\ passed[c] = 0
    /\ passed[c] <= bytes[c]
    /\ bytes[c] <= MaxBytes
    /\ buffered[c] <= MaxBytes

HandlerInv ==
    /\ EgressTypes
    /\ OnlyApproved
    /\ \A c \in Conns : Established(c) /\ Counted(c)

\* No connection has been made.
LEMMA HandlerInit == Init => HandlerInv
  BY DEF Init, HandlerInv, EgressTypes, OnlyApproved, Established, Counted, Awaits

\* A handler that fails, or whose client is gone, ends with what it had.
LEMMA EndKeepsInv ==
    ASSUME HandlerInv, NEW c \in Conns, phase[c] \in Awaits,
           phase' = [phase EXCEPT ![c] = "done"],
           \/ UNCHANGED upstream
           \/ upstream' = [upstream EXCEPT ![c] = Destroyed(@)]
           \/ upstream[c] = "open" /\ upstream' = [upstream EXCEPT ![c] = "closed"],
           UNCHANGED <<kind, destVars, byteVars>>
    PROVE  HandlerInv'
<1> USE DEF HandlerInv, Awaits, Destroyed, destVars, byteVars
<1>1. EgressTypes'
  BY DEF EgressTypes
<1>2. OnlyApproved'
  BY DEF EgressTypes, OnlyApproved
<1>3. ASSUME NEW d \in Conns PROVE Established(d)' /\ Counted(d)'
  BY DEF EgressTypes, Established, Counted
<1> QED BY <1>1, <1>2, <1>3

\* Fail is the end of a handler that awaits something.
LEMMA FailKeepsInv ==
    ASSUME HandlerInv, NEW c \in Conns, phase[c] \in Awaits, Fail(c)
    PROVE  HandlerInv'
  BY EndKeepsInv DEF Fail, Release

\* A step that changes neither the phases nor what they establish.
LEMMA FrameKeepsInv ==
    ASSUME HandlerInv, UNCHANGED <<kind, phase, destVars, byteVars>>,
           upstream' \in [Conns -> {"none", "connecting", "open", "closed"}],
           \A c \in Conns : upstream[c] = "none" => upstream'[c] = "none"
    PROVE  HandlerInv'
  BY DEF HandlerInv, EgressTypes, OnlyApproved, Established, Counted, destVars, byteVars, Awaits

\* A request is refused, rejected or accepted.
LEMMA AcceptKeepsInv ==
    ASSUME HandlerInv, NEW c \in Conns, NEW k \in {"http", "connect"},
           Refuse(c, k) \/ Reject(c, k) \/ \E h \in Hosts : Accept(c, k, h)
    PROVE  HandlerInv'
<1> USE DEF HandlerInv, EgressTypes, OnlyApproved, Established, Counted, destVars, byteVars, Awaits
<1>1. CASE Refuse(c, k)
  BY <1>1 DEF Refuse
<1>2. CASE Reject(c, k)
  BY <1>2 DEF Reject
<1>3. CASE \E h \in Hosts : Accept(c, k, h)
  BY <1>3 DEF Accept, Permitted
<1> QED BY <1>1, <1>2, <1>3

\* The first of an answer that is approved is a public address.
LEMMA ApprovedIsPublic ==
    ASSUME NEW answers \in Answers, Approves(answers)
    PROVE  answers[1] \in PublicAddresses
<1>1. PICK n \in 0..MaxAnswers : answers \in [1..n -> Addresses]
  BY DEF Answers
<1>2. n # 0
  <2> SUFFICES ASSUME n = 0 PROVE FALSE
    OBVIOUS
  <2>1. answers \in [1..0 -> Addresses]
    BY <1>1
  <2>2. answers = <<>>
    BY <2>1
  <2> QED BY <2>2 DEF Approves
<1> QED BY <1>1, <1>2 DEF Approves, IsPublic

\* DNS answers, or does not.
LEMMA LookupKeepsInv ==
    ASSUME HandlerInv, NEW c \in Conns,
           \/ LookupFails(c)
           \/ \E answers \in Answers : LookupHttp(c, answers) \/ LookupConnect(c, answers)
    PROVE  HandlerInv'
<1> USE DEF HandlerInv, EgressTypes, OnlyApproved, Established, Counted, destVars, byteVars, Awaits
<1>1. CASE LookupFails(c)
  BY <1>1, FailKeepsInv DEF LookupFails
<1>2. ASSUME NEW answers \in Answers, LookupHttp(c, answers) PROVE HandlerInv'
  <2>1. answers[1] \in PublicAddresses
    BY <1>2, ApprovedIsPublic DEF LookupHttp
  <2> QED BY <1>2, <2>1 DEF LookupHttp
<1>3. ASSUME NEW answers \in Answers, LookupConnect(c, answers) PROVE HandlerInv'
  <2>1. answers[1] \in PublicAddresses
    BY <1>3, ApprovedIsPublic DEF LookupConnect
  <2> QED BY <1>3, <2>1 DEF LookupConnect
<1> QED BY <1>1, <1>2, <1>3

\* The ClientHello arrives, whole or in chunks, or fails.
LEMMA HelloKeepsInv ==
    ASSUME HandlerInv, NEW c \in Conns,
           NEW n \in 1..MaxChunk,
           HelloChunk(c, n) \/ (\E name \in Hosts : HelloComplete(c, name, n)) \/ HelloFails(c)
    PROVE  HandlerInv'
<1> USE DEF HandlerInv, EgressTypes, OnlyApproved, Established, Counted, destVars, byteVars, Awaits
<1>1. CASE HelloChunk(c, n)
  BY <1>1 DEF HelloChunk, Fits, HelloLimit
<1>2. CASE \E name \in Hosts : HelloComplete(c, name, n)
  BY <1>2 DEF HelloComplete, Fits, HelloLimit, NameMatches
<1>3. CASE HelloFails(c)
  BY <1>3, FailKeepsInv DEF HelloFails
<1> QED BY <1>1, <1>2, <1>3

\* The upstream is connected, relays, and ends.
LEMMA RelayKeepsInv ==
    ASSUME HandlerInv, NEW c \in Conns, NEW n \in 1..MaxChunk,
           \/ UpstreamConnects(c) \/ ConnectFails(c) \/ Relay(c, n) \/ TransferFails(c)
           \/ TunnelCloses(c) \/ ResponseFinishes(c) \/ UpstreamIdle(c)
    PROVE  HandlerInv'
<1>1. CASE UpstreamConnects(c)
  BY <1>1 DEF UpstreamConnects, HandlerInv, EgressTypes, OnlyApproved, Established, Counted,
     destVars, byteVars, Awaits
<1>2. CASE ConnectFails(c) \/ TransferFails(c) \/ TunnelCloses(c)
  BY <1>2, FailKeepsInv DEF ConnectFails, TransferFails, TunnelCloses, Awaits
<1>3. CASE Relay(c, n)
  <2>1. CASE bytes[c] + n > MaxBytes
    BY <1>3, <2>1, FailKeepsInv DEF Relay, Awaits
  <2>2. CASE ~(bytes[c] + n > MaxBytes)
    BY <1>3, <2>2 DEF Relay, HandlerInv, EgressTypes, OnlyApproved, Established, Counted,
       destVars, Awaits
  <2> QED BY <2>1, <2>2
<1>4. CASE ResponseFinishes(c)
  BY <1>4, EndKeepsInv DEF ResponseFinishes, Release, Awaits
<1>5. CASE UpstreamIdle(c)
  BY <1>5, FrameKeepsInv DEF UpstreamIdle, HandlerInv, EgressTypes
<1> QED BY <1>1, <1>2, <1>3, <1>4, <1>5

\* The guest's end closes, and the deadline passes.
LEMMA ClientKeepsInv ==
    ASSUME HandlerInv, NEW c \in Conns,
           ClientEnds(c) \/ ClientCloses(c) \/ ClientResets(c) \/ Deadline(c)
    PROVE  HandlerInv'
<1>1. CASE ClientEnds(c)
  BY <1>1, FailKeepsInv, FrameKeepsInv DEF ClientEnds, Running, HandlerInv, EgressTypes
<1>2. CASE ClientCloses(c)
  BY <1>2, EndKeepsInv, FrameKeepsInv DEF ClientCloses, Release, Running, HandlerInv, EgressTypes
<1>3. CASE ClientResets(c)
  BY <1>3 DEF ClientResets, Running, Destroyed, HandlerInv, EgressTypes, OnlyApproved, Established,
     Counted, destVars, byteVars, Awaits
<1>4. CASE Deadline(c)
  <2>1. CASE phase[c] \in {"hello", "tunnel", "transfer"}
    BY <1>4, <2>1, FailKeepsInv DEF Deadline, Awaits
  <2>2. CASE phase[c] \notin {"hello", "tunnel", "transfer"}
    BY <1>4, <2>2, FrameKeepsInv DEF Deadline, Destroyed, HandlerInv, EgressTypes
  <2> QED BY <2>1, <2>2
<1> QED BY <1>1, <1>2, <1>3, <1>4

\* HandlerInv is inductive.
LEMMA HandlerStep == HandlerInv /\ [Next]_vars => HandlerInv'
<1> SUFFICES ASSUME HandlerInv, [Next]_vars PROVE HandlerInv'
  OBVIOUS
<1>1. CASE UNCHANGED vars \/ Close
  BY <1>1, FrameKeepsInv DEF vars, Close, HandlerInv, EgressTypes
<1>2. 1 \in 1..MaxChunk
  OBVIOUS
<1> QED BY <1>1, <1>2, AcceptKeepsInv, LookupKeepsInv, HelloKeepsInv, RelayKeepsInv, ClientKeepsInv
        DEF Next, Handler

\* A public connection is made only to a public address of an answer that
\* was approved for an allowed host, a tunnel only after a ClientHello for
\* that host.
THEOREM OnlyApprovedAlways == Spec => []OnlyApproved
<1>1. HandlerInv => OnlyApproved
  BY DEF HandlerInv
<1> QED BY HandlerInit, HandlerStep, <1>1, PTL DEF Spec

\* No connection passes more than maxBytesPerConnection, whatever the sizes
\* of its chunks and of the ClientHello it was opened with.
THEOREM BytesAlwaysBounded == Spec => []BytesBounded
<1>1. HandlerInv => BytesBounded
  BY DEF HandlerInv, EgressTypes, Counted, BytesBounded
<1> QED BY HandlerInit, HandlerStep, <1>1, PTL DEF Spec

-------------------------------------------------------------------------------
(* The slots: each handler holds one from its acceptance to its end. *)

Handlers == {c \in Conns : Running(c)}

\* What a step does to the handlers that run and to the slots.
SlotEffect ==
    \/ Handlers' = Handlers /\ active' = active
    \/ /\ active < MaxConcurrent
       /\ \E c \in Conns \ Handlers : Handlers' = Handlers \cup {c} /\ active' = active + 1
    \/ \E c \in Handlers : Handlers' = Handlers \ {c} /\ active' = active - 1
    \/ Handlers' = {} /\ active' = 0

\* Release ends one handler and returns one slot.
LEMMA ReleaseEffect ==
    ASSUME EgressTypes, NEW c \in Conns, phase[c] \in Awaits, Release(c)
    PROVE  SlotEffect
<1>1. c \in Handlers /\ Handlers' = Handlers \ {c}
  BY DEF EgressTypes, Release, Handlers, Running, Awaits
<1> QED BY <1>1 DEF Release, SlotEffect

\* Every step begins one handler, ends one, ends all of them or none.
LEMMA StepEffect == EgressTypes /\ [Next]_vars => SlotEffect
<1> SUFFICES ASSUME EgressTypes, [Next]_vars PROVE SlotEffect
  OBVIOUS
<1> DEFINE Same == SlotEffect!1
<1>0. Same => SlotEffect
  BY DEF SlotEffect
<1>1. ASSUME NEW c \in Conns, phase[c] \in Awaits, Fail(c) PROVE SlotEffect
  BY <1>1, ReleaseEffect DEF Fail
<1>2. ASSUME UNCHANGED <<active, phase>> PROVE SlotEffect
  BY <1>0, <1>2 DEF Handlers, Running
<1>3. CASE UNCHANGED vars \/ Close
  BY <1>2, <1>3 DEF vars, Close
<1>4. ASSUME NEW c \in Conns, NEW k \in {"http", "connect"},
             Refuse(c, k) \/ Reject(c, k) \/ \E h \in Hosts : Accept(c, k, h)
      PROVE  SlotEffect
  <2>1. CASE Refuse(c, k) \/ Reject(c, k)
    BY <1>0, <1>4, <2>1 DEF Refuse, Reject, EgressTypes, Handlers, Running, Awaits
  <2>2. CASE \E h \in Hosts : Accept(c, k, h)
    <3>1. c \in Conns \ Handlers /\ Handlers' = Handlers \cup {c}
      BY <2>2 DEF Accept, EgressTypes, Handlers, Running, Awaits
    <3> QED BY <2>2, <3>1 DEF Accept, Acquire, SlotEffect
  <2> QED BY <1>4, <2>1, <2>2
<1>5. ASSUME NEW c \in Conns, Handler(c) PROVE SlotEffect
  <2>1. CASE LookupFails(c) \/ HelloFails(c) \/ ConnectFails(c) \/ TransferFails(c) \/ TunnelCloses(c)
    BY <1>1, <2>1 DEF LookupFails, HelloFails, ConnectFails, TransferFails, TunnelCloses, Awaits
  <2>2. CASE \E answers \in Answers : LookupHttp(c, answers) \/ LookupConnect(c, answers)
    BY <1>0, <2>2 DEF LookupHttp, LookupConnect, EgressTypes, Handlers, Running, Awaits
  <2>3. CASE \E n \in 1..MaxChunk : HelloChunk(c, n) \/ Relay(c, n)
    BY <1>1, <1>2, <2>3 DEF HelloChunk, Relay, Awaits
  <2>4. CASE \E n \in 1..MaxChunk, name \in Hosts : HelloComplete(c, name, n)
    BY <1>0, <2>4 DEF HelloComplete, EgressTypes, Handlers, Running, Awaits
  <2>5. CASE UpstreamConnects(c)
    BY <1>0, <2>5 DEF UpstreamConnects, EgressTypes, Handlers, Running, Awaits
  <2>6. CASE ResponseFinishes(c)
    BY <2>6, ReleaseEffect DEF ResponseFinishes, Awaits
  <2> QED BY <1>5, <2>1, <2>2, <2>3, <2>4, <2>5, <2>6 DEF Handler
<1>6. ASSUME NEW c \in Conns, ClientEnds(c) \/ ClientCloses(c) \/ Deadline(c) \/ UpstreamIdle(c)
      PROVE  SlotEffect
  BY <1>1, <1>2, <1>6, ReleaseEffect DEF ClientEnds, ClientCloses, Deadline, UpstreamIdle, Running, Awaits
<1>7. ASSUME NEW c \in Conns, ClientResets(c) PROVE SlotEffect
  <2>1. Handlers' = {}
    BY <1>7 DEF ClientResets, Handlers, Running, Awaits
  <2> QED BY <1>7, <2>1 DEF ClientResets, SlotEffect
<1> QED BY <1>3, <1>4, <1>5, <1>6, <1>7 DEF Next

\* The handlers are a finite set, so their number is a natural number.
LEMMA HandlersFinite == IsFiniteSet(Handlers) /\ Cardinality(Handlers) \in Nat
<1>1. IsFiniteSet(Handlers)
  BY FS_Subset DEF Handlers
<1> QED BY <1>1, FS_CardinalityType

\* The count stays exact and within the limit.
LEMMA SlotStep == SlotsExact /\ SlotEffect => SlotsExact'
<1> SUFFICES ASSUME active = Cardinality(Handlers), active <= MaxConcurrent, SlotEffect
             PROVE  active' = Cardinality(Handlers') /\ active' <= MaxConcurrent
  BY DEF SlotsExact, Handlers
<1>1. CASE Handlers' = Handlers /\ active' = active
  BY <1>1
<1>2. ASSUME active < MaxConcurrent,
             NEW c \in Conns \ Handlers, Handlers' = Handlers \cup {c}, active' = active + 1
      PROVE  active' = Cardinality(Handlers') /\ active' <= MaxConcurrent
  <2>1. Cardinality(Handlers \cup {c}) = Cardinality(Handlers) + 1
    BY <1>2, HandlersFinite, FS_AddElement
  <2> QED BY <1>2, <2>1, HandlersFinite
<1>3. ASSUME NEW c \in Handlers, Handlers' = Handlers \ {c}, active' = active - 1
      PROVE  active' = Cardinality(Handlers') /\ active' <= MaxConcurrent
  <2>1. Cardinality(Handlers \ {c}) = Cardinality(Handlers) - 1
    BY <1>3, HandlersFinite, FS_RemoveElement
  <2> QED BY <1>3, <2>1, HandlersFinite
<1>4. CASE Handlers' = {} /\ active' = 0
  BY <1>4, FS_EmptySet
<1> QED BY <1>1, <1>2, <1>3, <1>4 DEF SlotEffect

\* The slots taken are the handlers that run, at most
\* maxConcurrentConnections: no path of a handler keeps its slot or gives
\* it back twice.
THEOREM SlotsAlwaysExact == Spec => []SlotsExact
<1>1. Init => SlotsExact
  <2> SUFFICES ASSUME Init PROVE SlotsExact
    OBVIOUS
  <2>1. {c \in Conns : Running(c)} = {}
    BY DEF Init, Running, Awaits
  <2> QED BY <2>1, FS_EmptySet DEF Init, SlotsExact
<1>2. HandlerInv /\ SlotsExact /\ [Next]_vars => SlotsExact'
  BY StepEffect, SlotStep DEF HandlerInv
<1> QED BY HandlerInit, HandlerStep, <1>1, <1>2, PTL DEF Spec

===============================================================================
