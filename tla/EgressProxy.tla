------------------------------ MODULE EgressProxy ------------------------------
(***************************************************************************)
(* The controlled egress proxy of one workspace (agent/egress-proxy.ts)    *)
(* with its policy (egress-policy.ts), its ClientHello inspection          *)
(* (egress-tls.ts) and its session (egress-session.ts).  A connection of   *)
(* the guest is a plain HTTP request or a CONNECT tunnel; its handler is   *)
(* cut at its awaits: the DNS lookup, the ClientHello, the connection to   *)
(* the upstream and the transfer.  Timers have no clock here: they may     *)
(* fire whenever they are armed, and fairness says that they fire.         *)
(***************************************************************************)
EXTENDS Integers, FiniteSets, Sequences

CONSTANTS
    Conns,          \* connections of the guest
    Hosts,          \* hostnames a request or a ClientHello may name
    AllowedHosts,   \* those the policy's patterns match
    Addresses,      \* addresses a DNS answer may hold
    PublicAddresses,\* those isPublicAddress accepts
    NoHost, NoAddress,
    MaxConcurrent,  \* maxConcurrentConnections
    MaxBytes,       \* maxBytesPerConnection
    MaxHello,       \* maxClientHelloBytes
    MaxChunk,       \* bound: the bytes of one chunk
    MaxAnswers      \* bound: the length of a DNS answer

ASSUME EgressAssumption ==
    /\ IsFiniteSet(Conns)
    /\ AllowedHosts \subseteq Hosts
    /\ PublicAddresses \subseteq Addresses
    /\ NoHost \notin Hosts
    /\ NoAddress \notin Addresses
    /\ MaxConcurrent \in Nat \ {0}
    /\ MaxBytes \in Nat \ {0}
    /\ MaxHello \in Nat \ {0}
    /\ MaxChunk \in Nat \ {0}
    /\ MaxAnswers \in Nat

VARIABLES
    serving,    \* the proxy: "listening", "closed" (its VM ended) or "crashed"
    active,     \* the slots taken
    kind,       \* a connection: "none", "http" or "connect"
    phase,      \* where its handler is: "new", at an await, "done" or "refused"
    client,     \* the guest's end: "open", "ended" (FIN unread) or "closed"
    upstream,   \* the public end: "none", "connecting", "open" or "closed"
    deadline,   \* the maxConnectionMs timer: "off", "armed" or "fired"
    host,       \* the hostname of the request
    address,    \* the approved address
    sni,        \* the server name of the inspected ClientHello
    buffered,   \* the bytes buffered of the ClientHello
    bytes,      \* the meter of the tunnel or of the HTTP exchange
    passed      \* ghost: the bytes that were written on to the other end

destVars == <<host, address, sni>>
byteVars == <<buffered, bytes, passed>>
vars == <<serving, active, kind, phase, client, upstream, deadline, destVars, byteVars>>

Awaits == {"dns", "hello", "connecting", "tunnel", "transfer"}
Running(c) == phase[c] \in Awaits

\* Every variable has its type.
TypeOK ==
    /\ serving \in {"listening", "closed", "crashed"}
    /\ active \in Nat
    /\ kind \in [Conns -> {"none", "http", "connect"}]
    /\ phase \in [Conns -> Awaits \cup {"new", "done", "refused"}]
    /\ client \in [Conns -> {"open", "ended", "closed"}]
    /\ upstream \in [Conns -> {"none", "connecting", "open", "closed"}]
    /\ deadline \in [Conns -> {"off", "armed", "fired"}]
    /\ host \in [Conns -> Hosts \cup {NoHost}]
    /\ address \in [Conns -> Addresses \cup {NoAddress}]
    /\ sni \in [Conns -> Hosts \cup {NoHost}]
    /\ buffered \in [Conns -> 0..MaxHello]
    /\ bytes \in [Conns -> 0..MaxBytes]
    /\ passed \in [Conns -> Nat]

Init ==
    /\ serving = "listening"
    /\ active = 0
    /\ kind = [c \in Conns |-> "none"]
    /\ phase = [c \in Conns |-> "new"]
    /\ client = [c \in Conns |-> "open"]
    /\ upstream = [c \in Conns |-> "none"]
    /\ deadline = [c \in Conns |-> "off"]
    /\ host = [c \in Conns |-> NoHost]
    /\ address = [c \in Conns |-> NoAddress]
    /\ sni = [c \in Conns |-> NoHost]
    /\ buffered = [c \in Conns |-> 0]
    /\ bytes = [c \in Conns |-> 0]
    /\ passed = [c \in Conns |-> 0]

-------------------------------------------------------------------------------
(* The end of a handler: the release of its slot, the end of its timers. *)

\* Mutant: the release runs twice for a handler whose deadline fired.
ReleaseTwice(c) ==
    /\ active' = active - (IF deadline[c] = "fired" THEN 2 ELSE 1)
    /\ phase' = [phase EXCEPT ![c] = "done"]
    /\ deadline' = [deadline EXCEPT ![c] = "off"]

Release(c) ==
    /\ active' = active - 1
    /\ phase' = [phase EXCEPT ![c] = "done"]
    /\ deadline' = [deadline EXCEPT ![c] = "off"]

\* A socket that was made is destroyed; one never made stays so.
Destroyed(state) == IF state = "none" THEN "none" ELSE "closed"

\* The catch blocks: both ends are destroyed, or the refusal is written and
\* the connection closed.
Fail(c) ==
    /\ Release(c)
    /\ client' = [client EXCEPT ![c] = "closed"]
    /\ upstream' = [upstream EXCEPT ![c] = Destroyed(@)]
    /\ UNCHANGED <<serving, kind, destVars, byteVars>>

-------------------------------------------------------------------------------
(* Accepting a request *)

Acquire == active < MaxConcurrent

\* parseProxyAuthority, normalizeHostname and the patterns of the policy.
Permitted(h) == h \in AllowedHosts

\* The listener without a slot: 503.
Refuse(c, k) ==
    /\ serving = "listening"
    /\ phase[c] = "new"
    /\ ~Acquire
    /\ kind' = [kind EXCEPT ![c] = k]
    /\ phase' = [phase EXCEPT ![c] = "refused"]
    /\ client' = [client EXCEPT ![c] = "closed"]
    /\ UNCHANGED <<serving, active, upstream, deadline, destVars, byteVars>>

\* A request with credentials, a forbidden method or port, a malformed
\* authority or a host that is not permitted ends before the first await:
\* its slot is taken and released in the same turn.
Reject(c, k) ==
    /\ serving = "listening"
    /\ phase[c] = "new"
    /\ Acquire
    /\ kind' = [kind EXCEPT ![c] = k]
    /\ phase' = [phase EXCEPT ![c] = "done"]
    /\ client' = [client EXCEPT ![c] = "closed"]
    /\ UNCHANGED <<serving, active, upstream, deadline, destVars, byteVars>>

\* Any other request takes a slot, arms its deadline and awaits DNS.
Accept(c, k, h) ==
    /\ serving = "listening"
    /\ phase[c] = "new"
    /\ Acquire
    /\ Permitted(h)
    /\ active' = active + 1
    /\ kind' = [kind EXCEPT ![c] = k]
    /\ phase' = [phase EXCEPT ![c] = "dns"]
    /\ deadline' = [deadline EXCEPT ![c] = "armed"]
    /\ host' = [host EXCEPT ![c] = h]
    /\ UNCHANGED <<serving, client, upstream, address, sni, byteVars>>

-------------------------------------------------------------------------------
(* DNS *)

Answers == UNION {[1..n -> Addresses] : n \in 0..MaxAnswers}

\* isPublicAddress: outside the reserved IPv4 and IPv6 ranges.
IsPublic(a) == a \in PublicAddresses

\* Mutant: one public address is enough.
ApprovesSome(answers) == \E k \in DOMAIN answers : IsPublic(answers[k])

\* EgressPolicy.approve: the whole answer is refused for one address that
\* is not public.
Approves(answers) ==
    /\ answers # <<>>
    /\ \A k \in DOMAIN answers : IsPublic(answers[k])

\* The lookup fails, times out or is refused, or the deadline passed
\* meanwhile, or (HTTP) the declared length is over the limit.
LookupFails(c) ==
    /\ phase[c] = "dns"
    /\ Fail(c)

\* deadlineError is checked after the await.
InTime(c) == deadline[c] # "fired"

\* http.request to the approved address.
LookupHttp(c, answers) ==
    /\ phase[c] = "dns"
    /\ kind[c] = "http"
    /\ Approves(answers)
    /\ InTime(c)
    /\ address' = [address EXCEPT ![c] = answers[1]]
    /\ upstream' = [upstream EXCEPT ![c] = "connecting"]
    /\ phase' = [phase EXCEPT ![c] = "transfer"]
    /\ UNCHANGED <<serving, active, kind, client, deadline, host, sni, byteVars>>

\* The tunnel is accepted, and the ClientHello awaited.
LookupConnect(c, answers) ==
    /\ phase[c] = "dns"
    /\ kind[c] = "connect"
    /\ Approves(answers)
    /\ InTime(c)
    /\ address' = [address EXCEPT ![c] = answers[1]]
    /\ phase' = [phase EXCEPT ![c] = "hello"]
    /\ UNCHANGED <<serving, active, kind, client, upstream, deadline, host, sni, byteVars>>

-------------------------------------------------------------------------------
(* The ClientHello of a tunnel *)

\* The limit receiveTlsClientHello is called with.
HelloLimit == IF MaxHello < MaxBytes THEN MaxHello ELSE MaxBytes

Fits(c, n) == n <= HelloLimit - buffered[c]

\* receiveTlsClientHello: a chunk of n bytes that leaves the hello incomplete.
HelloChunk(c, n) ==
    /\ phase[c] = "hello"
    /\ Fits(c, n)
    /\ buffered' = [buffered EXCEPT ![c] = @ + n]
    /\ UNCHANGED <<serving, active, kind, phase, client, upstream, deadline, destVars, bytes, passed>>

\* validateClientHello against the hostname of the CONNECT.
NameMatches(c, name) == name = host[c]

\* The chunk (or the head of the CONNECT) that completes it: the upstream
\* is connected at the address approved before.
HelloComplete(c, name, n) ==
    /\ phase[c] = "hello"
    /\ Fits(c, n)
    /\ NameMatches(c, name)
    /\ buffered' = [buffered EXCEPT ![c] = @ + n]
    /\ sni' = [sni EXCEPT ![c] = name]
    /\ upstream' = [upstream EXCEPT ![c] = "connecting"]
    /\ phase' = [phase EXCEPT ![c] = "connecting"]
    /\ UNCHANGED <<serving, active, kind, client, deadline, host, address, bytes, passed>>

\* A hello that is too large, malformed, encrypted or for another name, and
\* the clientHelloTimeoutMs timer.
HelloFails(c) ==
    /\ phase[c] = "hello"
    /\ Fail(c)

-------------------------------------------------------------------------------
(* The upstream connection *)

\* Mutant: the meter of a tunnel starts without its ClientHello.
UpstreamConnectsUnmetered(c) ==
    LET awaited == phase[c] = "connecting" IN
    /\ upstream[c] = "connecting"
    /\ upstream' = [upstream EXCEPT ![c] = "open"]
    /\ phase' = [phase EXCEPT ![c] = IF awaited THEN "tunnel" ELSE @]
    /\ passed' = [passed EXCEPT ![c] = IF awaited THEN buffered[c] ELSE @]
    /\ UNCHANGED <<serving, active, kind, client, deadline, destVars, buffered, bytes>>

\* Where the handler of a tunnel awaits the connection it writes the
\* ClientHello on and starts the meter with it.
UpstreamConnects(c) ==
    LET awaited == phase[c] = "connecting" IN
    /\ upstream[c] = "connecting"
    /\ upstream' = [upstream EXCEPT ![c] = "open"]
    /\ phase' = [phase EXCEPT ![c] = IF awaited THEN "tunnel" ELSE @]
    /\ bytes' = [bytes EXCEPT ![c] = IF awaited THEN buffered[c] ELSE @]
    /\ passed' = [passed EXCEPT ![c] = IF awaited THEN buffered[c] ELSE @]
    /\ UNCHANGED <<serving, active, kind, client, deadline, destVars, buffered>>

\* Mutant: waitForConnect has no timer of its own.
ConnectFailsIfOpen(c) ==
    /\ phase[c] = "connecting"
    /\ upstream[c] = "connecting"
    /\ Fail(c)

\* waitForConnect: an error of the socket, or the connectTimeoutMs timer,
\* which also ends the wait for a socket the deadline destroyed.
ConnectFails(c) ==
    /\ phase[c] = "connecting"
    /\ Fail(c)

-------------------------------------------------------------------------------
(* Relaying *)

\* A chunk of n bytes in either direction of a tunnel or of an HTTP exchange.
\* The meters are registered before the pipes: the chunk that exceeds the
\* limit destroys its destination before it is written there.
Relay(c, n) ==
    /\ phase[c] \in {"tunnel", "transfer"}
    /\ upstream[c] = "open"
    /\ phase[c] = "transfer" => client[c] = "open"
    /\ IF bytes[c] + n > MaxBytes
       THEN Fail(c)
       ELSE /\ bytes' = [bytes EXCEPT ![c] = @ + n]
            /\ passed' = [passed EXCEPT ![c] = @ + n]
            /\ UNCHANGED <<serving, active, kind, phase, client, upstream, deadline, destVars, buffered>>

\* A declared length over the limit, an error of either socket, an idle timer
\* of the tunnel, or a failing upstream request.
TransferFails(c) ==
    /\ phase[c] \in {"tunnel", "transfer"}
    /\ Fail(c)

\* waitForTunnelClose: the upstream closes; both ends are destroyed.
TunnelCloses(c) ==
    /\ phase[c] = "tunnel"
    /\ Fail(c)

\* The response is finished; the upstream, which served one request
\* (agent: false), has ended with it.
ResponseFinishes(c) ==
    /\ phase[c] = "transfer"
    /\ upstream[c] = "open"
    /\ client[c] = "open"
    /\ Release(c)
    /\ client' = [client EXCEPT ![c] = "closed"]
    /\ upstream' = [upstream EXCEPT ![c] = "closed"]
    /\ UNCHANGED <<serving, kind, destVars, byteVars>>

-------------------------------------------------------------------------------
(* The guest's end *)

\* FIN on a CONNECT socket: read only when somebody listens.  While the
\* ClientHello is awaited it ends the handler; in a tunnel the pipe ends the
\* upstream's writing side, which closes the tunnel later.
ClientEnds(c) ==
    /\ kind[c] = "connect"
    /\ Running(c)
    /\ client[c] = "open"
    /\ IF phase[c] = "hello"
       THEN Fail(c)
       ELSE /\ client' = [client EXCEPT ![c] = "ended"]
            /\ UNCHANGED <<serving, active, kind, phase, upstream, deadline, destVars, byteVars>>

\* The HTTP server closes the response's socket.  finishedHttp completes if
\* it listens already: the handler ends, its deadline is cleared, and the
\* upstream request is left to its own timers.
ClientCloses(c) ==
    /\ kind[c] = "http"
    /\ Running(c)
    /\ client[c] = "open"
    /\ client' = [client EXCEPT ![c] = "closed"]
    /\ IF phase[c] = "transfer"
       THEN Release(c)
       ELSE UNCHANGED <<active, phase, deadline>>
    /\ UNCHANGED <<serving, kind, upstream, destVars, byteVars>>

\* A reset of a CONNECT socket while nobody listens to its errors, during
\* the lookup or the connection to the upstream: an unhandled error event
\* ends the process, and with it every connection.
ClientResets(c) ==
    /\ kind[c] = "connect"
    /\ phase[c] \in {"dns", "connecting"}
    /\ client[c] # "closed"
    /\ serving' = "crashed"
    /\ active' = 0
    /\ phase' = [d \in Conns |-> IF Running(d) THEN "done" ELSE phase[d]]
    /\ client' = [d \in Conns |-> "closed"]
    /\ upstream' = [d \in Conns |-> Destroyed(upstream[d])]
    /\ deadline' = [d \in Conns |-> "off"]
    /\ UNCHANGED <<kind, destVars, byteVars>>

-------------------------------------------------------------------------------
(* Timers *)

\* maxConnectionMs: both ends are destroyed.  The handler notices at once
\* where it listens to them; after the lookup it looks at deadlineError;
\* in waitForConnect only that wait's own timer ends it.
Deadline(c) ==
    /\ deadline[c] = "armed"
    /\ IF phase[c] \in {"hello", "tunnel", "transfer"}
       THEN Fail(c)
       ELSE /\ deadline' = [deadline EXCEPT ![c] = "fired"]
            /\ client' = [client EXCEPT ![c] = "closed"]
            /\ upstream' = [upstream EXCEPT ![c] = Destroyed(@)]
            /\ UNCHANGED <<serving, active, kind, phase, destVars, byteVars>>

\* Mutant: the connect timer is cleared when the handler ends.
UpstreamIdleWhenOpen(c) ==
    /\ phase[c] = "done"
    /\ upstream[c] = "open"
    /\ upstream' = [upstream EXCEPT ![c] = "closed"]
    /\ UNCHANGED <<serving, active, kind, phase, client, deadline, destVars, byteVars>>

\* An upstream whose handler is gone: its connect or idle timer, or its
\* server, closes it.
UpstreamIdle(c) ==
    /\ phase[c] = "done"
    /\ upstream[c] \in {"connecting", "open"}
    /\ upstream' = [upstream EXCEPT ![c] = "closed"]
    /\ UNCHANGED <<serving, active, kind, phase, client, deadline, destVars, byteVars>>

\* WorkspaceEgress.close when the VM is cleaned up: no new connection.
Close ==
    /\ serving = "listening"
    /\ serving' = "closed"
    /\ UNCHANGED <<active, kind, phase, client, upstream, deadline, destVars, byteVars>>

-------------------------------------------------------------------------------
Handler(c) ==
    \/ LookupFails(c)
    \/ \E answers \in Answers : LookupHttp(c, answers) \/ LookupConnect(c, answers)
    \/ \E n \in 1..MaxChunk :
          HelloChunk(c, n) \/ Relay(c, n) \/ \E name \in Hosts : HelloComplete(c, name, n)
    \/ HelloFails(c)
    \/ UpstreamConnects(c)
    \/ ConnectFails(c)
    \/ TransferFails(c)
    \/ TunnelCloses(c)
    \/ ResponseFinishes(c)

Next ==
    \/ Close
    \/ \E c \in Conns :
        \/ \E k \in {"http", "connect"} :
              Refuse(c, k) \/ Reject(c, k) \/ \E h \in Hosts : Accept(c, k, h)
        \/ Handler(c)
        \/ ClientEnds(c)
        \/ ClientCloses(c)
        \/ ClientResets(c)
        \/ Deadline(c)
        \/ UpstreamIdle(c)

Spec == Init /\ [][Next]_vars

\* The timers of every wait: dnsTimeoutMs, clientHelloTimeoutMs,
\* connectTimeoutMs, maxConnectionMs and, for an upstream left alone, its
\* idle timer.  Nothing is assumed of the guest, of DNS or of the servers.
FairSpec ==
    /\ Spec
    /\ \A c \in Conns :
        /\ WF_vars(LookupFails(c))
        /\ WF_vars(HelloFails(c))
        /\ WF_vars(ConnectFails(c))
        /\ WF_vars(Deadline(c))
        /\ WF_vars(UpstreamIdle(c))

-------------------------------------------------------------------------------
(* Properties *)

\* The slots taken are the handlers that run, never more than
\* maxConcurrentConnections: no path of a handler keeps its slot or gives
\* it back twice.
SlotsExact ==
    /\ active = Cardinality({c \in Conns : Running(c)})
    /\ active <= MaxConcurrent

\* A public connection is made only to a public address of the answer that
\* was approved for an allowed host, and for a tunnel only after a
\* ClientHello for that same host.
OnlyApproved ==
    \A c \in Conns : upstream[c] # "none" =>
        /\ host[c] \in AllowedHosts
        /\ address[c] \in PublicAddresses
        /\ kind[c] = "connect" => sni[c] = host[c]

\* No more than maxBytesPerConnection passes a connection, in both directions
\* together and with the ClientHello that was buffered and written on later,
\* also when a chunk straddles the limit.
BytesBounded == \A c \in Conns : passed[c] <= MaxBytes

\* Every handler ends, and gives its slot back, whatever the guest, DNS and
\* the server do or fail to do.
HandlersEnd == \A c \in Conns : Running(c) ~> ~Running(c)

\* Every public socket is closed in the end, also the one of an HTTP
\* request whose client went away.
UpstreamsEnd ==
    \A c \in Conns :
        upstream[c] \in {"connecting", "open"} ~> upstream[c] \notin {"connecting", "open"}

===============================================================================
