------------------------------ MODULE SshGateway ------------------------------
(***************************************************************************)
(* The SSH half of the node agent: SshLeaseManager (ssh/lease-manager.ts)  *)
(* and the handlers of agent/server.ts that drive it.  The agent is one    *)
(* JavaScript process; a handler is cut at its awaits: the guest's         *)
(* connections.configure, the certificate signer and the connection to the *)
(* guest's private endpoint.  The VMs are reduced to whether they run.     *)
(***************************************************************************)
EXTENDS Integers, FiniteSets

CONSTANTS
    Ids,            \* workspaces
    Modes,          \* SshAccessMode: shell and nfs
    Leases,         \* lease ids (randomUUID at issue)
    Tunnels,        \* tunnel requests in progress or open
    NoId, NoLease,
    Ttls,           \* the lease lengths a client may ask for (requestedTtlMs)
    Margin,         \* the second below which a lease is not worth issuing
    VmLease,        \* the lease of a workspace, in clock ticks
    MaxConnections, \* maxConnectionsPerLease
    MaxTime         \* bound: the last clock value a behaviour reaches

ASSUME GatewayAssumption ==
    /\ IsFiniteSet(Tunnels)
    /\ Ttls \subseteq Nat \ {0}
    /\ Margin \in Nat
    /\ VmLease \in Nat \ {0}
    /\ MaxConnections \in Nat \ {0}
    /\ MaxTime \in Nat
    /\ NoId \notin Ids
    /\ NoLease \notin Leases

VARIABLES
    now,
    vm,             \* runtime.status of each workspace ("none": not created)
    vmEnd,          \* leaseExpiresAt of each workspace
    configuring,    \* the POST handlers that await connections.configure
    connections,    \* the keys of the connections map
    stage,          \* a lease: unused, being signed, in the map, or gone
    scope,          \* its workspace and mode
    validBefore,    \* its expiry
    tunnel,         \* a tunnel request: idle, connecting, or an open stream
    via             \* the lease a tunnel was authorized by

vmVars == <<vm, vmEnd, configuring, connections>>
leaseVars == <<stage, scope, validBefore>>
vars == <<now, vmVars, leaseVars, tunnel, via>>

NoScope == [ws |-> NoId, mode |-> "none"]
Scopes  == [ws : Ids, mode : Modes]

\* Every variable has its type.
TypeOK ==
    /\ now \in 0..MaxTime
    /\ vm \in [Ids -> {"none", "running", "ended"}]
    /\ vmEnd \in [Ids -> Nat]
    /\ configuring \subseteq Ids
    /\ connections \subseteq Ids
    /\ stage \in [Leases -> {"unused", "signing", "live", "gone"}]
    /\ scope \in [Leases -> Scopes \cup {NoScope}]
    /\ validBefore \in [Leases -> Nat]
    /\ tunnel \in [Tunnels -> {"idle", "connecting", "open"}]
    /\ via \in [Tunnels -> Leases \cup {NoLease}]

Init ==
    /\ now = 0
    /\ vm = [id \in Ids |-> "none"]
    /\ vmEnd = [id \in Ids |-> 0]
    /\ configuring = {}
    /\ connections = {}
    /\ stage = [l \in Leases |-> "unused"]
    /\ scope = [l \in Leases |-> NoScope]
    /\ validBefore = [l \in Leases |-> 0]
    /\ tunnel = [t \in Tunnels |-> "idle"]
    /\ via = [t \in Tunnels |-> NoLease]

LiveOf(ids) == {l \in Leases : stage[l] = "live" /\ scope[l].ws \in ids}
Uses(l, states) == {t \in Tunnels : via[t] = l /\ tunnel[t] \in states}

\* Mutant: the streams of a revoked lease stay open.
KeepStreams(S) == UNCHANGED <<tunnel, via>>

\* The open streams of the leases in S are destroyed.  A connection still
\* being made is not among them.
CloseStreams(S) ==
    LET closed == {t \in Tunnels : tunnel[t] = "open" /\ via[t] \in S} IN
    /\ tunnel' = [t \in Tunnels |-> IF t \in closed THEN "idle" ELSE tunnel[t]]
    /\ via' = [t \in Tunnels |-> IF t \in closed THEN NoLease ELSE via[t]]

\* revokeTrusted() of each lease in S: it leaves the map with its streams.
Revoke(S) ==
    /\ stage' = [l \in Leases |-> IF l \in S THEN "gone" ELSE stage[l]]
    /\ CloseStreams(S)

-------------------------------------------------------------------------------
(* Workspaces *)

\* runtime.create has returned: the handler asks the guest to configure
\* its connections.
Boot(id) ==
    /\ vm[id] = "none"
    /\ now + VmLease <= MaxTime
    /\ vm' = [vm EXCEPT ![id] = "running"]
    /\ vmEnd' = [vmEnd EXCEPT ![id] = now + VmLease]
    /\ configuring' = configuring \cup {id}
    /\ UNCHANGED <<now, connections, leaseVars, tunnel, via>>

\* The guest has answered.  sshEndpoint throws when the VM was stopped in
\* the meantime, and the handler's own stop then finds nothing to do.
Configured(id) ==
    /\ id \in configuring
    /\ configuring' = configuring \ {id}
    /\ connections' = IF vm[id] = "running" THEN connections \cup {id} ELSE connections
    /\ UNCHANGED <<now, vm, vmEnd, leaseVars, tunnel, via>>

\* The guest refuses or does not answer: the handler stops the VM.
ConfigureFails(id) ==
    /\ id \in configuring
    /\ configuring' = configuring \ {id}
    /\ vm' = [vm EXCEPT ![id] = "ended"]
    /\ UNCHANGED <<now, vmEnd, connections, leaseVars, tunnel, via>>

\* DELETE /v1/workspaces/:id up to the await of runtime.stop.
Delete(id) ==
    /\ vm[id] # "none"
    /\ Revoke(LiveOf({id}))
    /\ connections' = connections \ {id}
    /\ vm' = [vm EXCEPT ![id] = "ended"]
    /\ UNCHANGED <<now, vmEnd, configuring, scope, validBefore>>

\* The VM exits, or the sweeper's runtime.sweep stops it: its lease is over.
VmEnds(id) ==
    /\ vm[id] = "running"
    /\ vm' = [vm EXCEPT ![id] = "ended"]
    /\ UNCHANGED <<now, vmEnd, configuring, connections, leaseVars, tunnel, via>>

VmSweep ==
    LET over == {id \in Ids : vm[id] = "running" /\ vmEnd[id] <= now} IN
    /\ over # {}
    /\ vm' = [id \in Ids |-> IF id \in over THEN "ended" ELSE vm[id]]
    /\ UNCHANGED <<now, vmEnd, configuring, connections, leaseVars, tunnel, via>>

\* Mutant: the sweeper forgets a workspace and keeps its grants.
ConnectionSweepKeepsGrants ==
    LET lost == {id \in connections : vm[id] # "running"} IN
    /\ lost # {}
    /\ connections' = connections \ lost
    /\ UNCHANGED <<now, vm, vmEnd, configuring, leaseVars, tunnel, via>>

\* Mutant: only a forgotten instance counts as lost.
ConnectionSweepMissing ==
    LET lost == {id \in connections : vm[id] = "none"} IN
    /\ lost # {}
    /\ Revoke(LiveOf(lost))
    /\ connections' = connections \ lost
    /\ UNCHANGED <<now, vm, vmEnd, configuring, scope, validBefore>>

\* After runtime.sweep has settled: the connections of VMs that do not run.
ConnectionSweep ==
    LET lost == {id \in connections : vm[id] # "running"} IN
    /\ lost # {}
    /\ Revoke(LiveOf(lost))
    /\ connections' = connections \ lost
    /\ UNCHANGED <<now, vm, vmEnd, configuring, scope, validBefore>>

-------------------------------------------------------------------------------
(* Grants *)

\* POST .../connections/ssh and issue() up to the await of the signer.
IssueBegin(l, id, mode, ttl) ==
    LET until == IF vmEnd[id] < now + ttl THEN vmEnd[id] ELSE now + ttl IN
    /\ stage[l] = "unused"
    /\ vm[id] = "running"
    /\ id \in connections
    /\ vmEnd[id] > now + Margin
    /\ until > now + Margin
    /\ stage' = [stage EXCEPT ![l] = "signing"]
    /\ scope' = [scope EXCEPT ![l] = [ws |-> id, mode |-> mode]]
    /\ validBefore' = [validBefore EXCEPT ![l] = until]
    /\ UNCHANGED <<now, vmVars, tunnel, via>>

\* Mutant: an earlier lease of the same scope is not replaced.
IssueEndBeside(l) ==
    /\ stage[l] = "signing"
    /\ stage' = [stage EXCEPT ![l] = "live"]
    /\ UNCHANGED <<now, vmVars, scope, validBefore, tunnel, via>>

\* The certificate is signed: an earlier lease of the same scope is replaced.
\* Nothing looks again at the workspace.
IssueEnd(l) ==
    LET old == {o \in Leases : stage[o] = "live" /\ scope[o] = scope[l]} IN
    /\ stage[l] = "signing"
    /\ CloseStreams(old)
    /\ stage' = [o \in Leases |-> IF o \in old THEN "gone"
                                  ELSE IF o = l THEN "live" ELSE stage[o]]
    /\ UNCHANGED <<now, vmVars, scope, validBefore>>

IssueFails(l) ==
    /\ stage[l] = "signing"
    /\ stage' = [stage EXCEPT ![l] = "gone"]
    /\ UNCHANGED <<now, vmVars, scope, validBefore, tunnel, via>>

\* DELETE .../connections/ssh/:leaseId.
RevokeGrant(l) ==
    /\ stage[l] = "live"
    /\ scope[l].ws \in connections
    /\ Revoke({l})
    /\ UNCHANGED <<now, vmVars, scope, validBefore>>

\* The lease's own timer, the lease sweeper, or authorize() of a request
\* that comes too late.
ExpireGrant(l) ==
    /\ stage[l] = "live"
    /\ validBefore[l] <= now
    /\ Revoke({l})
    /\ UNCHANGED <<now, vmVars, scope, validBefore>>

-------------------------------------------------------------------------------
(* Tunnels *)

\* Mutant: connections still being made are not counted.
OpenBeginUncounted(t, l) ==
    /\ tunnel[t] = "idle"
    /\ stage[l] = "live"
    /\ scope[l].ws \in connections
    /\ now < validBefore[l]
    /\ Cardinality(Uses(l, {"open"})) < MaxConnections
    /\ tunnel' = [tunnel EXCEPT ![t] = "connecting"]
    /\ via' = [via EXCEPT ![t] = l]
    /\ UNCHANGED <<now, vmVars, leaseVars>>

\* The upgrade request names a workspace in connections and carries the
\* lease's scope and token; openTunnel() up to the await of the connector.
OpenBegin(t, l) ==
    /\ tunnel[t] = "idle"
    /\ stage[l] = "live"
    /\ scope[l].ws \in connections
    /\ now < validBefore[l]
    /\ Cardinality(Uses(l, {"connecting", "open"})) < MaxConnections
    /\ tunnel' = [tunnel EXCEPT ![t] = "connecting"]
    /\ via' = [via EXCEPT ![t] = l]
    /\ UNCHANGED <<now, vmVars, leaseVars>>

\* Mutant: the lease is not looked at again after the connection.
OpenEndUnchecked(t) ==
    /\ tunnel[t] = "connecting"
    /\ tunnel' = [tunnel EXCEPT ![t] = "open"]
    /\ UNCHANGED <<now, vmVars, leaseVars, via>>

\* Mutant: the expiry is left to the lease's timer.
OpenEndTrustsTimer(t) ==
    LET holds == stage[via[t]] = "live" IN
    /\ tunnel[t] = "connecting"
    /\ tunnel' = [tunnel EXCEPT ![t] = IF holds THEN "open" ELSE "idle"]
    /\ via' = [via EXCEPT ![t] = IF holds THEN @ ELSE NoLease]
    /\ UNCHANGED <<now, vmVars, leaseVars>>

\* The endpoint is connected: the stream is kept if the lease still holds.
OpenEnd(t) ==
    LET holds == now < validBefore[via[t]] /\ stage[via[t]] = "live" IN
    /\ tunnel[t] = "connecting"
    /\ tunnel' = [tunnel EXCEPT ![t] = IF holds THEN "open" ELSE "idle"]
    /\ via' = [via EXCEPT ![t] = IF holds THEN @ ELSE NoLease]
    /\ UNCHANGED <<now, vmVars, leaseVars>>

\* The connector fails or times out, or an open stream closes.
TunnelEnds(t) ==
    /\ tunnel[t] # "idle"
    /\ tunnel' = [tunnel EXCEPT ![t] = "idle"]
    /\ via' = [via EXCEPT ![t] = NoLease]
    /\ UNCHANGED <<now, vmVars, leaseVars>>

-------------------------------------------------------------------------------

Tick ==
    /\ now < MaxTime
    /\ now' = now + 1
    /\ UNCHANGED <<vmVars, leaseVars, tunnel, via>>

Sweeper == VmSweep \/ ConnectionSweep

Next ==
    \/ \E id \in Ids : Boot(id) \/ Configured(id) \/ ConfigureFails(id) \/ Delete(id) \/ VmEnds(id)
    \/ Sweeper
    \/ \E l \in Leases :
        \/ \E id \in Ids, mode \in Modes, ttl \in Ttls : IssueBegin(l, id, mode, ttl)
        \/ IssueEnd(l) \/ IssueFails(l) \/ RevokeGrant(l) \/ ExpireGrant(l)
    \/ \E t \in Tunnels : OpenEnd(t) \/ TunnelEnds(t) \/ \E l \in Leases : OpenBegin(t, l)
    \/ Tick

Spec == Init /\ [][Next]_vars

\* The clock runs, the two intervals of the agent fire, and so does a
\* lease's timer.  Clients, guests and the signer get no fairness.
Fairness ==
    /\ WF_vars(Tick)
    /\ WF_vars(VmSweep)
    /\ WF_vars(ConnectionSweep)
    /\ \A l \in Leases : WF_vars(ExpireGrant(l))

FairSpec == Spec /\ Fairness

-------------------------------------------------------------------------------
(* Properties *)

\* issue() replaces: whatever overlapping requests were being signed, a
\* workspace has one live grant per mode.
OneGrantPerScope ==
    \A l, o \in Leases : stage[l] = "live" /\ stage[o] = "live" /\ scope[l] = scope[o] => l = o

\* A stream is open only while its lease is in the map: revocation, expiry
\* and replacement reach also a connection that was being made meanwhile.
StreamsAuthorized ==
    \A t \in Tunnels : tunnel[t] = "open" => stage[via[t]] = "live"

\* No stream survives the stop of its workspace, although a grant may be
\* signed, and a connection completed, after it.
NoStreamAfterStop ==
    \A t \in Tunnels : tunnel[t] = "open" => scope[via[t]].ws \in connections

\* A lease never has more streams, open or being opened, than allowed.
ConnectionLimit ==
    \A l \in Leases : Cardinality(Uses(l, {"connecting", "open"})) <= MaxConnections

\* No stream is opened once the lease of its workspace is over, although the
\* sweeper, the lease's timer, the signer and the connector may all be late
\* and the VM may still run: openTunnel() looks at the clock again after its
\* await, and no grant is good for longer than the workspace's lease.
NoStreamAfterLease ==
    [][\A t \in Tunnels : tunnel[t] # "open" /\ tunnel'[t] = "open"
                            => now < vmEnd[scope[via[t]].ws]]_vars

\* The sweeper finds every workspace in the connections map whose VM has
\* ended, however it ended.
ConnectionsEnd ==
    \A id \in Ids : (id \in connections /\ vm[id] = "ended") ~> id \notin connections

\* Every stream ends, at the latest with its lease, and so does every grant.
GrantsEnd ==
    /\ \A l \in Leases : stage[l] = "live" ~> stage[l] = "gone"
    /\ \A t \in Tunnels : tunnel[t] = "open" ~> tunnel[t] # "open"

===============================================================================
