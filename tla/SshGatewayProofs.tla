--------------------------- MODULE SshGatewayProofs ---------------------------
(***************************************************************************)
(* The guarantees of SshGateway for any number of workspaces, leases and   *)
(* tunnels.  The invariant that carries them follows a tunnel from its     *)
(* authorization: the lease it was authorized by is in the map or gone for *)
(* good, and while it is in the map its workspace is among connections.    *)
(***************************************************************************)
EXTENDS SshGateway, FiniteSetTheorems, TLAPS

USE GatewayAssumption

\* What every step preserves of the types.
GatewayTypes ==
    /\ now \in Nat
    /\ vm \in [Ids -> {"none", "running", "ended"}]
    /\ vmEnd \in [Ids -> Nat]
    /\ stage \in [Leases -> {"unused", "signing", "live", "gone"}]
    /\ scope \in [Leases -> Scopes \cup {NoScope}]
    /\ validBefore \in [Leases -> Nat]
    /\ tunnel \in [Tunnels -> {"idle", "connecting", "open"}]
    /\ via \in [Tunnels -> Leases \cup {NoLease}]

\* A lease that was asked for has the scope of a workspace that was created.
ScopeInv ==
    \A l \in Leases : stage[l] # "unused" => scope[l] \in Scopes /\ vm[scope[l].ws] # "none"

\* A tunnel's lease has been issued, and is forgotten with its workspace.
TunnelInv ==
    \A t \in Tunnels : tunnel[t] # "idle" =>
        /\ via[t] \in Leases
        /\ stage[via[t]] \in {"live", "gone"}
        /\ tunnel[t] = "open" => stage[via[t]] = "live"
        /\ stage[via[t]] = "live" => scope[via[t]].ws \in connections

\* A grant, asked for or issued, is good for at most the workspace's lease.
GrantsCapped ==
    \A l \in Leases : stage[l] \in {"signing", "live"} => validBefore[l] <= vmEnd[scope[l].ws]

GatewayInv ==
    GatewayTypes /\ ScopeInv /\ TunnelInv /\ GrantsCapped /\ OneGrantPerScope

\* The agent starts with no workspace and no lease.
LEMMA GatewayInit == Init => GatewayInv
BY DEF Init, GatewayInv, GatewayTypes, ScopeInv, TunnelInv, GrantsCapped, OneGrantPerScope

\* Revoking the leases of a set keeps the invariant, also when workspaces
\* whose live leases are all in the set leave connections.
LEMMA RevokeStep ==
    ASSUME GatewayInv, NEW S \in SUBSET Leases, Revoke(S),
           UNCHANGED <<now, vmEnd, scope, validBefore>>,
           vm' \in [Ids -> {"none", "running", "ended"}],
           \A id \in Ids : vm[id] # "none" => vm'[id] # "none",
           \A l \in Leases : stage[l] = "live" /\ scope[l].ws \in connections
                             => l \in S \/ scope[l].ws \in connections',
           \A l \in S : stage[l] = "live"
    PROVE  GatewayInv'
<1> USE DEF GatewayInv, GatewayTypes, Revoke, CloseStreams
<1>1. GatewayTypes'
  OBVIOUS
<1>2. ScopeInv'
  BY DEF ScopeInv, Scopes
<1>3. TunnelInv'
  BY DEF TunnelInv
<1>4. GrantsCapped' /\ OneGrantPerScope'
  BY DEF GrantsCapped, OneGrantPerScope
<1> QED BY <1>1, <1>2, <1>3, <1>4

\* Workspaces come, are configured and end.
LEMMA WorkspaceStep ==
    ASSUME GatewayInv,
           \/ \E id \in Ids : Boot(id) \/ Configured(id) \/ ConfigureFails(id) \/ Delete(id) \/ VmEnds(id)
           \/ VmSweep \/ ConnectionSweep
    PROVE  GatewayInv'
<1>1. ASSUME NEW id \in Ids, Boot(id) PROVE GatewayInv'
  <2>1. GatewayTypes' /\ TunnelInv' /\ OneGrantPerScope'
    BY <1>1 DEF Boot, leaseVars, GatewayInv, GatewayTypes, TunnelInv, OneGrantPerScope
  <2>2. ScopeInv' /\ GrantsCapped'
    BY <1>1 DEF Boot, leaseVars, GatewayInv, GatewayTypes, ScopeInv, GrantsCapped, Scopes
  <2> QED BY <2>1, <2>2 DEF GatewayInv
<1>2. ASSUME NEW id \in Ids, Configured(id) PROVE GatewayInv'
  BY <1>2 DEF Configured, leaseVars, GatewayInv, GatewayTypes, ScopeInv, TunnelInv,
     GrantsCapped, OneGrantPerScope
<1>3. ASSUME NEW id \in Ids, ConfigureFails(id) \/ VmEnds(id) PROVE GatewayInv'
  BY <1>3 DEF ConfigureFails, VmEnds, leaseVars, GatewayInv, GatewayTypes, ScopeInv, TunnelInv,
     GrantsCapped, OneGrantPerScope, Scopes
<1>4. ASSUME NEW id \in Ids, Delete(id) PROVE GatewayInv'
  <2>1. LiveOf({id}) \in SUBSET Leases /\ \A l \in LiveOf({id}) : stage[l] = "live"
    BY DEF LiveOf
  <2>2. \A l \in Leases : stage[l] = "live" /\ scope[l].ws \in connections
                          => l \in LiveOf({id}) \/ scope[l].ws \in connections'
    BY <1>4 DEF Delete, LiveOf
  <2>3. vm' \in [Ids -> {"none", "running", "ended"}] /\ \A i \in Ids : vm[i] # "none" => vm'[i] # "none"
    BY <1>4 DEF Delete, GatewayInv, GatewayTypes
  <2>4. Revoke(LiveOf({id})) /\ UNCHANGED <<now, vmEnd, scope, validBefore>>
    BY <1>4 DEF Delete
  <2> QED BY <2>1, <2>2, <2>3, <2>4, RevokeStep
<1>5. ASSUME VmSweep PROVE GatewayInv'
  BY <1>5 DEF VmSweep, leaseVars, GatewayInv, GatewayTypes, ScopeInv, TunnelInv,
     GrantsCapped, OneGrantPerScope, Scopes
<1>6. ASSUME ConnectionSweep PROVE GatewayInv'
  <2> DEFINE lost == {id \in connections : vm[id] # "running"}
  <2>1. LiveOf(lost) \in SUBSET Leases /\ \A l \in LiveOf(lost) : stage[l] = "live"
    BY DEF LiveOf
  <2>2. \A l \in Leases : stage[l] = "live" /\ scope[l].ws \in connections
                          => l \in LiveOf(lost) \/ scope[l].ws \in connections'
    BY <1>6 DEF ConnectionSweep, LiveOf
  <2>3. vm' \in [Ids -> {"none", "running", "ended"}] /\ \A i \in Ids : vm[i] # "none" => vm'[i] # "none"
    BY <1>6 DEF ConnectionSweep, GatewayInv, GatewayTypes
  <2>4. Revoke(LiveOf(lost)) /\ UNCHANGED <<now, vmEnd, scope, validBefore>>
    BY <1>6 DEF ConnectionSweep
  <2> QED BY <2>1, <2>2, <2>3, <2>4, RevokeStep
<1> QED BY <1>1, <1>2, <1>3, <1>4, <1>5, <1>6

\* Grants are asked for, signed, replaced, revoked and expire.
LEMMA GrantStep ==
    ASSUME GatewayInv, NEW l \in Leases,
           \/ \E id \in Ids, mode \in Modes, ttl \in Ttls : IssueBegin(l, id, mode, ttl)
           \/ IssueEnd(l) \/ IssueFails(l) \/ RevokeGrant(l) \/ ExpireGrant(l)
    PROVE  GatewayInv'
<1>1. ASSUME NEW id \in Ids, NEW mode \in Modes, NEW ttl \in Ttls, IssueBegin(l, id, mode, ttl)
      PROVE  GatewayInv'
  <2> DEFINE sc == [ws |-> id, mode |-> mode]
             until == IF vmEnd[id] < now + ttl THEN vmEnd[id] ELSE now + ttl
  <2>1. sc \in Scopes /\ sc.ws = id /\ until \in Nat /\ until <= vmEnd[id]
    BY DEF Scopes, GatewayInv, GatewayTypes
  <2>2. /\ stage[l] = "unused" /\ vm[id] = "running" /\ stage' = [stage EXCEPT ![l] = "signing"]
        /\ scope' = [scope EXCEPT ![l] = sc] /\ validBefore' = [validBefore EXCEPT ![l] = until]
        /\ UNCHANGED <<now, vm, vmEnd, connections, tunnel, via>>
    BY <1>1 DEF IssueBegin, vmVars
  <2> HIDE DEF sc, until
  <2>3. GatewayTypes' /\ ScopeInv'
    BY <2>1, <2>2 DEF GatewayInv, GatewayTypes, ScopeInv
  <2>4. TunnelInv'
    BY <2>2 DEF GatewayInv, GatewayTypes, TunnelInv
  <2>5. GrantsCapped'
    BY <2>1, <2>2 DEF GatewayInv, GatewayTypes, GrantsCapped
  <2>6. OneGrantPerScope'
    BY <2>2 DEF GatewayInv, GatewayTypes, OneGrantPerScope
  <2> QED BY <2>3, <2>4, <2>5, <2>6 DEF GatewayInv
<1>2. CASE IssueEnd(l)
  <2>1. GatewayTypes' /\ ScopeInv'
    BY <1>2 DEF IssueEnd, CloseStreams, vmVars, GatewayInv, GatewayTypes, ScopeInv
  <2>2. TunnelInv'
    BY <1>2 DEF IssueEnd, CloseStreams, vmVars, GatewayInv, GatewayTypes, TunnelInv
  <2>3. GrantsCapped' /\ OneGrantPerScope'
    BY <1>2 DEF IssueEnd, vmVars, GatewayInv, GatewayTypes, GrantsCapped, OneGrantPerScope
  <2> QED BY <2>1, <2>2, <2>3 DEF GatewayInv
<1>3. CASE IssueFails(l)
  BY <1>3 DEF IssueFails, vmVars, GatewayInv, GatewayTypes, ScopeInv, TunnelInv,
     GrantsCapped, OneGrantPerScope
<1>4. CASE RevokeGrant(l) \/ ExpireGrant(l)
  <2>1. /\ {l} \in SUBSET Leases /\ stage[l] = "live" /\ Revoke({l})
        /\ UNCHANGED <<now, vm, vmEnd, connections, scope, validBefore>>
    BY <1>4 DEF RevokeGrant, ExpireGrant, vmVars
  <2>2. vm' \in [Ids -> {"none", "running", "ended"}]
    BY <2>1 DEF GatewayInv, GatewayTypes
  <2> QED BY <2>1, <2>2, RevokeStep
<1> QED BY <1>1, <1>2, <1>3, <1>4

\* Tunnels open and close.
LEMMA TunnelStep ==
    ASSUME GatewayInv, NEW t \in Tunnels,
           OpenEnd(t) \/ TunnelEnds(t) \/ \E l \in Leases : OpenBegin(t, l)
    PROVE  GatewayInv'
<1> USE DEF GatewayInv, GatewayTypes, ScopeInv, TunnelInv, GrantsCapped, OneGrantPerScope,
            vmVars, leaseVars
<1>1. CASE OpenEnd(t)
  BY <1>1 DEF OpenEnd
<1>2. CASE TunnelEnds(t)
  BY <1>2 DEF TunnelEnds
<1>3. CASE \E l \in Leases : OpenBegin(t, l)
  BY <1>3 DEF OpenBegin
<1> QED BY <1>1, <1>2, <1>3

\* GatewayInv is inductive.
LEMMA GatewayStep == GatewayInv /\ [Next]_vars => GatewayInv'
<1> SUFFICES ASSUME GatewayInv, [Next]_vars PROVE GatewayInv'
  OBVIOUS
<1>1. CASE UNCHANGED vars \/ Tick
  BY <1>1 DEF vars, vmVars, leaseVars, Tick, GatewayInv, GatewayTypes, ScopeInv, TunnelInv,
     GrantsCapped, OneGrantPerScope
<1> QED BY <1>1, WorkspaceStep, GrantStep, TunnelStep DEF Next, Sweeper

\* A workspace has one live grant per mode, whatever requests overlap.
THEOREM OneGrantAlways == Spec => []OneGrantPerScope
<1>1. GatewayInv => OneGrantPerScope
  BY DEF GatewayInv
<1> QED BY GatewayInit, GatewayStep, <1>1, PTL DEF Spec

\* The only step that opens a stream looks at the clock, and the lease it finds
\* in the map is capped by the lease of its workspace.
LEMMA OpensInTime ==
    ASSUME GatewayInv, [Next]_vars, NEW t \in Tunnels, tunnel[t] # "open", tunnel'[t] = "open"
    PROVE  now < vmEnd[scope[via[t]].ws]
<1> USE DEF GatewayInv, GatewayTypes, vmVars, leaseVars
<1>1. ASSUME \E S : CloseStreams(S) PROVE FALSE
  BY <1>1 DEF CloseStreams
<1>2. CASE UNCHANGED vars \/ Tick
  BY <1>2 DEF vars, Tick
<1>3. ASSUME NEW id \in Ids,
             Boot(id) \/ Configured(id) \/ ConfigureFails(id) \/ Delete(id) \/ VmEnds(id)
      PROVE  FALSE
  BY <1>1, <1>3 DEF Boot, Configured, ConfigureFails, Delete, VmEnds, Revoke
<1>4. CASE Sweeper
  BY <1>1, <1>4 DEF Sweeper, VmSweep, ConnectionSweep, Revoke
<1>5. ASSUME NEW o \in Leases,
             \/ \E id \in Ids, mode \in Modes, ttl \in Ttls : IssueBegin(o, id, mode, ttl)
             \/ IssueEnd(o) \/ IssueFails(o) \/ RevokeGrant(o) \/ ExpireGrant(o)
      PROVE  FALSE
  BY <1>1, <1>5 DEF IssueBegin, IssueEnd, IssueFails, RevokeGrant, ExpireGrant, Revoke
<1>6. ASSUME NEW u \in Tunnels, TunnelEnds(u) \/ \E l \in Leases : OpenBegin(u, l) PROVE FALSE
  BY <1>6 DEF TunnelEnds, OpenBegin
<1>7. ASSUME NEW u \in Tunnels, OpenEnd(u) PROVE now < vmEnd[scope[via[t]].ws]
  <2>1. u = t /\ tunnel[t] = "connecting" /\ now < validBefore[via[t]] /\ stage[via[t]] = "live"
    BY <1>7 DEF OpenEnd
  <2>2. via[t] \in Leases
    BY <2>1 DEF TunnelInv
  <2>3. validBefore[via[t]] <= vmEnd[scope[via[t]].ws]
    BY <2>1, <2>2 DEF GrantsCapped
  <2>4. scope[via[t]].ws \in Ids
    BY <2>1, <2>2 DEF ScopeInv, Scopes
  <2> QED BY <2>1, <2>2, <2>3, <2>4
<1> QED BY <1>2, <1>3, <1>4, <1>5, <1>6, <1>7 DEF Next

\* No stream is opened after the lease of its workspace, however late the
\* sweeper, the timers, the signer and the connector are.
THEOREM NoStreamEverAfterLease == Spec => NoStreamAfterLease
<1>1. GatewayInv /\ [Next]_vars
      => [\A t \in Tunnels : tunnel[t] # "open" /\ tunnel'[t] = "open"
                             => now < vmEnd[scope[via[t]].ws]]_vars
  BY OpensInTime
<1> QED BY GatewayInit, GatewayStep, <1>1, PTL DEF Spec, NoStreamAfterLease

\* An open stream has a lease that still holds, although openTunnel() awaits
\* the guest's endpoint between its two looks at the lease.
THEOREM StreamsAlwaysAuthorized == Spec => []StreamsAuthorized
<1>1. GatewayInv => StreamsAuthorized
  BY DEF GatewayInv, GatewayTypes, TunnelInv, StreamsAuthorized
<1> QED BY GatewayInit, GatewayStep, <1>1, PTL DEF Spec

\* An open stream belongs to a workspace that was not stopped.
THEOREM NoStreamEverAfterStop == Spec => []NoStreamAfterStop
<1>1. GatewayInv => NoStreamAfterStop
  BY DEF GatewayInv, GatewayTypes, TunnelInv, NoStreamAfterStop
<1> QED BY GatewayInit, GatewayStep, <1>1, PTL DEF Spec

-------------------------------------------------------------------------------
(* The limit on the connections of a lease *)

UsesOf(l) == Uses(l, {"connecting", "open"})

\* A step adds to the uses of a lease only as OpenBegin does, below the limit.
LEMMA UsesStep ==
    ASSUME GatewayInv, [Next]_vars, NEW l \in Leases
    PROVE  \/ UsesOf(l)' \subseteq UsesOf(l)
           \/ \E t \in Tunnels : /\ UsesOf(l)' \subseteq UsesOf(l) \cup {t}
                               /\ Cardinality(UsesOf(l)) < MaxConnections
<1> USE DEF UsesOf, Uses, GatewayInv, GatewayTypes, vmVars, leaseVars
<1>1. ASSUME \E S : CloseStreams(S) PROVE UsesOf(l)' \subseteq UsesOf(l)
  BY <1>1 DEF CloseStreams
<1>2. CASE UNCHANGED vars \/ Tick
  BY <1>2 DEF vars, Tick
<1>3. ASSUME NEW id \in Ids,
             Boot(id) \/ Configured(id) \/ ConfigureFails(id) \/ Delete(id) \/ VmEnds(id)
      PROVE  UsesOf(l)' \subseteq UsesOf(l)
  BY <1>1, <1>3 DEF Boot, Configured, ConfigureFails, Delete, VmEnds, Revoke
<1>4. CASE Sweeper
  BY <1>1, <1>4 DEF Sweeper, VmSweep, ConnectionSweep, Revoke
<1>5. ASSUME NEW o \in Leases,
             \/ \E id \in Ids, mode \in Modes, ttl \in Ttls : IssueBegin(o, id, mode, ttl)
             \/ IssueEnd(o) \/ IssueFails(o) \/ RevokeGrant(o) \/ ExpireGrant(o)
      PROVE  UsesOf(l)' \subseteq UsesOf(l)
  BY <1>1, <1>5 DEF IssueBegin, IssueEnd, IssueFails, RevokeGrant, ExpireGrant, Revoke
<1>6. ASSUME NEW t \in Tunnels, OpenEnd(t) \/ TunnelEnds(t) PROVE UsesOf(l)' \subseteq UsesOf(l)
  BY <1>6 DEF OpenEnd, TunnelEnds
<1>7. ASSUME NEW t \in Tunnels, NEW o \in Leases, OpenBegin(t, o)
      PROVE  \/ UsesOf(l)' \subseteq UsesOf(l)
             \/ /\ UsesOf(l)' \subseteq UsesOf(l) \cup {t}
                /\ Cardinality(UsesOf(l)) < MaxConnections
  <2>1. CASE o = l
    <3>1. UsesOf(l)' \subseteq UsesOf(l) \cup {t}
      BY <1>7, <2>1 DEF OpenBegin
    <3>2. Cardinality(UsesOf(l)) < MaxConnections
      BY <1>7, <2>1 DEF OpenBegin
    <3> QED BY <3>1, <3>2
  <2>2. CASE o # l
    BY <1>7, <2>2 DEF OpenBegin
  <2> QED BY <2>1, <2>2
<1> QED BY <1>2, <1>3, <1>4, <1>5, <1>6, <1>7 DEF Next

\* The limit is checked in the step that counts the new connection.
LEMMA LimitStep == GatewayInv /\ ConnectionLimit /\ [Next]_vars => ConnectionLimit'
<1> SUFFICES ASSUME GatewayInv, ConnectionLimit, [Next]_vars, NEW l \in Leases
             PROVE  Cardinality(UsesOf(l)') <= MaxConnections
  BY DEF ConnectionLimit, UsesOf
<1>1. UsesOf(l) \subseteq Tunnels /\ UsesOf(l)' \subseteq Tunnels
  BY DEF UsesOf, Uses
<1>2. IsFiniteSet(UsesOf(l)) /\ IsFiniteSet(UsesOf(l)')
  BY <1>1, FS_Subset
<1>3. Cardinality(UsesOf(l)) \in Nat /\ Cardinality(UsesOf(l)') \in Nat
      /\ Cardinality(UsesOf(l)) <= MaxConnections
  BY <1>2, FS_CardinalityType DEF ConnectionLimit, UsesOf
<1>4. CASE UsesOf(l)' \subseteq UsesOf(l)
  <2>1. Cardinality(UsesOf(l)') <= Cardinality(UsesOf(l))
    BY <1>2, <1>4, FS_Subset
  <2> QED BY <2>1, <1>3
<1>5. ASSUME NEW t \in Tunnels, UsesOf(l)' \subseteq UsesOf(l) \cup {t},
             Cardinality(UsesOf(l)) < MaxConnections
      PROVE  Cardinality(UsesOf(l)') <= MaxConnections
  <2>1. /\ IsFiniteSet(UsesOf(l) \cup {t})
        /\ Cardinality(UsesOf(l) \cup {t}) =
              IF t \in UsesOf(l) THEN Cardinality(UsesOf(l)) ELSE Cardinality(UsesOf(l)) + 1
    BY <1>2, FS_AddElement
  <2>2. Cardinality(UsesOf(l)') <= Cardinality(UsesOf(l) \cup {t})
    BY <2>1, <1>5, FS_Subset
  <2> QED BY <2>1, <2>2, <1>3, <1>5
<1> QED BY <1>4, <1>5, UsesStep

\* A lease never has more connections than maxConnectionsPerLease, open or
\* being opened.
THEOREM ConnectionsAlwaysLimited == Spec => []ConnectionLimit
<1>1. Init => ConnectionLimit
  <2> SUFFICES ASSUME Init, NEW l \in Leases PROVE Cardinality(UsesOf(l)) <= MaxConnections
    BY DEF ConnectionLimit, UsesOf
  <2>1. UsesOf(l) = {}
    BY DEF Init, UsesOf, Uses
  <2> QED BY <2>1, FS_EmptySet
<1> QED BY GatewayInit, GatewayStep, LimitStep, <1>1, PTL DEF Spec

===============================================================================
