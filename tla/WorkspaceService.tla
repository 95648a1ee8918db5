--------------------------- MODULE WorkspaceService ---------------------------
(***************************************************************************)
(* control/workspaces.ts: the control plane's WorkspaceService over its    *)
(* SQLite rows.  JavaScript runs to completion, so the code between two    *)
(* awaits is atomic with respect to every other request of this process.   *)
(* The reconciler's straight-line segments are nevertheless written as     *)
(* small steps: while recPc is at one of them (JsFree is false) no other   *)
(* action of this module is enabled, only the clock and the agent move.    *)
(***************************************************************************)
EXTENDS AgentCalls

CONSTANTS
    Wallets, Ips,
    MaxRunning, MaxQueue,
    MaxActivePerWallet, MaxActivePerIp,
    DailyPerWallet, DailyPerIp,
    Day,            \* the 24-hour window, in clock ticks
    NoWallet, NoIp, NoId

ASSUME ServiceAssumption ==
    /\ MaxRunning \in Nat \ {0}
    /\ MaxQueue \in Nat
    /\ MaxActivePerWallet \in Nat \ {0}
    /\ MaxActivePerIp \in Nat \ {0}
    /\ DailyPerWallet \in Nat \ {0}
    /\ DailyPerIp \in Nat \ {0}
    /\ Day \in Nat
    /\ NoWallet \notin Wallets
    /\ NoIp \notin Ips
    /\ NoId \notin Ids

VARIABLES
    state,          \* workspaces.state ("none": no such row yet)
    wallet,         \* workspaces.wallet
    ip,             \* workspaces.ip_hash
    volOwner,       \* persistent_volumes.wallet (NoWallet: no such row yet)
    destroyed,      \* the volumes with a destroyed_at
    recPc,          \* where runReconciliation is ("idle": none in flight)
    recWork,        \* the rows its current loop has still to visit
    recCur,         \* the row whose call it awaits, if any
    recCap,         \* its local variable capacity (0 out of its scope)
    owners,         \* stopOperations an owner's stopCurrent also awaits
    destroying,     \* destroyingVolumes, a set of wallets
    server          \* whether startControlPlane listens yet

rowVars == <<state, wallet, ip, createdAt, volume>>
volVars == <<volOwner, destroyed>>
recVars == <<recPc, recWork, recCur, recCap>>
serviceVars == <<rowVars, volVars, recVars, owners, destroying, server>>

RowStates == {"none", "queued", "provisioning", "running", "stopping",
              "stopped", "failed"}
ACTIVE    == {"queued", "provisioning", "running", "stopping"}
Stoppable == {"queued", "provisioning", "running"}

Awaiting == {"idle", "stopWait", "checkWait", "createWait"}
RecPcs   == Awaiting \cup {"begin", "stops", "checks", "claims"}

ServiceTypeOK ==
    /\ state \in [Ids -> RowStates]
    /\ wallet \in [Ids -> Wallets \cup {NoWallet}]
    /\ ip \in [Ids -> Ips \cup {NoIp}]
    /\ volOwner \in [Volumes -> Wallets \cup {NoWallet}]
    /\ destroyed \subseteq Volumes
    /\ recPc \in RecPcs
    /\ recWork \subseteq Ids
    /\ recCur \in Ids \cup {NoId}
    /\ recCap \in 0..MaxRunning
    /\ owners \subseteq Ids
    /\ destroying \subseteq Wallets
    /\ server \in {"recovering", "listening"}

ServiceInit ==
    /\ state = [id \in Ids |-> "none"]
    /\ wallet = [id \in Ids |-> NoWallet]
    /\ ip = [id \in Ids |-> NoIp]
    /\ volOwner = [v \in Volumes |-> NoWallet]
    /\ destroyed = {}
    /\ recPc = "begin"      \* recover() at startup
    /\ recWork = {}
    /\ recCur = NoId
    /\ recCap = 0
    /\ owners = {}
    /\ destroying = {}
    /\ server = "recovering"

-------------------------------------------------------------------------------
(* Queries *)

InState(S) == {id \in Ids : state[id] \in S}

\* Mutant: the query forgets the wallet.
LiveVolumesOfAnyone(w) == {v \in Volumes : volOwner[v] # NoWallet /\ v \notin destroyed}

\* A wallet's live volume: at most one, the column is unique while live.
LiveVolumes(w) == {v \in Volumes : volOwner[v] = w /\ v \notin destroyed}

Attached(v) == \E id \in InState(ACTIVE) : volume[id] = v

WithinLimits(w, p) ==
    /\ Cardinality({id \in InState(ACTIVE) : wallet[id] = w}) < MaxActivePerWallet
    /\ Cardinality({id \in InState(ACTIVE) : ip[id] = p}) < MaxActivePerIp
    /\ Cardinality({id \in InState(RowStates \ {"none"}) :
            wallet[id] = w /\ createdAt[id] >= now - Day}) < DailyPerWallet
    /\ Cardinality({id \in InState(RowStates \ {"none"}) :
            ip[id] = p /\ createdAt[id] >= now - Day}) < DailyPerIp
    /\ Cardinality(InState({"queued"})) < MaxQueue

\* scheduleReconciliation: a run in flight absorbs the request.
Kicked(pc) == IF pc = "idle" THEN "begin" ELSE pc

JsFree == recPc \in Awaiting

-------------------------------------------------------------------------------
(* Owner requests *)

\* The volume a persistent workspace is given.
getOrCreatePersistentVolume(w, v) ==
    IF LiveVolumes(w) # {}
    THEN v \in LiveVolumes(w) /\ UNCHANGED volVars
    ELSE /\ volOwner[v] = NoWallet
         /\ volOwner' = [volOwner EXCEPT ![v] = w]
         /\ UNCHANGED destroyed

\* Mutant: create() does not look at destroyingVolumes.
CreateDuringDestruction(id, w, p, v) ==
    /\ JsFree
    /\ state[id] = "none"
    /\ WithinLimits(w, p)
    /\ IF v = NoVolume THEN UNCHANGED volVars ELSE getOrCreatePersistentVolume(w, v)
    /\ now + Lease <= MaxTime
    /\ state' = [state EXCEPT ![id] = "queued"]
    /\ wallet' = [wallet EXCEPT ![id] = w]
    /\ ip' = [ip EXCEPT ![id] = p]
    /\ createdAt' = [createdAt EXCEPT ![id] = now]
    /\ volume' = [volume EXCEPT ![id] = v]
    /\ recPc' = Kicked(recPc)
    /\ UNCHANGED <<recWork, recCur, recCap, owners, destroying, server, now, callVars>>

\* create(): one transaction, then a reconciliation is asked for.  The last
\* guard is a bound: a lease has to be able to run out before MaxTime.
Create(id, w, p, v) ==
    /\ JsFree
    /\ state[id] = "none"
    /\ v # NoVolume => w \notin destroying
    /\ WithinLimits(w, p)
    /\ IF v = NoVolume THEN UNCHANGED volVars ELSE getOrCreatePersistentVolume(w, v)
    /\ now + Lease <= MaxTime
    /\ state' = [state EXCEPT ![id] = "queued"]
    /\ wallet' = [wallet EXCEPT ![id] = w]
    /\ ip' = [ip EXCEPT ![id] = p]
    /\ createdAt' = [createdAt EXCEPT ![id] = now]
    /\ volume' = [volume EXCEPT ![id] = v]
    /\ recPc' = Kicked(recPc)
    /\ UNCHANGED <<recWork, recCur, recCap, owners, destroying, server, now, callVars>>

\* stopWorkspace() up to its await: a stop already in flight is shared.
SendStop(id) ==
    stopCall' = IF stopCall[id] = "none" THEN [stopCall EXCEPT ![id] = "sent"]
                                         ELSE stopCall

\* stopCurrent() up to its await: the newest active row of the wallet.
StopCurrent(id) ==
    /\ JsFree
    /\ state[id] \in ACTIVE
    /\ \A o \in InState(ACTIVE) :
            wallet[o] = wallet[id] => createdAt[o] <= createdAt[id]
    /\ state' = [state EXCEPT ![id] = "stopping"]
    /\ SendStop(id)
    /\ owners' = owners \cup {id}
    /\ UNCHANGED <<wallet, ip, createdAt, volume, volVars, recVars, destroying, server, now,
                   createCall, lateStops, statusCall, destroyCall, lateDestroys, faults>>

\* The stop operation of id settles: the row is updated when the agent
\* answered, then whoever awaits it goes on - the reconciler with its next
\* row, an owner (if the stop succeeded) by asking for a reconciliation.
StopSettles(id, succeeded) ==
    /\ JsFree
    /\ stopCall' = [stopCall EXCEPT ![id] = "none"]
    /\ state' = IF succeeded /\ state[id] = "stopping"
                THEN [state EXCEPT ![id] = "stopped"] ELSE state
    /\ owners' = owners \ {id}
    /\ IF recPc = "stopWait" /\ recCur = id
       THEN recPc' = "stops" /\ recCur' = NoId
       ELSE /\ recPc' = IF succeeded /\ id \in owners THEN Kicked(recPc) ELSE recPc
            /\ UNCHANGED recCur
    /\ UNCHANGED <<wallet, ip, createdAt, volume, volVars, recWork, recCap,
                   destroying, server, now, createCall, statusCall, destroyCall, lateDestroys>>

StopReply(id) ==
    /\ stopCall[id] \in {"ok", "error"}
    /\ StopSettles(id, stopCall[id] = "ok")
    /\ UNCHANGED <<lateStops, faults>>

\* The client gives up; a request the agent has not handled stays in flight.
StopTimeout(id) ==
    /\ stopCall[id] \in {"sent", "ok"}
    /\ StopSettles(id, FALSE)
    /\ lateStops' = IF stopCall[id] = "sent" THEN lateStops \cup {id} ELSE lateStops
    /\ Fault

\* destroyPersistentVolume() up to its await.
DestroyVolume(v) ==
    /\ JsFree
    /\ volOwner[v] # NoWallet /\ v \notin destroyed
    /\ ~Attached(v)
    /\ volOwner[v] \notin destroying
    /\ destroying' = destroying \cup {volOwner[v]}
    /\ destroyCall' = [destroyCall EXCEPT ![v] = "sent"]
    /\ UNCHANGED <<rowVars, volVars, recVars, owners, server, now,
                   createCall, stopCall, lateStops, statusCall, lateDestroys, faults>>

DestroyReply(v) ==
    /\ JsFree
    /\ destroyCall[v] \in {"ok", "error"}
    /\ destroyCall' = [destroyCall EXCEPT ![v] = "none"]
    /\ destroyed' = IF destroyCall[v] = "ok" THEN destroyed \cup {v} ELSE destroyed
    /\ destroying' = destroying \ {volOwner[v]}
    /\ UNCHANGED <<rowVars, volOwner, recVars, owners, server, now,
                   createCall, stopCall, lateStops, statusCall, lateDestroys, faults>>

\* The client gives up.  Bound: one abandoned removal per volume at a time.
DestroyTimeout(v) ==
    /\ JsFree
    /\ destroyCall[v] \in {"sent", "removing", "ok"}
    /\ lateDestroys[v] = "none"
    /\ destroyCall' = [destroyCall EXCEPT ![v] = "none"]
    /\ lateDestroys' = [lateDestroys EXCEPT ![v] =
                            IF destroyCall[v] = "ok" THEN "none" ELSE destroyCall[v]]
    /\ destroying' = destroying \ {volOwner[v]}
    /\ Fault
    /\ UNCHANGED <<rowVars, volVars, recVars, owners, server, now,
                   createCall, stopCall, lateStops, statusCall>>

-------------------------------------------------------------------------------
(* The reconciler *)

\* The 2 s timer of server.ts; reconcile() is single-flight.
RecTimer ==
    /\ recPc = "idle"
    /\ recPc' = "begin"
    /\ UNCHANGED <<rowVars, volVars, recWork, recCur, recCap, owners, destroying,
                   server, now, callVars>>

\* Mutant: only rows that were claimed expire; the queue is left to the claims.
RecBeginKeepsQueued ==
    LET s == [id \in Ids |-> IF state[id] \in {"provisioning", "running"} /\ Expired(id)
                             THEN "stopping" ELSE state[id]] IN
    /\ recPc = "begin"
    /\ state' = s
    /\ recWork' = {id \in Ids : s[id] = "stopping"}
    /\ recPc' = "stops"
    /\ UNCHANGED <<wallet, ip, createdAt, volume, volVars, recCur, recCap, owners,
                   destroying, server, now, callVars>>

\* Expired leases become stopping, and every stopping row is selected.
RecBegin ==
    LET s == [id \in Ids |-> IF state[id] \in Stoppable /\ Expired(id)
                             THEN "stopping" ELSE state[id]] IN
    /\ recPc = "begin"
    /\ state' = s
    /\ recWork' = {id \in Ids : s[id] = "stopping"}
    /\ recPc' = "stops"
    /\ UNCHANGED <<wallet, ip, createdAt, volume, volVars, recCur, recCap, owners,
                   destroying, server, now, callVars>>

RecStop(id) ==
    /\ recPc = "stops"
    /\ id \in recWork
    /\ SendStop(id)
    /\ recPc' = "stopWait"
    /\ recCur' = id
    /\ recWork' = recWork \ {id}
    /\ UNCHANGED <<rowVars, volVars, recCap, owners, destroying, server, now,
                   createCall, lateStops, statusCall, destroyCall, lateDestroys, faults>>

RecChecks ==
    /\ recPc = "stops"
    /\ recWork = {}
    /\ recWork' = InState({"running", "provisioning"})
    /\ recPc' = "checks"
    /\ UNCHANGED <<rowVars, volVars, recCur, recCap, owners, destroying, server, now, callVars>>

RecStatus(id) ==
    /\ recPc = "checks"
    /\ id \in recWork
    /\ statusCall' = [statusCall EXCEPT ![id] = "sent"]
    /\ recPc' = "checkWait"
    /\ recCur' = id
    /\ recWork' = recWork \ {id}
    /\ UNCHANGED <<rowVars, volVars, recCap, owners, destroying, server, now,
                   createCall, stopCall, lateStops, destroyCall, lateDestroys, faults>>

\* What the answer says of the row.  The code compares with the state it
\* selected before the call; between the select and the answer only this
\* loop can move a row from provisioning to running, so the two agree.
Checked(id, status) ==
    IF status = "running" /\ state[id] = "provisioning"
        THEN [state EXCEPT ![id] = "running"]
    ELSE IF status = "ended" /\ state[id] \in {"running", "provisioning"}
        THEN [state EXCEPT ![id] = "failed"]
    ELSE state

RecStatusReply(id) ==
    /\ recPc = "checkWait"
    /\ recCur = id
    /\ statusCall[id] \notin {"none", "sent"}
    /\ state' = Checked(id, statusCall[id])
    /\ statusCall' = [statusCall EXCEPT ![id] = "none"]
    /\ recPc' = "checks" /\ recCur' = NoId
    /\ UNCHANGED <<wallet, ip, createdAt, volume, volVars, recWork, recCap,
                   owners, destroying, server, now, createCall, stopCall, lateStops,
                   destroyCall, lateDestroys, faults>>

\* The client gives up: the row is skipped, as after any error.
RecStatusTimeout(id) ==
    /\ recPc = "checkWait"
    /\ recCur = id
    /\ statusCall' = [statusCall EXCEPT ![id] = "none"]
    /\ recPc' = "checks" /\ recCur' = NoId
    /\ Fault
    /\ UNCHANGED <<rowVars, volVars, recWork, recCap, owners, destroying, server, now,
                   createCall, stopCall, lateStops, destroyCall, lateDestroys>>

\* Mutant: the rows still stopping are not counted.
RecCapacityWithoutStopping ==
    LET used == Cardinality(InState({"running", "provisioning"})) IN
    /\ recPc = "checks"
    /\ recWork = {}
    /\ recCap' = IF used < MaxRunning THEN MaxRunning - used ELSE 0
    /\ recPc' = "claims"
    /\ UNCHANGED <<rowVars, volVars, recWork, recCur, owners, destroying, server, now, callVars>>

\* Capacity is computed once, before the claims (below zero it is zero).
RecCapacity ==
    LET used == Cardinality(InState({"running", "provisioning", "stopping"})) IN
    /\ recPc = "checks"
    /\ recWork = {}
    /\ recCap' = IF used < MaxRunning THEN MaxRunning - used ELSE 0
    /\ recPc' = "claims"
    /\ UNCHANGED <<rowVars, volVars, recWork, recCur, owners, destroying, server, now, callVars>>

Claimable == {id \in InState({"queued"}) : ~Expired(id)}

\* Mutant: the newest claimable row first.
RecClaimNewest(id) ==
    /\ recPc = "claims"
    /\ recCap > 0
    /\ id \in Claimable
    /\ \A o \in Claimable : createdAt[o] <= createdAt[id]
    /\ state' = [state EXCEPT ![id] = "provisioning"]
    /\ createCall' = [createCall EXCEPT ![id] = "sent"]
    /\ recCap' = recCap - 1
    /\ recCur' = id
    /\ recPc' = "createWait"
    /\ UNCHANGED <<wallet, ip, createdAt, volume, volVars, recWork, owners, destroying,
                   server, now, stopCall, lateStops, statusCall, destroyCall, lateDestroys, faults>>

\* The oldest claimable row is claimed and its creation sent to the agent.
RecClaim(id) ==
    /\ recPc = "claims"
    /\ recCap > 0
    /\ id \in Claimable
    /\ \A o \in Claimable : createdAt[id] <= createdAt[o]
    /\ state' = [state EXCEPT ![id] = "provisioning"]
    /\ createCall' = [createCall EXCEPT ![id] = "sent"]
    /\ recCap' = recCap - 1
    /\ recCur' = id
    /\ recPc' = "createWait"
    /\ UNCHANGED <<wallet, ip, createdAt, volume, volVars, recWork, owners, destroying,
                   server, now, stopCall, lateStops, statusCall, destroyCall, lateDestroys, faults>>

\* An error leaves the row provisioning: the outcome is uncertain.
RecCreateReply(id) ==
    /\ recPc = "createWait"
    /\ recCur = id
    /\ createCall[id] \in {"ok", "error"}
    /\ state' = IF createCall[id] = "ok" /\ state[id] = "provisioning"
                THEN [state EXCEPT ![id] = "running"] ELSE state
    /\ recPc' = "claims" /\ recCur' = NoId
    /\ UNCHANGED <<wallet, ip, createdAt, volume, volVars, recWork, recCap,
                   owners, destroying, server, now, callVars>>

\* The client gives up; the agent's handler goes on with the creation.
RecCreateTimeout(id) ==
    /\ recPc = "createWait"
    /\ recCur = id
    /\ recPc' = "claims" /\ recCur' = NoId
    /\ Fault
    /\ UNCHANGED <<rowVars, volVars, recWork, recCap, owners, destroying, server, now,
                   createCall, stopCall, lateStops, statusCall, destroyCall, lateDestroys>>

RecDone ==
    /\ recPc = "claims"
    /\ recCap = 0 \/ Claimable = {}
    /\ recPc' = "idle" /\ recCap' = 0
    /\ server' = "listening"
    /\ UNCHANGED <<rowVars, volVars, recWork, recCur, owners, destroying,
                   now, callVars>>

-------------------------------------------------------------------------------
(* The process dies and is started again: rows survive, promises and sets  *)
(* in memory do not, and requests already sent reach the agent anyway.     *)
(* Bound: one abandoned removal per volume at a time.                      *)
ControlCrash ==
    /\ Fault
    /\ \A v \in Volumes : lateDestroys[v] # "none" => destroyCall[v] \notin {"sent", "removing"}
    /\ recPc' = "begin"
    /\ recWork' = {} /\ recCur' = NoId /\ recCap' = 0
    /\ owners' = {} /\ destroying' = {}
    /\ server' = "recovering"
    /\ lateStops' = lateStops \cup {id \in Ids : stopCall[id] = "sent"}
    /\ stopCall' = [id \in Ids |-> "none"]
    /\ statusCall' = [id \in Ids |-> "none"]
    /\ lateDestroys' = [v \in Volumes |-> IF destroyCall[v] \in {"sent", "removing"}
                                          THEN destroyCall[v] ELSE lateDestroys[v]]
    /\ destroyCall' = [v \in Volumes |-> "none"]
    /\ UNCHANGED <<rowVars, volVars, now, createCall>>

\* The reconciler's own steps, and what may go wrong with its calls.
Reconcile ==
    \/ RecTimer \/ RecBegin \/ RecChecks \/ RecCapacity \/ RecDone
    \/ \E id \in Ids : \/ RecStop(id) \/ RecStatus(id) \/ RecClaim(id)
                       \/ RecStatusReply(id) \/ RecCreateReply(id)

ServiceFault ==
    \/ \E id \in Ids : RecStatusTimeout(id) \/ RecCreateTimeout(id) \/ StopTimeout(id)
    \/ \E v \in Volumes : DestroyTimeout(v)
    \/ ControlCrash

\* startControlPlane listens once recover() has returned.
OwnerRequest ==
    /\ server = "listening"
    /\ \/ \E id \in Ids, w \in Wallets, p \in Ips, v \in Volumes \cup {NoVolume} :
                Create(id, w, p, v)
       \/ \E id \in Ids : StopCurrent(id)
       \/ \E v \in Volumes : DestroyVolume(v)

OwnerReply ==
    \/ \E id \in Ids : StopReply(id)
    \/ \E v \in Volumes : DestroyReply(v)

ServiceNext == OwnerRequest \/ OwnerReply \/ Reconcile \/ ServiceFault

===============================================================================
