------------------------------ MODULE AgentCalls ------------------------------
(***************************************************************************)
(* What the control plane (WorkspaceService) and the node agent share: the *)
(* clock, and the HTTP calls on the agent's Unix socket                    *)
(* (control/agent-client.ts on one side, agent/server.ts on the other).    *)
(*                                                                         *)
(* A call is one value per workspace or volume that says how far it got:   *)
(* "sent" by the client, a stage of the agent's handler, or the answer.    *)
(* The client gives a call up after agentRequestTimeoutMs, but the         *)
(* handler is not told (Express goes on after the socket is destroyed):    *)
(* an abandoned DELETE is kept in lateStops or lateDestroys until the      *)
(* agent gets to it, and an abandoned POST simply keeps its stage, because *)
(* a workspace is created at most once.                                    *)
(*                                                                         *)
(* The create request carries the row's lease and volume.  Both columns    *)
(* are written once, before the request is sent, so the agent's handlers   *)
(* read them from the row.                                                 *)
(***************************************************************************)
EXTENDS Integers, FiniteSets

CONSTANTS
    Ids,            \* workspace ids (randomUUID at creation)
    Volumes,        \* persistent volume ids (randomUUID at first attachment)
    NoVolume,       \* the volume of a disposable workspace
    Lease,          \* config.leaseMs, in clock ticks
    MaxTime,        \* bound: the last clock value a behaviour reaches
    MaxFaults       \* bound: timeouts, handler failures and crashes together

ASSUME CallsAssumption ==
    /\ IsFiniteSet(Ids)
    /\ NoVolume \notin Volumes
    /\ Lease \in Nat \ {0}
    /\ MaxTime \in Nat
    /\ MaxFaults \in Nat

VARIABLES
    now,            \* Date.now() of the host: both processes run on it
    createdAt,      \* workspaces.created_at; lease_expires_at is Lease later
    volume,         \* workspaces.volume_id (NoVolume: disposable storage)
    createCall,     \* POST /v1/workspaces, per workspace
    stopCall,       \* DELETE /v1/workspaces/:id the client still waits for
    lateStops,      \* workspaces with an abandoned DELETE in flight
    statusCall,     \* GET /v1/workspaces/:id
    destroyCall,    \* DELETE /v1/volumes/:id the client still waits for
    lateDestroys,   \* an abandoned DELETE /v1/volumes/:id, per volume
    faults          \* how many faults have happened

callVars == <<createCall, stopCall, lateStops, statusCall, destroyCall,
              lateDestroys, faults>>

\* What a status answer says.  RuntimeState also tells stopped, failed and
\* missing apart, but every reader only compares it with "running".
RuntimeStates == {"running", "ended"}

\* The stages of the POST handler: reading the body, building the disks,
\* about to spawn, waiting for the guest, configuring its connections.
CreateStages == {"preparing", "spawning", "booting", "configuring"}

CreateCalls  == {"none", "sent", "ok", "error"} \cup CreateStages
StopCalls    == {"none", "sent", "ok", "error"}
StatusCalls  == {"none", "sent", "error"} \cup RuntimeStates
DestroyCalls == {"none", "sent", "removing", "ok", "error"}

CallsTypeOK ==
    /\ now \in 0..MaxTime
    /\ createdAt \in [Ids -> 0..MaxTime]
    /\ volume \in [Ids -> Volumes \cup {NoVolume}]
    /\ createCall \in [Ids -> CreateCalls]
    /\ stopCall \in [Ids -> StopCalls]
    /\ lateStops \subseteq Ids
    /\ statusCall \in [Ids -> StatusCalls]
    /\ destroyCall \in [Volumes -> DestroyCalls]
    /\ lateDestroys \in [Volumes -> {"none", "sent", "removing"}]
    /\ faults \in 0..MaxFaults

CallsInit ==
    /\ now = 0
    /\ createdAt = [id \in Ids |-> 0]
    /\ volume = [id \in Ids |-> NoVolume]
    /\ createCall = [id \in Ids |-> "none"]
    /\ stopCall = [id \in Ids |-> "none"]
    /\ lateStops = {}
    /\ statusCall = [id \in Ids |-> "none"]
    /\ destroyCall = [v \in Volumes |-> "none"]
    /\ lateDestroys = [v \in Volumes |-> "none"]
    /\ faults = 0

\* lease_expires_at <= Date.now()
Expired(id) == createdAt[id] + Lease <= now

\* Something goes wrong, as long as the bound allows it.
Fault == faults < MaxFaults /\ faults' = faults + 1

===============================================================================
