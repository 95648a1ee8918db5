------------------------------- MODULE Lifecycle -------------------------------
(***************************************************************************)
(* The life of a workspace: WorkspaceService and NodeAgent composed over   *)
(* the calls between them.                                                 *)
(***************************************************************************)
EXTENDS WorkspaceService, NodeAgent

vars == <<now, callVars, serviceVars, agentVars>>

Init == CallsInit /\ ServiceInit /\ AgentInit

Service == ServiceNext /\ UNCHANGED agentVars
Agent   == AgentNext /\ UNCHANGED serviceVars
Tick    == /\ now < MaxTime
           /\ now' = now + 1
           /\ UNCHANGED <<callVars, serviceVars, agentVars>>

Next == Service \/ Agent \/ Tick

Spec == Init /\ [][Next]_vars

(***************************************************************************)
(* Fairness.  The clock runs, the timers of both processes fire, and the   *)
(* agent finishes the handlers it started (each await in them is bounded:  *)
(* a file operation or a call with a deadline).  A promise that settled is *)
(* dispatched by the event loop between two synchronous segments: strong   *)
(* fairness, because the reconciler's segments disable it again and again. *)
(* Owners, faults, exiting VMs and abandoned requests get no fairness.     *)
(***************************************************************************)
Fairness ==
    /\ WF_vars(Tick)
    /\ WF_vars(Reconcile /\ UNCHANGED agentVars)
    /\ WF_vars(Sweep /\ UNCHANGED serviceVars)
    /\ \A id \in Ids :
        /\ SF_vars(StopReply(id) /\ UNCHANGED agentVars)
        /\ WF_vars(CreateHandler(id) /\ UNCHANGED serviceVars)
        /\ WF_vars(HandleStop(id) /\ UNCHANGED serviceVars)
        /\ WF_vars(HandleStatus(id) /\ UNCHANGED serviceVars)
    /\ \A v \in Volumes :
        /\ SF_vars(DestroyReply(v) /\ UNCHANGED agentVars)
        /\ WF_vars(DestroyHandler(v) /\ UNCHANGED serviceVars)

FairSpec == Spec /\ Fairness

-------------------------------------------------------------------------------
(* Properties *)

\* Every variable has its type.
TypeOK == CallsTypeOK /\ ServiceTypeOK /\ AgentTypeOK

\* A row that may have a VM: claimed, and not yet known to be over.
HoldsSlot(id) ==
    \/ state[id] \in {"provisioning", "running"}
    \/ state[id] = "stopping" /\ createCall[id] # "none"

Slots == {id \in Ids : HoldsSlot(id)}

\* runReconciliation computes capacity once and then awaits creations, while
\* owners stop workspaces, leases run out and calls fail: the rows that may
\* have a VM still never outnumber config.maxRunning.
SlotsReserved == Cardinality(Slots) <= MaxRunning

\* A creation is sent for a row exactly when the row is claimed.
CallsFollowRows ==
    \A id \in Ids :
        /\ state[id] \in {"none", "queued"} => createCall[id] = "none"
        /\ state[id] \in {"provisioning", "running"} => createCall[id] # "none"

\* The capacity the reconciler still believes in, many awaits after it was
\* computed, is really free.
CapacitySound ==
    /\ CallsFollowRows
    /\ recPc \in {"claims", "createWait"} => Cardinality(Slots) + recCap <= MaxRunning

\* The service's rows behave as WorkspaceQueue says: first come first served
\* under the bound on slots, whatever the reconciler cached before an await.
Queue == INSTANCE WorkspaceQueue
            WITH claimed <- {id \in Ids : createCall[id] # "none"}
QueueSpec == Queue!Spec

\* A volume is never attached to an active row once it is destroyed or while
\* the service awaits its destruction, and a wallet has one live volume.
VolumesExclusive ==
    /\ \A v \in Volumes : v \in destroyed \/ destroyCall[v] # "none" => ~Attached(v)
    /\ \A w \in Wallets : \A u, v \in LiveVolumes(w) : u = v

\* An attached volume belongs to the wallet of the row: ownership survives
\* destruction, re-creation and every interleaving of the two.
VolumesOwned ==
    \A id \in Ids : volume[id] # NoVolume => volOwner[volume[id]] = wallet[id]

\* A volume is its owner's, in one place, and never where it is destroyed.
VolumesSafe == VolumesExclusive /\ VolumesOwned

\* A creation that failed leaves no VM behind: neither a guest that missed
\* its deadline nor an agent that crashed in the middle.
FailedCreateLeavesNoVm ==
    \A id \in Ids : id \in vms => createCall[id] \in {"booting", "configuring", "ok"}

\* Every row ends: stopped by its owner, by its lease, or found lost.
RowsEnd == \A id \in Ids : state[id] \in ACTIVE ~> state[id] \in {"stopped", "failed"}

\* Every VM ends, also one whose row was already closed.
VmsEnd == \A id \in Ids : id \in vms ~> id \notin vms

-------------------------------------------------------------------------------
(* What the repository says and the code does not do; see README.md. *)

\* "Queue floods never exceed the configured number of VM processes."  A row
\* whose creation timed out is failed when the agent, still preparing it,
\* knows no instance; its slot is given away and its VM starts afterwards.
VmsWithinCapacity == Cardinality(vms) <= MaxRunning

================================================================================
