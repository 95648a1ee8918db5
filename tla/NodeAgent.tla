------------------------------- MODULE NodeAgent -------------------------------
(***************************************************************************)
(* agent/server.ts over the QEMU runtime (agent/qemu-runtime.ts on         *)
(* agent/pty-runtime.ts): the handlers of the calls in AgentCalls, the VM  *)
(* processes and the volume images on disk.  A handler is cut where it     *)
(* awaits.  The SSH half of these handlers is module SshGateway's.         *)
(***************************************************************************)
EXTENDS AgentCalls

CONSTANT SshEnabled     \* config.sshEnabled: creation also configures connections

ASSUME AgentAssumption == SshEnabled \in BOOLEAN

VARIABLES
    vms,            \* the workspaces whose instance is "running"
    image           \* the volumes whose workspace.ext4 exists

agentVars == <<vms, image>>

AgentTypeOK ==
    /\ vms \subseteq Ids
    /\ image \subseteq Volumes

AgentInit ==
    /\ vms = {}
    /\ image = {}

\* runtime.stop(): only a running instance is killed; for a workspace whose
\* creation has not spawned yet it does nothing and still succeeds.
Stop(id) == vms' = vms \ {id}

-------------------------------------------------------------------------------
(* POST /v1/workspaces *)

CreateStep(id, from, to) ==
    /\ createCall[id] = from
    /\ createCall' = [createCall EXCEPT ![id] = to]
    /\ UNCHANGED <<now, stopCall, lateStops, statusCall, destroyCall, lateDestroys>>

\* The handler runs up to the first await of PtyRuntime.create.  (The test
\* for an instance that already exists never holds: one creation per id.)
TakeCreate(id) ==
    /\ CreateStep(id, "sent",
            IF Expired(id) THEN "error" ELSE "preparing")
    /\ UNCHANGED <<agentVars, faults>>

\* command(): the rootfs copy and, for a persistent workspace, the image.
PrepareDisks(id) ==
    /\ CreateStep(id, "preparing", "spawning")
    /\ image' = IF volume[id] = NoVolume THEN image ELSE image \cup {volume[id]}
    /\ UNCHANGED <<vms, faults>>

\* A copy, mkfs, port allocation or spawn fails; nothing is registered yet.
\* The image may have been published before the failure.
PrepareFails(id) ==
    /\ \E stage \in {"preparing", "spawning"} : CreateStep(id, stage, "error")
    /\ image' \in IF createCall[id] = "preparing" /\ volume[id] # NoVolume
                  THEN {image, image \cup {volume[id]}} ELSE {image}
    /\ Fault
    /\ UNCHANGED vms

\* The process is spawned and its instance registered, whatever arrived in
\* the meantime.
Spawn(id) ==
    /\ CreateStep(id, "spawning", "booting")
    /\ vms' = vms \cup {id}
    /\ UNCHANGED <<image, faults>>

\* waitForGuestControl answers; it asks only a running instance.
Booted(id) ==
    /\ id \in vms
    /\ CreateStep(id, "booting", IF SshEnabled THEN "configuring" ELSE "ok")
    /\ UNCHANGED <<agentVars, faults>>

\* connections.configure answers, and sshEndpoint accepts only a running one.
Configured(id) ==
    /\ id \in vms
    /\ CreateStep(id, "configuring", "ok")
    /\ UNCHANGED <<agentVars, faults>>

\* Mutant: the handler leaves the VM it spawned running.
GuestFailsKeepsVm(id) ==
    /\ \E stage \in {"booting", "configuring"} : CreateStep(id, stage, "error")
    /\ IF id \in vms THEN Fault ELSE UNCHANGED faults
    /\ UNCHANGED agentVars

\* The guest does not answer before the deadline: the handler stops the VM.
\* It costs no fault when the instance is already gone.
GuestFails(id) ==
    /\ \E stage \in {"booting", "configuring"} : CreateStep(id, stage, "error")
    /\ Stop(id)
    /\ IF id \in vms THEN Fault ELSE UNCHANGED faults
    /\ UNCHANGED image

-------------------------------------------------------------------------------
(* DELETE and GET /v1/workspaces/:id *)

\* The reply is an error when the cleanup after the kill fails.
HandleStop(id) ==
    /\ stopCall[id] = "sent"
    /\ \/ stopCall' = [stopCall EXCEPT ![id] = "ok"] /\ UNCHANGED faults
       \/ /\ id \in vms /\ Fault
          /\ stopCall' = [stopCall EXCEPT ![id] = "error"]
    /\ Stop(id)
    /\ UNCHANGED <<image, now, createCall, lateStops, statusCall, destroyCall, lateDestroys>>

HandleLateStop(id) ==
    /\ id \in lateStops
    /\ lateStops' = lateStops \ {id}
    /\ Stop(id)
    /\ UNCHANGED <<image, now, createCall, stopCall, statusCall, destroyCall, lateDestroys, faults>>

HandleStatus(id) ==
    /\ statusCall[id] = "sent"
    /\ statusCall' = [statusCall EXCEPT ![id] = IF id \in vms THEN "running" ELSE "ended"]
    /\ UNCHANGED <<agentVars, now, createCall, stopCall, lateStops, destroyCall, lateDestroys, faults>>

-------------------------------------------------------------------------------
(* DELETE /v1/volumes/:id *)

\* QemuRuntime.destroyVolume refuses a volume a running instance uses.
InUse(v) == \E id \in Ids : volume[id] = v /\ id \in vms

HandleDestroy(v) ==
    /\ destroyCall[v] = "sent"
    /\ destroyCall' = [destroyCall EXCEPT ![v] = IF InUse(v) THEN "error" ELSE "removing"]
    /\ UNCHANGED <<agentVars, now, createCall, stopCall, lateStops, statusCall, lateDestroys, faults>>

\* rm of the volume's directory completes, or fails part of the way.
FinishDestroy(v) ==
    /\ destroyCall[v] = "removing"
    /\ \/ /\ destroyCall' = [destroyCall EXCEPT ![v] = "ok"]
          /\ image' = image \ {v}
          /\ UNCHANGED faults
       \/ /\ destroyCall' = [destroyCall EXCEPT ![v] = "error"]
          /\ image' \in {image, image \ {v}}
          /\ Fault
    /\ UNCHANGED <<vms, now, createCall, stopCall, lateStops, statusCall, lateDestroys>>

HandleLateDestroy(v) ==
    /\ lateDestroys[v] = "sent"
    /\ lateDestroys' = [lateDestroys EXCEPT ![v] = IF InUse(v) THEN "none" ELSE "removing"]
    /\ UNCHANGED <<agentVars, now, createCall, stopCall, lateStops, statusCall, destroyCall, faults>>

FinishLateDestroy(v) ==
    /\ lateDestroys[v] = "removing"
    /\ lateDestroys' = [lateDestroys EXCEPT ![v] = "none"]
    /\ image' = image \ {v}
    /\ UNCHANGED <<vms, now, createCall, stopCall, lateStops, statusCall, destroyCall, faults>>

-------------------------------------------------------------------------------
(* The runtime by itself *)

\* The VM's process exits: the guest powers off, panics, or was started on
\* an image that had been removed.
VmExit(id) ==
    /\ id \in vms
    /\ vms' = vms \ {id}
    /\ UNCHANGED <<image, now, callVars>>

\* Mutant: a lease that is just over is not.
SweepLate ==
    /\ \E id \in vms : createdAt[id] + Lease < now
    /\ vms' = {id \in vms : createdAt[id] + Lease >= now}
    /\ UNCHANGED <<image, now, callVars>>

\* The 1 s sweeper stops every instance whose lease is over.
Sweep ==
    /\ \E id \in vms : Expired(id)
    /\ vms' = {id \in vms : ~Expired(id)}
    /\ UNCHANGED <<image, now, callVars>>

\* The agent dies and systemd starts it again: its VMs die with its control
\* group, its handlers with it, and a waiting client sees the socket close.
Cut(call, handled) == IF call \in handled THEN "error" ELSE call

AgentCrash ==
    /\ Fault
    /\ vms' = {}
    /\ createCall' = [id \in Ids |-> Cut(createCall[id], {"sent"} \cup CreateStages)]
    /\ stopCall' = [id \in Ids |-> Cut(stopCall[id], {"sent"})]
    /\ statusCall' = [id \in Ids |-> Cut(statusCall[id], {"sent"})]
    /\ destroyCall' = [v \in Volumes |-> Cut(destroyCall[v], {"sent", "removing"})]
    /\ lateStops' = {}
    /\ lateDestroys' = [v \in Volumes |-> "none"]
    /\ UNCHANGED <<image, now>>

CreateHandler(id) ==
    \/ TakeCreate(id) \/ PrepareDisks(id) \/ PrepareFails(id) \/ Spawn(id)
    \/ Booted(id) \/ Configured(id) \/ GuestFails(id)

DestroyHandler(v) == HandleDestroy(v) \/ FinishDestroy(v)

\* The handlers of requests whose client has gone.
LateHandler ==
    \/ \E id \in Ids : HandleLateStop(id)
    \/ \E v \in Volumes : HandleLateDestroy(v) \/ FinishLateDestroy(v)

AgentNext ==
    \/ \E id \in Ids : CreateHandler(id) \/ HandleStop(id) \/ HandleStatus(id)
    \/ \E v \in Volumes : DestroyHandler(v)
    \/ LateHandler
    \/ \E id \in Ids : VmExit(id)
    \/ Sweep
    \/ AgentCrash

================================================================================
