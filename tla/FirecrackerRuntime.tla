-------------------------- MODULE FirecrackerRuntime --------------------------
(***************************************************************************)
(* agent/firecracker-runtime.ts with agent/data-volume.ts: the VMs of one  *)
(* node, the uids and directories of their jails, their egress proxies and *)
(* the images of the persistent volumes.  JavaScript runs to completion,   *)
(* so an action is the code between two awaits.  Directories and images    *)
(* are on disk and survive a crash of the agent; the rest is memory.       *)
(*                                                                         *)
(* Every id is created once (WorkspaceService claims a row once); stops    *)
(* and destructions of volumes come at any time.                           *)
(***************************************************************************)
EXTENDS FiniteSets, Integers

CONSTANTS
    Ids, Uids, Volumes,
    NoUid, NoVolume, NoId,
    MaxDirect,      \* bound on the workspaces of a node without jails
    MaxFaults       \* bound on the operations that fail and on crashes

\* The agent has 20,000 uids; with none free the loop that picks one spins.
ASSUME RuntimeAssumption ==
    /\ MaxDirect \in Nat /\ MaxFaults \in Nat
    /\ NoUid \notin Uids /\ NoVolume \notin Volumes /\ NoId \notin Ids
    /\ IsFiniteSet(Uids) /\ IsFiniteSet(Ids)
    /\ Cardinality(Uids) >= Cardinality(Ids)

VARIABLES
    jailed,         \* config.firecrackerJailed
    phase,          \* where create(id) is
    vol,            \* its spec.storage.volumeId
    running,        \* the ids whose entry in instances is "running"; an entry that
                    \* is over, or forgotten a minute later, is treated as absent
    proc,           \* the VM's process, as the kernel has it
    uid,            \* the uid its jail was given
    allocatedUids,
    egress,         \* its egress proxy
    cleanup,        \* the two calls of instance.cleanup(): stop's and exit's
    dirs,           \* the ids whose workspace and jail directories exist
    image,          \* volume -> the creation whose file is workspace.ext4
    volDirs,        \* the volumes whose directory exists
    temps,          \* the creations whose temporary file exists
    formatted,      \* the creations whose file mkfs.ext4 has formatted
    destroy,        \* where destroyVolume(v) is
    faults,
    \* History variables, which no action reads but to write them:
    robbed,         \* the ids whose uid another VM's cleanup freed while they
                    \* held it, because it frees twice or was itself robbed
    exposed         \* the ids whose creation overlapped a removal of their volume

spec    == <<jailed, vol, exposed>>
jail    == <<uid, allocatedUids, robbed>>
memory  == <<phase, running, proc, jail, egress, cleanup>>
volumes == <<image, volDirs, temps, formatted>>
files   == <<dirs, volumes>>
vars    == <<spec, memory, files, destroy, faults>>

Callers == {"stop", "exit"}

TypeOK ==
    /\ jailed \in BOOLEAN
    /\ phase \in [Ids -> {"none", "disks", "check", "open", "mkfs", "link",
                          "validate", "config", "boot", "stopping", "ok", "error"}]
    /\ vol \in [Ids -> Volumes \cup {NoVolume}]
    /\ proc \in [Ids -> {"none", "alive", "killed", "unborn", "exited"}]
    /\ uid \in [Ids -> Uids \cup {NoUid}]
    /\ egress \in [Ids -> {"none", "open", "closing", "closed"}]
    /\ cleanup \in [Ids -> [Callers -> {"none", "draining", "removing", "done"}]]
    /\ image \in [Volumes -> Ids \cup {NoId}]
    /\ destroy \in [Volumes -> {"idle", "unlink", "rmdir"}]
    /\ allocatedUids \subseteq Uids
    /\ volDirs \subseteq Volumes
    /\ running \cup dirs \cup temps \cup formatted \subseteq Ids
    /\ robbed \cup exposed \subseteq Ids
    /\ faults \in 0..MaxFaults

Init ==
    /\ jailed \in BOOLEAN
    /\ phase = [id \in Ids |-> "none"]
    /\ vol = [id \in Ids |-> NoVolume]
    /\ proc = [id \in Ids |-> "none"]
    /\ uid = [id \in Ids |-> NoUid]
    /\ egress = [id \in Ids |-> "none"]
    /\ cleanup = [id \in Ids |-> [c \in Callers |-> "none"]]
    /\ image = [v \in Volumes |-> NoId]
    /\ destroy = [v \in Volumes |-> "idle"]
    /\ allocatedUids = {} /\ running = {}
    /\ dirs = {} /\ volDirs = {} /\ temps = {} /\ formatted = {}
    /\ faults = 0
    /\ robbed = {} /\ exposed = {}

Fault == faults < MaxFaults /\ faults' = faults + 1

Goto(id, from, to) == phase[id] = from /\ phase' = [phase EXCEPT ![id] = to]

-------------------------------------------------------------------------------
(* create: the preparation *)

\* Mutant: a jail takes the uid its id hashes to, allocated or not.
PickAnyUid(u) == u \in Uids

\* From the uid its id hashes to, the first that is not allocated.
PickUid(u) == u \in Uids \ allocatedUids

\* Up to the first await that follows an effect: the checks of the lease, of
\* the storage (no persistent disk in a jail) and of the binaries, whose
\* failure keeps nothing, and the uid of a jail.
Create(id) ==
    /\ Goto(id, "none", "disks")
    /\ IF jailed
       THEN /\ \E u \in Uids : /\ PickUid(u)
                               /\ uid' = [uid EXCEPT ![id] = u]
                               /\ allocatedUids' = allocatedUids \cup {u}
            /\ UNCHANGED <<vol, exposed, robbed>>
       ELSE /\ Cardinality({i \in Ids : phase[i] # "none"}) < MaxDirect
            /\ \E v \in Volumes \cup {NoVolume} :
                /\ vol' = [vol EXCEPT ![id] = v]
                /\ exposed' = IF v \in Volumes /\ destroy[v] # "idle"
                              THEN exposed \cup {id} ELSE exposed
            /\ UNCHANGED <<jail>>
    /\ UNCHANGED <<jailed, running, proc, egress, cleanup, files, destroy, faults>>

\* Directories made, root filesystem and kernel copied, owners changed; with
\* no volume to attach, the egress proxy listens too.
DisksReady(id) ==
    /\ Goto(id, "disks", IF vol[id] = NoVolume THEN "config" ELSE "check")
    /\ dirs' = dirs \cup {id}
    /\ egress' = [egress EXCEPT ![id] = IF vol[id] = NoVolume THEN "open" ELSE @]
    /\ UNCHANGED <<spec, running, proc, jail, cleanup, volumes, destroy, faults>>

\* A failed await before the proxy listens: the error goes to the caller,
\* uid and directories stay as they are.  A temporary image is removed.
PrepareFails(id) ==
    /\ phase[id] \in {"disks", "check", "open", "mkfs", "link", "validate"}
    /\ phase' = [phase EXCEPT ![id] = "error"]
    /\ Fault
    /\ dirs' \in (IF phase[id] = "disks" THEN {dirs, dirs \cup {id}} ELSE {dirs})
    /\ temps' = temps \ {id}
    /\ UNCHANGED <<spec, running, proc, jail, egress, cleanup, image, volDirs, formatted, destroy>>

\* Writing the configuration fails: the proxy is closed, the uid is not freed.
ConfigFails(id) ==
    /\ Goto(id, "config", "error")
    /\ egress' = [egress EXCEPT ![id] = "closed"]
    /\ Fault
    /\ UNCHANGED <<spec, running, proc, jail, cleanup, files, destroy>>

-------------------------------------------------------------------------------
(* ensureExt4Volume *)

VolumeStep(id, from, to) ==
    /\ Goto(id, from, to)
    /\ egress' = [egress EXCEPT ![id] = IF to = "config" THEN "open" ELSE @]
    /\ UNCHANGED <<spec, running, proc, jail, cleanup, dirs, destroy, faults>>

\* validatePublishedImage: a file of the right size with ext4's magic number.
Valid(id) == IF image[vol[id]] \in formatted THEN "config" ELSE "error"

\* The directory is made.  A published image is used as it is; ENOENT means
\* one has to be made.  With the image at hand the egress proxy listens.
CheckImage(id) ==
    /\ phase[id] = "check"
    /\ VolumeStep(id, "check", IF image[vol[id]] = NoId THEN "open" ELSE Valid(id))
    /\ volDirs' = volDirs \cup {vol[id]}
    /\ UNCHANGED <<image, temps, formatted>>

\* The exclusive open of a temporary name; the directory may be gone again.
OpenTemp(id) ==
    /\ phase[id] = "open"
    /\ IF vol[id] \in volDirs
       THEN VolumeStep(id, "open", "mkfs") /\ temps' = temps \cup {id}
       ELSE VolumeStep(id, "open", "error") /\ UNCHANGED temps
    /\ UNCHANGED <<image, volDirs, formatted>>

\* Mutant: the file is published as soon as it has its size.
MkfsSkipped(id) ==
    /\ VolumeStep(id, "mkfs", "link")
    /\ UNCHANGED <<volumes>>

Mkfs(id) ==
    /\ IF id \in temps
       THEN VolumeStep(id, "mkfs", "link") /\ formatted' = formatted \cup {id}
       ELSE VolumeStep(id, "mkfs", "error") /\ UNCHANGED formatted
    /\ UNCHANGED <<image, volDirs, temps>>

\* Mutant: the image is published by a rename, which replaces.
PublishByRename(id) == [image EXCEPT ![vol[id]] = id]

\* link(2) does not replace: EEXIST leaves the image of the other creator.
Publish(id) == [image EXCEPT ![vol[id]] = IF @ = NoId THEN id ELSE @]

LinkImage(id) ==
    /\ IF id \in temps
       THEN VolumeStep(id, "link", "validate") /\ image' = Publish(id)
       ELSE VolumeStep(id, "link", "error") /\ UNCHANGED image
    /\ UNCHANGED <<volDirs, temps, formatted>>

\* The image at the stable path is checked; the temporary name goes.
ValidateImage(id) ==
    /\ phase[id] = "validate"
    /\ VolumeStep(id, "validate", Valid(id))
    /\ temps' = temps \ {id}
    /\ UNCHANGED <<image, volDirs, formatted>>

EnsureVolume(id) ==
    CheckImage(id) \/ OpenTemp(id) \/ Mkfs(id) \/ LinkImage(id) \/ ValidateImage(id)

-------------------------------------------------------------------------------
(* cleanup, called by stop and by the exit event *)

\* Mutant: the uid stays allocated.
KeepUid(id) == allocatedUids

\* allocatedUids.delete(uid), by each of the two calls.
FreeUid(id) == allocatedUids \ {uid[id]}

\* A call of cleanup has freed the uid of this workspace.
Released(id) == \E c \in Callers : cleanup[id][c] \in {"removing", "done"}

\* Those that hold the uid this workspace gives back, when it has given it
\* back before, or lost it to another before.
Victims(id) ==
    {x \in Ids \ {id} : /\ uid[x] = uid[id] /\ uid[x] # NoUid /\ ~Released(x)
                        /\ Released(id) \/ id \in robbed}

ReleaseUid(id) ==
    /\ allocatedUids' = FreeUid(id)
    /\ robbed' = robbed \cup Victims(id)

\* The first call closes the proxy and waits until its connections are over;
\* the second does not wait, and goes on in the same turn.
BeginCleanup(id, c) ==
    IF egress[id] = "open"
    THEN /\ egress' = [egress EXCEPT ![id] = "closing"]
         /\ cleanup' = [cleanup EXCEPT ![id][c] = "draining"]
         /\ UNCHANGED <<allocatedUids, robbed>>
    ELSE /\ cleanup' = [cleanup EXCEPT ![id][c] = "removing"]
         /\ ReleaseUid(id)
         /\ UNCHANGED egress

ProxyClosed(id, c) ==
    /\ cleanup[id][c] = "draining"
    /\ cleanup' = [cleanup EXCEPT ![id][c] = "removing"]
    /\ egress' = [egress EXCEPT ![id] = "closed"]
    /\ ReleaseUid(id)
    /\ UNCHANGED <<spec, phase, running, proc, uid, files, destroy, faults>>

\* The directories are gone.  The creation that called stop(), if any,
\* reports its error.
Removed(id, c) ==
    /\ cleanup[id][c] = "removing"
    /\ cleanup' = [cleanup EXCEPT ![id][c] = "done"]
    /\ dirs' = dirs \ {id}
    /\ phase' = [phase EXCEPT ![id] = IF c = "stop" /\ @ = "stopping" THEN "error" ELSE @]
    /\ UNCHANGED <<spec, running, proc, jail, egress, volumes, destroy, faults>>

\* stop's rm fails: its caller is told.
StopRemoveFails(id) ==
    /\ cleanup[id]["stop"] = "removing"
    /\ cleanup' = [cleanup EXCEPT ![id]["stop"] = "done"]
    /\ phase' = [phase EXCEPT ![id] = IF @ = "stopping" THEN "error" ELSE @]
    /\ Fault
    /\ UNCHANGED <<spec, running, proc, jail, egress, files, destroy>>

-------------------------------------------------------------------------------
(* create: the VM *)

\* spawn returns at once.  A process that could not be started (its "error"
\* event) marks the instance failed: no exit event will come for it.
Spawn(id) ==
    /\ Goto(id, "config", "boot")
    /\ \/ /\ proc' = [proc EXCEPT ![id] = "alive"]
          /\ running' = running \cup {id}
          /\ UNCHANGED faults
       \/ /\ proc' = [proc EXCEPT ![id] = "unborn"]
          /\ UNCHANGED running
          /\ Fault
    /\ UNCHANGED <<spec, jail, egress, cleanup, files, destroy>>

\* hello is answered.
GuestReady(id) ==
    /\ id \in running
    /\ Goto(id, "boot", "ok")
    /\ UNCHANGED <<spec, running, proc, jail, egress, cleanup, files, destroy, faults>>

\* stop(): only a running instance is killed.
Kill(id) ==
    /\ id \in running
    /\ running' = running \ {id}
    /\ proc' = [proc EXCEPT ![id] = IF @ = "alive" THEN "killed" ELSE @]
    /\ BeginCleanup(id, "stop")

\* The deadline passes: a running VM is stopped, and the error waits for
\* its cleanup; an instance that is already over leaves nothing to await.
GuestNotReady(id) ==
    /\ \/ /\ Goto(id, "boot", "stopping")
          /\ Kill(id)
          /\ Fault
       \/ /\ id \notin running
          /\ Goto(id, "boot", "error")
          /\ UNCHANGED <<running, proc, allocatedUids, robbed, egress, cleanup, faults>>
    /\ UNCHANGED <<spec, uid, files, destroy>>

\* DELETE /v1/workspaces/:id.
Stop(id) ==
    /\ Kill(id)
    /\ UNCHANGED <<spec, phase, uid, files, destroy, faults>>

\* The sweeper does the same to a VM whose lease is over, which may be any.
Sweep(id) == Stop(id)

\* The "exit" event: of a VM that ended by itself or of one that was killed.
\* The cleanup is started and not awaited.
Exited(id) ==
    /\ proc[id] \in {"alive", "killed"}
    /\ proc' = [proc EXCEPT ![id] = "exited"]
    /\ running' = running \ {id}
    /\ BeginCleanup(id, "exit")
    /\ UNCHANGED <<spec, phase, uid, files, destroy, faults>>

-------------------------------------------------------------------------------
(* destroyVolume *)

OfVolume(v) == {id \in Ids : vol[id] = v}

\* Where a creation is before it has an instance.
Preparing == {"disks", "check", "open", "mkfs", "link", "validate", "config"}

\* Only a running instance keeps its volume; one that is being prepared does not.
DestroyBegin(v) ==
    /\ destroy[v] = "idle"
    /\ OfVolume(v) \cap running = {}
    /\ destroy' = [destroy EXCEPT ![v] = "unlink"]
    /\ exposed' = exposed \cup {id \in OfVolume(v) : phase[id] \in Preparing}
    /\ UNCHANGED <<jailed, vol, memory, files, faults>>

\* The recursive rm: the files it finds, then the directory, which fails
\* when a file has been added meanwhile.
DestroyFiles(v) ==
    /\ destroy[v] = "unlink"
    /\ destroy' = [destroy EXCEPT ![v] = "rmdir"]
    /\ image' = [image EXCEPT ![v] = NoId]
    /\ temps' = temps \ OfVolume(v)
    /\ UNCHANGED <<spec, memory, dirs, volDirs, formatted, faults>>

DestroyEnd(v) ==
    /\ destroy[v] = "rmdir"
    /\ destroy' = [destroy EXCEPT ![v] = "idle"]
    /\ volDirs' = IF image[v] = NoId /\ temps \cap OfVolume(v) = {}
                  THEN volDirs \ {v} ELSE volDirs
    /\ UNCHANGED <<spec, memory, dirs, image, temps, formatted, faults>>

-------------------------------------------------------------------------------

\* The agent dies, its VMs with its control group.  A rejected cleanup of
\* the exit event is such a death: nothing handles it.
Die ==
    /\ Fault
    /\ phase' = [id \in Ids |-> IF phase[id] \in {"none", "ok"} THEN phase[id] ELSE "error"]
    /\ proc' = [id \in Ids |-> IF proc[id] = "none" THEN "none" ELSE "exited"]
    /\ running' = {}
    /\ egress' = [id \in Ids |-> IF egress[id] = "none" THEN "none" ELSE "closed"]
    /\ cleanup' = [id \in Ids |-> [c \in Callers |-> "none"]]
    /\ uid' = [id \in Ids |-> NoUid]
    /\ allocatedUids' = {}
    /\ robbed' = {}
    /\ destroy' = [v \in Volumes |-> "idle"]
    /\ UNCHANGED <<spec, files>>

Handler(id) ==
    \/ DisksReady(id) \/ PrepareFails(id) \/ EnsureVolume(id) \/ ConfigFails(id)
    \/ Spawn(id) \/ GuestReady(id) \/ GuestNotReady(id)

CleanupStep(id, c) == ProxyClosed(id, c) \/ Removed(id, c)

Next ==
    \/ \E id \in Ids :
        \/ Create(id) \/ Handler(id) \/ Stop(id) \/ Sweep(id)
        \/ Exited(id) \/ StopRemoveFails(id)
        \/ \E c \in Callers : CleanupStep(id, c)
    \/ \E v \in Volumes : DestroyBegin(v) \/ DestroyFiles(v) \/ DestroyEnd(v)
    \/ Die

Spec == Init /\ [][Next]_vars

-------------------------------------------------------------------------------
(* Properties *)

Alive(id) == proc[id] \in {"alive", "killed"}

\* allocatedUids and the two calls of cleanup for one VM: two processes live
\* under one uid only in two ways.  One of them was killed, and stop's cleanup
\* gave its uid back before the process was gone; or one of them was robbed:
\* a VM that had the uid before it freed the uid a second time, by the later
\* of stop's and exit's cleanup, directly or through another it had robbed.
UidsExclusive ==
    \A a, b \in Ids :
        (a # b /\ Alive(a) /\ Alive(b) /\ uid[a] = uid[b] /\ uid[a] # NoUid) =>
        \E x \in {a, b} : x \in robbed \/ (proc[x] = "killed" /\ Released(x))

\* What a node at rest still holds: a uid, a directory or a proxy outlives
\* every handler, process and cleanup only if its creation failed before the
\* VM's process existed, a removal failed, or the agent died.
AtRest ==
    /\ \A id \in Ids : phase[id] \in {"none", "ok", "error"} /\ ~Alive(id)
    /\ \A id \in Ids, c \in Callers : cleanup[id][c] \in {"none", "done"}

LeaksExplained ==
    AtRest =>
    /\ \A u \in allocatedUids :
        \E id \in Ids : uid[id] = u /\ phase[id] = "error" /\ proc[id] \in {"none", "unborn"}
    /\ \A id \in Ids : egress[id] \in {"open", "closing"} => proc[id] = "unborn"
    /\ \A id \in dirs : proc[id] \in {"none", "unborn"} \/ faults > 0

\* ensureExt4Volume's publication: what is at the stable path, whichever of
\* several creators put it there and wherever the agent died, is a disk that
\* was formatted.
DisksWhole == \A v \in Volumes : image[v] # NoId => image[v] \in formatted

\* No creator replaces a published disk, and destroyVolume's rm, which looks
\* for running instances before it awaits, takes it from under a running VM
\* only when the VM's creation overlapped that removal.
DiskKept ==
    [][\A v \in Volumes : image[v] # NoId =>
        \/ image'[v] = image[v]
        \/ image'[v] = NoId /\ destroy[v] = "unlink" /\ OfVolume(v) \cap running \subseteq exposed]_vars

================================================================================
