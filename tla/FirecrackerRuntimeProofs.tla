----------------------- MODULE FirecrackerRuntimeProofs -----------------------
(***************************************************************************)
(* The guarantees of FirecrackerRuntime for any number of workspaces, uids *)
(* and volumes and any number of faults.  Three invariants carry them:     *)
(* what a creation has made at each of its awaits (StageInv), who holds a  *)
(* uid although either call of cleanup may have freed it (UidInv), and     *)
(* whose volume may be being removed (VolumeInv).                          *)
(***************************************************************************)
EXTENDS FirecrackerRuntime, TLAPS

USE RuntimeAssumption

\* What every step preserves of the types.
RuntimeTypes ==
    /\ phase \in [Ids -> {"none", "disks", "check", "open", "mkfs", "link",
                          "validate", "config", "boot", "stopping", "ok", "error"}]
    /\ vol \in [Ids -> Volumes \cup {NoVolume}]
    /\ proc \in [Ids -> {"none", "alive", "killed", "unborn", "exited"}]
    /\ uid \in [Ids -> Uids \cup {NoUid}]
    /\ egress \in [Ids -> {"none", "open", "closing", "closed"}]
    /\ cleanup \in [Ids -> [Callers -> {"none", "draining", "removing", "done"}]]
    /\ image \in [Volumes -> Ids \cup {NoId}]
    /\ dirs \subseteq Ids
    /\ faults \in Nat

\* What belongs to a workspace at each point of its creation and its end.
Stage(id) ==
    /\ phase[id] \in {"none"} \cup Preparing =>
        proc[id] = "none" /\ id \notin running /\ \A c \in Callers : cleanup[id][c] = "none"
    /\ phase[id] = "none" => uid[id] = NoUid /\ vol[id] = NoVolume
    /\ phase[id] \in {"none"} \cup (Preparing \ {"config"}) => egress[id] = "none"
    /\ phase[id] = "ok" => proc[id] \in {"alive", "killed", "exited"}
    /\ phase[id] = "link" => id \in formatted
    /\ proc[id] \in {"alive", "killed"} => cleanup[id]["exit"] = "none"
    /\ proc[id] = "alive" => id \in running
    /\ id \in running => proc[id] = "alive" /\ \A c \in Callers : cleanup[id][c] = "none"
    /\ egress[id] = "open" => phase[id] = "config" \/ proc[id] \in {"alive", "unborn"}
    /\ egress[id] = "closing" => \E c \in Callers : cleanup[id][c] = "draining"
    /\ proc[id] = "exited" /\ (faults = 0 \/ uid[id] # NoUid) => cleanup[id]["exit"] # "none"
    /\ faults = 0 /\ (\E c \in Callers : cleanup[id][c] = "done") => id \notin dirs

StageInv == RuntimeTypes /\ \A id \in Ids : Stage(id)

\* Who holds a uid.  It is allocated for a workspace that has not been
\* released, and such a workspace has its uid in allocatedUids, and to itself,
\* unless it was robbed.
UidInv ==
    /\ allocatedUids \subseteq Uids
    /\ \A u \in allocatedUids : \E id \in Ids : uid[id] = u /\ ~Released(id)
    /\ \A a \in Ids : uid[a] # NoUid /\ ~Released(a) => uid[a] \in allocatedUids \/ a \in robbed
    /\ \A a, b \in Ids : a # b /\ uid[a] = uid[b] /\ uid[a] # NoUid /\ ~Released(a) /\ ~Released(b) =>
        a \in robbed \/ b \in robbed

-------------------------------------------------------------------------------
(* What the steps do, by groups *)

Frame == UNCHANGED <<vol, exposed, destroy, running, proc, uid, allocatedUids, robbed, cleanup>>

\* A step of create before the VM: to the next await, or to its error.
Prepares(id) ==
    /\ \A i \in Ids \ {id} : phase'[i] = phase[i] /\ egress'[i] = egress[i]
    /\ phase[id] \in Preparing
    /\ phase'[id] \in (Preparing \ {"disks"}) \cup {"error"}
    /\ phase[id] = "config" => phase'[id] = "error"
    /\ egress'[id] = IF phase'[id] = "config" THEN "open"
                     ELSE IF phase[id] = "config" THEN "closed" ELSE egress[id]
    /\ phase'[id] = "link" => id \in formatted'
    /\ dirs' \in {dirs, dirs \cup {id}}
    /\ formatted \subseteq formatted'
    /\ faults' \in {faults, faults + 1}
    /\ Frame

\* Each step of the preparation is one.
LEMMA PrepareEffect ==
    ASSUME RuntimeTypes, NEW id \in Ids,
           DisksReady(id) \/ PrepareFails(id) \/ EnsureVolume(id) \/ ConfigFails(id)
    PROVE  Prepares(id) /\ RuntimeTypes'
<1> USE DEF Prepares, Preparing, Frame, spec, jail, volumes, files, Fault, Goto, RuntimeTypes
<1>1. CASE DisksReady(id)
  BY <1>1 DEF DisksReady
<1>2. CASE PrepareFails(id)
  BY <1>2 DEF PrepareFails
<1>3. CASE ConfigFails(id)
  BY <1>3 DEF ConfigFails
<1>4. ASSUME NEW from \in Preparing \ {"config"}, NEW to \in (Preparing \ {"disks"}) \cup {"error"},
             VolumeStep(id, from, to), to = "link" => id \in formatted', formatted \subseteq formatted',
             image' \in [Volumes -> Ids \cup {NoId}]
      PROVE  Prepares(id) /\ RuntimeTypes'
  BY <1>4 DEF VolumeStep
<1>5. CASE CheckImage(id)
  BY <1>4, <1>5 DEF CheckImage, Valid
<1>6. CASE OpenTemp(id)
  BY <1>4, <1>6 DEF OpenTemp
<1>7. CASE Mkfs(id)
  BY <1>4, <1>7 DEF Mkfs
<1>8. CASE LinkImage(id)
  <2>1. image' \in [Volumes -> Ids \cup {NoId}]
    BY <1>8 DEF LinkImage, Publish
  <2> QED BY <1>4, <1>8, <2>1 DEF LinkImage
<1>9. CASE ValidateImage(id)
  BY <1>4, <1>9 DEF ValidateImage, Valid
<1> QED BY <1>1, <1>2, <1>3, <1>5, <1>6, <1>7, <1>8, <1>9 DEF EnsureVolume

\* BeginCleanup, entry by entry.
CleanupBegins(id, c) ==
    /\ \A i \in Ids \ {id} : egress'[i] = egress[i] /\ cleanup'[i] = cleanup[i]
    /\ \A d \in Callers \ {c} : cleanup'[id][d] = cleanup[id][d]
    /\ IF egress[id] = "open"
       THEN /\ egress'[id] = "closing" /\ cleanup'[id][c] = "draining"
            /\ UNCHANGED <<allocatedUids, robbed>>
       ELSE egress'[id] = egress[id] /\ cleanup'[id][c] = "removing" /\ ReleaseUid(id)

\* The beginning of a cleanup: of a VM that stop kills, or of one that exits.
Ends(id, c) ==
    /\ \A i \in Ids \ {id} : phase'[i] = phase[i] /\ proc'[i] = proc[i]
    /\ \/ c = "stop" /\ id \in running /\ proc'[id] = "killed"
       \/ c = "exit" /\ proc[id] \in {"alive", "killed"} /\ proc'[id] = "exited"
    /\ phase'[id] = phase[id] \/ (phase[id] = "boot" /\ phase'[id] = "stopping")
    /\ running' = running \ {id}
    /\ CleanupBegins(id, c)
    /\ UNCHANGED <<vol, exposed, destroy, uid, dirs, image, formatted>>
    /\ faults' \in {faults, faults + 1}

\* One entry of cleanup is written.
LEMMA CleanupEntry ==
    ASSUME RuntimeTypes, NEW id \in Ids, NEW c \in Callers,
           NEW x \in {"none", "draining", "removing", "done"},
           cleanup' = [cleanup EXCEPT ![id][c] = x]
    PROVE  /\ cleanup' \in [Ids -> [Callers -> {"none", "draining", "removing", "done"}]]
           /\ cleanup'[id][c] = x
           /\ \A d \in Callers \ {c} : cleanup'[id][d] = cleanup[id][d]
           /\ \A i \in Ids \ {id} : cleanup'[i] = cleanup[i]
  BY DEF RuntimeTypes

\* BeginCleanup has this effect.
LEMMA BeginCleanupEffect ==
    ASSUME RuntimeTypes, NEW id \in Ids, NEW c \in Callers, BeginCleanup(id, c)
    PROVE  /\ egress' \in [Ids -> {"none", "open", "closing", "closed"}]
           /\ cleanup' \in [Ids -> [Callers -> {"none", "draining", "removing", "done"}]]
           /\ CleanupBegins(id, c)
<1>1. CASE egress[id] = "open"
  <2>1. cleanup' = [cleanup EXCEPT ![id][c] = "draining"]
    BY <1>1 DEF BeginCleanup
  <2> QED BY <1>1, <2>1, CleanupEntry DEF BeginCleanup, CleanupBegins, RuntimeTypes
<1>2. CASE egress[id] # "open"
  <2>1. cleanup' = [cleanup EXCEPT ![id][c] = "removing"]
    BY <1>2 DEF BeginCleanup
  <2> QED BY <1>2, <2>1, CleanupEntry DEF BeginCleanup, CleanupBegins, RuntimeTypes
<1> QED BY <1>1, <1>2

\* Stop, the sweeper, a boot that takes too long and an exit are such steps.
LEMMA EndEffect ==
    ASSUME StageInv, NEW id \in Ids,
           \/ Exited(id)
           \/ /\ Kill(id)
              /\ UNCHANGED phase \/ Goto(id, "boot", "stopping")
              /\ UNCHANGED faults \/ Fault
              /\ UNCHANGED <<spec, uid, files, destroy>>
    PROVE  RuntimeTypes' /\ \E c \in Callers : Ends(id, c)
<1> USE DEF StageInv, spec, volumes, files, Fault, Goto
<1>1. CASE Exited(id)
  <2>1. "exit" \in Callers /\ BeginCleanup(id, "exit")
    BY <1>1 DEF Exited, Callers
  <2>2. CleanupBegins(id, "exit")
    BY <2>1, BeginCleanupEffect
  <2>3. Ends(id, "exit")
    BY <1>1, <2>2 DEF Exited, Ends, RuntimeTypes
  <2>4. RuntimeTypes'
    BY <1>1, <2>1, BeginCleanupEffect DEF Exited, RuntimeTypes
  <2> QED BY <2>1, <2>3, <2>4
<1>2. CASE Kill(id) /\ (UNCHANGED phase \/ Goto(id, "boot", "stopping"))
           /\ (UNCHANGED faults \/ Fault) /\ UNCHANGED <<spec, uid, files, destroy>>
  <2>1. "stop" \in Callers /\ BeginCleanup(id, "stop") /\ id \in running /\ proc[id] = "alive"
    BY <1>2 DEF Kill, Callers, Stage
  <2>2. CleanupBegins(id, "stop")
    BY <2>1, BeginCleanupEffect
  <2>3. Ends(id, "stop")
    <3>1. /\ running' = running \ {id} /\ proc' = [proc EXCEPT ![id] = "killed"]
          /\ proc'[id] = "killed" /\ \A i \in Ids \ {id} : proc'[i] = proc[i]
      BY <1>2, <2>1 DEF Kill, RuntimeTypes
    <3>2. /\ \A i \in Ids \ {id} : phase'[i] = phase[i]
          /\ phase'[id] = phase[id] \/ (phase[id] = "boot" /\ phase'[id] = "stopping")
      BY <1>2 DEF RuntimeTypes
    <3> QED BY <1>2, <2>1, <2>2, <3>1, <3>2 DEF Ends
  <2>4. RuntimeTypes'
    <3>1. proc' \in [Ids -> {"none", "alive", "killed", "unborn", "exited"}]
      BY <1>2, <2>1 DEF Kill, RuntimeTypes
    <3>2. phase' \in [Ids -> {"none", "disks", "check", "open", "mkfs", "link",
                             "validate", "config", "boot", "stopping", "ok", "error"}]
      BY <1>2 DEF RuntimeTypes
    <3>3. faults' \in Nat
      BY <1>2 DEF RuntimeTypes
    <3> QED BY <1>2, <2>1, <3>1, <3>2, <3>3, BeginCleanupEffect DEF RuntimeTypes
  <2> QED BY <2>1, <2>3, <2>4
<1> QED BY <1>1, <1>2

\* A later step of a cleanup: the proxy is closed and the uid freed, or the
\* directories are removed, or their removal fails.
Cleans(id, c) ==
    /\ \A i \in Ids \ {id} :
        phase'[i] = phase[i] /\ egress'[i] = egress[i] /\ cleanup'[i] = cleanup[i]
    /\ \A d \in Callers \ {c} : cleanup'[id][d] = cleanup[id][d]
    /\ phase'[id] = phase[id] \/ (phase[id] = "stopping" /\ phase'[id] = "error")
    /\ \/ /\ cleanup[id][c] = "draining" /\ cleanup'[id][c] = "removing"
          /\ egress'[id] = "closed"
          /\ ReleaseUid(id)
          /\ UNCHANGED <<dirs, faults>>
       \/ /\ cleanup[id][c] = "removing" /\ cleanup'[id][c] = "done"
          /\ egress'[id] = egress[id]
          /\ \/ dirs' = dirs \ {id} /\ UNCHANGED faults
             \/ UNCHANGED dirs /\ faults' = faults + 1
          /\ UNCHANGED <<allocatedUids, robbed>>
    /\ UNCHANGED <<vol, exposed, destroy, running, proc, uid, image, formatted>>

\* The steps of cleanup are such steps.
LEMMA CleanEffect ==
    ASSUME RuntimeTypes, NEW id \in Ids,
           StopRemoveFails(id) \/ \E c \in Callers : CleanupStep(id, c)
    PROVE  RuntimeTypes' /\ \E c \in Callers : Cleans(id, c)
<1> USE DEF spec, jail, volumes, files, Fault
<1>1. ASSUME NEW c \in Callers, ProxyClosed(id, c) PROVE RuntimeTypes' /\ Cleans(id, c)
  <2>1. cleanup' = [cleanup EXCEPT ![id][c] = "removing"]
    BY <1>1 DEF ProxyClosed
  <2> QED BY <1>1, <2>1, CleanupEntry DEF ProxyClosed, Cleans, RuntimeTypes
<1>2. ASSUME NEW c \in Callers, Removed(id, c) PROVE RuntimeTypes' /\ Cleans(id, c)
  <2>1. cleanup' = [cleanup EXCEPT ![id][c] = "done"]
    BY <1>2 DEF Removed
  <2> QED BY <1>2, <2>1, CleanupEntry DEF Removed, Cleans, RuntimeTypes
<1>3. ASSUME StopRemoveFails(id) PROVE RuntimeTypes' /\ Cleans(id, "stop") /\ "stop" \in Callers
  <2>1. cleanup' = [cleanup EXCEPT ![id]["stop"] = "done"] /\ "stop" \in Callers
    BY <1>3 DEF StopRemoveFails, Callers
  <2> QED BY <1>3, <2>1, CleanupEntry DEF StopRemoveFails, Cleans, RuntimeTypes
<1> QED BY <1>1, <1>2, <1>3 DEF CleanupStep

-------------------------------------------------------------------------------
(* StageInv is inductive *)

\* Nothing has been created.
LEMMA StageInit == Init => StageInv
  BY DEF Init, StageInv, Stage, RuntimeTypes, Preparing

\* A step of the preparation keeps it.
LEMMA StagePrepare ==
    ASSUME StageInv, NEW id \in Ids, Prepares(id), RuntimeTypes'
    PROVE  StageInv'
<1>1. ASSUME NEW i \in Ids \ {id} PROVE Stage(i)'
  BY <1>1 DEF StageInv, Stage, Prepares, Frame, RuntimeTypes, Callers
<1>2. Stage(id)'
  <2>1. /\ proc[id] = "none" /\ id \notin running
        /\ \A c \in Callers : cleanup[id][c] = "none"
        /\ phase[id] # "config" => egress[id] = "none"
    BY DEF StageInv, Stage, Prepares, Preparing
  <2>2. /\ proc'[id] = "none" /\ id \notin running'
        /\ \A c \in Callers : cleanup'[id][c] = "none"
    BY <2>1 DEF Prepares, Frame
  <2>3. /\ phase'[id] \in (Preparing \ {"disks"}) \cup {"error"}
        /\ phase[id] = "config" => phase'[id] = "error"
        /\ phase'[id] = "link" => id \in formatted'
        /\ egress'[id] = IF phase'[id] = "config" THEN "open"
                         ELSE IF phase[id] = "config" THEN "closed" ELSE egress[id]
    BY DEF Prepares
  <2> QED BY <2>1, <2>2, <2>3 DEF Stage, Preparing
<1> QED BY <1>1, <1>2 DEF StageInv

\* The beginning of a cleanup keeps it.
LEMMA StageEnds ==
    ASSUME StageInv, NEW id \in Ids, NEW c \in Callers, Ends(id, c), RuntimeTypes'
    PROVE  StageInv'
<1>1. ASSUME NEW i \in Ids \ {id} PROVE Stage(i)'
  BY <1>1 DEF StageInv, Stage, Ends, CleanupBegins, RuntimeTypes, Callers
<1>2. Stage(id)'
  BY DEF StageInv, Stage, Ends, CleanupBegins, Preparing, RuntimeTypes, Callers
<1> QED BY <1>1, <1>2 DEF StageInv

\* Its later steps keep it.
LEMMA StageCleans ==
    ASSUME StageInv, NEW id \in Ids, NEW c \in Callers, Cleans(id, c), RuntimeTypes'
    PROVE  StageInv'
<1>1. ASSUME NEW i \in Ids \ {id} PROVE Stage(i)'
  BY <1>1 DEF StageInv, Stage, Cleans, RuntimeTypes, Callers
<1>2. Stage(id)'
  BY DEF StageInv, Stage, Cleans, Preparing, RuntimeTypes, Callers
<1> QED BY <1>1, <1>2 DEF StageInv

\* StageInv is inductive: by the groups above, and for the steps that are of none.
LEMMA StageStep == StageInv /\ [Next]_vars => StageInv'
<1> SUFFICES ASSUME StageInv, [Next]_vars PROVE StageInv'
  OBVIOUS
<1> USE DEF spec, jail, memory, volumes, files, Fault, Goto
<1>1. ASSUME NEW id \in Ids, Create(id) PROVE StageInv'
  <2>1. /\ phase[id] = "none" /\ phase' = [phase EXCEPT ![id] = "disks"]
        /\ UNCHANGED <<running, proc, egress, cleanup, dirs, image, formatted, faults>>
    BY <1>1 DEF Create
  <2>2. CASE jailed
    <3>1. PICK u \in Uids : uid' = [uid EXCEPT ![id] = u] /\ UNCHANGED vol
      BY <1>1, <2>2 DEF Create
    <3> QED BY <2>1, <3>1 DEF StageInv, Stage, RuntimeTypes, Preparing
  <2>3. CASE ~jailed
    <3>1. PICK v \in Volumes \cup {NoVolume} : vol' = [vol EXCEPT ![id] = v] /\ UNCHANGED uid
      BY <1>1, <2>3 DEF Create
    <3> QED BY <2>1, <3>1 DEF StageInv, Stage, RuntimeTypes, Preparing
  <2> QED BY <2>2, <2>3
<1>2. ASSUME NEW id \in Ids, DisksReady(id) \/ PrepareFails(id) \/ EnsureVolume(id) \/ ConfigFails(id)
      PROVE  StageInv'
  BY <1>2, PrepareEffect, StagePrepare DEF StageInv
<1>3. ASSUME NEW id \in Ids, Spawn(id) PROVE StageInv'
  <2>1. /\ phase[id] = "config" /\ phase' = [phase EXCEPT ![id] = "boot"]
        /\ UNCHANGED <<vol, uid, egress, cleanup, dirs, image, formatted>>
    BY <1>3 DEF Spawn
  <2>2. CASE /\ proc' = [proc EXCEPT ![id] = "alive"] /\ running' = running \cup {id}
             /\ UNCHANGED faults
    BY <2>1, <2>2 DEF StageInv, Stage, RuntimeTypes, Preparing, Callers
  <2>3. CASE proc' = [proc EXCEPT ![id] = "unborn"] /\ UNCHANGED running /\ faults' = faults + 1
    BY <2>1, <2>3 DEF StageInv, Stage, RuntimeTypes, Preparing, Callers
  <2> QED BY <1>3, <2>2, <2>3 DEF Spawn
<1>4. ASSUME NEW id \in Ids, NEW to \in {"ok", "error"}, Goto(id, "boot", to),
             to = "ok" => id \in running,
             UNCHANGED <<vol, running, proc, uid, egress, cleanup, dirs, image, formatted, faults>>
      PROVE  StageInv'
  BY <1>4 DEF StageInv, Stage, RuntimeTypes, Preparing
<1>5. ASSUME NEW id \in Ids, GuestReady(id) PROVE StageInv'
  BY <1>4, <1>5 DEF GuestReady
<1>6. ASSUME NEW id \in Ids, GuestNotReady(id) PROVE StageInv'
  BY <1>4, <1>6, EndEffect, StageEnds DEF GuestNotReady
<1>7. ASSUME NEW id \in Ids, Stop(id) \/ Sweep(id) \/ Exited(id) PROVE StageInv'
  BY <1>7, EndEffect, StageEnds DEF Sweep, Stop
<1>8. ASSUME NEW id \in Ids, StopRemoveFails(id) \/ \E c \in Callers : CleanupStep(id, c)
      PROVE  StageInv'
  BY <1>8, CleanEffect, StageCleans DEF StageInv
<1>9. ASSUME NEW v \in Volumes, DestroyBegin(v) \/ DestroyFiles(v) \/ DestroyEnd(v) PROVE StageInv'
  <2>1. /\ UNCHANGED <<vol, phase, running, proc, uid, egress, cleanup, dirs, formatted, faults>>
        /\ image' \in {image, [image EXCEPT ![v] = NoId]}
    BY <1>9 DEF DestroyBegin, DestroyFiles, DestroyEnd
  <2> QED BY <2>1 DEF StageInv, Stage, RuntimeTypes
<1>10. CASE Die
  <2>1. RuntimeTypes'
    BY <1>10 DEF Die, StageInv, RuntimeTypes
  <2>2. ASSUME NEW id \in Ids PROVE Stage(id)'
    BY <1>10 DEF Die, StageInv, Stage, RuntimeTypes, Preparing, Callers
  <2> QED BY <2>1, <2>2 DEF StageInv
<1>11. CASE UNCHANGED vars
  BY <1>11 DEF vars, StageInv, Stage, RuntimeTypes
<1> QED BY <1>1, <1>2, <1>3, <1>5, <1>6, <1>7, <1>8, <1>9, <1>10, <1>11 DEF Next, Handler

-------------------------------------------------------------------------------
(* UidInv is inductive *)

\* No uid is allocated.
LEMMA UidInit == Init => UidInv
  BY DEF Init, UidInv

\* A step that allocates and frees nothing.
LEMMA UidFrame ==
    ASSUME UidInv, UNCHANGED <<uid, allocatedUids, robbed>>, \A i \in Ids : Released(i)' <=> Released(i)
    PROVE  UidInv'
  BY DEF UidInv

\* A uid is freed.  Whoever else holds it is robbed: by the second release,
\* or because one of the two had been robbed before.
LEMMA UidFreed ==
    ASSUME UidInv, NEW id \in Ids, Released(id)', ReleaseUid(id), UNCHANGED uid,
           \A i \in Ids \ {id} : Released(i)' <=> Released(i)
    PROVE  UidInv'
<1>1. allocatedUids' = allocatedUids \ {uid[id]} /\ robbed \subseteq robbed'
  BY DEF ReleaseUid, FreeUid
<1>2. ASSUME NEW u \in allocatedUids' PROVE \E i \in Ids : uid'[i] = u /\ ~Released(i)'
  BY <1>1, <1>2 DEF UidInv
<1>3. ASSUME NEW a \in Ids, uid'[a] # NoUid, ~Released(a)'
      PROVE  uid'[a] \in allocatedUids' \/ a \in robbed'
  <2>1. a # id /\ uid[a] # NoUid /\ ~Released(a)
    BY <1>3
  <2>2. CASE uid[a] # uid[id]
    BY <1>1, <2>1, <2>2 DEF UidInv
  <2>3. CASE uid[a] = uid[id]
    <3>1. CASE Released(id) \/ id \in robbed
      BY <2>1, <2>3, <3>1 DEF ReleaseUid, Victims
    <3>2. CASE ~Released(id) /\ id \notin robbed
      BY <1>1, <2>1, <2>3, <3>2 DEF UidInv
    <3> QED BY <3>1, <3>2
  <2> QED BY <2>2, <2>3
<1>4. ASSUME NEW a \in Ids, NEW b \in Ids, a # b, uid'[a] = uid'[b], uid'[a] # NoUid,
             ~Released(a)', ~Released(b)'
      PROVE  a \in robbed' \/ b \in robbed'
  BY <1>1, <1>4 DEF UidInv
<1> QED BY <1>1, <1>2, <1>3, <1>4 DEF UidInv

\* A uid that is not allocated is picked: whoever still has it was robbed.
LEMMA UidPicked ==
    ASSUME StageInv, UidInv, NEW id \in Ids, phase[id] = "none",
           NEW u \in Uids \ allocatedUids,
           uid' = [uid EXCEPT ![id] = u], allocatedUids' = allocatedUids \cup {u},
           UNCHANGED <<robbed, cleanup>>
    PROVE  UidInv'
<1>1. /\ \A i \in Ids : Released(i)' <=> Released(i)
      /\ ~Released(id) /\ uid[id] = NoUid /\ u # NoUid
      /\ uid'[id] = u /\ \A i \in Ids \ {id} : uid'[i] = uid[i]
  BY DEF StageInv, RuntimeTypes, Stage, Released
<1>2. ASSUME NEW w \in allocatedUids' PROVE \E i \in Ids : uid'[i] = w /\ ~Released(i)'
  <2>1. CASE w = u
    BY <1>1, <2>1
  <2>2. CASE w # u
    <3>1. PICK i \in Ids : uid[i] = w /\ ~Released(i)
      BY <2>2, <1>2 DEF UidInv
    <3>2. i # id
      BY <1>1, <1>2, <2>2, <3>1 DEF UidInv
    <3> QED BY <1>1, <3>1, <3>2
  <2> QED BY <2>1, <2>2
<1>3. ASSUME NEW a \in Ids, uid'[a] # NoUid, ~Released(a)'
      PROVE  uid'[a] \in allocatedUids' \/ a \in robbed'
  BY <1>1, <1>3 DEF UidInv
<1>4. ASSUME NEW a \in Ids \ {id}, uid[a] = u, ~Released(a) PROVE a \in robbed'
  BY <1>1, <1>4 DEF UidInv
<1>5. ASSUME NEW a \in Ids, NEW b \in Ids, a # b, uid'[a] = uid'[b], uid'[a] # NoUid,
             ~Released(a)', ~Released(b)'
      PROVE  a \in robbed' \/ b \in robbed'
  <2>1. CASE a = id \/ b = id
    BY <1>1, <1>4, <1>5, <2>1
  <2>2. CASE a # id /\ b # id
    BY <1>1, <1>5, <2>2 DEF UidInv
  <2> QED BY <2>1, <2>2
<1> QED BY <1>2, <1>3, <1>5 DEF UidInv

\* UidInv is inductive.
LEMMA UidStep == StageInv /\ UidInv /\ [Next]_vars => UidInv'
<1> SUFFICES ASSUME StageInv, UidInv, [Next]_vars PROVE UidInv'
  OBVIOUS
<1> USE DEF spec, jail, memory, volumes, files
<1>1. ASSUME UNCHANGED <<uid, allocatedUids, robbed, cleanup>> PROVE UidInv'
  BY <1>1, UidFrame DEF Released
<1>2. ASSUME NEW id \in Ids, Create(id) PROVE UidInv'
  <2>1. CASE jailed
    <3>1. PICK u \in Uids \ allocatedUids :
              /\ uid' = [uid EXCEPT ![id] = u]
              /\ allocatedUids' = allocatedUids \cup {u}
              /\ UNCHANGED robbed
      BY <1>2, <2>1 DEF Create, PickUid
    <3> QED BY <1>2, <3>1, UidPicked DEF Create, Goto
  <2>2. CASE ~jailed
    BY <1>1, <1>2, <2>2 DEF Create
  <2> QED BY <2>1, <2>2
<1>3. ASSUME NEW id \in Ids, DisksReady(id) \/ PrepareFails(id) \/ EnsureVolume(id) \/ ConfigFails(id)
      PROVE  UidInv'
  BY <1>1, <1>3, PrepareEffect DEF StageInv, Prepares, Frame
<1>4. ASSUME NEW id \in Ids, NEW c \in Callers, Ends(id, c) PROVE UidInv'
  <2>1. \A i \in Ids \ {id} : Released(i)' <=> Released(i)
    BY <1>4 DEF Ends, CleanupBegins, Released
  <2>2. cleanup[id][c] = "none"
    BY <1>4 DEF Ends, StageInv, Stage
  <2>3. CASE egress[id] = "open"
    <3>1. Released(id)' <=> Released(id)
      BY <1>4, <2>2, <2>3 DEF Ends, CleanupBegins, Released
    <3> QED BY <1>4, <2>1, <2>3, <3>1, UidFrame DEF Ends, CleanupBegins
  <2>4. CASE egress[id] # "open"
    <3>1. Released(id)'
      BY <1>4, <2>4 DEF Ends, CleanupBegins, Released
    <3> QED BY <1>4, <2>1, <2>4, <3>1, UidFreed DEF Ends, CleanupBegins
  <2> QED BY <2>3, <2>4
<1>5. ASSUME NEW id \in Ids, NEW c \in Callers, Cleans(id, c) PROVE UidInv'
  <2>1. \A i \in Ids \ {id} : Released(i)' <=> Released(i)
    BY <1>5 DEF Cleans, Released
  <2>2. CASE cleanup[id][c] = "draining"
    <3>1. Released(id)'
      BY <1>5, <2>2 DEF Cleans, Released
    <3> QED BY <1>5, <2>1, <2>2, <3>1, UidFreed DEF Cleans
  <2>3. CASE cleanup[id][c] # "draining"
    <3>1. Released(id)' /\ Released(id)
      BY <1>5, <2>3 DEF Cleans, Released
    <3> QED BY <1>5, <2>1, <2>3, <3>1, UidFrame DEF Cleans
  <2> QED BY <2>2, <2>3
<1>6. ASSUME NEW id \in Ids, Spawn(id) \/ GuestReady(id) PROVE UidInv'
  BY <1>1, <1>6 DEF Spawn, GuestReady
<1>7. ASSUME NEW id \in Ids, GuestNotReady(id) PROVE UidInv'
  BY <1>1, <1>4, <1>7, EndEffect DEF GuestNotReady
<1>8. ASSUME NEW id \in Ids, Stop(id) \/ Sweep(id) \/ Exited(id) PROVE UidInv'
  BY <1>4, <1>8, EndEffect DEF Sweep, Stop
<1>9. ASSUME NEW id \in Ids, StopRemoveFails(id) \/ \E c \in Callers : CleanupStep(id, c)
      PROVE  UidInv'
  BY <1>5, <1>9, CleanEffect DEF StageInv
<1>10. ASSUME NEW v \in Volumes, DestroyBegin(v) \/ DestroyFiles(v) \/ DestroyEnd(v) PROVE UidInv'
  BY <1>1, <1>10 DEF DestroyBegin, DestroyFiles, DestroyEnd
<1>11. CASE Die
  BY <1>11 DEF Die, UidInv
<1>12. CASE UNCHANGED vars
  BY <1>1, <1>12 DEF vars
<1> QED BY <1>2, <1>3, <1>6, <1>7, <1>8, <1>9, <1>10, <1>11, <1>12 DEF Next, Handler

-------------------------------------------------------------------------------
(* VolumeInv is inductive *)

\* The volume of a creation or of a running VM is not being removed, unless the
\* removal and the creation overlapped.
VolumeInv ==
    /\ destroy \in [Volumes -> {"idle", "unlink", "rmdir"}]
    /\ \A id \in Ids : vol[id] \in Volumes /\ id \notin exposed /\ (phase[id] \in Preparing \/ id \in running)
        => destroy[vol[id]] = "idle"

\* A step that begins no creation and no removal.
LEMMA VolumeFrame ==
    ASSUME VolumeInv, UNCHANGED <<vol, exposed, destroy>>,
           \A i \in Ids : (phase'[i] \in Preparing \/ i \in running') => (phase[i] \in Preparing \/ i \in running)
    PROVE  VolumeInv'
  BY DEF VolumeInv

\* VolumeInv is inductive.
LEMMA VolumeKeeps == StageInv /\ VolumeInv /\ [Next]_vars => VolumeInv'
<1> SUFFICES ASSUME StageInv, VolumeInv, [Next]_vars PROVE VolumeInv'
  OBVIOUS
<1> USE DEF spec, jail, memory, volumes, files
<1>1. ASSUME NEW id \in Ids, Create(id) PROVE VolumeInv'
  <2>1. /\ phase' = [phase EXCEPT ![id] = "disks"]
        /\ UNCHANGED <<running, destroy>>
        /\ phase \in [Ids -> {"none", "disks", "check", "open", "mkfs", "link",
                          "validate", "config", "boot", "stopping", "ok", "error"}]
        /\ vol \in [Ids -> Volumes \cup {NoVolume}]
    BY <1>1 DEF Create, Goto, StageInv, RuntimeTypes
  <2>2. CASE jailed
    <3>1. vol[id] \notin Volumes /\ UNCHANGED <<vol, exposed>>
      BY <1>1, <2>2 DEF Create, Goto, StageInv, Stage
    <3> QED BY <2>1, <2>2, <3>1 DEF VolumeInv
  <2>3. CASE ~jailed
    <3>1. PICK v \in Volumes \cup {NoVolume} :
              /\ vol' = [vol EXCEPT ![id] = v]
              /\ exposed' = IF v \in Volumes /\ destroy[v] # "idle" THEN exposed \cup {id} ELSE exposed
      BY <1>1, <2>3 DEF Create
    <3> QED BY <2>1, <3>1 DEF VolumeInv
  <2> QED BY <2>2, <2>3
<1>2. ASSUME NEW id \in Ids, DisksReady(id) \/ PrepareFails(id) \/ EnsureVolume(id) \/ ConfigFails(id)
      PROVE  VolumeInv'
  BY <1>2, PrepareEffect, VolumeFrame DEF StageInv, Prepares, Frame
<1>3. ASSUME NEW id \in Ids, Spawn(id) \/ GuestReady(id) PROVE VolumeInv'
  BY <1>3, VolumeFrame DEF Spawn, GuestReady, Goto, StageInv, RuntimeTypes, Preparing
<1>4. ASSUME NEW id \in Ids, NEW c \in Callers, Ends(id, c) PROVE VolumeInv'
  BY <1>4, VolumeFrame DEF Ends, Preparing
<1>5. ASSUME NEW id \in Ids, GuestNotReady(id) PROVE VolumeInv'
  <2>1. CASE Goto(id, "boot", "error") /\ UNCHANGED <<running, spec, destroy>>
    BY <2>1, VolumeFrame DEF Goto, StageInv, RuntimeTypes, Preparing
  <2> QED BY <1>4, <1>5, <2>1, EndEffect DEF GuestNotReady
<1>6. ASSUME NEW id \in Ids, Stop(id) \/ Sweep(id) \/ Exited(id) PROVE VolumeInv'
  BY <1>4, <1>6, EndEffect DEF Sweep, Stop
<1>7. ASSUME NEW id \in Ids, StopRemoveFails(id) \/ \E c \in Callers : CleanupStep(id, c)
      PROVE  VolumeInv'
  <2>1. PICK c \in Callers : Cleans(id, c)
    BY <1>7, CleanEffect DEF StageInv
  <2> QED BY <2>1, VolumeFrame DEF Cleans, Preparing
<1>8. ASSUME NEW v \in Volumes, DestroyBegin(v) PROVE VolumeInv'
  BY <1>8 DEF DestroyBegin, OfVolume, VolumeInv
<1>9. ASSUME NEW v \in Volumes, DestroyFiles(v) \/ DestroyEnd(v) PROVE VolumeInv'
  BY <1>9 DEF DestroyFiles, DestroyEnd, VolumeInv
<1>10. CASE Die
  <2>1. destroy' = [v \in Volumes |-> "idle"] /\ UNCHANGED vol
    BY <1>10 DEF Die
  <2> QED BY <2>1 DEF VolumeInv
<1>11. CASE UNCHANGED vars
  BY <1>11, VolumeFrame DEF vars
<1> QED BY <1>1, <1>2, <1>3, <1>5, <1>6, <1>7, <1>8, <1>9, <1>10, <1>11 DEF Next, Handler

-------------------------------------------------------------------------------

RuntimeInv == StageInv /\ UidInv /\ VolumeInv

\* RuntimeInv holds in every state of every behaviour.
LEMMA RuntimeInvariant == Spec => []RuntimeInv
<1>1. Init => VolumeInv
  BY DEF Init, VolumeInv
<1>2. Init => RuntimeInv
  BY <1>1, StageInit, UidInit DEF RuntimeInv
<1>3. RuntimeInv /\ [Next]_vars => RuntimeInv'
  BY StageStep, UidStep, VolumeKeeps DEF RuntimeInv
<1> QED BY <1>2, <1>3, PTL DEF Spec

\* Two processes live under one uid only when one of them was killed and its
\* uid given back before it was gone, or robbed of its uid by the second
\* release of a VM that had it before.
THEOREM UidsAlwaysExclusive == Spec => []UidsExclusive
<1>1. RuntimeInv => UidsExclusive
  <2> SUFFICES ASSUME RuntimeInv, NEW a \in Ids, NEW b \in Ids,
                      a # b, Alive(a), Alive(b), uid[a] = uid[b], uid[a] # NoUid
               PROVE  \E x \in {a, b} : x \in robbed \/ (proc[x] = "killed" /\ Released(x))
    BY DEF UidsExclusive
  <2>1. \A i \in {a, b} : Released(i) => proc[i] = "killed"
    BY DEF RuntimeInv, StageInv, Stage, Released, Alive
  <2>2. ~Released(a) /\ ~Released(b) => a \in robbed \/ b \in robbed
    BY DEF RuntimeInv, UidInv
  <2> QED BY <2>1, <2>2
<1> QED BY <1>1, RuntimeInvariant, PTL

\* A node at rest holds a uid, a directory or a proxy only of a creation that
\* failed before its process existed, after a failed removal or a crash.
THEOREM LeaksAlwaysExplained == Spec => []LeaksExplained
<1>1. RuntimeInv => LeaksExplained
  <2> SUFFICES ASSUME RuntimeInv, AtRest
               PROVE  /\ \A u \in allocatedUids : \E id \in Ids :
                           uid[id] = u /\ phase[id] = "error" /\ proc[id] \in {"none", "unborn"}
                      /\ \A id \in Ids : egress[id] \in {"open", "closing"} => proc[id] = "unborn"
                      /\ \A id \in dirs : proc[id] \in {"none", "unborn"} \/ faults > 0
    BY DEF LeaksExplained
  <2>1. ASSUME NEW id \in Ids
        PROVE  /\ phase[id] \in {"none", "ok", "error"}
               /\ proc[id] \in {"none", "unborn", "exited"}
               /\ \A c \in Callers : cleanup[id][c] \in {"none", "done"}
               /\ Stage(id)
    BY DEF AtRest, Alive, RuntimeInv, StageInv, RuntimeTypes
  <2>2. "exit" \in Callers
    BY DEF Callers
  <2>3. ASSUME NEW u \in allocatedUids
        PROVE  \E id \in Ids : uid[id] = u /\ phase[id] = "error" /\ proc[id] \in {"none", "unborn"}
    <3>1. PICK id \in Ids : uid[id] = u /\ ~Released(id)
      BY <2>3 DEF RuntimeInv, UidInv
    <3>2. u # NoUid
      BY <2>3 DEF RuntimeInv, UidInv
    <3>3. cleanup[id]["exit"] = "none"
      BY <2>1, <2>2, <3>1 DEF Released
    <3> QED BY <2>1, <3>1, <3>2, <3>3 DEF Stage
  <2>4. ASSUME NEW id \in Ids, egress[id] \in {"open", "closing"} PROVE proc[id] = "unborn"
    BY <2>1, <2>4 DEF Stage
  <2>5. ASSUME NEW id \in dirs PROVE proc[id] \in {"none", "unborn"} \/ faults > 0
    <3>1. faults \in Nat /\ id \in Ids
      BY <2>5 DEF RuntimeInv, StageInv, RuntimeTypes
    <3> QED BY <2>1, <2>2, <2>5, <3>1 DEF Stage
  <2> QED BY <2>3, <2>4, <2>5
<1> QED BY <1>1, RuntimeInvariant, PTL

-------------------------------------------------------------------------------
(* The images of the volumes *)

\* A step leaves the images alone, publishes a formatted disk where there was
\* none, or is the rm of a volume's files.
ImageStep ==
    /\ formatted \subseteq formatted'
    /\ \A v \in Volumes :
        \/ image'[v] = image[v]
        \/ image[v] = NoId /\ image'[v] \in formatted
        \/ image'[v] = NoId /\ destroy[v] = "unlink"

\* Every step is one.
LEMMA ImageEffect ==
    ASSUME StageInv, [Next]_vars
    PROVE  ImageStep
<1> USE DEF ImageStep, spec, jail, memory, volumes, files
<1>1. UNCHANGED <<image, formatted>> => ImageStep
  OBVIOUS
<1>2. ASSUME NEW id \in Ids, Create(id) PROVE ImageStep
  BY <1>1, <1>2 DEF Create
<1>3. ASSUME NEW id \in Ids, DisksReady(id) \/ PrepareFails(id) \/ ConfigFails(id) PROVE ImageStep
  BY <1>1, <1>3 DEF DisksReady, PrepareFails, ConfigFails
<1>4. ASSUME NEW id \in Ids, CheckImage(id) \/ OpenTemp(id) \/ ValidateImage(id) PROVE ImageStep
  BY <1>1, <1>4 DEF CheckImage, OpenTemp, ValidateImage
<1>5. ASSUME NEW id \in Ids, Mkfs(id) PROVE ImageStep
  BY <1>5 DEF Mkfs
<1>6. ASSUME NEW id \in Ids, LinkImage(id) PROVE ImageStep
  <2>1. CASE UNCHANGED image
    BY <1>1, <1>6, <2>1 DEF LinkImage
  <2>2. CASE phase[id] = "link" /\ image' = Publish(id) /\ UNCHANGED formatted
    <3>1. id \in formatted
      BY <2>2 DEF StageInv, Stage
    <3>2. image \in [Volumes -> Ids \cup {NoId}]
      BY DEF StageInv, RuntimeTypes
    <3> QED BY <2>2, <3>1, <3>2 DEF Publish
  <2> QED BY <1>6, <2>1, <2>2 DEF LinkImage, VolumeStep, Goto
<1>7. ASSUME NEW id \in Ids, Spawn(id) \/ GuestReady(id) PROVE ImageStep
  BY <1>1, <1>7 DEF Spawn, GuestReady
<1>8. ASSUME NEW id \in Ids, GuestNotReady(id) \/ Stop(id) \/ Sweep(id) \/ Exited(id) PROVE ImageStep
  BY <1>1, <1>8 DEF GuestNotReady, Stop, Sweep, Exited
<1>9. ASSUME NEW id \in Ids, NEW c \in Callers,
             StopRemoveFails(id) \/ CleanupStep(id, c)
      PROVE  ImageStep
  BY <1>1, <1>9 DEF StopRemoveFails, CleanupStep, ProxyClosed, Removed
<1>10. ASSUME NEW v \in Volumes, DestroyBegin(v) \/ DestroyEnd(v) PROVE ImageStep
  BY <1>1, <1>10 DEF DestroyBegin, DestroyEnd
<1>11. ASSUME NEW v \in Volumes, DestroyFiles(v) PROVE ImageStep
  <2>1. image \in [Volumes -> Ids \cup {NoId}]
    BY DEF StageInv, RuntimeTypes
  <2> QED BY <1>11, <2>1 DEF DestroyFiles
<1>12. CASE Die
  BY <1>1, <1>12 DEF Die
<1>13. CASE UNCHANGED vars
  BY <1>1, <1>13 DEF vars
<1>14. "stop" \in Callers
  BY DEF Callers
<1> QED BY <1>2, <1>3, <1>4, <1>5, <1>6, <1>7, <1>8, <1>9, <1>10, <1>11, <1>12, <1>13, <1>14
        DEF Next, Handler, EnsureVolume

\* What is at the stable path of a volume is a formatted disk, whichever of
\* several creators linked it and wherever the agent died.
THEOREM DisksAlwaysWhole == Spec => []DisksWhole
<1>1. Init => DisksWhole
  BY DEF Init, DisksWhole
<1>2. StageInv /\ DisksWhole /\ [Next]_vars => DisksWhole'
  BY ImageEffect DEF ImageStep, DisksWhole
<1>3. RuntimeInv => StageInv
  BY DEF RuntimeInv
<1> QED BY <1>1, <1>2, <1>3, RuntimeInvariant, PTL DEF Spec

\* No creation replaces a published disk, and destroyVolume's rm takes it from
\* under a running VM only when the VM's creation overlapped the removal.
THEOREM DiskAlwaysKept == Spec => DiskKept
<1>1. ASSUME RuntimeInv, [Next]_vars, NEW v \in Volumes, image[v] # NoId
      PROVE  \/ image'[v] = image[v]
             \/ image'[v] = NoId /\ destroy[v] = "unlink" /\ OfVolume(v) \cap running \subseteq exposed
  <2>1. destroy[v] = "unlink" => OfVolume(v) \cap running \subseteq exposed
    <3>1. ASSUME NEW id \in OfVolume(v) \cap running, id \notin exposed PROVE destroy[v] = "idle"
      BY <1>1, <3>1 DEF RuntimeInv, VolumeInv, OfVolume
    <3> QED BY <3>1
  <2>2. ImageStep
    BY <1>1, ImageEffect DEF RuntimeInv
  <2> QED BY <1>1, <2>1, <2>2 DEF ImageStep
<1>2. RuntimeInv /\ [Next]_vars =>
        [\A v \in Volumes : image[v] # NoId =>
            \/ image'[v] = image[v]
            \/ image'[v] = NoId /\ destroy[v] = "unlink" /\ OfVolume(v) \cap running \subseteq exposed]_vars
  BY <1>1
<1> QED BY <1>2, RuntimeInvariant, PTL DEF Spec, DiskKept

===============================================================================
