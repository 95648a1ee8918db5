--------------------------- MODULE GuestConnections ---------------------------
(***************************************************************************)
(* connections.configure of the guest controller (control.rs): sshd, and   *)
(* an NFS server when the workspace has a volume, are started once, for    *)
(* one scope.  The state is behind a std::sync::Mutex, which a thread      *)
(* cannot take twice: configure_connections holds it while it calls        *)
(* start_nfs, and start_nfs takes it again on every path out of it.        *)
(***************************************************************************)
EXTENDS Integers, FiniteSets

CONSTANTS
    Threads,        \* the server threads of the controller
    Workspaces,     \* workspace and wallet of a request
    NfsChoices,     \* the values of a request's nfs flag: "ssh", "ssh+nfs"
    NoScope, NoThread

Scopes == Workspaces \X NfsChoices

VARIABLES
    lock,           \* the thread that holds the mutex
    scope,          \* conn.scope
    sshd,           \* conn.sshd: whether a pid is recorded
    daemons,        \* the sshd processes that run, each with its scope
    nfs,            \* whether start_nfs has exported and started mountd
    pc, want        \* a thread: where its handler is, and the scope it asks for

vars == <<lock, scope, sshd, daemons, nfs, pc, want>>

Init ==
    /\ lock = NoThread
    /\ scope = NoScope
    /\ sshd = "none"
    /\ daemons = {}
    /\ nfs = "down"
    /\ pc = [t \in Threads |-> "idle"]
    /\ want = [t \in Threads |-> NoScope]

Step(t, from, to) == pc[t] = from /\ pc' = [pc EXCEPT ![t] = to]

\* A frame arrives.
Request(t, s) ==
    /\ Step(t, "idle", "lock")
    /\ want' = [want EXCEPT ![t] = s]
    /\ UNCHANGED <<lock, scope, sshd, daemons, nfs>>

Lock(t) ==
    /\ Step(t, "lock", "check")
    /\ lock = NoThread
    /\ lock' = t
    /\ UNCHANGED <<scope, sshd, daemons, nfs, want>>

\* The answer is written and the guard of the mutex dropped.
Answer(t, result) ==
    /\ pc' = [pc EXCEPT ![t] = result]
    /\ lock' = NoThread

\* The same scope again is answered with its status, another is a conflict.
Check(t) ==
    /\ pc[t] = "check"
    /\ IF scope = want[t] THEN Answer(t, "ok")
       ELSE IF scope # NoScope THEN Answer(t, "error")
       ELSE pc' = [pc EXCEPT ![t] = "spawn"] /\ UNCHANGED lock
    /\ UNCHANGED <<scope, sshd, daemons, nfs, want>>

\* A tool, the host key or the shell helper is missing, or sshd cannot be
\* spawned.
CheckFails(t) ==
    /\ pc[t] = "spawn"
    /\ Answer(t, "error")
    /\ UNCHANGED <<scope, sshd, daemons, nfs, want>>

Spawn(t) ==
    /\ Step(t, "spawn", IF want[t][2] = "ssh+nfs" THEN "nfs" ELSE "record")
    /\ daemons' = daemons \cup {want[t]}
    /\ UNCHANGED <<lock, scope, sshd, nfs, want>>

\* start_nfs up to its own lock of the mutex: a tool or a mount fails, or
\* mountd has been started and its pid is to be recorded.
StartNfs(t) ==
    /\ Step(t, "nfs", "relock")
    /\ nfs' \in {"down", "mountd"}
    /\ UNCHANGED <<lock, scope, sshd, daemons, want>>

Record(t) ==
    /\ pc[t] = "record"
    /\ sshd' = "pid"
    /\ scope' = want[t]
    /\ Answer(t, "ok")
    /\ UNCHANGED <<daemons, nfs, want>>

Reply(t) ==
    /\ pc[t] \in {"ok", "error"}
    /\ pc' = [pc EXCEPT ![t] = "idle"]
    /\ want' = [want EXCEPT ![t] = NoScope]
    /\ UNCHANGED <<lock, scope, sshd, daemons, nfs>>

Handle(t) ==
    \/ Lock(t) \/ Check(t) \/ CheckFails(t) \/ Spawn(t)
    \/ StartNfs(t) \/ Record(t) \/ Reply(t)

Next == \E t \in Threads : Handle(t) \/ \E s \in Scopes : Request(t, s)

Spec == Init /\ [][Next]_vars

\* A handler runs on, and the mutex is granted to a thread that waits.
FairSpec == Spec /\ \A t \in Threads : WF_vars(Handle(t)) /\ SF_vars(Lock(t))

-------------------------------------------------------------------------------
(* Properties *)

\* README.md promises "optional NFSv4 over an NFS-only SSH tunnel": every
\* request, with NFS or without, is answered.
Answered == \A t \in Threads : pc[t] = "lock" ~> pc[t] \in {"ok", "error"}

===============================================================================
