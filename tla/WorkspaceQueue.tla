---------------------------- MODULE WorkspaceQueue ----------------------------
(***************************************************************************)
(* What WorkspaceService promises about workspace rows, with no reference  *)
(* to how: no agent, no calls, no reconciler.  A row is requested within   *)
(* the limits, waits its turn, is claimed when one of MaxRunning slots is  *)
(* free - the oldest row first - and keeps its slot until it is closed for *)
(* good; a row that is closed never opens again.  Lifecycle implements     *)
(* this specification.                                                     *)
(***************************************************************************)
EXTENDS Integers, FiniteSets

CONSTANTS Ids, Wallets, Ips, Lease, MaxRunning, MaxQueue,
          MaxActivePerWallet, MaxActivePerIp, NoWallet, NoIp

VARIABLES now, state, wallet, ip, createdAt,
          claimed       \* the rows that were ever given a slot

vars == <<now, state, wallet, ip, createdAt, claimed>>

Active == {"queued", "provisioning", "running", "stopping"}

\* A claimed row keeps its slot until it is stopped or failed.
Slots == {id \in claimed : state[id] \in Active}

Queue == {id \in Ids : state[id] = "queued"}
Waiting == {id \in Queue : createdAt[id] + Lease > now}

ActiveOf(who, x) == {id \in Ids : state[id] \in Active /\ who[id] = x}

Init ==
    /\ now = 0
    /\ state = [id \in Ids |-> "none"]
    /\ wallet = [id \in Ids |-> NoWallet]
    /\ ip = [id \in Ids |-> NoIp]
    /\ createdAt = [id \in Ids |-> 0]
    /\ claimed = {}

Request(id, w, p) ==
    /\ state[id] = "none"
    /\ Cardinality(ActiveOf(wallet, w)) < MaxActivePerWallet
    /\ Cardinality(ActiveOf(ip, p)) < MaxActivePerIp
    /\ Cardinality(Queue) < MaxQueue
    /\ state' = [state EXCEPT ![id] = "queued"]
    /\ wallet' = [wallet EXCEPT ![id] = w]
    /\ ip' = [ip EXCEPT ![id] = p]
    /\ createdAt' = [createdAt EXCEPT ![id] = now]
    /\ UNCHANGED <<now, claimed>>

Move(id, to) ==
    /\ state' = [state EXCEPT ![id] = to]
    /\ UNCHANGED <<now, wallet, ip, createdAt>>

\* The oldest waiting row takes a free slot.
Claim(id) ==
    /\ Cardinality(Slots) < MaxRunning
    /\ id \in Waiting
    /\ \A o \in Waiting : createdAt[id] <= createdAt[o]
    /\ claimed' = claimed \cup {id}
    /\ Move(id, "provisioning")

Confirm(id) == state[id] = "provisioning" /\ Move(id, "running") /\ UNCHANGED claimed

Lose(id) ==
    /\ state[id] \in {"provisioning", "running"}
    /\ Move(id, "failed")
    /\ UNCHANGED claimed

\* Rows are closed: one by its owner, or all those whose lease is over.
Close(S) ==
    /\ \A id \in S : state[id] \in {"queued", "provisioning", "running"}
    /\ Cardinality(S) > 1 => \A id \in S : createdAt[id] + Lease <= now
    /\ state' = [id \in Ids |-> IF id \in S THEN "stopping" ELSE state[id]]
    /\ UNCHANGED <<now, wallet, ip, createdAt, claimed>>

End(id) == state[id] = "stopping" /\ Move(id, "stopped") /\ UNCHANGED claimed

Tick == now' = now + 1 /\ UNCHANGED <<state, wallet, ip, createdAt, claimed>>

Next ==
    \/ \E id \in Ids :
        \/ \E w \in Wallets, p \in Ips : Request(id, w, p)
        \/ Claim(id) \/ Confirm(id) \/ Lose(id) \/ End(id)
    \/ \E S \in SUBSET Ids : Close(S)
    \/ Tick

Spec == Init /\ [][Next]_vars

================================================================================
