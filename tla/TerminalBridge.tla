---------------------------- MODULE TerminalBridge ----------------------------
(***************************************************************************)
(* A browser's terminal and a client's SSH tunnel: the upgrade handler of  *)
(* control/server.ts with control/terminal-admission.ts, the agent's side  *)
(* of both WebSockets (agent/server.ts), and the terminal socket into the  *)
(* guest that agent/firecracker-runtime.ts shares between the terminals of *)
(* one VM.  Frames of a client are numbered; only their order and their    *)
(* loss matter.  A WebSocket that was told to close still hands over the   *)
(* frames that arrive before the peer's answer, and its close event comes  *)
(* at last (the library gives up after a timeout).                         *)
(***************************************************************************)
EXTENDS Integers, Sequences, FiniteSets

CONSTANTS
    Bridges, Workspaces, NoWorkspace,
    PerWorkspace, Global,   \* the limits of TerminalAdmission (4 and 4 * maxRunning)
    PendingLimit,           \* frames kept before the upstream is open (32)
    BufferLimit,            \* frames buffered towards the agent (bufferedAmount)
    HeldLimit,              \* frames in pendingInput (64 KiB)
    MaxAttempts,            \* connectTerminal's attempts (100)
    MaxFrames               \* bound on the frames a client sends

ASSUME BridgeAssumption ==
    /\ NoWorkspace \notin Workspaces
    /\ {PerWorkspace, Global, BufferLimit} \subseteq Nat \ {0}
    /\ {PendingLimit, HeldLimit, MaxAttempts, MaxFrames} \subseteq Nat

VARIABLES
    byWorkspace, active,    \* TerminalAdmission
    kind, home,             \* what each bridge is, and for which workspace
    browser, upstream,      \* the two WebSockets of the control plane
    agent,                  \* the agent's end of the upstream
    typed, pending, wire,   \* frames sent by the client, pending, in flight
    got,                    \* frames a tunnel's SSH endpoint was given
    input,                  \* what the guest's terminal was given, by all its bridges
    vm,                     \* the workspaces whose VM runs
    vsock, attempt,         \* the VM's terminal socket and its attempt
    timers,                 \* the attempts a retry timer will make
    held                    \* instance.pendingInput

slotVars  == <<byWorkspace, active>>
guestVars == <<vm, vsock, attempt, timers, held>>
frameVars == <<typed, pending, wire, got, input>>
vars == <<slotVars, kind, home, browser, upstream, agent, frameVars, guestVars>>

Frames == 1..MaxFrames

TypeOK ==
    /\ byWorkspace \in [Workspaces -> 0..PerWorkspace]
    /\ active \in 0..Global
    /\ kind \in [Bridges -> {"none", "terminal", "ssh"}]
    /\ home \in [Bridges -> Workspaces \cup {NoWorkspace}]
    /\ browser \in [Bridges -> {"none", "open", "closing", "closed", "aborted"}]
    /\ upstream \in [Bridges -> {"none", "connecting", "open", "closing", "closed"}]
    /\ agent \in [Bridges -> {"none", "attached", "refused", "closing", "gone"}]
    /\ typed \in [Bridges -> 0..MaxFrames]
    /\ \A b \in Bridges : {pending[b], wire[b], got[b]} \subseteq Seq(Frames)
    /\ vm \subseteq Workspaces
    /\ vsock \in [Workspaces -> {"none", "connecting", "open"}]
    /\ attempt \in [Workspaces -> 0..MaxAttempts]
    /\ timers \in [Workspaces -> SUBSET (1..MaxAttempts)]
    /\ \A w \in Workspaces : {held[w], input[w]} \subseteq Seq(Bridges \X Frames)

Init ==
    /\ byWorkspace = [w \in Workspaces |-> 0] /\ active = 0
    /\ kind = [b \in Bridges |-> "none"]
    /\ home = [b \in Bridges |-> NoWorkspace]
    /\ browser = [b \in Bridges |-> "none"]
    /\ upstream = [b \in Bridges |-> "none"]
    /\ agent = [b \in Bridges |-> "none"]
    /\ typed = [b \in Bridges |-> 0]
    /\ pending = [b \in Bridges |-> <<>>]
    /\ wire = [b \in Bridges |-> <<>>]
    /\ got = [b \in Bridges |-> <<>>]
    /\ input = [w \in Workspaces |-> <<>>]
    /\ vm = Workspaces
    /\ vsock = [w \in Workspaces |-> "none"]
    /\ attempt = [w \in Workspaces |-> 0]
    /\ timers = [w \in Workspaces |-> {}]
    /\ held = [w \in Workspaces |-> <<>>]

-------------------------------------------------------------------------------
(* The control plane: admission, the upgrade, and the two sockets *)

\* Mutant: one more than the limits.
AdmitOneMore(w) == byWorkspace[w] <= PerWorkspace /\ active <= Global

Admissible(w) == byWorkspace[w] < PerWorkspace /\ active < Global

Acquire(w) ==
    /\ byWorkspace' = [byWorkspace EXCEPT ![w] = @ + 1]
    /\ active' = active + 1

\* releaseTerminal, which only the browser's close event calls here.
Release(b) ==
    IF kind[b] = "terminal"
    THEN /\ byWorkspace' = [byWorkspace EXCEPT ![home[b]] = @ - 1]
         /\ active' = active - 1
    ELSE UNCHANGED slotVars

\* A terminal for a row that says running, whatever its VM does by now.  The
\* library calls back at once, or answers a handshake it does not accept, or
\* finds the socket closed, and returns: that slot has no browser.
UpgradeTerminal(b) ==
    /\ browser[b] = "none"
    /\ \E w \in Workspaces :
        /\ Admissible(w)
        /\ Acquire(w)
        /\ home' = [home EXCEPT ![b] = w]
        /\ \/ /\ browser' = [browser EXCEPT ![b] = "open"]
              /\ upstream' = [upstream EXCEPT ![b] = "connecting"]
           \/ /\ browser' = [browser EXCEPT ![b] = "aborted"]
              /\ UNCHANGED upstream
        /\ kind' = [kind EXCEPT ![b] = "terminal"]
    /\ UNCHANGED <<agent, frameVars, guestVars>>

\* An SSH tunnel takes no slot.
UpgradeSsh(b) ==
    /\ browser[b] = "none"
    /\ \E w \in Workspaces : home' = [home EXCEPT ![b] = w]
    /\ browser' = [browser EXCEPT ![b] = "open"]
    /\ upstream' = [upstream EXCEPT ![b] = "connecting"]
    /\ kind' = [kind EXCEPT ![b] = "ssh"]
    /\ UNCHANGED <<slotVars, agent, frameVars, guestVars>>

\* websocket.close(): nothing happens to one that is closing or closed.
Closed(s) == IF s = "open" THEN "closing" ELSE s

\* A frame of the client arrives.  A terminal that cannot pass it on drops
\* it; a tunnel, and a terminal with too much pending, close the client.
ClientFrame(b) ==
    /\ browser[b] \in {"open", "closing"}
    /\ typed[b] < MaxFrames
    /\ typed' = [typed EXCEPT ![b] = @ + 1]
    /\ LET f == typed[b] + 1
           Refuse == /\ browser' = [browser EXCEPT ![b] = Closed(@)]
                     /\ UNCHANGED <<pending, wire>>
       IN  \/ /\ upstream[b] = "connecting" /\ Len(pending[b]) < PendingLimit
              /\ pending' = [pending EXCEPT ![b] = Append(@, f)]
              /\ UNCHANGED <<browser, wire>>
           \/ upstream[b] = "connecting" /\ Len(pending[b]) >= PendingLimit /\ Refuse
           \/ /\ upstream[b] = "open" /\ Len(wire[b]) < BufferLimit
              /\ wire' = [wire EXCEPT ![b] = Append(@, f)]
              /\ UNCHANGED <<browser, pending>>
           \/ /\ upstream[b] = "open" /\ Len(wire[b]) >= BufferLimit
              /\ IF kind[b] = "ssh" THEN Refuse ELSE UNCHANGED <<browser, pending, wire>>
           \/ upstream[b] \in {"closing", "closed"} /\ UNCHANGED <<browser, pending, wire>>
    /\ UNCHANGED <<slotVars, kind, home, upstream, agent, got, input, guestVars>>

\* Mutant: what was pending is forgotten.
FlushNothing(b) == <<>>

Flush(b) == pending[b]

\* The upstream's open event.
UpstreamOpens(b) ==
    /\ upstream[b] = "connecting" /\ agent[b] # "none"
    /\ upstream' = [upstream EXCEPT ![b] = "open"]
    /\ wire' = [wire EXCEPT ![b] = @ \o Flush(b)]
    /\ pending' = [pending EXCEPT ![b] = <<>>]
    /\ UNCHANGED <<slotVars, kind, home, browser, agent, typed, got, input, guestVars>>

\* Its close event, after an error of the connection or the end of either
\* side: what the agent has not read is lost, and the browser is closed.
UpstreamCloses(b) ==
    /\ \/ upstream[b] \in {"connecting", "closing"}
       \/ upstream[b] = "open" /\ agent[b] \in {"refused", "closing"}
    /\ upstream' = [upstream EXCEPT ![b] = "closed"]
    /\ agent' = [agent EXCEPT ![b] = "gone"]
    /\ wire' = [wire EXCEPT ![b] = <<>>]
    /\ browser' = [browser EXCEPT ![b] = Closed(@)]
    /\ UNCHANGED <<slotVars, kind, home, typed, pending, got, input, guestVars>>

\* An open upstream fails, or a tunnel's output outruns its client.
UpstreamBreaks(b) ==
    /\ upstream[b] = "open"
    /\ upstream' = [upstream EXCEPT ![b] = "closing"]
    /\ UNCHANGED <<slotVars, kind, home, browser, agent, frameVars, guestVars>>

\* The browser's close event: it left, or its closing is complete.  The slot
\* is returned and the upstream closed, or its connecting given up.
BrowserCloses(b) ==
    /\ browser[b] \in {"open", "closing"}
    /\ browser' = [browser EXCEPT ![b] = "closed"]
    /\ upstream' = [upstream EXCEPT ![b] =
            IF @ \in {"open", "connecting"} THEN "closing" ELSE @]
    /\ Release(b)
    /\ UNCHANGED <<kind, home, agent, frameVars, guestVars>>

-------------------------------------------------------------------------------
(* The agent and the VM's terminal socket *)

\* connectTerminal, by an attach, a write or a retry timer.
Connect(w, n) ==
    IF vsock[w] = "none" /\ w \in vm
    THEN /\ vsock' = [vsock EXCEPT ![w] = "connecting"]
         /\ attempt' = [attempt EXCEPT ![w] = n]
    ELSE UNCHANGED <<vsock, attempt>>

\* Mutant: a terminal is attached to an instance that is over.
AttachAlways(b) == TRUE

\* runtime.attach accepts only a running instance.
Attachable(b) == home[b] \in vm

\* The agent takes the upgrade.  A tunnel is SshGateway's.
AgentAccepts(b) ==
    /\ upstream[b] = "connecting" /\ agent[b] = "none"
    /\ IF kind[b] = "ssh" \/ Attachable(b)
       THEN agent' = [agent EXCEPT ![b] = "attached"]
       ELSE agent' = [agent EXCEPT ![b] = "refused"]
    /\ IF kind[b] = "terminal" THEN Connect(home[b], 0) ELSE UNCHANGED <<vsock, attempt>>
    /\ UNCHANGED <<slotVars, kind, home, browser, upstream, frameVars, vm, timers, held>>

\* runtime.write, for a VM that runs: to the socket, or into the queue until
\* there is one; a full queue is reported after the frame was added.
Write(b, f) ==
    LET w == home[b]
        To(queue) == [queue EXCEPT ![w] = Append(@, <<b, f>>)]
    IN  \/ /\ vsock[w] = "open"
           /\ input' = To(input)
           /\ UNCHANGED <<agent, vsock, attempt, held>>
        \/ /\ vsock[w] # "open"
           /\ held' = To(held)
           /\ IF Len(held[w]) < HeldLimit
              THEN Connect(w, 0) /\ UNCHANGED agent
              ELSE /\ agent' = [agent EXCEPT ![b] = "closing"]
                   /\ UNCHANGED <<vsock, attempt>>
           /\ UNCHANGED input

\* A frame reaches the agent.  Nobody takes that of a refused terminal, which
\* has no handler, of a VM that is over or of a tunnel whose endpoint ended.
AgentFrame(b) ==
    /\ wire[b] # <<>> /\ agent[b] # "gone"
    /\ wire' = [wire EXCEPT ![b] = Tail(@)]
    /\ LET f == Head(wire[b])
           toSsh   == kind[b] = "ssh" /\ agent[b] = "attached"
           toGuest == kind[b] = "terminal" /\ agent[b] # "refused" /\ home[b] \in vm
       IN  \/ /\ toSsh
              /\ got' = [got EXCEPT ![b] = Append(@, f)]
              /\ UNCHANGED <<agent, input, vsock, attempt, held>>
           \/ toGuest /\ Write(b, f) /\ UNCHANGED got
           \/ /\ ~toSsh /\ ~toGuest
              /\ agent' = [agent EXCEPT ![b] = IF @ = "attached" THEN "closing" ELSE @]
              /\ UNCHANGED <<got, input, vsock, attempt, held>>
    /\ UNCHANGED <<slotVars, kind, home, browser, upstream, typed, pending, vm, timers>>

\* The guest's side answers OK: what was held is written first.
VsockOpens(w) ==
    /\ vsock[w] = "connecting"
    /\ vsock' = [vsock EXCEPT ![w] = "open"]
    /\ input' = [input EXCEPT ![w] = @ \o held[w]]
    /\ held' = [held EXCEPT ![w] = <<>>]
    /\ UNCHANGED <<slotVars, kind, home, browser, upstream, agent, typed, pending, wire, got,
                   vm, attempt, timers>>

\* Everyone attached to the VM is sent "closed", and closed.
TellClosed(w) ==
    agent' = [b \in Bridges |->
        IF kind[b] = "terminal" /\ home[b] = w /\ agent[b] = "attached"
        THEN "closing" ELSE agent[b]]

\* An error, while connecting or later: another attempt in 100 ms, or the end.
VsockFails(w) ==
    /\ vsock[w] \in {"connecting", "open"}
    /\ vsock' = [vsock EXCEPT ![w] = "none"]
    /\ IF attempt[w] < MaxAttempts
       THEN timers' = [timers EXCEPT ![w] = @ \cup {attempt[w] + 1}] /\ UNCHANGED agent
       ELSE TellClosed(w) /\ UNCHANGED timers
    /\ UNCHANGED <<slotVars, kind, home, browser, upstream, frameVars, vm, attempt, held>>

\* The socket closes without an error, before or after OK: nobody reconnects
\* until the next write or attach.
VsockCloses(w) ==
    /\ vsock[w] \in {"connecting", "open"}
    /\ vsock' = [vsock EXCEPT ![w] = "none"]
    /\ UNCHANGED <<slotVars, kind, home, browser, upstream, agent, frameVars, vm, attempt,
                   timers, held>>

Retry(w) ==
    /\ \E n \in timers[w] : /\ timers' = [timers EXCEPT ![w] = @ \ {n}]
                            /\ Connect(w, n)
    /\ UNCHANGED <<slotVars, kind, home, browser, upstream, agent, frameVars, vm, held>>

\* The VM is stopped or exits.
VmEnds(w) ==
    /\ w \in vm
    /\ vm' = vm \ {w}
    /\ vsock' = [vsock EXCEPT ![w] = "none"]
    /\ TellClosed(w)
    /\ UNCHANGED <<slotVars, kind, home, browser, upstream, frameVars, attempt, timers, held>>

\* The SSH endpoint of a tunnel ends, or its lease (SshGateway).
TunnelEnds(b) ==
    /\ kind[b] = "ssh" /\ agent[b] = "attached"
    /\ agent' = [agent EXCEPT ![b] = "closing"]
    /\ UNCHANGED <<slotVars, kind, home, browser, upstream, frameVars, guestVars>>

-------------------------------------------------------------------------------

BridgeStep(b) ==
    \/ UpgradeTerminal(b) \/ UpgradeSsh(b) \/ ClientFrame(b) \/ UpstreamOpens(b)
    \/ UpstreamCloses(b) \/ UpstreamBreaks(b) \/ BrowserCloses(b) \/ AgentAccepts(b)
    \/ AgentFrame(b) \/ TunnelEnds(b)

SocketStep(w) == VsockOpens(w) \/ VsockFails(w) \/ VsockCloses(w) \/ Retry(w)

Next ==
    \/ \E b \in Bridges : BridgeStep(b)
    \/ \E w \in Workspaces : SocketStep(w) \/ VmEnds(w)

Spec == Init /\ [][Next]_vars

\* The agent takes the upgrades it is sent and both sides of a WebSocket end
\* the closing either has begun.  Clients, guests and VMs get no fairness.
Fairness ==
    \A b \in Bridges :
        /\ WF_vars(AgentAccepts(b)) /\ WF_vars(UpstreamOpens(b)) /\ WF_vars(UpstreamCloses(b))
        /\ WF_vars(browser[b] = "closing" /\ BrowserCloses(b))

FairSpec == Spec /\ Fairness

-------------------------------------------------------------------------------
(* Properties *)

\* TerminalAdmission counts exactly the terminals whose browser is still
\* there, within both limits, whichever side ends first; besides them only
\* a handshake that was given up keeps its slot.
Holding(w) == {b \in Bridges : kind[b] = "terminal" /\ home[b] = w /\ browser[b] # "closed"}

TerminalSlots ==
    /\ \A w \in Workspaces : byWorkspace[w] = Cardinality(Holding(w))
    /\ \A w \in Workspaces : byWorkspace[w] <= PerWorkspace
    /\ active = Cardinality(UNION {Holding(w) : w \in Workspaces}) /\ active <= Global

\* A client's frames pass two buffers, a connection that opens late and a
\* socket into the guest that comes and goes: they arrive in the order sent
\* and at most once, and a tunnel misses one only once it is being closed.
FramesInOrder ==
    /\ \A w \in Workspaces : \A i, j \in DOMAIN input[w] :
        (i < j /\ input[w][i][1] = input[w][j][1]) => input[w][i][2] < input[w][j][2]
    /\ \A b \in Bridges : \A i, j \in DOMAIN got[b] : i < j => got[b][i] < got[b][j]
    /\ \A b \in Bridges : (kind[b] = "ssh" /\ browser[b] = "open") =>
        \A i \in DOMAIN got[b] : got[b][i] = i

\* Once a workspace's VM is over every terminal of it is closed and has
\* returned its slot, also one that was connecting at that moment.
TerminalsEnd ==
    \A b \in Bridges :
        (kind[b] = "terminal" /\ browser[b] # "aborted" /\ home[b] \notin vm) ~> (browser[b] = "closed")

================================================================================
