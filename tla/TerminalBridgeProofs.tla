------------------------- MODULE TerminalBridgeProofs -------------------------
(***************************************************************************)
(* The guarantees of TerminalBridge for any number of bridges, workspaces  *)
(* and frames and any limits: the slots of TerminalAdmission are exact,    *)
(* and frames are delivered in order.                                      *)
(***************************************************************************)
EXTENDS TerminalBridge, FiniteSetTheorems, TLAPS

USE BridgeAssumption

\* How far each bridge is.
BridgeTypes ==
    /\ kind \in [Bridges -> {"none", "terminal", "ssh"}]
    /\ home \in [Bridges -> Workspaces \cup {NoWorkspace}]
    /\ browser \in [Bridges -> {"none", "open", "closing", "closed", "aborted"}]
    /\ upstream \in [Bridges -> {"none", "connecting", "open", "closing", "closed"}]
    /\ \A b \in Bridges : browser[b] = "none" => kind[b] = "none" /\ upstream[b] = "none"
    /\ \A b \in Bridges : kind[b] # "none" => home[b] \in Workspaces

\* A bridge that is upgraded: as k, for w, with this browser and upstream.
Upgrades(b, k, w, s, u) ==
    /\ browser[b] = "none"
    /\ \A c \in Bridges \ {b} : /\ kind'[c] = kind[c] /\ home'[c] = home[c]
                                /\ browser'[c] = browser[c] /\ upstream'[c] = upstream[c]
    /\ kind'[b] = k /\ home'[b] = w /\ browser'[b] = s /\ upstream'[b] = u

\* The sockets of a bridge move on: neither its kind nor its workspace
\* changes, and no browser becomes "none" or leaves "closed".
Moves(b) ==
    /\ UNCHANGED <<kind, home>>
    /\ \A c \in Bridges \ {b} : browser'[c] = browser[c] /\ upstream'[c] = upstream[c]
    /\ browser'[b] \in {browser[b], Closed(browser[b])}

\* The upgrades are of this form.
LEMMA UpgradeEffect ==
    ASSUME BridgeTypes, NEW b \in Bridges
    PROVE  /\ UpgradeTerminal(b) => \E w \in Workspaces, s \in {"open", "aborted"}, u \in {"connecting", "none"} :
                /\ BridgeTypes'
                /\ Upgrades(b, "terminal", w, s, u)
                /\ Admissible(w) /\ Acquire(w)
           /\ UpgradeSsh(b) => \E w \in Workspaces :
                /\ BridgeTypes'
                /\ Upgrades(b, "ssh", w, "open", "connecting")
                /\ UNCHANGED slotVars
<1>1. ASSUME UpgradeTerminal(b)
      PROVE  \E w \in Workspaces, s \in {"open", "aborted"}, u \in {"connecting", "none"} :
                BridgeTypes' /\ Upgrades(b, "terminal", w, s, u) /\ Admissible(w) /\ Acquire(w)
  <2>1. PICK w \in Workspaces :
            /\ Admissible(w) /\ Acquire(w)
            /\ home' = [home EXCEPT ![b] = w]
            /\ \/ /\ browser' = [browser EXCEPT ![b] = "open"]
                  /\ upstream' = [upstream EXCEPT ![b] = "connecting"]
               \/ /\ browser' = [browser EXCEPT ![b] = "aborted"]
                  /\ UNCHANGED upstream
            /\ kind' = [kind EXCEPT ![b] = "terminal"]
    BY <1>1 DEF UpgradeTerminal
  <2>2. browser[b] = "none" /\ upstream[b] = "none"
    BY <1>1 DEF UpgradeTerminal, BridgeTypes
  <2>3. CASE browser' = [browser EXCEPT ![b] = "open"] /\ upstream' = [upstream EXCEPT ![b] = "connecting"]
    <3>1. BridgeTypes' /\ Upgrades(b, "terminal", w, "open", "connecting")
      BY <2>1, <2>2, <2>3 DEF BridgeTypes, Upgrades
    <3> QED BY <2>1, <3>1
  <2>4. CASE browser' = [browser EXCEPT ![b] = "aborted"] /\ UNCHANGED upstream
    <3>1. BridgeTypes' /\ Upgrades(b, "terminal", w, "aborted", "none")
      BY <2>1, <2>2, <2>4 DEF BridgeTypes, Upgrades
    <3> QED BY <2>1, <3>1
  <2> QED BY <2>1, <2>3, <2>4
<1>2. ASSUME UpgradeSsh(b)
      PROVE  \E w \in Workspaces :
                BridgeTypes' /\ Upgrades(b, "ssh", w, "open", "connecting") /\ UNCHANGED slotVars
  <2>1. PICK w \in Workspaces : home' = [home EXCEPT ![b] = w]
    BY <1>2 DEF UpgradeSsh
  <2>2. BridgeTypes' /\ Upgrades(b, "ssh", w, "open", "connecting")
    BY <1>2, <2>1 DEF BridgeTypes, Upgrades, UpgradeSsh
  <2> QED BY <1>2, <2>2 DEF UpgradeSsh
<1> QED BY <1>1, <1>2

\* So is every other step of a bridge but the browser's close event.
LEMMA MoveEffect ==
    ASSUME BridgeTypes, NEW b \in Bridges,
           \/ ClientFrame(b) \/ UpstreamOpens(b) \/ UpstreamCloses(b) \/ UpstreamBreaks(b)
           \/ AgentAccepts(b) \/ AgentFrame(b) \/ TunnelEnds(b)
    PROVE  BridgeTypes' /\ Moves(b) /\ UNCHANGED slotVars
<1> USE DEF BridgeTypes, Moves, Closed
<1>1. CASE ClientFrame(b)
  <2>1. UNCHANGED <<slotVars, kind, home, upstream>> /\ browser[b] # "none"
    BY <1>1 DEF ClientFrame
  <2>2. browser' = browser \/ browser' = [browser EXCEPT ![b] = Closed(@)]
    BY <1>1 DEF ClientFrame
  <2> QED BY <2>1, <2>2
<1>2. CASE UpstreamOpens(b)
  BY <1>2 DEF UpstreamOpens
<1>3. CASE UpstreamCloses(b)
  BY <1>3 DEF UpstreamCloses
<1>4. CASE UpstreamBreaks(b)
  BY <1>4 DEF UpstreamBreaks
<1>5. CASE AgentAccepts(b)
  BY <1>5 DEF AgentAccepts
<1>6. CASE AgentFrame(b)
  BY <1>6 DEF AgentFrame
<1>7. CASE TunnelEnds(b)
  BY <1>7 DEF TunnelEnds
<1> QED BY <1>1, <1>2, <1>3, <1>4, <1>5, <1>6, <1>7

\* The steps of the VM's socket concern no browser.
LEMMA SocketFrame ==
    ASSUME NEW w \in Workspaces, SocketStep(w) \/ VmEnds(w)
    PROVE  UNCHANGED <<slotVars, kind, home, browser, upstream>>
  BY DEF SocketStep, VsockOpens, VsockFails, VsockCloses, Retry, VmEnds

-------------------------------------------------------------------------------
(* The slots *)

Terminals == {b \in Bridges : kind[b] = "terminal" /\ browser[b] # "closed"}

SlotInv ==
    /\ BridgeTypes
    /\ byWorkspace \in [Workspaces -> Nat] /\ active \in Nat
    /\ \A w \in Workspaces :
        /\ IsFiniteSet(Holding(w))
        /\ byWorkspace[w] = Cardinality(Holding(w))
        /\ byWorkspace[w] <= PerWorkspace
    /\ IsFiniteSet(Terminals)
    /\ active = Cardinality(Terminals)
    /\ active <= Global

\* Init establishes SlotInv.
LEMMA SlotInit == Init => SlotInv
<1> SUFFICES ASSUME Init PROVE SlotInv
  OBVIOUS
<1>1. Terminals = {} /\ \A w \in Workspaces : Holding(w) = {}
  BY DEF Init, Terminals, Holding
<1>2. IsFiniteSet({}) /\ Cardinality({}) = 0
  BY FS_EmptySet
<1>3. BridgeTypes
  BY DEF Init, BridgeTypes
<1>4. byWorkspace \in [Workspaces -> Nat] /\ active = 0 /\ \A w \in Workspaces : byWorkspace[w] = 0
  BY DEF Init
<1>5. PerWorkspace \in Nat /\ Global \in Nat
  OBVIOUS
<1> QED BY <1>1, <1>2, <1>3, <1>4, <1>5 DEF SlotInv

\* Every step preserves SlotInv: an upgrade adds the bridge to those that
\* hold a slot, the browser's close event removes it, nothing else does.
LEMMA SlotStep == SlotInv /\ [Next]_vars => SlotInv'
<1> SUFFICES ASSUME SlotInv, [Next]_vars PROVE SlotInv'
  OBVIOUS
<1>0. BridgeTypes
  BY DEF SlotInv
<1>1. ASSUME NEW b \in Bridges, UpgradeTerminal(b) PROVE SlotInv'
  <2>1. PICK w \in Workspaces, s \in {"open", "aborted"}, u \in {"connecting", "none"} :
            BridgeTypes' /\ Upgrades(b, "terminal", w, s, u) /\ Admissible(w) /\ Acquire(w)
    BY <1>0, <1>1, UpgradeEffect
  <2>2. kind[b] = "none"
    BY <1>0, <2>1 DEF Upgrades, BridgeTypes
  <2>3. Holding(w)' = Holding(w) \cup {b} /\ b \notin Holding(w)
    BY <2>1, <2>2 DEF Upgrades, Holding
  <2>4. \A x \in Workspaces \ {w} : Holding(x)' = Holding(x)
    BY <2>1, <2>2 DEF Upgrades, Holding
  <2>5. Terminals' = Terminals \cup {b} /\ b \notin Terminals
    BY <2>1, <2>2 DEF Upgrades, Terminals
  <2>6. IsFiniteSet(Holding(w)') /\ Cardinality(Holding(w)') = Cardinality(Holding(w)) + 1
    BY <2>3, FS_AddElement DEF SlotInv
  <2>7. IsFiniteSet(Terminals') /\ Cardinality(Terminals') = Cardinality(Terminals) + 1
    BY <2>5, FS_AddElement DEF SlotInv
  <2>8. /\ byWorkspace' \in [Workspaces -> Nat] /\ byWorkspace'[w] = byWorkspace[w] + 1
        /\ \A x \in Workspaces \ {w} : byWorkspace'[x] = byWorkspace[x]
    BY <2>1 DEF Acquire, SlotInv
  <2>9. byWorkspace[w] < PerWorkspace /\ active < Global /\ active' = active + 1
    BY <2>1 DEF Acquire, Admissible
  <2> QED BY <2>1, <2>4, <2>6, <2>7, <2>8, <2>9 DEF SlotInv
<1>2. ASSUME BridgeTypes', UNCHANGED slotVars, UNCHANGED Terminals,
             \A w \in Workspaces : Holding(w)' = Holding(w)
      PROVE  SlotInv'
  BY <1>2 DEF SlotInv, slotVars
<1>3. ASSUME NEW b \in Bridges, UpgradeSsh(b) PROVE SlotInv'
  <2>1. PICK w \in Workspaces :
            BridgeTypes' /\ Upgrades(b, "ssh", w, "open", "connecting") /\ UNCHANGED slotVars
    BY <1>0, <1>3, UpgradeEffect
  <2>2. kind[b] = "none"
    BY <1>0, <2>1 DEF Upgrades, BridgeTypes
  <2>3. Terminals' = Terminals /\ \A x \in Workspaces : Holding(x)' = Holding(x)
    BY <2>1, <2>2 DEF Upgrades, Terminals, Holding
  <2> QED BY <1>2, <2>1, <2>3
<1>4. ASSUME NEW b \in Bridges,
             \/ ClientFrame(b) \/ UpstreamOpens(b) \/ UpstreamCloses(b) \/ UpstreamBreaks(b)
             \/ AgentAccepts(b) \/ AgentFrame(b) \/ TunnelEnds(b)
      PROVE  SlotInv'
  <2>1. BridgeTypes' /\ Moves(b) /\ UNCHANGED slotVars
    BY <1>0, <1>4, MoveEffect
  <2>2. \A c \in Bridges : browser'[c] = "closed" <=> browser[c] = "closed"
    BY <2>1 DEF Moves, Closed
  <2>3. Terminals' = Terminals /\ \A x \in Workspaces : Holding(x)' = Holding(x)
    BY <2>1, <2>2 DEF Moves, Terminals, Holding
  <2> QED BY <1>2, <2>1, <2>3
<1>5. ASSUME NEW b \in Bridges, BrowserCloses(b) PROVE SlotInv'
  <2>1. BridgeTypes'
    BY <1>0, <1>5 DEF BrowserCloses, BridgeTypes
  <2>2. /\ UNCHANGED <<kind, home>>
        /\ browser[b] # "closed" /\ browser'[b] = "closed"
        /\ \A c \in Bridges \ {b} : browser'[c] = browser[c]
    BY <1>0, <1>5 DEF BrowserCloses, BridgeTypes
  <2>3. CASE kind[b] # "terminal"
    <3>1. Terminals' = Terminals /\ \A x \in Workspaces : Holding(x)' = Holding(x)
      BY <2>2, <2>3 DEF Terminals, Holding
    <3>2. UNCHANGED slotVars
      BY <1>5, <2>3 DEF BrowserCloses, Release
    <3> QED BY <1>2, <2>1, <3>1, <3>2
  <2>4. CASE kind[b] = "terminal"
    <3>1. PICK w \in Workspaces : home[b] = w
      BY <1>0, <2>4 DEF BridgeTypes
    <3>2. Holding(w)' = Holding(w) \ {b} /\ b \in Holding(w)
      BY <2>2, <2>4, <3>1 DEF Holding
    <3>3. \A x \in Workspaces \ {w} : Holding(x)' = Holding(x)
      BY <2>2, <2>4, <3>1 DEF Holding
    <3>4. Terminals' = Terminals \ {b} /\ b \in Terminals
      BY <2>2, <2>4 DEF Terminals
    <3>5. IsFiniteSet(Holding(w)') /\ Cardinality(Holding(w)') = Cardinality(Holding(w)) - 1
      BY <3>1, <3>2, FS_RemoveElement DEF SlotInv
    <3>6. IsFiniteSet(Terminals') /\ Cardinality(Terminals') = Cardinality(Terminals) - 1
      BY <3>4, FS_RemoveElement DEF SlotInv
    <3>7. Cardinality(Holding(w)') \in Nat /\ Cardinality(Terminals') \in Nat
      BY <3>5, <3>6, FS_CardinalityType
    <3>8. /\ byWorkspace'[w] = byWorkspace[w] - 1 /\ active' = active - 1
          /\ \A x \in Workspaces \ {w} : byWorkspace'[x] = byWorkspace[x]
          /\ byWorkspace' = [byWorkspace EXCEPT ![w] = @ - 1]
      BY <1>5, <2>4, <3>1 DEF BrowserCloses, Release, SlotInv
    <3>9. byWorkspace'[w] = Cardinality(Holding(w)') /\ active' = Cardinality(Terminals')
      BY <3>1, <3>5, <3>6, <3>8 DEF SlotInv
    <3>10. byWorkspace' \in [Workspaces -> Nat] /\ active' \in Nat
      <4>1. byWorkspace[w] - 1 \in Nat /\ active' \in Nat
        BY <3>7, <3>8, <3>9
      <4>2. byWorkspace \in [Workspaces -> Nat]
        BY DEF SlotInv
      <4> QED BY <3>8, <4>1, <4>2
    <3>11. byWorkspace'[w] <= PerWorkspace /\ active' <= Global
      BY <3>1, <3>8 DEF SlotInv
    <3> QED BY <2>1, <3>3, <3>5, <3>6, <3>8, <3>9, <3>10, <3>11 DEF SlotInv
  <2> QED BY <2>3, <2>4
<1>6. ASSUME UNCHANGED <<slotVars, kind, home, browser, upstream>> PROVE SlotInv'
  <2>1. BridgeTypes'
    BY <1>0, <1>6 DEF BridgeTypes
  <2>2. Terminals' = Terminals /\ \A x \in Workspaces : Holding(x)' = Holding(x)
    BY <1>6 DEF Terminals, Holding
  <2> QED BY <1>2, <1>6, <2>1, <2>2
<1>7. CASE UNCHANGED vars
  BY <1>6, <1>7 DEF vars
<1> QED BY <1>1, <1>3, <1>4, <1>5, <1>6, <1>7, SocketFrame DEF Next, BridgeStep

\* TerminalAdmission counts exactly the terminals whose browser is there, for
\* each workspace and in all, and stays within both limits, whichever side of
\* a bridge ends first.
THEOREM TerminalSlotsExact == Spec => []TerminalSlots
<1>1. SlotInv => TerminalSlots
  <2> SUFFICES ASSUME SlotInv PROVE TerminalSlots
    OBVIOUS
  <2>1. UNION {Holding(w) : w \in Workspaces} = Terminals
    BY DEF SlotInv, BridgeTypes, Terminals, Holding
  <2> QED BY <2>1 DEF SlotInv, TerminalSlots
<1>2. SlotInv /\ [Next]_vars => SlotInv'
  BY SlotStep
<1> QED BY <1>1, <1>2, SlotInit, PTL DEF Spec

-------------------------------------------------------------------------------
(* The frames: sequences in order *)

HIDE BridgeAssumption

Asc(s)       == \A i, j \in 1..Len(s) : i < j => s[i] < s[j]
Below(f, s)  == \A j \in 1..Len(s) : f < s[j]
Before(s, t) == \A i \in 1..Len(s) : Below(s[i], t)
UpTo(s, n)   == \A i \in 1..Len(s) : s[i] <= n

\* A client's line: the frames P that were passed on, those in flight (q),
\* those pending (p), and the number n of those it has sent.
Line(P, q, p, n) ==
    /\ Asc(q) /\ Asc(p) /\ Before(q, p)
    /\ UpTo(q, n) /\ UpTo(p, n)
    /\ \A f \in P : f <= n /\ Below(f, q) /\ Below(f, p)

\* The same of entries <<bridge, frame>>, bridge by bridge.
AscEach(s)       == \A i, j \in 1..Len(s) : i < j /\ s[i][1] = s[j][1] => s[i][2] < s[j][2]
BeforeEach(s, t) == \A i \in 1..Len(s), j \in 1..Len(t) : s[i][1] = t[j][1] => s[i][2] < t[j][2]

\* A tunnel that has lost nothing: g was given to its endpoint, which still
\* takes more if attached; more may still be sent if live.
Gapless(g, q, p, n, attached, live) ==
    /\ \A i \in 1..Len(g) : g[i] = i
    /\ attached => \A i \in 1..Len(q) : q[i] = Len(g) + i
    /\ attached /\ live => /\ \A i \in 1..Len(p) : p[i] = Len(g) + Len(q) + i
                           /\ n = Len(g) + Len(q) + Len(p)

\* Where two indices are in a sequence one longer, or in two sequences joined.
LEMMA IndexPair ==
    ASSUME NEW m \in Nat, NEW i \in 1..(m + 1), NEW j \in 1..(m + 1), i < j
    PROVE  i \in 1..m /\ (j \in 1..m \/ j = m + 1)
  OBVIOUS

LEMMA IndexJoined ==
    ASSUME NEW m \in Nat, NEW k \in Nat, NEW i \in 1..(m + k), NEW j \in 1..(m + k), i < j
    PROVE  \/ i \in 1..m /\ j \in 1..m
           \/ i \in 1..m /\ j \in m + 1 .. m + k
           \/ i \in m + 1 .. m + k /\ j \in m + 1 .. m + k
  OBVIOUS

\* The entries of a sequence that grows at its end, or loses its head.
LEMMA AppendEntries ==
    ASSUME NEW S, NEW s \in Seq(S), NEW e \in S
    PROVE  /\ Append(s, e) \in Seq(S)
           /\ Len(Append(s, e)) = Len(s) + 1
           /\ \A i \in 1..Len(s) : Append(s, e)[i] = s[i]
           /\ Append(s, e)[Len(s) + 1] = e
  OBVIOUS

LEMMA TailEntries ==
    ASSUME NEW S, NEW s \in Seq(S), s # <<>>
    PROVE  /\ Tail(s) \in Seq(S) /\ Head(s) \in S
           /\ Len(s) \in Nat \ {0}
           /\ Len(Tail(s)) = Len(s) - 1
           /\ \A i \in 1..Len(Tail(s)) : Tail(s)[i] = s[i + 1]
           /\ Head(s) = s[1]
  OBVIOUS

LEMMA ConcatEntries ==
    ASSUME NEW S, NEW s \in Seq(S), NEW t \in Seq(S)
    PROVE  /\ s \o t \in Seq(S)
           /\ Len(s \o t) = Len(s) + Len(t)
           /\ \A i \in 1..Len(s) : (s \o t)[i] = s[i]
           /\ \A i \in 1..Len(t) : (s \o t)[Len(s) + i] = t[i]
           /\ \A i \in Len(s) + 1 .. Len(s) + Len(t) :
                i - Len(s) \in 1..Len(t) /\ (s \o t)[i] = t[i - Len(s)]
  OBVIOUS

\* A frame later than all of an ordered sequence, at its end.
LEMMA LastAppended ==
    ASSUME NEW s \in Seq(Nat), NEW n \in Nat, Asc(s), UpTo(s, n)
    PROVE  /\ Asc(Append(s, n + 1)) /\ UpTo(Append(s, n + 1), n + 1)
           /\ \A f \in Nat : f <= n /\ Below(f, s) => Below(f, Append(s, n + 1))
<1> DEFINE t == Append(s, n + 1)
<1>1. PICK m \in Nat : m = Len(s)
  OBVIOUS
<1>2. /\ Len(t) = m + 1
      /\ \A i \in 1..m : t[i] = s[i]
      /\ t[m + 1] = n + 1
  BY <1>1, AppendEntries
<1> HIDE DEF t
<1>3. \A i \in 1..m : s[i] \in Nat /\ s[i] <= n
  BY <1>1 DEF UpTo
<1>4. ASSUME NEW i \in 1..(m + 1), NEW j \in 1..(m + 1), i < j PROVE t[i] < t[j]
  <2>1. i \in 1..m /\ (j \in 1..m \/ j = m + 1)
    BY <1>4, IndexPair
  <2>2. CASE j \in 1..m
    BY <1>1, <1>2, <1>4, <2>1, <2>2 DEF Asc
  <2>3. CASE j = m + 1
    <3>1. t[i] \in Nat /\ t[i] <= n /\ t[j] = n + 1
      BY <1>2, <1>3, <2>1, <2>3
    <3> QED BY <3>1
  <2> QED BY <2>1, <2>2, <2>3
<1>5. ASSUME NEW j \in 1..(m + 1) PROVE t[j] <= n + 1
  <2>1. CASE j \in 1..m
    <3>1. t[j] \in Nat /\ t[j] <= n
      BY <1>2, <1>3, <2>1
    <3> QED BY <3>1
  <2>2. CASE j = m + 1
    <3>1. t[j] = n + 1
      BY <1>2, <2>2
    <3> QED BY <3>1
  <2> QED BY <2>1, <2>2
<1>6. ASSUME NEW f \in Nat, f <= n, Below(f, s), NEW j \in 1..(m + 1) PROVE f < t[j]
  <2>1. CASE j \in 1..m
    BY <1>1, <1>2, <1>6, <2>1 DEF Below
  <2>2. CASE j = m + 1
    <3>1. t[j] = n + 1
      BY <1>2, <2>2
    <3> QED BY <1>6, <3>1
  <2> QED BY <2>1, <2>2
<1>7. Asc(t)
  BY <1>2, <1>4 DEF Asc
<1>8. UpTo(t, n + 1)
  BY <1>2, <1>5 DEF UpTo
<1>9. \A f \in Nat : f <= n /\ Below(f, s) => Below(f, t)
  BY <1>2, <1>6 DEF Below
<1> QED BY <1>7, <1>8, <1>9 DEF t

\* What may happen to a line: a frame is sent, into p or, when p is empty,
\* into q; one is dropped; p is sent off; q is lost; the head of q is passed
\* on.
LEMMA LineSent ==
    ASSUME NEW P \in SUBSET Nat, NEW q \in Seq(Nat), NEW p \in Seq(Nat), NEW n \in Nat, Line(P, q, p, n)
    PROVE  /\ Line(P, q, p, n + 1)
           /\ Line(P, q, Append(p, n + 1), n + 1)
           /\ p = <<>> => Line(P, Append(q, n + 1), p, n + 1)
<1>1. Line(P, q, p, n + 1)
  BY DEF Line, UpTo
<1>2. Line(P, q, Append(p, n + 1), n + 1)
  <2>1. PICK p2 : p2 = Append(p, n + 1)
    OBVIOUS
  <2>2. Asc(p2) /\ UpTo(p2, n + 1)
    BY <2>1, LastAppended DEF Line
  <2>3. \A f \in Nat : f <= n /\ Below(f, p) => Below(f, p2)
    BY <2>1, LastAppended DEF Line
  <2>4. Before(q, p2)
    BY <2>3 DEF Line, Before, UpTo
  <2>5. \A f \in P : Below(f, p2)
    BY <2>3 DEF Line
  <2>6. Line(P, q, p2, n + 1)
    BY <1>1, <2>2, <2>4, <2>5 DEF Line
  <2> QED BY <2>1, <2>6
<1>3. ASSUME p = <<>> PROVE Line(P, Append(q, n + 1), p, n + 1)
  <2>1. PICK q2 : q2 = Append(q, n + 1)
    OBVIOUS
  <2>2. Asc(q2) /\ UpTo(q2, n + 1)
    BY <2>1, LastAppended DEF Line
  <2>3. \A f \in P : Below(f, q2)
    BY <2>1, LastAppended DEF Line
  <2>4. Before(q2, p)
    BY <1>3 DEF Before, Below
  <2>5. Line(P, q2, p, n + 1)
    BY <1>1, <2>2, <2>3, <2>4 DEF Line
  <2> QED BY <2>1, <2>5
<1> QED BY <1>1, <1>2, <1>3

LEMMA LineFlushed ==
    ASSUME NEW P \in SUBSET Nat, NEW q \in Seq(Nat), NEW p \in Seq(Nat), NEW n \in Nat, Line(P, q, p, n)
    PROVE  Line(P, q \o p, <<>>, n) /\ Line(P, <<>>, p, n)
<1> DEFINE r == q \o p
<1>1. /\ r \in Seq(Nat) /\ Len(r) = Len(q) + Len(p)
      /\ \A i \in 1..Len(q) : r[i] = q[i]
      /\ \A i \in Len(q) + 1 .. Len(q) + Len(p) : i - Len(q) \in 1..Len(p) /\ r[i] = p[i - Len(q)]
  BY ConcatEntries
<1> HIDE DEF r
<1>2. \A j \in 1..Len(r) : j \in 1..Len(q) \/ j \in Len(q) + 1 .. Len(q) + Len(p)
  BY <1>1
<1>3. ASSUME NEW i \in 1..Len(r), NEW j \in 1..Len(r), i < j PROVE r[i] < r[j]
  <2>1. CASE j \in 1..Len(q)
    <3>1. i \in 1..Len(q)
      BY <1>1, <1>3, <2>1
    <3> QED BY <1>1, <1>3, <2>1, <3>1 DEF Line, Asc
  <2>2. CASE i \in 1..Len(q) /\ j \in Len(q) + 1 .. Len(q) + Len(p)
    BY <1>1, <1>3, <2>2 DEF Line, Before, Below
  <2>3. CASE i \in Len(q) + 1 .. Len(q) + Len(p) /\ j \in Len(q) + 1 .. Len(q) + Len(p)
    <3>1. i - Len(q) < j - Len(q)
      BY <1>1, <1>3
    <3> QED BY <1>1, <2>3, <3>1 DEF Line, Asc
  <2>4. Len(r) = Len(q) + Len(p) /\ Len(q) \in Nat /\ Len(p) \in Nat
    BY <1>1
  <2> QED BY <1>3, <2>1, <2>2, <2>3, <2>4, IndexJoined
<1>4. UpTo(r, n)
  BY <1>1, <1>2 DEF Line, UpTo
<1>5. \A f \in P : Below(f, r)
  BY <1>1, <1>2 DEF Line, Below
<1>6. Len(<<>>) = 0
  OBVIOUS
<1>7. Line(P, r, <<>>, n)
  BY <1>3, <1>4, <1>5, <1>6 DEF Line, Asc, Before, Below, UpTo
<1>8. Line(P, <<>>, p, n)
  BY <1>6 DEF Line, Asc, Before, Below, UpTo
<1> QED BY <1>7, <1>8 DEF r

LEMMA LinePassed ==
    ASSUME NEW P \in SUBSET Nat, NEW q \in Seq(Nat), NEW p \in Seq(Nat), NEW n \in Nat, Line(P, q, p, n),
           q # <<>>, NEW P2 \in SUBSET (P \cup {Head(q)})
    PROVE  Line(P2, Tail(q), p, n) /\ \A f \in P : f < Head(q)
<1> DEFINE t == Tail(q)
<1>1. /\ t \in Seq(Nat) /\ Len(q) \in Nat \ {0} /\ Len(t) = Len(q) - 1
      /\ \A i \in 1..Len(t) : t[i] = q[i + 1] /\ i + 1 \in 1..Len(q)
      /\ Head(q) = q[1] /\ Head(q) \in Nat /\ 1 \in 1..Len(q)
  BY TailEntries
<1> HIDE DEF t
<1>2. Asc(t)
  <2> SUFFICES ASSUME NEW i \in 1..Len(t), NEW j \in 1..Len(t), i < j PROVE t[i] < t[j]
    BY DEF Asc
  <2>1. i + 1 \in 1..Len(q) /\ j + 1 \in 1..Len(q) /\ i + 1 < j + 1
    BY <1>1
  <2> QED BY <1>1, <2>1 DEF Line, Asc
<1>5. Before(t, p) /\ UpTo(t, n)
  BY <1>1 DEF Line, Before, UpTo
<1>3. \A f \in P : f <= n /\ f < q[1] /\ Below(f, t) /\ Below(f, p)
  BY <1>1 DEF Line, Below
<1>4. q[1] <= n /\ Below(q[1], t) /\ Below(q[1], p)
  <2>1. \A j \in 1..Len(t) : 1 < j + 1
    BY <1>1
  <2>2. Below(q[1], t)
    BY <1>1, <2>1 DEF Line, Asc, Below
  <2> QED BY <1>1, <2>2 DEF Line, UpTo, Before
<1> QED BY <1>1, <1>2, <1>3, <1>4, <1>5 DEF Line, t

\* What may happen to entries: one is added, or all of one sequence to
\* another.
LEMMA EachAppended ==
    ASSUME NEW s \in Seq(Bridges \X Nat), NEW b \in Bridges, NEW f \in Nat, AscEach(s),
           \A i \in 1..Len(s) : s[i][1] = b => s[i][2] < f
    PROVE  AscEach(Append(s, <<b, f>>))
<1> DEFINE t == Append(s, <<b, f>>)
<1>1. /\ t \in Seq(Bridges \X Nat) /\ Len(t) = Len(s) + 1
      /\ \A i \in 1..Len(s) : t[i] = s[i]
      /\ t[Len(s) + 1] = <<b, f>>
  BY AppendEntries
<1> HIDE DEF t
<1>2. ASSUME NEW i \in 1..Len(t), NEW j \in 1..Len(t), i < j, t[i][1] = t[j][1] PROVE t[i][2] < t[j][2]
  <2>1. i \in 1..Len(s) /\ (j \in 1..Len(s) \/ j = Len(s) + 1)
    <3>1. Len(t) = Len(s) + 1 /\ Len(s) \in Nat
      BY <1>1
    <3>2. i < j
      BY <1>2
    <3> QED BY <3>1, <3>2, IndexPair
  <2>2. CASE j \in 1..Len(s)
    BY <1>1, <1>2, <2>1, <2>2 DEF AscEach
  <2>3. CASE j = Len(s) + 1
    <3>1. t[i] = s[i] /\ t[j] = <<b, f>>
      BY <1>1, <2>1, <2>3
    <3> QED BY <1>2, <2>1, <3>1
  <2> QED BY <2>1, <2>2, <2>3
<1> QED BY <1>2 DEF AscEach, t

LEMMA EachConcat ==
    ASSUME NEW s \in Seq(Bridges \X Nat), NEW t \in Seq(Bridges \X Nat),
           AscEach(s), AscEach(t), BeforeEach(s, t)
    PROVE  AscEach(s \o t)
<1> DEFINE r == s \o t
<1>1. /\ r \in Seq(Bridges \X Nat) /\ Len(r) = Len(s) + Len(t)
      /\ \A i \in 1..Len(s) : r[i] = s[i]
      /\ \A i \in Len(s) + 1 .. Len(s) + Len(t) : i - Len(s) \in 1..Len(t) /\ r[i] = t[i - Len(s)]
  BY ConcatEntries
<1> HIDE DEF r
<1>2. \A j \in 1..Len(r) : j \in 1..Len(s) \/ j \in Len(s) + 1 .. Len(s) + Len(t)
  BY <1>1
<1>3. ASSUME NEW i \in 1..Len(r), NEW j \in 1..Len(r), i < j, r[i][1] = r[j][1] PROVE r[i][2] < r[j][2]
  <2>1. CASE j \in 1..Len(s)
    <3>1. i \in 1..Len(s)
      BY <1>1, <1>3, <2>1
    <3> QED BY <1>1, <1>3, <2>1, <3>1 DEF AscEach
  <2>2. CASE i \in 1..Len(s) /\ j \in Len(s) + 1 .. Len(s) + Len(t)
    BY <1>1, <1>3, <2>2 DEF BeforeEach
  <2>3. CASE i \in Len(s) + 1 .. Len(s) + Len(t) /\ j \in Len(s) + 1 .. Len(s) + Len(t)
    <3>1. i - Len(s) < j - Len(s)
      BY <1>1, <1>3
    <3>2. /\ i - Len(s) \in 1..Len(t) /\ r[i] = t[i - Len(s)]
          /\ j - Len(s) \in 1..Len(t) /\ r[j] = t[j - Len(s)]
      BY <1>1, <2>3
    <3> QED BY <1>3, <3>1, <3>2 DEF AscEach
  <2>4. Len(r) = Len(s) + Len(t) /\ Len(s) \in Nat /\ Len(t) \in Nat
    BY <1>1
  <2> QED BY <1>3, <2>1, <2>2, <2>3, <2>4, IndexJoined
<1> QED BY <1>3 DEF AscEach, r

\* What may happen to a tunnel that has lost nothing: a frame is sent, the
\* pending ones are sent off, one is passed on, and it may begin to end.
LEMMA GaplessSent ==
    ASSUME NEW g \in Seq(Nat), NEW q \in Seq(Nat), NEW p \in Seq(Nat), NEW n \in Nat, NEW A \in BOOLEAN,
           Gapless(g, q, p, n, A, TRUE)
    PROVE  /\ Gapless(g, q, Append(p, n + 1), n + 1, A, TRUE)
           /\ p = <<>> => Gapless(g, Append(q, n + 1), p, n + 1, A, TRUE)
<1>1. Len(g) \in Nat /\ Len(q) \in Nat /\ Len(p) \in Nat
  OBVIOUS
<1>2. Gapless(g, q, Append(p, n + 1), n + 1, A, TRUE)
  <2> DEFINE p2 == Append(p, n + 1)
  <2>1. /\ Len(p2) = Len(p) + 1
        /\ \A i \in 1..Len(p) : p2[i] = p[i]
        /\ p2[Len(p) + 1] = n + 1
    BY AppendEntries
  <2> HIDE DEF p2
  <2>2. \A i \in 1..Len(p2) : i \in 1..Len(p) \/ i = Len(p) + 1
    BY <1>1, <2>1
  <2>3. A => n + 1 = Len(g) + Len(q) + Len(p2) /\ n + 1 = Len(g) + Len(q) + (Len(p) + 1)
    BY <1>1, <2>1 DEF Gapless
  <2>4. A => \A i \in 1..Len(p2) : p2[i] = Len(g) + Len(q) + i
    BY <2>1, <2>2, <2>3 DEF Gapless
  <2> QED BY <2>3, <2>4 DEF Gapless, p2
<1>3. ASSUME p = <<>> PROVE Gapless(g, Append(q, n + 1), p, n + 1, A, TRUE)
  <2> DEFINE q2 == Append(q, n + 1)
  <2>1. /\ Len(q2) = Len(q) + 1
        /\ \A i \in 1..Len(q) : q2[i] = q[i]
        /\ q2[Len(q) + 1] = n + 1
    BY AppendEntries
  <2> HIDE DEF q2
  <2>2. \A i \in 1..Len(q2) : i \in 1..Len(q) \/ i = Len(q) + 1
    BY <1>1, <2>1
  <2>3. Len(p) = 0
    BY <1>3
  <2>4. A => n + 1 = Len(g) + Len(q2) + Len(p) /\ n + 1 = Len(g) + (Len(q) + 1)
    BY <1>1, <2>1, <2>3 DEF Gapless
  <2>5. A => \A i \in 1..Len(q2) : q2[i] = Len(g) + i
    BY <2>1, <2>2, <2>4 DEF Gapless
  <2> QED BY <2>3, <2>4, <2>5 DEF Gapless, q2
<1> QED BY <1>2, <1>3

LEMMA GaplessFlushed ==
    ASSUME NEW g \in Seq(Nat), NEW q \in Seq(Nat), NEW p \in Seq(Nat), NEW n \in Nat, NEW A \in BOOLEAN,
           Gapless(g, q, p, n, A, TRUE)
    PROVE  Gapless(g, q \o p, <<>>, n, A, TRUE)
<1> DEFINE r == q \o p
<1>1. /\ Len(r) = Len(q) + Len(p)
      /\ \A i \in 1..Len(q) : r[i] = q[i]
      /\ \A i \in Len(q) + 1 .. Len(q) + Len(p) : i - Len(q) \in 1..Len(p) /\ r[i] = p[i - Len(q)]
  BY ConcatEntries
<1> HIDE DEF r
<1>2. Len(g) \in Nat /\ Len(q) \in Nat /\ Len(p) \in Nat /\ Len(<<>>) = 0
  OBVIOUS
<1>3. ASSUME A, NEW i \in 1..Len(r) PROVE r[i] = Len(g) + i
  <2>1. CASE i \in 1..Len(q)
    BY <1>1, <1>3, <2>1 DEF Gapless
  <2>2. CASE i \in Len(q) + 1 .. Len(q) + Len(p)
    <3>1. r[i] = Len(g) + Len(q) + (i - Len(q))
      BY <1>1, <1>3, <2>2 DEF Gapless
    <3> QED BY <1>2, <2>2, <3>1
  <2> QED BY <1>1, <1>2, <2>1, <2>2
<1>4. A => n = Len(g) + Len(r) + 0
  BY <1>1, <1>2 DEF Gapless
<1> QED BY <1>2, <1>3, <1>4 DEF Gapless, r

LEMMA GaplessPassed ==
    ASSUME NEW g \in Seq(Nat), NEW q \in Seq(Nat), NEW p \in Seq(Nat), NEW n \in Nat, NEW L \in BOOLEAN,
           Gapless(g, q, p, n, TRUE, L), q # <<>>
    PROVE  Gapless(Append(g, Head(q)), Tail(q), p, n, TRUE, L)
<1> DEFINE h == Append(g, Head(q))
           t == Tail(q)
<1>1. Len(g) \in Nat /\ Len(q) \in Nat \ {0} /\ Len(p) \in Nat
  BY TailEntries
<1>2. /\ Len(t) = Len(q) - 1 /\ Head(q) = q[1] /\ Head(q) \in Nat
      /\ \A i \in 1..Len(t) : t[i] = q[i + 1]
  BY TailEntries
<1>3. /\ Len(h) = Len(g) + 1
      /\ \A i \in 1..Len(g) : h[i] = g[i]
      /\ h[Len(g) + 1] = q[1]
  BY <1>2, AppendEntries
<1> HIDE DEF h, t
<1>4. \A i \in 1..Len(h) : h[i] = i
  <2>1. q[1] = Len(g) + 1
    BY <1>1 DEF Gapless
  <2>2. \A i \in 1..Len(h) : i \in 1..Len(g) \/ i = Len(g) + 1
    BY <1>1, <1>3
  <2> QED BY <1>3, <2>1, <2>2 DEF Gapless
<1>5. \A i \in 1..Len(t) : t[i] = Len(h) + i
  <2> SUFFICES ASSUME NEW i \in 1..Len(t) PROVE t[i] = Len(h) + i
    OBVIOUS
  <2>1. i + 1 \in 1..Len(q)
    BY <1>1, <1>2
  <2>2. t[i] = Len(g) + (i + 1)
    BY <1>2, <2>1 DEF Gapless
  <2> QED BY <1>1, <1>3, <2>2
<1>6. Len(h) + Len(t) = Len(g) + Len(q)
  BY <1>1, <1>2, <1>3
<1> QED BY <1>4, <1>5, <1>6 DEF Gapless, h, t

-------------------------------------------------------------------------------
(* The invariant *)

FrameTypes ==
    /\ typed \in [Bridges -> Nat]
    /\ pending \in [Bridges -> Seq(Nat)]
    /\ wire \in [Bridges -> Seq(Nat)]
    /\ got \in [Bridges -> Seq(Nat)]
    /\ input \in [Workspaces -> Seq(Bridges \X Nat)]
    /\ held \in [Workspaces -> Seq(Bridges \X Nat)]
    /\ agent \in [Bridges -> {"none", "attached", "refused", "closing", "gone"}]
    /\ vsock \in [Workspaces -> {"none", "connecting", "open"}]

\* The frames of b that the agent has passed on: to the SSH endpoint, to the
\* guest's terminal or to the queue of one.
In(b, s) == {f \in Nat : \E i \in 1..Len(s) : s[i] = <<b, f>>}
Passed(b) == {f \in Nat : \/ \E i \in 1..Len(got[b]) : got[b][i] = f
                          \/ \E w \in Workspaces : f \in In(b, input[w]) \cup In(b, held[w])}

\* A frame leaves the line of its bridge only to the back of what the guest
\* has, so it is enough to know each line ordered.
BridgeFrames(b) ==
    /\ Line(Passed(b), wire[b], pending[b], typed[b])
    /\ Asc(got[b])
    /\ upstream[b] = "open" => pending[b] = <<>>
    /\ agent[b] = "none" => wire[b] = <<>> /\ upstream[b] # "open"
    /\ browser[b] = "none" => /\ typed[b] = 0
                              /\ got[b] = <<>> /\ wire[b] = <<>> /\ pending[b] = <<>>
    /\ kind[b] = "ssh" /\ browser[b] = "open" =>
        Gapless(got[b], wire[b], pending[b], typed[b],
                agent[b] \in {"none", "attached"}, upstream[b] \in {"connecting", "open"})

\* The guest's terminal gets what was held before anything later: an open
\* socket leaves nothing held.
TerminalFrames(w) ==
    /\ AscEach(input[w]) /\ AscEach(held[w]) /\ BeforeEach(input[w], held[w])
    /\ vsock[w] = "open" => held[w] = <<>>

FrameInv ==
    /\ BridgeTypes
    /\ FrameTypes
    /\ \A b \in Bridges : BridgeFrames(b)
    /\ \A w \in Workspaces : TerminalFrames(w)

-------------------------------------------------------------------------------
(* The steps *)

\* Init establishes FrameInv.
LEMMA FrameInit == Init => FrameInv
<1> SUFFICES ASSUME Init PROVE FrameInv
  OBVIOUS
<1>1. BridgeTypes
  BY DEF Init, BridgeTypes
<1>2. FrameTypes
  BY DEF Init, FrameTypes
<1>3. Len(<<>>) = 0
  OBVIOUS
<1>4. ASSUME NEW b \in Bridges PROVE BridgeFrames(b)
  <2>1. /\ typed[b] = 0 /\ got[b] = <<>> /\ wire[b] = <<>> /\ pending[b] = <<>>
        /\ kind[b] = "none" /\ upstream[b] = "none"
    BY DEF Init
  <2>2. Passed(b) = {}
    <3>1. \A w \in Workspaces : input[w] = <<>> /\ held[w] = <<>>
      BY DEF Init
    <3> QED BY <1>3, <2>1, <3>1 DEF Passed, In
  <2>3. Line({}, <<>>, <<>>, 0) /\ Asc(<<>>)
    BY <1>3 DEF Line, Asc, Before, UpTo
  <2> QED BY <2>1, <2>2, <2>3 DEF BridgeFrames
<1>5. ASSUME NEW w \in Workspaces PROVE TerminalFrames(w)
  <2>1. input[w] = <<>> /\ held[w] = <<>>
    BY DEF Init
  <2> QED BY <1>3, <2>1 DEF TerminalFrames, AscEach, BeforeEach
<1> QED BY <1>1, <1>2, <1>4, <1>5 DEF FrameInv

\* Nothing of bridge c moves but towards its end.
Quiet(c) ==
    /\ typed'[c] = typed[c] /\ wire'[c] = wire[c] /\ pending'[c] = pending[c] /\ got'[c] = got[c]
    /\ browser'[c] = "none" => browser[c] = "none"
    /\ upstream'[c] = "open" => upstream[c] = "open"
    /\ agent'[c] = "none" => agent[c] = "none"
    /\ (kind'[c] = "ssh" /\ browser'[c] = "open") =>
        /\ kind[c] = "ssh" /\ browser[c] = "open"
        /\ agent'[c] \in {"none", "attached"} => agent[c] \in {"none", "attached"}
        /\ upstream'[c] \in {"connecting", "open"} => upstream[c] \in {"connecting", "open"}

\* Such a bridge keeps its order.
LEMMA QuietFrames ==
    ASSUME NEW c \in Bridges, BridgeFrames(c), Quiet(c), Passed(c)' \subseteq Passed(c)
    PROVE  BridgeFrames(c)'
<1>1. Line(Passed(c)', wire'[c], pending'[c], typed'[c]) /\ Asc(got'[c])
  BY DEF BridgeFrames, Quiet, Line
<1>2. ASSUME kind'[c] = "ssh", browser'[c] = "open"
      PROVE  Gapless(got'[c], wire'[c], pending'[c], typed'[c],
                     agent'[c] \in {"none", "attached"}, upstream'[c] \in {"connecting", "open"})
  <2>1. Gapless(got[c], wire[c], pending[c], typed[c],
                agent[c] \in {"none", "attached"}, upstream[c] \in {"connecting", "open"})
    BY <1>2 DEF BridgeFrames, Quiet
  <2> QED BY <1>2, <2>1 DEF Gapless, Quiet
<1> QED BY <1>1, <1>2 DEF BridgeFrames, Quiet

\* A step that passes nothing on leaves Passed alone.
LEMMA PassedSame ==
    ASSUME UNCHANGED <<input, held>>, NEW c \in Bridges, got'[c] = got[c]
    PROVE  Passed(c)' = Passed(c)
  BY DEF Passed, In

\* A step that writes nothing and opens no socket leaves the terminals alone.
LEMMA TerminalSame ==
    ASSUME FrameInv, UNCHANGED <<input, held>>,
           \A w \in Workspaces : vsock'[w] = "open" => vsock[w] = "open"
    PROVE  \A w \in Workspaces : TerminalFrames(w)'
  BY DEF FrameInv, TerminalFrames

\* Such a step preserves the invariant if it leaves every bridge quiet.
LEMMA QuietStep ==
    ASSUME FrameInv, BridgeTypes', FrameTypes', UNCHANGED <<input, held>>,
           \A w \in Workspaces : vsock'[w] = "open" => vsock[w] = "open",
           \A c \in Bridges : Quiet(c)
    PROVE  FrameInv'
<1>1. ASSUME NEW c \in Bridges PROVE BridgeFrames(c)'
  <2>1. Passed(c)' = Passed(c)
    BY PassedSame DEF Quiet
  <2> QED BY <2>1, QuietFrames DEF FrameInv
<1> QED BY <1>1, TerminalSame DEF FrameInv

\* So does one that moves bridge b as its own argument shows.
LEMMA BridgeMoves ==
    ASSUME FrameInv, BridgeTypes', FrameTypes', UNCHANGED <<input, held, vsock>>,
           NEW b \in Bridges, \A c \in Bridges \ {b} : Quiet(c),
           BridgeFrames(b)'
    PROVE  FrameInv'
<1>1. ASSUME NEW c \in Bridges \ {b} PROVE BridgeFrames(c)'
  <2>1. Passed(c)' = Passed(c)
    BY PassedSame DEF Quiet
  <2> QED BY <2>1, QuietFrames DEF FrameInv
<1> QED BY <1>1, TerminalSame DEF FrameInv

\* An upgraded bridge has had no frame yet.
LEMMA UpgradeFrames ==
    ASSUME FrameInv, NEW b \in Bridges, UpgradeTerminal(b) \/ UpgradeSsh(b)
    PROVE  FrameInv'
<1>1. UNCHANGED <<agent, frameVars, guestVars>>
  BY DEF UpgradeTerminal, UpgradeSsh
<1>2. PICK k \in {"terminal", "ssh"}, w \in Workspaces, x \in {"open", "aborted"}, u \in {"connecting", "none"} :
        BridgeTypes' /\ Upgrades(b, k, w, x, u)
  BY UpgradeEffect DEF FrameInv
<1>3. FrameTypes' /\ UNCHANGED <<input, held, vsock>>
  BY <1>1 DEF FrameInv, FrameTypes, frameVars, guestVars
<1>4. \A c \in Bridges \ {b} : Quiet(c)
  BY <1>1, <1>2 DEF Quiet, Upgrades, frameVars, guestVars
<1>5. BridgeFrames(b)'
  <2>1. typed[b] = 0 /\ got[b] = <<>> /\ wire[b] = <<>> /\ pending[b] = <<>>
    BY <1>2 DEF FrameInv, BridgeFrames, Upgrades
  <2>2. typed'[b] = typed[b] /\ got'[b] = got[b] /\ wire'[b] = wire[b] /\ pending'[b] = pending[b]
    BY <1>1 DEF frameVars
  <2>3. Passed(b)' = Passed(b)
    BY <1>3, <2>2, PassedSame
  <2>4. Line(Passed(b), wire[b], pending[b], typed[b]) /\ Asc(got[b])
    BY DEF FrameInv, BridgeFrames
  <2>5. ASSUME NEW A, NEW L PROVE Gapless(<<>>, <<>>, <<>>, 0, A, L)
    BY DEF Gapless
  <2>6. browser'[b] # "none" /\ upstream'[b] # "open"
    BY <1>2 DEF Upgrades
  <2> QED BY <2>1, <2>2, <2>3, <2>4, <2>5, <2>6 DEF BridgeFrames
<1> QED BY <1>2, <1>3, <1>4, <1>5, BridgeMoves

\* A frame of the client joins its line at the end, or the client is closed
\* or the upstream no longer takes frames.
LEMMA ClientFrames ==
    ASSUME FrameInv, NEW b \in Bridges, ClientFrame(b)
    PROVE  FrameInv'
<1>0. FrameTypes /\ BridgeTypes /\ BridgeFrames(b)
  BY DEF FrameInv
<1>1. UNCHANGED <<kind, home, upstream, agent, got, input, guestVars>> /\ typed' = [typed EXCEPT ![b] = @ + 1]
  BY DEF ClientFrame
<1>2. BridgeTypes' /\ Moves(b) /\ browser[b] # "none"
  BY <1>0, MoveEffect DEF ClientFrame
<1> DEFINE n == typed[b]
<1>3. n \in Nat /\ typed'[b] = n + 1 /\ n + 1 \in Nat
  BY <1>0, <1>1 DEF FrameTypes
<1>4. \/ /\ upstream[b] = "connecting"
         /\ pending' = [pending EXCEPT ![b] = Append(@, n + 1)] /\ UNCHANGED <<browser, wire>>
      \/ /\ browser'[b] # "open" /\ UNCHANGED <<pending, wire>>
      \/ /\ upstream[b] = "open"
         /\ wire' = [wire EXCEPT ![b] = Append(@, n + 1)] /\ UNCHANGED <<browser, pending>>
      \/ /\ kind[b] # "ssh" \/ upstream[b] \in {"closing", "closed"}
         /\ UNCHANGED <<browser, pending, wire>>
  <2>1. browser' = [browser EXCEPT ![b] = Closed(@)] => browser'[b] # "open"
    BY <1>0 DEF BridgeTypes, Closed
  <2> QED BY <2>1 DEF ClientFrame
<1>5. FrameTypes'
  <2>1. typed' \in [Bridges -> Nat]
    BY <1>0, <1>1 DEF FrameTypes
  <2>2. Append(pending[b], n + 1) \in Seq(Nat) /\ Append(wire[b], n + 1) \in Seq(Nat)
    BY <1>0, <1>3 DEF FrameTypes
  <2> HIDE DEF n
  <2>3. pending' \in [Bridges -> Seq(Nat)] /\ wire' \in [Bridges -> Seq(Nat)]
    BY <1>0, <1>4, <2>2 DEF FrameTypes
  <2> QED BY <1>0, <1>1, <2>1, <2>3 DEF FrameTypes, guestVars
<1>6. \A c \in Bridges \ {b} : Quiet(c)
  <2> SUFFICES ASSUME NEW c \in Bridges \ {b} PROVE Quiet(c)
    OBVIOUS
  <2>1. typed'[c] = typed[c] /\ wire'[c] = wire[c] /\ pending'[c] = pending[c]
    BY <1>0, <1>1, <1>4 DEF FrameTypes
  <2>2. browser'[c] = browser[c]
    BY <1>2 DEF Moves
  <2> QED BY <1>1, <2>1, <2>2 DEF Quiet
<1>7. UNCHANGED <<input, held, vsock>>
  BY <1>1 DEF guestVars
<1>8. BridgeFrames(b)'
  <2> DEFINE P == Passed(b)
             A == agent[b] \in {"none", "attached"}
             L == upstream[b] \in {"connecting", "open"}
  <2>1. Passed(b)' = P /\ P \in SUBSET Nat
    BY <1>1, <1>7, PassedSame DEF Passed
  <2>2. Line(P, wire[b], pending[b], n) /\ Asc(got[b]) /\ got'[b] = got[b]
    BY <1>0, <1>1 DEF BridgeFrames
  <2>3. wire[b] \in Seq(Nat) /\ pending[b] \in Seq(Nat) /\ got[b] \in Seq(Nat)
    BY <1>0 DEF FrameTypes
  <2>4. upstream'[b] = upstream[b] /\ agent'[b] = agent[b] /\ kind'[b] = kind[b]
    BY <1>1
  <2>5. browser'[b] # "none"
    BY <1>2 DEF Moves, Closed
  <2>6. /\ kind[b] = "ssh" /\ browser[b] = "open" => Gapless(got[b], wire[b], pending[b], n, A, L)
        /\ agent[b] = "none" => wire[b] = <<>> /\ upstream[b] # "open"
    BY <1>0 DEF BridgeFrames
  <2>7. A \in BOOLEAN
    OBVIOUS
  <2>8. /\ Line(P, wire[b], pending[b], n + 1)
        /\ Line(P, wire[b], Append(pending[b], n + 1), n + 1)
        /\ pending[b] = <<>> => Line(P, Append(wire[b], n + 1), pending[b], n + 1)
    BY <1>3, <2>1, <2>2, <2>3, LineSent
  <2> HIDE DEF P, n, A
  <2>9. CASE /\ upstream[b] = "connecting"
             /\ pending' = [pending EXCEPT ![b] = Append(@, n + 1)] /\ UNCHANGED <<browser, wire>>
    <3>1. pending'[b] = Append(pending[b], n + 1) /\ wire'[b] = wire[b] /\ browser'[b] = browser[b]
      BY <1>0, <2>9 DEF FrameTypes
    <3>2. kind[b] = "ssh" /\ browser[b] = "open" => Gapless(got[b], wire[b], Append(pending[b], n + 1), n + 1, A, TRUE)
      BY <1>3, <2>3, <2>6, <2>7, <2>9, GaplessSent
    <3>3. L
      BY <2>9
    <3> QED BY <1>3, <2>1, <2>2, <2>4, <2>5, <2>6, <2>8, <2>9, <3>1, <3>2, <3>3 DEF BridgeFrames, A
  <2>10. CASE /\ browser'[b] # "open" /\ UNCHANGED <<pending, wire>>
    <3>1. upstream[b] = "open" => pending[b] = <<>>
      BY <1>0 DEF BridgeFrames
    <3> QED BY <1>3, <2>1, <2>2, <2>4, <2>5, <2>6, <2>8, <2>10, <3>1 DEF BridgeFrames
  <2>11. CASE /\ upstream[b] = "open"
              /\ wire' = [wire EXCEPT ![b] = Append(@, n + 1)] /\ UNCHANGED <<browser, pending>>
    <3>1. wire'[b] = Append(wire[b], n + 1) /\ pending'[b] = pending[b] /\ browser'[b] = browser[b]
      BY <1>0, <2>11 DEF FrameTypes
    <3>2. pending[b] = <<>>
      BY <1>0, <2>11 DEF BridgeFrames
    <3>3. kind[b] = "ssh" /\ browser[b] = "open" => Gapless(got[b], Append(wire[b], n + 1), pending[b], n + 1, A, TRUE)
      BY <1>3, <2>3, <2>6, <2>7, <2>11, <3>2, GaplessSent
    <3>4. L
      BY <2>11
    <3> QED BY <1>3, <2>1, <2>2, <2>4, <2>5, <2>6, <2>8, <2>11, <3>1, <3>2, <3>3, <3>4 DEF BridgeFrames, A
  <2>12. CASE /\ kind[b] # "ssh" \/ upstream[b] \in {"closing", "closed"}
              /\ UNCHANGED <<browser, pending, wire>>
    <3>1. upstream[b] = "open" => pending[b] = <<>>
      BY <1>0 DEF BridgeFrames
    <3>2. kind[b] = "ssh" /\ browser[b] = "open" => Gapless(got[b], wire[b], pending[b], n + 1, A, L)
      BY <2>6, <2>12 DEF Gapless
    <3> QED BY <1>3, <2>1, <2>2, <2>4, <2>5, <2>6, <2>8, <2>12, <3>1, <3>2 DEF BridgeFrames, A
  <2> QED BY <1>4, <2>9, <2>10, <2>11, <2>12
<1> QED BY <1>2, <1>5, <1>6, <1>7, <1>8, BridgeMoves

\* The upstream opens: what was pending goes off, behind what is in flight.
LEMMA OpenFrames ==
    ASSUME FrameInv, NEW b \in Bridges, UpstreamOpens(b)
    PROVE  FrameInv'
<1>0. FrameTypes /\ BridgeTypes /\ BridgeFrames(b)
  BY DEF FrameInv
<1>1. /\ UNCHANGED <<kind, home, browser, agent, typed, got, input, guestVars>>
      /\ upstream[b] = "connecting" /\ upstream'[b] = "open"
      /\ wire' = [wire EXCEPT ![b] = @ \o pending[b]]
      /\ pending' = [pending EXCEPT ![b] = <<>>]
  BY <1>0 DEF UpstreamOpens, Flush, BridgeTypes
<1>2. BridgeTypes' /\ Moves(b)
  BY <1>0, MoveEffect
<1>3. wire[b] \in Seq(Nat) /\ pending[b] \in Seq(Nat) /\ got[b] \in Seq(Nat) /\ typed[b] \in Nat
  BY <1>0 DEF FrameTypes
<1>4. wire'[b] = wire[b] \o pending[b] /\ pending'[b] = <<>>
      /\ \A c \in Bridges \ {b} : wire'[c] = wire[c] /\ pending'[c] = pending[c]
  BY <1>0, <1>1 DEF FrameTypes
<1>5. FrameTypes'
  <2>1. wire[b] \o pending[b] \in Seq(Nat)
    BY <1>3, ConcatEntries
  <2>2. wire' \in [Bridges -> Seq(Nat)] /\ pending' \in [Bridges -> Seq(Nat)]
    BY <1>0, <1>1, <2>1 DEF FrameTypes
  <2> QED BY <1>0, <1>1, <2>2 DEF FrameTypes, guestVars
<1>6. \A c \in Bridges \ {b} : Quiet(c)
  BY <1>1, <1>2, <1>4 DEF Quiet, Moves
<1>7. UNCHANGED <<input, held, vsock>>
  BY <1>1 DEF guestVars
<1>8. BridgeFrames(b)'
  <2> DEFINE P == Passed(b)
             A == agent[b] \in {"none", "attached"}
  <2>1. Passed(b)' = P /\ P \in SUBSET Nat
    BY <1>1, <1>7, PassedSame DEF Passed
  <2>2. Line(P, wire[b] \o pending[b], <<>>, typed[b])
    BY <1>0, <1>3, <2>1, LineFlushed DEF BridgeFrames
  <2>3. A \in BOOLEAN
    OBVIOUS
  <2>4. ASSUME kind[b] = "ssh", browser[b] = "open"
        PROVE  Gapless(got[b], wire[b] \o pending[b], <<>>, typed[b], A, TRUE)
    <3>1. Gapless(got[b], wire[b], pending[b], typed[b], A, TRUE)
      BY <1>0, <1>1, <2>4 DEF BridgeFrames
    <3> QED BY <1>3, <2>3, <3>1, GaplessFlushed
  <2>5. browser[b] # "none" /\ Asc(got[b]) /\ agent[b] # "none"
    BY <1>0, <1>1 DEF BridgeTypes, BridgeFrames, UpstreamOpens
  <2>6. /\ typed'[b] = typed[b] /\ got'[b] = got[b] /\ agent'[b] = agent[b]
        /\ kind'[b] = kind[b] /\ browser'[b] = browser[b]
    BY <1>1
  <2> QED BY <1>1, <1>4, <2>1, <2>2, <2>4, <2>5, <2>6 DEF BridgeFrames
<1> QED BY <1>2, <1>5, <1>6, <1>7, <1>8, BridgeMoves

\* The upstream closes: what is in flight is lost, and the client is closed.
LEMMA CloseFrames ==
    ASSUME FrameInv, NEW b \in Bridges, UpstreamCloses(b)
    PROVE  FrameInv'
<1>0. FrameTypes /\ BridgeTypes /\ BridgeFrames(b)
  BY DEF FrameInv
<1>1. /\ UNCHANGED <<kind, home, typed, pending, got, input, guestVars>>
      /\ upstream'[b] = "closed" /\ upstream[b] # "none" /\ browser'[b] # "open"
      /\ agent' = [agent EXCEPT ![b] = "gone"]
      /\ wire' = [wire EXCEPT ![b] = <<>>]
  BY <1>0 DEF UpstreamCloses, BridgeTypes, Closed
<1>2. BridgeTypes' /\ Moves(b)
  BY <1>0, MoveEffect
<1>3. wire[b] \in Seq(Nat) /\ pending[b] \in Seq(Nat) /\ typed[b] \in Nat
  BY <1>0 DEF FrameTypes
<1>4. wire'[b] = <<>> /\ \A c \in Bridges \ {b} : wire'[c] = wire[c] /\ agent'[c] = agent[c]
  BY <1>0, <1>1 DEF FrameTypes
<1>5. FrameTypes'
  <2>1. wire' \in [Bridges -> Seq(Nat)]
    BY <1>0, <1>1 DEF FrameTypes
  <2> QED BY <1>0, <1>1, <2>1 DEF FrameTypes, guestVars
<1>6. \A c \in Bridges \ {b} : Quiet(c)
  BY <1>1, <1>2, <1>4 DEF Quiet, Moves
<1>7. UNCHANGED <<input, held, vsock>>
  BY <1>1 DEF guestVars
<1>8. BridgeFrames(b)'
  <2>1. Passed(b)' = Passed(b) /\ Passed(b) \in SUBSET Nat
    BY <1>1, <1>7, PassedSame DEF Passed
  <2>2. Line(Passed(b), <<>>, pending[b], typed[b]) /\ Asc(got[b])
    BY <1>0, <1>3, <2>1, LineFlushed DEF BridgeFrames
  <2>3. browser'[b] # "none"
    BY <1>0, <1>1, <1>2 DEF BridgeTypes, Moves, Closed
  <2> QED BY <1>1, <1>4, <2>1, <2>2, <2>3 DEF BridgeFrames
<1> QED BY <1>2, <1>5, <1>6, <1>7, <1>8, BridgeMoves

\* The steps that move no frame.
LEMMA QuietSteps ==
    ASSUME FrameInv, NEW b \in Bridges,
           UpstreamBreaks(b) \/ BrowserCloses(b) \/ AgentAccepts(b) \/ TunnelEnds(b)
    PROVE  FrameInv'
<1>0. FrameTypes /\ BridgeTypes
  BY DEF FrameInv
<1>1. CASE UpstreamBreaks(b)
  <2>1. UNCHANGED <<input, held, vsock>> /\ FrameTypes'
    BY <1>0, <1>1 DEF UpstreamBreaks, FrameTypes, frameVars, guestVars
  <2>2. \A c \in Bridges : Quiet(c)
    BY <1>0, <1>1 DEF UpstreamBreaks, BridgeTypes, Quiet, frameVars
  <2> QED BY <1>0, <1>1, <2>1, <2>2, MoveEffect, QuietStep
<1>2. CASE BrowserCloses(b)
  <2>1. UNCHANGED <<input, held, vsock>> /\ FrameTypes'
    BY <1>0, <1>2 DEF BrowserCloses, FrameTypes, frameVars, guestVars
  <2>2. \A c \in Bridges : Quiet(c)
    BY <1>0, <1>2 DEF BrowserCloses, BridgeTypes, Quiet, frameVars
  <2>3. BridgeTypes'
    BY <1>0, <1>2 DEF BrowserCloses, BridgeTypes
  <2> QED BY <2>1, <2>2, <2>3, QuietStep
<1>3. CASE AgentAccepts(b)
  <2>1. /\ UNCHANGED <<input, held, kind, home, browser, upstream, frameVars>>
        /\ \E a \in {"attached", "refused"} : agent' = [agent EXCEPT ![b] = a]
        /\ agent[b] = "none"
    BY <1>3 DEF AgentAccepts, frameVars
  <2>2. /\ vsock' \in [Workspaces -> {"none", "connecting", "open"}]
        /\ \A w \in Workspaces : vsock'[w] = "open" => vsock[w] = "open"
    BY <1>0, <1>3 DEF AgentAccepts, Connect, FrameTypes
  <2>3. FrameTypes'
    BY <1>0, <2>1, <2>2 DEF FrameTypes, frameVars
  <2>4. \A c \in Bridges : Quiet(c)
    BY <1>0, <2>1 DEF FrameTypes, Quiet, frameVars
  <2> QED BY <1>0, <1>3, <2>1, <2>2, <2>3, <2>4, MoveEffect, QuietStep
<1>4. CASE TunnelEnds(b)
  <2>1. UNCHANGED <<input, held, vsock>> /\ FrameTypes'
    BY <1>0, <1>4 DEF TunnelEnds, FrameTypes, frameVars, guestVars
  <2>2. \A c \in Bridges : Quiet(c)
    BY <1>0, <1>4 DEF TunnelEnds, FrameTypes, Quiet, frameVars
  <2> QED BY <1>0, <1>4, <2>1, <2>2, MoveEffect, QuietStep
<1> QED BY <1>1, <1>2, <1>3, <1>4

\* The frames of c in a sequence that got one entry more, or all of another.
LEMMA InAppended ==
    ASSUME NEW s \in Seq(Bridges \X Nat), NEW b \in Bridges, NEW f \in Nat
    PROVE  /\ In(b, Append(s, <<b, f>>)) \subseteq In(b, s) \cup {f}
           /\ \A c \in Bridges \ {b} : In(c, Append(s, <<b, f>>)) \subseteq In(c, s)
<1> DEFINE t == Append(s, <<b, f>>)
<1>1. /\ Len(t) = Len(s) + 1 /\ Len(s) \in Nat
      /\ \A i \in 1..Len(s) : t[i] = s[i]
      /\ t[Len(s) + 1] = <<b, f>>
  BY AppendEntries
<1> HIDE DEF t
<1>2. ASSUME NEW i \in 1..Len(t) PROVE i \in 1..Len(s) \/ i = Len(s) + 1
  <2>1. Len(t) = Len(s) + 1 /\ Len(s) \in Nat
    BY <1>1
  <2> QED BY <2>1
<1>4. ASSUME NEW e \in In(b, t) PROVE e \in In(b, s) \cup {f}
  <2>1. PICK i \in 1..Len(t) : t[i] = <<b, e>>
    BY DEF In
  <2>2. CASE i \in 1..Len(s)
    BY <1>1, <2>1, <2>2 DEF In
  <2>3. CASE i = Len(s) + 1
    BY <1>1, <2>1, <2>3
  <2> QED BY <1>2, <2>2, <2>3
<1>5. ASSUME NEW c \in Bridges \ {b}, NEW e \in In(c, t) PROVE e \in In(c, s)
  <2>1. PICK i \in 1..Len(t) : t[i] = <<c, e>>
    BY DEF In
  <2>2. e \in Nat /\ <<c, e>> # <<b, f>>
    BY DEF In
  <2>3. i \in 1..Len(s)
    BY <1>1, <1>2, <2>1, <2>2
  <2>4. s[i] = <<c, e>>
    BY <1>1, <2>1, <2>3
  <2> QED BY <2>2, <2>3, <2>4 DEF In
<1> QED BY <1>4, <1>5 DEF t

LEMMA InConcat ==
    ASSUME NEW s \in Seq(Bridges \X Nat), NEW t \in Seq(Bridges \X Nat), NEW b \in Bridges
    PROVE  In(b, s \o t) \subseteq In(b, s) \cup In(b, t)
<1> DEFINE r == s \o t
<1>1. /\ Len(r) = Len(s) + Len(t) /\ Len(s) \in Nat /\ Len(t) \in Nat
      /\ \A i \in 1..Len(s) : r[i] = s[i]
      /\ \A i \in Len(s) + 1 .. Len(s) + Len(t) : i - Len(s) \in 1..Len(t) /\ r[i] = t[i - Len(s)]
  BY ConcatEntries
<1> HIDE DEF r
<1>2. ASSUME NEW e \in In(b, r) PROVE e \in In(b, s) \cup In(b, t)
  <2>1. PICK i \in 1..Len(r) : r[i] = <<b, e>> /\ e \in Nat
    BY DEF In
  <2>2. CASE i \in 1..Len(s)
    BY <1>1, <2>1, <2>2 DEF In
  <2>3. CASE i \in Len(s) + 1 .. Len(s) + Len(t)
    <3>1. i - Len(s) \in 1..Len(t) /\ t[i - Len(s)] = <<b, e>>
      BY <1>1, <2>1, <2>3
    <3> QED BY <2>1, <3>1 DEF In
  <2>4. Len(r) = Len(s) + Len(t) /\ Len(s) \in Nat /\ Len(t) \in Nat
    BY <1>1
  <2>5. i \in 1..Len(s) \/ i \in Len(s) + 1 .. Len(s) + Len(t)
    BY <2>4
  <2> QED BY <2>2, <2>3, <2>5
<1> QED BY <1>2 DEF r

\* The socket opens: what was held is written, in its order, behind what the
\* guest had.
LEMMA VsockFrames ==
    ASSUME FrameInv, NEW w \in Workspaces, VsockOpens(w)
    PROVE  FrameInv'
<1>0. FrameTypes /\ BridgeTypes /\ TerminalFrames(w)
  BY DEF FrameInv
<1>1. /\ UNCHANGED <<kind, home, browser, upstream, agent, typed, pending, wire, got>>
      /\ vsock' = [vsock EXCEPT ![w] = "open"]
      /\ input' = [input EXCEPT ![w] = @ \o held[w]]
      /\ held' = [held EXCEPT ![w] = <<>>]
  BY DEF VsockOpens
<1>2. input[w] \in Seq(Bridges \X Nat) /\ held[w] \in Seq(Bridges \X Nat)
  BY <1>0 DEF FrameTypes
<1>3. /\ input'[w] = input[w] \o held[w] /\ held'[w] = <<>>
      /\ \A x \in Workspaces \ {w} : input'[x] = input[x] /\ held'[x] = held[x] /\ vsock'[x] = vsock[x]
  BY <1>0, <1>1 DEF FrameTypes
<1>4. FrameTypes' /\ BridgeTypes'
  <2>1. input[w] \o held[w] \in Seq(Bridges \X Nat)
    BY <1>2, ConcatEntries
  <2>2. input' \in [Workspaces -> Seq(Bridges \X Nat)] /\ held' \in [Workspaces -> Seq(Bridges \X Nat)]
    BY <1>0, <1>1, <2>1 DEF FrameTypes
  <2>3. FrameTypes'
    BY <1>0, <1>1, <2>2 DEF FrameTypes
  <2>4. BridgeTypes'
    BY <1>0, <1>1 DEF BridgeTypes
  <2> QED BY <2>3, <2>4
<1>5. ASSUME NEW b \in Bridges PROVE BridgeFrames(b)'
  <2>1. In(b, input'[w]) \cup In(b, held'[w]) \subseteq In(b, input[w]) \cup In(b, held[w])
    <3>1. In(b, <<>>) = {}
      BY DEF In
    <3>2. In(b, input[w] \o held[w]) \subseteq In(b, input[w]) \cup In(b, held[w])
      BY <1>2, InConcat
    <3> QED BY <1>3, <3>1, <3>2
  <2>2. \A x \in Workspaces : In(b, input'[x]) \cup In(b, held'[x]) \subseteq In(b, input[x]) \cup In(b, held[x])
    BY <1>3, <2>1
  <2>3. Passed(b)' = {f \in Nat : \/ \E i \in 1..Len(got[b]) : got[b][i] = f
                                  \/ \E x \in Workspaces : f \in In(b, input'[x]) \cup In(b, held'[x])}
    BY <1>1 DEF Passed, In
  <2>4. Passed(b)' \subseteq Passed(b)
    BY <2>2, <2>3 DEF Passed
  <2>5. Quiet(b)
    BY <1>1 DEF Quiet
  <2> QED BY <2>4, <2>5, QuietFrames DEF FrameInv
<1>6. ASSUME NEW x \in Workspaces PROVE TerminalFrames(x)'
  <2>1. CASE x = w
    <3>1. AscEach(input[w] \o held[w])
      BY <1>0, <1>2, EachConcat DEF TerminalFrames
    <3>2. AscEach(<<>>) /\ BeforeEach(input'[w], <<>>)
      BY DEF AscEach, BeforeEach
    <3> QED BY <1>3, <2>1, <3>1, <3>2 DEF TerminalFrames
  <2>2. CASE x # w
    BY <1>3, <2>2 DEF FrameInv, TerminalFrames
  <2> QED BY <2>1, <2>2
<1> QED BY <1>4, <1>5, <1>6 DEF FrameInv

\* The other steps of the socket and the end of the VM.
LEMMA SocketFrames ==
    ASSUME FrameInv, NEW w \in Workspaces,
           VsockFails(w) \/ VsockCloses(w) \/ Retry(w) \/ VmEnds(w)
    PROVE  FrameInv'
<1>0. FrameTypes /\ BridgeTypes
  BY DEF FrameInv
<1>1. UNCHANGED <<kind, home, browser, upstream, frameVars, held>>
  BY DEF VsockFails, VsockCloses, Retry, VmEnds
<1>2. /\ vsock' \in [Workspaces -> {"none", "connecting", "open"}]
      /\ \A x \in Workspaces : vsock'[x] = "open" => vsock[x] = "open"
  BY <1>0 DEF VsockFails, VsockCloses, Retry, VmEnds, Connect, FrameTypes
<1>3. /\ agent' \in [Bridges -> {"none", "attached", "refused", "closing", "gone"}]
      /\ \A c \in Bridges : agent'[c] \in {agent[c], "closing"}
  BY <1>0 DEF VsockFails, VsockCloses, Retry, VmEnds, TellClosed, FrameTypes
<1>4. FrameTypes' /\ BridgeTypes'
  BY <1>0, <1>1, <1>2, <1>3 DEF FrameTypes, BridgeTypes, frameVars
<1>5. \A c \in Bridges : Quiet(c)
  BY <1>1, <1>3 DEF Quiet, frameVars
<1> QED BY <1>1, <1>2, <1>4, <1>5, QuietStep DEF frameVars

\* What an appended frame of b changes of the queues of the workspaces.
LEMMA AppendedEffect ==
    ASSUME NEW Q \in [Workspaces -> Seq(Bridges \X Nat)], NEW Q2,
           NEW b \in Bridges, NEW f \in Nat, NEW w \in Workspaces,
           Q2[w] = Append(Q[w], <<b, f>>), \A x \in Workspaces \ {w} : Q2[x] = Q[x]
    PROVE  /\ \A x \in Workspaces : In(b, Q2[x]) \subseteq In(b, Q[x]) \cup {f}
           /\ \A x \in Workspaces, c \in Bridges \ {b} : In(c, Q2[x]) \subseteq In(c, Q[x])
<1>1. PICK s \in Seq(Bridges \X Nat) : s = Q[w]
  OBVIOUS
<1>2. In(b, Append(s, <<b, f>>)) \subseteq In(b, s) \cup {f}
  BY InAppended
<1>3. \A c \in Bridges \ {b} : In(c, Append(s, <<b, f>>)) \subseteq In(c, s)
  BY InAppended
<1>4. Q2[w] = Append(s, <<b, f>>)
  BY <1>1
<1>5. In(b, Q2[w]) \subseteq In(b, Q[w]) \cup {f} /\ \A c \in Bridges \ {b} : In(c, Q2[w]) \subseteq In(c, Q[w])
  BY <1>1, <1>2, <1>3, <1>4
<1> QED BY <1>5

\* The agent takes the head of a line: whoever gets it, it is behind all that
\* was passed on of this bridge.
LEMMA AgentFrames ==
    ASSUME FrameInv, NEW b \in Bridges, AgentFrame(b)
    PROVE  FrameInv'
<1>0. FrameTypes /\ BridgeTypes /\ BridgeFrames(b)
  BY DEF FrameInv
<1>1. /\ UNCHANGED <<kind, home, browser, upstream, typed, pending>>
      /\ wire[b] # <<>> /\ wire' = [wire EXCEPT ![b] = Tail(@)]
  BY DEF AgentFrame
<1>2. BridgeTypes'
  BY <1>0, MoveEffect
<1>3. /\ wire[b] \in Seq(Nat) /\ pending[b] \in Seq(Nat) /\ got[b] \in Seq(Nat) /\ typed[b] \in Nat
      /\ input \in [Workspaces -> Seq(Bridges \X Nat)] /\ held \in [Workspaces -> Seq(Bridges \X Nat)]
  BY <1>0 DEF FrameTypes
<1>4. PICK f \in Nat : f = Head(wire[b])
  BY <1>1, <1>3, TailEntries
<1>5. /\ wire' \in [Bridges -> Seq(Nat)] /\ wire'[b] = Tail(wire[b])
      /\ \A c \in Bridges \ {b} : wire'[c] = wire[c]
  <2>1. Tail(wire[b]) \in Seq(Nat)
    BY <1>1, <1>3, TailEntries
  <2> QED BY <1>0, <1>1, <2>1 DEF FrameTypes
<1>6. Passed(b) \in SUBSET Nat /\ Line(Passed(b), wire[b], pending[b], typed[b])
  BY <1>0 DEF BridgeFrames, Passed
<1>7. \A x \in Passed(b) : x < f
  BY <1>1, <1>3, <1>4, <1>6, LinePassed
<1>8. agent[b] # "none" /\ browser[b] # "none"
  BY <1>0, <1>1 DEF BridgeFrames
<1> DEFINE L == upstream[b] \in {"connecting", "open"}
           A == agent[b] \in {"none", "attached"}
<1>9. ASSUME Passed(b)' \subseteq Passed(b) \cup {f}, Asc(got'[b]), agent'[b] # "none",
             (kind[b] = "ssh" /\ browser[b] = "open") =>
                Gapless(got'[b], wire'[b], pending[b], typed[b], agent'[b] \in {"none", "attached"}, L)
      PROVE  BridgeFrames(b)'
  <2>1. Line(Passed(b)', wire'[b], pending[b], typed[b])
    BY <1>1, <1>3, <1>4, <1>5, <1>6, <1>9, LinePassed
  <2>2. upstream[b] = "open" => pending[b] = <<>>
    BY <1>0 DEF BridgeFrames
  <2> HIDE DEF L
  <2> QED BY <1>1, <1>8, <1>9, <2>1, <2>2 DEF BridgeFrames, L
<1>10. ASSUME NEW c \in Bridges \ {b}, Passed(c)' \subseteq Passed(c), agent'[c] = agent[c], got'[c] = got[c]
       PROVE  BridgeFrames(c)'
  <2>1. Quiet(c)
    BY <1>1, <1>5, <1>10 DEF Quiet
  <2> QED BY <1>10, <2>1, QuietFrames DEF FrameInv
<1>11. CASE /\ kind[b] = "ssh" /\ agent[b] = "attached"
            /\ got' = [got EXCEPT ![b] = Append(@, f)]
            /\ UNCHANGED <<agent, input, vsock, held>>
  <2>1. /\ Append(got[b], f) \in Seq(Nat) /\ Len(Append(got[b], f)) = Len(got[b]) + 1
        /\ \A i \in 1..Len(got[b]) : Append(got[b], f)[i] = got[b][i]
        /\ Append(got[b], f)[Len(got[b]) + 1] = f /\ Len(got[b]) \in Nat
    BY <1>3, AppendEntries
  <2>2. /\ got' \in [Bridges -> Seq(Nat)] /\ got'[b] = Append(got[b], f)
        /\ \A c \in Bridges \ {b} : got'[c] = got[c]
    BY <1>0, <1>11, <2>1 DEF FrameTypes
  <2>3. FrameTypes'
    BY <1>0, <1>1, <1>5, <1>11, <2>2 DEF FrameTypes
  <2>4. \A i \in 1..Len(got'[b]) : i \in 1..Len(got[b]) \/ i = Len(got[b]) + 1
    BY <2>1, <2>2
  <2>5. Passed(b)' \subseteq Passed(b) \cup {f}
    <3>1. \A i \in 1..Len(got'[b]) : got'[b][i] = f \/ (i \in 1..Len(got[b]) /\ got'[b][i] = got[b][i])
      BY <2>1, <2>2, <2>4
    <3> QED BY <1>11, <3>1 DEF Passed, In
  <2>6. \A i \in 1..Len(got[b]) : got[b][i] \in Nat /\ got[b][i] < f
    BY <1>3, <1>7 DEF Passed
  <2>7. Asc(got'[b])
    <3> SUFFICES ASSUME NEW i \in 1..Len(got'[b]), NEW j \in 1..Len(got'[b]), i < j PROVE got'[b][i] < got'[b][j]
      BY DEF Asc
    <3>1. i \in 1..Len(got[b])
      <4>1. Len(got'[b]) = Len(got[b]) + 1 /\ Len(got[b]) \in Nat
        BY <2>1, <2>2
      <4> QED BY <4>1, IndexPair
    <3>2. CASE j \in 1..Len(got[b])
      BY <1>0, <2>1, <2>2, <3>1, <3>2 DEF BridgeFrames, Asc
    <3>3. CASE j = Len(got[b]) + 1
      BY <2>1, <2>2, <2>6, <3>1, <3>3
    <3> QED BY <2>4, <3>2, <3>3
  <2>8. (kind[b] = "ssh" /\ browser[b] = "open") =>
            Gapless(Append(got[b], f), Tail(wire[b]), pending[b], typed[b], TRUE, L)
    <3>1. (kind[b] = "ssh" /\ browser[b] = "open") =>
            Gapless(got[b], wire[b], pending[b], typed[b], TRUE, L)
      BY <1>0, <1>11 DEF BridgeFrames
    <3>2. L \in BOOLEAN
      OBVIOUS
    <3> HIDE DEF L
    <3> QED BY <1>1, <1>3, <1>4, <3>1, <3>2, GaplessPassed
  <2>9. BridgeFrames(b)'
    <3> HIDE DEF L
    <3>1. agent'[b] = "attached"
      BY <1>11
    <3> QED BY <1>5, <1>9, <2>2, <2>5, <2>7, <2>8, <3>1
  <2>10. ASSUME NEW c \in Bridges \ {b} PROVE BridgeFrames(c)'
    <3>1. Passed(c)' = Passed(c)
      BY <1>11, <2>2, PassedSame
    <3> QED BY <1>10, <1>11, <2>2, <3>1
  <2>11. \A w \in Workspaces : TerminalFrames(w)'
    BY <1>11, TerminalSame
  <2> QED BY <1>2, <2>3, <2>9, <2>10, <2>11 DEF FrameInv
<1>12. ASSUME NEW w \in Workspaces, kind[b] = "terminal", UNCHANGED got,
              agent' = agent \/ agent' = [agent EXCEPT ![b] = "closing"],
              vsock' \in [Workspaces -> {"none", "connecting", "open"}],
              \A x \in Workspaces : vsock'[x] = "open" => vsock[x] = "open",
              \/ /\ vsock[w] = "open" /\ input' = [input EXCEPT ![w] = Append(@, <<b, f>>)]
                 /\ UNCHANGED held
              \/ /\ vsock[w] # "open" /\ held' = [held EXCEPT ![w] = Append(@, <<b, f>>)]
                 /\ UNCHANGED input
       PROVE  FrameInv'
  <2>1. /\ agent' \in [Bridges -> {"none", "attached", "refused", "closing", "gone"}]
        /\ agent'[b] # "none" /\ \A c \in Bridges \ {b} : agent'[c] = agent[c]
    BY <1>0, <1>8, <1>12 DEF FrameTypes
  <2>2. /\ input' \in [Workspaces -> Seq(Bridges \X Nat)] /\ held' \in [Workspaces -> Seq(Bridges \X Nat)]
        /\ \A x \in Workspaces \ {w} : input'[x] = input[x] /\ held'[x] = held[x]
        /\ \A x \in Workspaces : In(b, input'[x]) \cup In(b, held'[x]) \subseteq In(b, input[x]) \cup In(b, held[x]) \cup {f}
        /\ \A x \in Workspaces, c \in Bridges \ {b} :
              In(c, input'[x]) \subseteq In(c, input[x]) /\ In(c, held'[x]) \subseteq In(c, held[x])
    <3>1. CASE input' = [input EXCEPT ![w] = Append(@, <<b, f>>)] /\ UNCHANGED held
      <4>0. Append(input[w], <<b, f>>) \in Seq(Bridges \X Nat)
        <5>1. input[w] \in Seq(Bridges \X Nat) /\ <<b, f>> \in Bridges \X Nat
          BY <1>3
        <5> QED BY <5>1, AppendEntries
      <4>1. /\ input' \in [Workspaces -> Seq(Bridges \X Nat)]
            /\ input'[w] = Append(input[w], <<b, f>>)
            /\ \A x \in Workspaces \ {w} : input'[x] = input[x]
        BY <1>3, <3>1, <4>0
      <4>3. /\ \A x \in Workspaces : In(b, input'[x]) \subseteq In(b, input[x]) \cup {f}
            /\ \A x \in Workspaces, c \in Bridges \ {b} : In(c, input'[x]) \subseteq In(c, input[x])
        BY <1>3, <4>1, AppendedEffect
      <4>2. held' = held
        BY <3>1
      <4> QED BY <1>3, <4>1, <4>2, <4>3
    <3>2. CASE held' = [held EXCEPT ![w] = Append(@, <<b, f>>)] /\ UNCHANGED input
      <4>0. Append(held[w], <<b, f>>) \in Seq(Bridges \X Nat)
        <5>1. held[w] \in Seq(Bridges \X Nat) /\ <<b, f>> \in Bridges \X Nat
          BY <1>3
        <5> QED BY <5>1, AppendEntries
      <4>1. /\ held' \in [Workspaces -> Seq(Bridges \X Nat)]
            /\ held'[w] = Append(held[w], <<b, f>>)
            /\ \A x \in Workspaces \ {w} : held'[x] = held[x]
        BY <1>3, <3>2, <4>0
      <4>3. /\ \A x \in Workspaces : In(b, held'[x]) \subseteq In(b, held[x]) \cup {f}
            /\ \A x \in Workspaces, c \in Bridges \ {b} : In(c, held'[x]) \subseteq In(c, held[x])
        BY <1>3, <4>1, AppendedEffect
      <4>2. input' = input
        BY <3>2
      <4> QED BY <1>3, <4>1, <4>2, <4>3
    <3> QED BY <1>12, <3>1, <3>2
  <2>3. FrameTypes'
    BY <1>0, <1>1, <1>5, <1>12, <2>1, <2>2 DEF FrameTypes
  <2>4. BridgeFrames(b)'
    <3>1. Passed(b)' \subseteq Passed(b) \cup {f}
      BY <1>12, <2>2 DEF Passed
    <3>2. Asc(got'[b])
      BY <1>0, <1>12 DEF BridgeFrames
    <3> QED BY <1>9, <1>12, <2>1, <3>1, <3>2
  <2>5. ASSUME NEW c \in Bridges \ {b} PROVE BridgeFrames(c)'
    <3>1. Passed(c)' \subseteq Passed(c)
      BY <1>12, <2>2 DEF Passed
    <3> QED BY <1>10, <1>12, <2>1, <3>1
  <2>6. ASSUME NEW s \in {input[w], held[w]}, NEW i \in 1..Len(s), s[i][1] = b PROVE s[i][2] < f
    <3>1. s \in Seq(Bridges \X Nat)
      BY <1>3
    <3>2. s[i] \in Bridges \X Nat
      BY <3>1
    <3>3. s[i] = <<b, s[i][2]>> /\ s[i][2] \in Nat
      BY <2>6, <3>2
    <3>4. s[i][2] \in In(b, s)
      BY <3>3 DEF In
    <3>5. s[i][2] \in Passed(b)
      BY <3>3, <3>4 DEF Passed
    <3> QED BY <1>7, <3>5
  <2>7. ASSUME NEW x \in Workspaces PROVE TerminalFrames(x)'
    <3>0. TerminalFrames(x) /\ TerminalFrames(w)
      BY DEF FrameInv
    <3>1. CASE x # w
      BY <1>12, <2>2, <3>0, <3>1 DEF TerminalFrames
    <3>2. input[w] \in Seq(Bridges \X Nat) /\ held[w] \in Seq(Bridges \X Nat)
      BY <1>3
    <3>3. CASE x = w /\ vsock[w] = "open" /\ input' = [input EXCEPT ![w] = Append(@, <<b, f>>)] /\ UNCHANGED held
      <4>1. input'[w] = Append(input[w], <<b, f>>) /\ held'[w] = <<>>
        BY <1>3, <3>0, <3>3 DEF TerminalFrames
      <4>2. AscEach(Append(input[w], <<b, f>>))
        BY <2>6, <3>0, <3>2, EachAppended DEF TerminalFrames
      <4>3. AscEach(<<>>) /\ BeforeEach(input'[w], <<>>)
        BY DEF AscEach, BeforeEach
      <4> QED BY <3>3, <4>1, <4>2, <4>3 DEF TerminalFrames
    <3>4. CASE x = w /\ vsock[w] # "open" /\ held' = [held EXCEPT ![w] = Append(@, <<b, f>>)] /\ UNCHANGED input
      <4>1. held'[w] = Append(held[w], <<b, f>>) /\ input'[w] = input[w]
        BY <1>3, <3>4
      <4>2. AscEach(Append(held[w], <<b, f>>))
        BY <2>6, <3>0, <3>2, EachAppended DEF TerminalFrames
      <4>3. BeforeEach(input[w], held'[w])
        <5>1. /\ Len(held'[w]) = Len(held[w]) + 1 /\ Len(held[w]) \in Nat
              /\ \A i \in 1..Len(held[w]) : held'[w][i] = held[w][i]
              /\ held'[w][Len(held[w]) + 1] = <<b, f>>
          BY <3>2, <4>1, AppendEntries
        <5>2. \A j \in 1..Len(held'[w]) : j \in 1..Len(held[w]) \/ j = Len(held[w]) + 1
          BY <5>1
        <5>3. ASSUME NEW i \in 1..Len(input[w]), NEW j \in 1..Len(held'[w]), input[w][i][1] = held'[w][j][1]
              PROVE  input[w][i][2] < held'[w][j][2]
          <6>1. CASE j \in 1..Len(held[w])
            BY <3>0, <5>1, <5>3, <6>1 DEF TerminalFrames, BeforeEach
          <6>2. CASE j = Len(held[w]) + 1
            <7>1. held'[w][j] = <<b, f>>
              BY <5>1, <6>2
            <7>2. input[w][i][1] = b
              BY <5>3, <7>1
            <7> QED BY <2>6, <7>1, <7>2
          <6> QED BY <5>2, <6>1, <6>2
        <5> QED BY <5>3 DEF BeforeEach
      <4>4. vsock'[w] # "open" /\ AscEach(input[w])
        BY <1>12, <3>0, <3>4 DEF TerminalFrames
      <4> QED BY <3>4, <4>1, <4>2, <4>3, <4>4 DEF TerminalFrames
    <3> QED BY <1>12, <3>1, <3>3, <3>4
  <2> QED BY <1>2, <2>3, <2>4, <2>5, <2>7 DEF FrameInv
<1>13. CASE /\ kind[b] = "ssh" => agent[b] # "attached"
            /\ agent' = [agent EXCEPT ![b] = IF @ = "attached" THEN "closing" ELSE @]
            /\ UNCHANGED <<got, input, vsock, held>>
  <2>1. /\ FrameTypes'
        /\ agent'[b] # "none" /\ \A c \in Bridges \ {b} : agent'[c] = agent[c]
        /\ kind[b] = "ssh" => agent'[b] \notin {"none", "attached"} /\ agent[b] \notin {"none", "attached"}
    BY <1>0, <1>1, <1>5, <1>8, <1>13 DEF FrameTypes
  <2>2. \A c \in Bridges : Passed(c)' = Passed(c)
    BY <1>13, PassedSame
  <2>3. Asc(got'[b])
    BY <1>0, <1>13 DEF BridgeFrames
  <2>4. ASSUME kind[b] = "ssh", browser[b] = "open"
        PROVE  Gapless(got'[b], wire'[b], pending[b], typed[b], agent'[b] \in {"none", "attached"}, L)
    <3>1. Gapless(got[b], wire[b], pending[b], typed[b], A, L)
      BY <1>0, <2>4 DEF BridgeFrames
    <3> QED BY <1>13, <2>1, <2>4, <3>1 DEF Gapless
  <2>5. BridgeFrames(b)'
    <3> HIDE DEF L
    <3> QED BY <1>9, <2>1, <2>2, <2>3, <2>4
  <2>6. \A c \in Bridges \ {b} : BridgeFrames(c)'
    BY <1>10, <1>13, <2>1, <2>2
  <2> QED BY <1>2, <1>13, <2>1, <2>5, <2>6, TerminalSame DEF FrameInv
<1>14. ASSUME kind[b] = "terminal", Write(b, f), UNCHANGED got PROVE FrameInv'
  <2>1. PICK w \in Workspaces : w = home[b]
    BY <1>0, <1>14 DEF BridgeTypes
  <2>2. \/ /\ vsock[w] = "open" /\ input' = [input EXCEPT ![w] = Append(@, <<b, f>>)]
           /\ UNCHANGED <<agent, vsock, held>>
        \/ /\ vsock[w] # "open" /\ held' = [held EXCEPT ![w] = Append(@, <<b, f>>)]
           /\ UNCHANGED input
           /\ \/ Connect(w, 0) /\ UNCHANGED agent
              \/ agent' = [agent EXCEPT ![b] = "closing"] /\ UNCHANGED vsock
    BY <1>14, <2>1 DEF Write
  <2>3. Connect(w, 0) \/ UNCHANGED vsock
    BY <2>2
  <2>4. /\ vsock' \in [Workspaces -> {"none", "connecting", "open"}]
        /\ \A x \in Workspaces : vsock'[x] = "open" => vsock[x] = "open"
    BY <1>0, <2>3 DEF Connect, FrameTypes
  <2> QED BY <1>12, <1>14, <2>2, <2>4
<1> QED BY <1>4, <1>11, <1>13, <1>14 DEF AgentFrame

\* FrameInv is inductive.
LEMMA FrameStep == FrameInv /\ [Next]_vars => FrameInv'
<1> SUFFICES ASSUME FrameInv, [Next]_vars PROVE FrameInv'
  OBVIOUS
<1>1. CASE UNCHANGED vars
  <2>1. BridgeTypes' /\ FrameTypes'
    BY <1>1 DEF FrameInv, BridgeTypes, FrameTypes, vars, frameVars, guestVars
  <2>2. UNCHANGED <<input, held, vsock>> /\ \A c \in Bridges : Quiet(c)
    BY <1>1 DEF Quiet, vars, frameVars, guestVars
  <2> QED BY <2>1, <2>2, QuietStep
<1> QED BY <1>1, UpgradeFrames, ClientFrames, OpenFrames, CloseFrames, QuietSteps, AgentFrames,
           VsockFrames, SocketFrames DEF Next, BridgeStep, SocketStep

\* Whatever closes, breaks, retries or overflows in between, a terminal gets
\* the frames of each client in the order they were typed and at most once,
\* and so does an SSH endpoint, which has missed none while its client is open.
THEOREM FramesAlwaysInOrder == Spec => []FramesInOrder
<1>1. FrameInv => FramesInOrder
  <2> SUFFICES ASSUME FrameInv PROVE FramesInOrder
    OBVIOUS
  <2>1. ASSUME NEW w \in Workspaces, NEW i \in DOMAIN input[w], NEW j \in DOMAIN input[w],
               i < j, input[w][i][1] = input[w][j][1]
        PROVE  input[w][i][2] < input[w][j][2]
    <3>1. DOMAIN input[w] = 1..Len(input[w]) /\ AscEach(input[w])
      BY DEF FrameInv, FrameTypes, TerminalFrames
    <3> QED BY <2>1, <3>1 DEF AscEach
  <2>2. ASSUME NEW b \in Bridges
        PROVE  DOMAIN got[b] = 1..Len(got[b]) /\ Asc(got[b])
    BY DEF FrameInv, FrameTypes, BridgeFrames
  <2>3. ASSUME NEW b \in Bridges, kind[b] = "ssh", browser[b] = "open", NEW i \in DOMAIN got[b]
        PROVE  got[b][i] = i
    BY <2>2, <2>3 DEF FrameInv, BridgeFrames, Gapless
  <2> QED BY <2>1, <2>2, <2>3 DEF FramesInOrder, Asc
<1>2. FrameInv /\ [Next]_vars => FrameInv'
  BY FrameStep
<1> QED BY <1>1, <1>2, FrameInit, PTL DEF Spec

===============================================================================
