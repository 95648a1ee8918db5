------------------------------ MODULE WebProofs ------------------------------
(***************************************************************************)
(* The guarantees of the two ends of the web interface.  The page: for any *)
(* number of workspaces, requests and sockets, a terminal is open only for *)
(* the workspace the page has loaded.  Sign-in: for any number of          *)
(* challenges, requests, networks and sessions.  The invariant that        *)
(* carries the latter says of every session that its challenge can never   *)
(* be consumed again, and of every request in its await that the           *)
(* challenge's network is the one it came from; it says nothing of whether *)
(* that challenge still has a row.                                         *)
(***************************************************************************)
EXTENDS SignIn, WorkspacePage, TLAPS

-------------------------------------------------------------------------------
(* The page *)

Wires == [st : {"free", "open", "closing"}, id : 0..MaxWorkspaces]
Pages == [loaded : 0..MaxWorkspaces, socket : Sockets \cup {NoSocket},
          timer : BOOLEAN, ceremony : BOOLEAN]
Flights == [op : Ops, ans : {"none", "ok", "out", "denied", "error"}, view : View]

\* What the sockets are argued from: the page's record and the browser's
\* sockets are typed, and so are the answers that bring workspaces to the page.
ViewTypes ==
    /\ srv \in View
    /\ requests \in [Calls -> Flights]
SocketTypes == page \in Pages /\ wire \in [Sockets -> Wires]

TrackInv == ViewTypes /\ SocketTypes /\ TerminalTracked

\* Socket 0 does not exist.
LEMMA NoSocketIsNone == NoSocket \notin Sockets
BY PageAssumption DEF NoSocket, Sockets

\* A page that was just loaded.
LEMMA TrackInit == PageInit => TrackInv
<1> SUFFICES ASSUME PageInit PROVE TrackInv
  OBVIOUS
<1> USE PageAssumption
<1>1. None \in View /\ Idle \in Flights /\ Sent("session") \in Flights
  BY DEF None, View, Idle, Sent, Flights, Ops, Auth, Guarded
<1>2. ViewTypes
  BY <1>1 DEF PageInit, ViewTypes, View
<1>3. SocketTypes
  BY DEF PageInit, SocketTypes, Pages, Wires, Nothing
<1>4. TerminalTracked
  BY DEF PageInit, TerminalTracked, Nothing
<1> QED BY <1>2, <1>3, <1>4 DEF TrackInv

\* What a step may do to the requests: one of them is replaced by another.
LEMMA RequestTypes ==
    ASSUME ViewTypes, NEW r \in Calls, NEW q \in Flights, srv' \in View,
           requests' = [requests EXCEPT ![r] = q]
    PROVE  ViewTypes'
BY DEF ViewTypes, Flights

\* An answer.
LEMMA AnswerTypes ==
    ASSUME ViewTypes, NEW r \in Calls, NEW ans \in {"none", "ok", "out", "denied", "error"},
           NEW v \in View, srv' \in View, Answer(r, ans, v)
    PROVE  ViewTypes'
BY DEF ViewTypes, Answer, Flights

\* A request that is sent, with an answer or without.
LEMMA SentTypes ==
    ASSUME NEW op \in Ops
    PROVE  /\ None \in View /\ Idle \in Flights /\ Sent(op) \in Flights
           /\ [Sent(op) EXCEPT !.ans = "denied"] \in Flights
<1>1. None \in View
  BY PageAssumption DEF None, View
<1>2. "idle" \in Ops
  BY DEF Ops
<1>3. Idle \in Flights /\ Sent(op) \in Flights
  BY <1>1, <1>2 DEF Idle, Flights, Sent
<1> QED BY <1>1, <1>3 DEF Flights

\* The control plane answers with workspaces that exist.
LEMMA ServeTypes ==
    ASSUME ViewTypes, NEW r \in Calls, Serve(r)
    PROVE  ViewTypes'
<1> USE DEF srvVars
<1>0. srv \in View /\ None \in View /\ Current \in View /\ Sent("stopping") \in Flights
  BY SentTypes DEF ViewTypes, Current, Ops
<1>1. CASE Refuse(r) \/ Reject(r) \/ ServeSession(r) \/ ServeCurrent(r) \/ ServeVolume(r) \/ ServeAuth(r)
  BY <1>0, <1>1, AnswerTypes DEF Refuse, Reject, ServeSession, ServeCurrent, ServeVolume, ServeAuth
<1>2. CASE ServeCreate(r)
  <2>1. srv' \in View /\ Answer(r, "ok", srv')
    BY <1>0, <1>2, PageAssumption DEF ServeCreate, View
  <2>2. PICK v \in View : Answer(r, "ok", v)
    BY <2>1
  <2> QED BY <2>1, <2>2, AnswerTypes
<1>3. CASE ServeStop(r)
  <2>1. srv' \in View
    BY <1>0, <1>3 DEF ServeStop, View
  <2>2. Answer(r, "ok", None) \/ requests' = [requests EXCEPT ![r] = Sent("stopping")]
    BY <1>3 DEF ServeStop
  <2> QED BY <1>0, <2>1, <2>2, AnswerTypes, RequestTypes
<1> QED BY <1>1, <1>2, <1>3 DEF Serve

\* The page's sockets and what it has loaded are left alone.
SocketsKept == /\ page'.loaded = page.loaded /\ page'.socket = page.socket
               /\ page' \in Pages
               /\ UNCHANGED <<wire, orphans>>

LEMMA KeptTracked ==
    ASSUME SocketTypes, TerminalTracked, SocketsKept
    PROVE  SocketTypes' /\ TerminalTracked'
BY DEF SocketTypes, TerminalTracked, SocketsKept

\* closeWorkspaceResources leaves no open socket but those it has forgotten.
LEMMA CloseTracked ==
    ASSUME SocketTypes, TerminalTracked, CloseResources, UNCHANGED orphans
    PROVE  SocketTypes' /\ TerminalTracked'
<1> USE NoSocketIsNone DEF SocketTypes, CloseResources, Closing, Nothing, Wires
<1>1. SocketTypes'
  BY PageAssumption DEF Pages
<1>2. \A s \in Sockets : wire'[s].st = "open" => wire[s].st = "open" /\ s # page.socket
  BY DEF Pages
<1> QED BY <1>1, <1>2 DEF TerminalTracked

\* A socket that is opened is a free one.
LEMMA FreeSocket ==
    ASSUME NEW w, NEW s \in Free(w)
    PROVE  s \in Sockets /\ w[s].st = "free"
BY DEF Free, Least

\* renderWorkspace: a socket is opened only in the place of none, or of one
\* that is closed in the same step.
LEMMA RenderTracked ==
    ASSUME SocketTypes, TerminalTracked, NEW v \in View, Render(v), UNCHANGED orphans
    PROVE  SocketTypes' /\ TerminalTracked'
<1>1. CASE CloseResources
  BY <1>1, CloseTracked
<1>2. CASE page' = [page EXCEPT !.timer = Polled(v)] /\ UNCHANGED wire
  <2>1. Polled(v) \in BOOLEAN
    BY DEF Polled
  <2>2. SocketsKept
    BY <1>2, <2>1 DEF SocketsKept, SocketTypes, Pages
  <2> QED BY <2>2, KeptTracked
<1>3. CASE ShowRunning(v)
  <2> DEFINE other == page.loaded # v.id
             w == IF other THEN Closing(wire) ELSE wire
             kept == ~other /\ page.socket # NoSocket
  <2>1. PICK s \in IF kept THEN {page.socket} ELSE Free(w) :
            /\ page' = [loaded |-> v.id, socket |-> s, timer |-> Polled(v), ceremony |-> TRUE]
            /\ wire' = IF kept THEN w ELSE Open(w, s, v.id)
    BY <1>3 DEF ShowRunning
  <2>2. w \in [Sockets -> Wires]
    BY DEF SocketTypes, Closing, Wires, Pages
  <2>3. s \in Sockets /\ v.id \in 0..MaxWorkspaces /\ Polled(v) \in BOOLEAN
    BY <2>1, FreeSocket DEF SocketTypes, Pages, View, Polled
  <2>4. page' \in Pages /\ page'.socket = s /\ page'.loaded = v.id
    BY <2>1, <2>3 DEF Pages
  <2>5. CASE kept
    <3>1. wire' = wire /\ s = page.socket /\ page.loaded = v.id
      BY <2>1, <2>5
    <3> QED BY <2>3, <2>4, <3>1 DEF SocketTypes, TerminalTracked
  <2>6. CASE ~kept
    <3>1. wire' = [w EXCEPT ![s] = [st |-> "open", id |-> v.id]]
      BY <2>1, <2>6 DEF Open
    <3>2. \A t \in Sockets : w[t].st = "open" => t \in orphans
      BY <2>6, NoSocketIsNone DEF SocketTypes, TerminalTracked, Closing, Wires, Pages
    <3>3. wire' \in [Sockets -> Wires]
      BY <2>2, <2>3, <3>1 DEF Wires
    <3>4. wire'[s] = [st |-> "open", id |-> v.id] /\ \A t \in Sockets \ {s} : wire'[t] = w[t]
      BY <2>2, <2>3, <3>1
    <3>5. TerminalTracked'
      BY <2>3, <2>4, <3>2, <3>4 DEF TerminalTracked
    <3> QED BY <2>4, <3>3, <3>5 DEF SocketTypes
  <2> QED BY <2>5, <2>6
<1> QED BY <1>1, <1>2, <1>3 DEF Render

\* An answer that is handled: the session, then the workspace.
LEMMA DeliverTracked ==
    ASSUME TrackInv, NEW r \in Calls, Deliver(r)
    PROVE  TrackInv'
<1> USE DEF TrackInv
<1>0. UNCHANGED orphans /\ srv' \in View
  BY DEF Deliver, srvVars, ViewTypes
<1>1. requests[r].view \in View /\ None \in View
  BY SentTypes DEF ViewTypes, Flights, Ops
<1>2. ViewTypes'
  <2>1. \E q \in Flights : requests' = [requests EXCEPT ![r] = q]
    <3>1. Finish(r) \/ \E op \in Ops : Go(r, op)
      BY DEF Deliver, ExpireSession, Message, LoadSession, LoadSignedOut, Apply, VolumeDeleted,
         Stopped, Verified, NotConfirmed, Invalidated, LoggedOut, Ops, Guarded
    <3> QED BY <3>1, SentTypes DEF Finish, Go, Ops
  <2> QED BY <1>0, <2>1, RequestTypes
<1>3. \/ CloseResources
      \/ UNCHANGED <<page, wire>>
      \/ \E v \in View : Render(v)
  BY <1>1 DEF Deliver, ExpireSession, Message, LoadSession, LoadSignedOut, Apply, VolumeDeleted,
     Stopped, Verified, NotConfirmed, Invalidated, LoggedOut, SignOut, Show
<1>4. SocketTypes' /\ TerminalTracked'
  <2>1. ASSUME UNCHANGED <<page, wire>> PROVE SocketsKept
    BY <2>1, <1>0 DEF SocketsKept, SocketTypes
  <2> QED BY <1>0, <1>3, <2>1, CloseTracked, RenderTracked, KeptTracked
<1> QED BY <1>2, <1>4

\* The close event: the socket the page knew is forgotten, and becomes an
\* orphan unless it is the one that was closed.
LEMMA ClosedTracked ==
    ASSUME TrackInv, NEW s \in Sockets, NEW clean \in BOOLEAN, SocketCloses(s, clean)
    PROVE  TrackInv'
<1> USE DEF TrackInv
<1>1. ViewTypes'
  BY DEF SocketCloses, ViewTypes, srvVars
<1>2. page' \in Pages /\ page'.socket = NoSocket
  BY DEF SocketCloses, SocketTypes, Pages
<1>3. wire' \in [Sockets -> Wires] /\ wire'[s].st = "free" /\ \A t \in Sockets \ {s} : wire'[t] = wire[t]
  BY PageAssumption DEF SocketCloses, SocketTypes, Wires
<1>4. orphans' = (orphans \cup ({page.socket} \ {NoSocket})) \ {s}
  BY DEF SocketCloses
<1>5. TerminalTracked'
  BY <1>2, <1>3, <1>4, NoSocketIsNone DEF TerminalTracked
<1> QED BY <1>1, <1>2, <1>3, <1>5 DEF SocketTypes

\* A reconnect timer opens a socket only for the workspace the page still
\* has, and only when it has no socket.
LEMMA ReconnectTracked ==
    ASSUME TrackInv, NEW i \in Ids, ReconnectFires(i)
    PROVE  TrackInv'
<1> USE DEF TrackInv
<1>1. ViewTypes'
  BY DEF ReconnectFires, ViewTypes, srvVars
<1>2. CASE UNCHANGED <<page, wire>>
  <2>1. SocketsKept
    BY <1>2 DEF SocketsKept, SocketTypes, ReconnectFires
  <2> QED BY <1>1, <2>1, KeptTracked
<1>3. CASE Reopens(i) /\ \E s \in Free(wire) : page' = [page EXCEPT !.socket = s] /\ wire' = Open(wire, s, i)
  <2>1. PICK s \in Free(wire) : page' = [page EXCEPT !.socket = s] /\ wire' = Open(wire, s, i)
    BY <1>3
  <2>2. s \in Sockets /\ i \in 0..MaxWorkspaces /\ page.loaded = i /\ page.socket = NoSocket
    BY <1>3, FreeSocket, PageAssumption DEF Reopens, Ids
  <2>3. page' \in Pages /\ page'.socket = s /\ page'.loaded = i
    BY <2>1, <2>2 DEF SocketTypes, Pages
  <2>4. /\ wire' \in [Sockets -> Wires] /\ wire'[s] = [st |-> "open", id |-> i]
        /\ \A t \in Sockets \ {s} : wire'[t] = wire[t]
    BY <2>1, <2>2 DEF SocketTypes, Wires, Open
  <2>5. UNCHANGED orphans
    BY DEF ReconnectFires
  <2>6. TerminalTracked'
    BY <2>2, <2>3, <2>4, <2>5, NoSocketIsNone DEF TerminalTracked
  <2> QED BY <1>1, <2>3, <2>4, <2>6 DEF SocketTypes
<1> QED BY <1>2, <1>3 DEF ReconnectFires

\* A request that is sent.
LEMMA SendTypes ==
    ASSUME ViewTypes, NEW op \in Ops, Send(op)
    PROVE  ViewTypes'
<1>1. PICK r \in Calls : Go(r, op)
  BY DEF Send, Least
<1> QED BY <1>1, SentTypes, RequestTypes DEF Go, Send, srvVars, ViewTypes

\* The user, the wallet, the poll timer and the tools send requests.
LEMMA SendersTracked ==
    ASSUME TrackInv, Click \/ WalletChanges \/ PollFires \/ ToolRefused
    PROVE  TrackInv'
<1> USE DEF TrackInv
<1>1. ViewTypes'
  <2>1. CASE Click
    BY <2>1, SendTypes DEF Click, Ops, Guarded, Auth
  <2>2. CASE WalletChanges
    <3>1. CASE Send("invalidate")
      BY <3>1, SendTypes DEF Ops, Auth
    <3>2. CASE UNCHANGED <<requests, srvVars, failed>>
      BY <3>2 DEF ViewTypes, srvVars
    <3> QED BY <2>2, <3>1, <3>2 DEF WalletChanges
  <2>3. CASE PollFires
    BY <2>3, SendTypes DEF PollFires, Ops, Guarded
  <2>4. CASE ToolRefused
    <3>1. PICK r \in Calls : requests' = [requests EXCEPT ![r] = [Sent("tool") EXCEPT !.ans = "denied"]]
      BY <2>4 DEF ToolRefused, Least
    <3> QED BY <2>4, <3>1, SentTypes, RequestTypes DEF ToolRefused, srvVars, ViewTypes, Ops
  <2> QED BY <2>1, <2>2, <2>3, <2>4
<1>2. CASE WalletChanges /\ CloseResources
  BY <1>1, <1>2, CloseTracked DEF WalletChanges
<1>3. CASE UNCHANGED <<page, wire, orphans>> \/ PollFires
  <2>1. SocketsKept
    BY <1>3 DEF SocketsKept, SocketTypes, PollFires, Pages
  <2> QED BY <1>1, <2>1, KeptTracked
<1>4. \/ WalletChanges /\ CloseResources
      \/ UNCHANGED <<page, wire, orphans>> \/ PollFires
  BY DEF Click, WalletChanges, ToolRefused, SignOut, pageVars
<1> QED BY <1>2, <1>3, <1>4

\* The control plane and the network leave the page alone.
LEMMA OthersTracked ==
    ASSUME TrackInv,
           \/ \E r \in Calls : Serve(r) \/ Fail(r)
           \/ ServerMoves \/ SessionEnds \/ UNCHANGED allVars
    PROVE  TrackInv'
<1> USE DEF TrackInv
<1>1. UNCHANGED <<page, wire, orphans>>
  BY DEF Serve, Fail, ServerMoves, SessionEnds, allVars, pageVars
<1>2. ViewTypes'
  <2>1. ASSUME NEW r \in Calls, Fail(r) PROVE ViewTypes'
    BY <2>1, SentTypes, AnswerTypes DEF Fail, srvVars, ViewTypes, Ops
  <2>2. CASE ServerMoves
    BY <2>2 DEF ServerMoves, ViewTypes, View
  <2>3. CASE SessionEnds \/ UNCHANGED allVars
    BY <2>3 DEF SessionEnds, allVars, srvVars, ViewTypes
  <2> QED BY <2>1, <2>2, <2>3, ServeTypes
<1>3. SocketsKept
  BY <1>1 DEF SocketsKept, SocketTypes
<1> QED BY <1>2, <1>3, KeptTracked

\* TrackInv is inductive.
LEMMA TrackStep == TrackInv /\ [PageNext]_allVars => TrackInv'
BY DeliverTracked, ClosedTracked, ReconnectTracked, SendersTracked, OthersTracked DEF PageNext

\* Whatever order close events, reconnect timers, answers, sign-outs and
\* wallet changes come in, a terminal that is open is the one the page tracks,
\* for the workspace it has loaded, or one a late close event made it forget.
THEOREM TerminalAlwaysTracked == PageSpec => []TerminalTracked
<1>1. TrackInv => TerminalTracked
  BY DEF TrackInv
<1> QED BY TrackInit, TrackStep, <1>1, PTL DEF PageSpec

-------------------------------------------------------------------------------
(* The chain of polls *)

\* The requests whose answer shows the workspace the server has.
Asks == {"refresh", "session"}

\* Of these, only one that failed is answered with an error, and the session
\* can always be asked for.
AskedInv ==
    \A r \in Calls : requests[r].op \in Asks =>
        /\ requests[r].ans = "error" => failed
        /\ requests[r].op = "session" => requests[r].ans # "denied"

PollInv == TrackInv /\ AskedInv /\ PollGoesOn

\* The page asks for the session first, and shows nothing.
LEMMA PollInit == PageInit => PollInv
<1> SUFFICES ASSUME PageInit PROVE PollInv
  OBVIOUS
<1>1. TrackInv
  BY TrackInit
<1>2. AskedInv
  BY DEF PageInit, AskedInv, Asks, Sent, Idle
<1>3. PollGoesOn
  BY DEF PageInit, PollGoesOn, Inactive, None
<1> QED BY <1>1, <1>2, <1>3 DEF PollInv

\* A request that was none of these, or one that still is, keeps the chain.
\* The other requests, the workspace shown and the timer are as before.
LEMMA ChainKept ==
    ASSUME PollInv, shown' = shown, page'.timer = page.timer, failed => failed',
           \A r \in Calls : requests[r].op \in Asks => requests'[r].op \in Asks \/ failed'
    PROVE  PollGoesOn'
BY DEF PollInv, PollGoesOn, InFlight, Asks, Inactive

\* renderWorkspace sets the timer for every active workspace.
LEMMA ShowPolls ==
    ASSUME SocketTypes, NEW v \in View, Show(v)
    PROVE  PollGoesOn'
<1>1. shown' = v
  BY DEF Show
<1>2. CASE Inactive(v)
  BY <1>1, <1>2 DEF PollGoesOn, Inactive
<1>3. CASE ~Inactive(v)
  <2>1. CASE ShowRunning(v)
    <3>1. page'.timer = Polled(v)
      BY <2>1 DEF ShowRunning
    <3>2. page'.timer
      BY <1>3, <3>1 DEF Polled
    <3> QED BY <3>2 DEF PollGoesOn
  <2>2. CASE page' = [page EXCEPT !.timer = Polled(v)]
    BY <1>1, <1>3, <2>2 DEF Polled, PollGoesOn, SocketTypes, Pages
  <2> QED BY <1>3, <2>1, <2>2 DEF Show, Render
<1> QED BY <1>2, <1>3

\* signing out shows no workspace.
LEMMA SignOutPolls ==
    ASSUME SignOut
    PROVE  PollGoesOn'
BY DEF SignOut, PollGoesOn, Inactive, None

\* Every request is as before, is none of these, or has no refusal to show,
\* or a request has failed.
LEMMA AskedKept ==
    ASSUME AskedInv, failed => failed',
           \A r \in Calls :
                \/ requests'[r] = requests[r]
                \/ requests'[r].op \notin Asks
                \/ requests'[r].ans \notin {"error", "denied"}
                \/ requests'[r].ans = "error" /\ failed'
                \/ requests'[r].ans = "denied" /\ requests'[r].op = "refresh"
    PROVE  AskedInv'
BY DEF AskedInv

\* The control plane keeps what a request asks, and refuses what needs a
\* session.
LEMMA ServePolls ==
    ASSUME PollInv, NEW r \in Calls, Serve(r)
    PROVE  AskedInv' /\ PollGoesOn'
<1> USE DEF PollInv, TrackInv, ViewTypes
<1>1. UNCHANGED <<shown, page, failed>>
  BY DEF Serve, pageVars
<1>2. \A q \in Calls \ {r} : requests'[q] = requests[q]
  BY DEF Serve, Answer, Refuse, Reject, ServeSession, ServeCurrent, ServeCreate, ServeStop,
     ServeVolume, ServeAuth
<1>3. \/ requests'[r].op = requests[r].op
      \/ requests[r].op = "stop" /\ requests'[r].op = "stopping"
  BY DEF Serve, Answer, Refuse, Reject, ServeSession, ServeCurrent, ServeCreate, ServeStop,
     ServeVolume, ServeAuth, Sent, Idle, Flights
<1>4. requests[r].op \in Asks => requests'[r].ans # "error" /\ (requests[r].op = "session" => requests'[r].ans # "denied")
  BY DEF Serve, Answer, Refuse, Reject, ServeSession, ServeCurrent, ServeCreate, ServeStop,
     ServeVolume, ServeAuth, Sent, Idle, Flights, Asks, Guarded, Auth
<1>5. AskedInv'
  BY <1>1, <1>2, <1>3, <1>4, AskedKept DEF Asks
<1>6. PollGoesOn'
  BY <1>1, <1>2, <1>3, ChainKept DEF Asks
<1> QED BY <1>5, <1>6

\* A request that is lost.
LEMMA FailPolls ==
    ASSUME PollInv, NEW r \in Calls, Fail(r)
    PROVE  AskedInv' /\ PollGoesOn'
<1>1. failed'
  BY DEF Fail
<1>2. PollGoesOn'
  BY <1>1 DEF PollGoesOn
<1>3. \A q \in Calls : requests'[q] = requests[q] \/ requests'[q].ans = "error"
  BY DEF Fail, Answer, PollInv, TrackInv, ViewTypes, Flights
<1> QED BY <1>1, <1>2, <1>3, AskedKept DEF PollInv

\* A request sent in a free place, with the answer it has already.
LEMMA SendPolls ==
    ASSUME PollInv, NEW r \in Calls, requests[r] = Idle, NEW f \in Flights,
           f.ans \notin {"error", "denied"} \/ f.op \notin Asks,
           requests' = [requests EXCEPT ![r] = f], UNCHANGED failed
    PROVE  /\ AskedInv'
           /\ shown' = shown /\ page'.timer = page.timer => PollGoesOn'
           /\ f.op \in Asks => PollGoesOn'
<1> USE DEF PollInv, TrackInv, ViewTypes
<1>1. requests'[r] = f /\ \A q \in Calls \ {r} : requests'[q] = requests[q]
  OBVIOUS
<1>2. AskedInv'
  BY <1>1, AskedKept
<1>3. requests[r].op \notin Asks
  BY DEF Idle, Asks
<1>4. ASSUME shown' = shown, page'.timer = page.timer PROVE PollGoesOn'
  BY <1>1, <1>3, <1>4, ChainKept
<1>5. ASSUME f.op \in Asks PROVE PollGoesOn'
  BY <1>1, <1>5 DEF PollGoesOn, InFlight, Asks
<1> QED BY <1>2, <1>4, <1>5

\* The user, the wallet, the timer and the tools.
LEMMA SendersPoll ==
    ASSUME PollInv, Click \/ WalletChanges \/ PollFires \/ ToolRefused
    PROVE  AskedInv' /\ PollGoesOn'
<1>1. ASSUME NEW op \in Ops, Send(op)
      PROVE  /\ AskedInv'
             /\ shown' = shown /\ page'.timer = page.timer => PollGoesOn'
             /\ op \in Asks => PollGoesOn'
  <2>1. PICK r \in Calls : requests[r] = Idle /\ requests' = [requests EXCEPT ![r] = Sent(op)]
    BY <1>1 DEF Send, Least, Go
  <2>2. Sent(op) \in Flights /\ Sent(op).ans = "none" /\ Sent(op).op = op /\ UNCHANGED failed
    BY <1>1, SentTypes DEF Sent, Idle, Send
  <2> QED BY <2>1, <2>2, SendPolls
<1>2. CASE Click
  <2>1. PICK op \in Ops : Send(op)
    BY <1>2 DEF Click, Ops, Guarded, Auth
  <2> QED BY <1>1, <1>2, <2>1 DEF Click, pageVars
<1>3. CASE WalletChanges
  <2>1. CASE Send("invalidate") /\ UNCHANGED <<shown, page>>
    BY <1>1, <2>1 DEF Ops, Auth
  <2>2. CASE SignOut /\ UNCHANGED <<requests, failed>>
    BY <2>2, SignOutPolls, AskedKept DEF PollInv
  <2> QED BY <1>3, <2>1, <2>2 DEF WalletChanges
<1>4. CASE PollFires
  BY <1>1, <1>4 DEF PollFires, Ops, Guarded, Asks
<1>5. CASE ToolRefused
  <2> DEFINE f == [Sent("tool") EXCEPT !.ans = "denied"]
  <2>1. PICK r \in Calls : requests[r] = Idle /\ requests' = [requests EXCEPT ![r] = f]
    BY <1>5 DEF ToolRefused, Least
  <2>2. f \in Flights /\ f.op \notin Asks /\ UNCHANGED <<shown, page, failed>>
    BY <1>5, SentTypes DEF Sent, Idle, Asks, Ops, ToolRefused, pageVars
  <2> HIDE DEF f
  <2> QED BY <2>1, <2>2, SendPolls
<1> QED BY <1>2, <1>3, <1>4, <1>5

\* An answer that is handled shows a workspace, and asks again when that is
\* active; or signs out; or asks for another; or was none of those asked for.
LEMMA DeliverPolls ==
    ASSUME PollInv, NEW r \in Calls, Deliver(r)
    PROVE  AskedInv' /\ PollGoesOn'
<1> USE DEF PollInv, TrackInv
<1>0. UNCHANGED failed /\ requests[r].view \in View /\ None \in View
  BY SentTypes DEF Deliver, ViewTypes, Flights, Ops
<1>1. \E op \in Ops : requests' = [requests EXCEPT ![r] = Sent(op)]
  <2>1. Idle = Sent("idle") /\ "idle" \in Ops
    BY DEF Idle, Sent, Ops
  <2>2. Finish(r) \/ \E op \in Ops : Go(r, op)
    BY DEF Deliver, ExpireSession, Message, LoadSession, LoadSignedOut, Apply, VolumeDeleted,
       Stopped, Verified, NotConfirmed, Invalidated, LoggedOut, Ops, Guarded
  <2> QED BY <2>1, <2>2 DEF Finish, Go
<1>2. PICK op \in Ops : requests' = [requests EXCEPT ![r] = Sent(op)]
  BY <1>1
<1>3. Sent(op).op = op /\ Sent(op).ans = "none"
  BY DEF Sent, Idle
<1>4. requests'[r] = Sent(op) /\ \A q \in Calls \ {r} : requests'[q] = requests[q]
  BY <1>2 DEF ViewTypes
<1>5. AskedInv'
  BY <1>0, <1>3, <1>4, AskedKept
<1>6. CASE SignOut
  BY <1>5, <1>6, SignOutPolls
<1>7. CASE \E v \in View : Show(v)
  BY <1>5, <1>7, ShowPolls
<1>8. CASE op \in Asks
  BY <1>3, <1>4, <1>5, <1>8 DEF PollGoesOn, InFlight, Asks
<1>9. CASE UNCHANGED <<shown, page>> /\ (requests[r].op \in Asks => failed)
  BY <1>0, <1>4, <1>5, <1>9, ChainKept
<1>10. \/ SignOut
       \/ \E v \in View : Show(v)
       \/ op \in Asks
       \/ UNCHANGED <<shown, page>> /\ (requests[r].op \in Asks => failed)
  <2>1. CASE Stopped(r) \/ LoggedOut(r)
    <3>1. requests'[r] = Sent("refresh") \/ requests'[r] = Sent("session")
      BY <2>1 DEF Stopped, LoggedOut, Go, ViewTypes
    <3>2. requests'[r].op \in Asks
      BY <3>1 DEF Sent, Idle, Asks
    <3> QED BY <1>3, <1>4, <3>2
  <2>2. CASE Message(r)
    BY <2>2 DEF Message, Expires, AskedInv, Asks, Auth
  <2>3. CASE Verified(r) \/ NotConfirmed(r)
    BY <2>3 DEF Verified, NotConfirmed, Asks
  <2>4. CASE ExpireSession(r) \/ LoadSession(r) \/ LoadSignedOut(r) \/ Apply(r) \/ VolumeDeleted(r)
             \/ Invalidated(r)
    BY <1>0, <2>4 DEF ExpireSession, LoadSession, LoadSignedOut, Apply, VolumeDeleted, Invalidated
  <2> QED BY <2>1, <2>2, <2>3, <2>4 DEF Deliver
<1> QED BY <1>6, <1>7, <1>8, <1>9, <1>10

\* The sockets, the reconnect timers and the control plane of itself leave
\* the poll timer and the requests alone.
LEMMA OthersPoll ==
    ASSUME PollInv,
           \/ \E s \in Sockets, clean \in BOOLEAN : SocketCloses(s, clean)
           \/ \E i \in Ids : ReconnectFires(i)
           \/ ServerMoves \/ SessionEnds \/ UNCHANGED allVars
    PROVE  AskedInv' /\ PollGoesOn'
<1>1. UNCHANGED <<requests, shown, failed>>
  BY DEF SocketCloses, ReconnectFires, ServerMoves, SessionEnds, allVars, pageVars
<1>2. page'.timer = page.timer
  BY DEF SocketCloses, ReconnectFires, ServerMoves, SessionEnds, allVars, pageVars, PollInv, TrackInv,
     SocketTypes, Pages
<1> QED BY <1>1, <1>2, AskedKept, ChainKept DEF PollInv

\* PollInv is inductive.
LEMMA PollStep == PollInv /\ [PageNext]_allVars => PollInv'
<1> SUFFICES ASSUME PollInv, [PageNext]_allVars PROVE PollInv'
  OBVIOUS
<1>1. TrackInv'
  BY TrackStep DEF PollInv
<1>2. AskedInv' /\ PollGoesOn'
  BY ServePolls, FailPolls, DeliverPolls, SendersPoll, OthersPoll DEF PageNext
<1> QED BY <1>1, <1>2 DEF PollInv

\* The page never shows an active workspace that it will not ask for again,
\* unless a request failed: no order of answers breaks the chain of polls.
THEOREM PollAlwaysGoesOn == PageSpec => []PollGoesOn
<1>1. PollInv => PollGoesOn
  BY DEF PollInv
<1> QED BY PollInit, PollStep, <1>1, PTL DEF PageSpec

-------------------------------------------------------------------------------
(* Sign-in *)

USE SignInAssumption

\* The challenge of a session is spent, and a row not yet used has none.
SpentInv ==
    \A t \in Tokens :
        /\ session[t] = "unused" => origin[t] = NoNonce
        /\ origin[t] # NoNonce => challenge[origin[t]] \in {"consumed", "deleted"}

\* What a verify request read before its await still holds of the row's
\* immutable columns.
ClaimInv ==
    \A r \in Requests : request[r] = "verifying" =>
        /\ claim[r] \in Claims
        /\ challenge[claim[r].nonce] # "unused"
        /\ issuedTo[claim[r].nonce] = claim[r].ip

\* A challenge outlives its deletion in what was made from it.
SessionInv == SpentInv /\ SingleUse /\ SessionsProven

SignInInv == TypeOK /\ ClaimInv /\ SessionInv

\* An empty database.
LEMMA SignInInit == Init => SignInInv
<1> SUFFICES ASSUME Init PROVE SignInInv
  OBVIOUS
<1>1. TypeOK
  BY DEF Init, TypeOK, NoClaim, NoHolder
<1>2. ClaimInv /\ SessionInv
  BY DEF Init, ClaimInv, SessionInv, SpentInv, SingleUse, SessionsProven
<1> QED
  BY <1>1, <1>2 DEF SignInInv

\* Challenges come, are signed and go, sessions go, requests are lost:
\* nothing here makes a spent challenge usable or renames a network.
LEMMA RowStep ==
    ASSUME SignInInv,
           \/ \E n \in Nonces, p \in Ips : IssueChallenge(n, p)
           \/ \E w \in Wallets, n \in Nonces : WalletSigns(w, n)
           \/ \E t \in Tokens : Logout(t)
           \/ Maintenance \/ Restart \/ Tick \/ UNCHANGED vars
    PROVE  SignInInv'
<1> USE DEF SignInInv, TypeOK, challengeVars, requestVars, sessionVars
<1>1. ASSUME NEW n \in Nonces, NEW p \in Ips, IssueChallenge(n, p) PROVE SignInInv'
  <2>1. TypeOK'
    BY <1>1 DEF IssueChallenge
  <2>2. ClaimInv'
    BY <1>1 DEF IssueChallenge, ClaimInv, Claims
  <2>3. \A t \in Tokens : origin[t] # n
    BY <1>1 DEF IssueChallenge, SessionInv, SpentInv
  <2>4. SessionInv'
    BY <1>1, <2>3 DEF IssueChallenge, SessionInv, SpentInv, SingleUse, SessionsProven
  <2> QED BY <2>1, <2>2, <2>4
<1>2. ASSUME NEW w \in Wallets, NEW n \in Nonces, WalletSigns(w, n) PROVE SignInInv'
  BY <1>2 DEF WalletSigns, ClaimInv, SessionInv, SpentInv, SingleUse, SessionsProven
<1>3. ASSUME NEW t \in Tokens, Logout(t) PROVE SignInInv'
  BY <1>3 DEF Logout, ClaimInv, SessionInv, SpentInv, SingleUse, SessionsProven
<1>4. ASSUME Expire, \/ UNCHANGED requestVars
                     \/ /\ request' = [r \in Requests |-> "idle"]
                        /\ claim' = [r \in Requests |-> NoClaim]
      PROVE SignInInv'
  <2>1. TypeOK'
    BY <1>4 DEF Expire
  <2>2. ClaimInv'
    BY <1>4 DEF Expire, ClaimInv, Claims
  <2>3. SessionInv'
    BY <1>4 DEF Expire, SessionInv, SpentInv, SingleUse, SessionsProven, InTable
  <2> QED BY <2>1, <2>2, <2>3
<1>5. CASE Tick \/ UNCHANGED vars
  BY <1>5 DEF Tick, vars, ClaimInv, SessionInv, SpentInv, SingleUse, SessionsProven
<1> QED BY <1>1, <1>2, <1>3, <1>4, <1>5 DEF Maintenance, Restart

\* A request that begins or fails changes no row.
LEMMA RequestStep ==
    ASSUME SignInInv, NEW r \in Requests,
           VerifyFails(r) \/ \E n \in Nonces, w \in Wallets, p \in Ips : VerifyBegin(r, n, w, p)
    PROVE  SignInInv'
<1> USE DEF SignInInv, TypeOK, challengeVars, requestVars, sessionVars
<1>1. CASE VerifyFails(r)
  BY <1>1 DEF VerifyFails, ClaimInv, SessionInv, SpentInv, SingleUse, SessionsProven
<1>2. ASSUME NEW n \in Nonces, NEW w \in Wallets, NEW p \in Ips, VerifyBegin(r, n, w, p)
      PROVE SignInInv'
  BY <1>2 DEF VerifyBegin, Usable, Claims, ClaimInv, SessionInv, SpentInv, SingleUse, SessionsProven
<1> QED BY <1>1, <1>2

\* A new session: the only step that consumes a challenge.
LEMMA LoginStep ==
    ASSUME SignInInv, NEW t \in Tokens,
           (\E r \in Requests : VerifyEnd(r, t)) \/ (\E p \in Ips : DevLogin(t, p))
    PROVE  SignInInv'
<1> USE DEF SignInInv, TypeOK, challengeVars, requestVars, sessionVars
<1>1. ASSUME NEW r \in Requests, VerifyEnd(r, t) PROVE SignInInv'
  <2> DEFINE n == claim[r].nonce
  <2>1. claim[r] \in Claims /\ n \in Nonces /\ challenge[n] = "fresh" /\ issuedTo[n] = claim[r].ip
    BY <1>1 DEF VerifyEnd, Consume, ClaimInv, Claims
  <2>2. \A s \in Tokens : origin[s] # n
    BY <2>1 DEF SessionInv, SpentInv
  <2>3. TypeOK'
    <3>1. [wallet |-> claim[r].wallet, ip |-> claim[r].ip] \in Holders
      BY <2>1 DEF Claims, Holders
    <3>2. now + SessionTtl \in Nat
      OBVIOUS
    <3> QED BY <1>1, <2>1, <3>1, <3>2 DEF VerifyEnd, Consume, CreateSession
  <2>4. ClaimInv'
    BY <1>1, <2>1 DEF VerifyEnd, Consume, ClaimInv, Claims
  <2>5. SpentInv' /\ SingleUse'
    BY <1>1, <2>1, <2>2 DEF VerifyEnd, Consume, CreateSession, SessionInv, SpentInv, SingleUse
  <2>6. SessionsProven'
    BY <1>1, <2>1 DEF VerifyEnd, Consume, CreateSession, Claims, SessionInv, SessionsProven
  <2> QED BY <2>3, <2>4, <2>5, <2>6 DEF SessionInv
<1>2. ASSUME NEW p \in Ips, DevLogin(t, p) PROVE SignInInv'
  BY <1>2 DEF DevLogin, CreateSession, Holders, ClaimInv, SessionInv, SpentInv, SingleUse,
     SessionsProven
<1> QED BY <1>1, <1>2

\* SignInInv is inductive.
LEMMA SignInStep == SignInInv /\ [Next]_vars => SignInInv'
BY RowStep, RequestStep, LoginStep DEF Next

\* One signature makes one session, whatever requests, deletions and
\* restarts come between the check of the challenge and its use.
THEOREM SingleUseAlways == Spec => []SingleUse
<1>1. SignInInv => SingleUse
  BY DEF SignInInv, SessionInv
<1> QED BY <1>1, SignInInit, SignInStep, PTL DEF Spec

\* Every session has a signature of its wallet over a challenge issued to
\* its network.
THEOREM SessionsAlwaysProven == Spec => []SessionsProven
<1>1. SignInInv => SessionsProven
  BY DEF SignInInv, SessionInv
<1> QED BY <1>1, SignInInit, SignInStep, PTL DEF Spec

===============================================================================
