---------------------------- MODULE WorkspacePage ----------------------------
(***************************************************************************)
(* The web page (web/main.ts) and what it asks of the control plane: the   *)
(* session, the current workspace, the timers that follow it and the       *)
(* terminal's socket.  A request is sent, served and answered in three     *)
(* steps, so answers overtake each other, and each is applied to the page  *)
(* as it is when the answer comes.  The page treats queued and             *)
(* provisioning alike, and stopped, failed and none: here they are one.    *)
(* One wallet; the terminal capability is available.  Requests of the      *)
(* tools (files, jobs, ceremonies) matter here only when they are refused. *)
(***************************************************************************)
EXTENDS Integers, FiniteSets

CONSTANTS
    MaxWorkspaces,  \* bound: the workspaces created
    MaxEvents,      \* bound: what the user, the wallet and the network do
    MaxRequests,    \* bound: requests in flight at a time
    MaxSockets      \* bound: terminal sockets that exist at a time

ASSUME PageAssumption ==
    /\ {MaxWorkspaces, MaxRequests, MaxSockets} \subseteq Nat \ {0}
    /\ MaxEvents \in Nat

Ids == 1..MaxWorkspaces
Calls == 1..MaxRequests     \* a request in flight has one of these places
Sockets == 1..MaxSockets
NoSocket == 0
None == [id |-> 0, st |-> "over"]
View == [id : 0..MaxWorkspaces, st : {"queued", "running", "stopping", "over"}]

VARIABLES
    signedIn, bound, \* session.authenticated, walletBinding
    shown,          \* session.workspace
    page,           \* loadedWorkspaceId, socket, workspacePollTimer, ceremonyPollTimer
    reconnect,      \* the workspaces a reconnect timer is set for
    wire,           \* the terminal sockets the browser has
    requests,       \* the requests in flight
    srv, srvSigned, \* the control plane: the wallet's workspace, the session
    orphans,        \* sockets a late close event made the page forget
    events,         \* what the user, the wallet and the network have done
    failed,         \* whether a request failed in the network
    overtaken       \* whether an answer hid the workspace the server has

pageVars == <<signedIn, bound, shown, page, reconnect, wire, orphans>>
srvVars == <<srv, srvSigned>>
allVars == <<pageVars, requests, srvVars, events, failed, overtaken>>

Nothing == [loaded |-> 0, socket |-> NoSocket, timer |-> FALSE, ceremony |-> FALSE]
Idle == [op |-> "idle", ans |-> "none", view |-> None]
Sent(op) == [Idle EXCEPT !.op = op]
Inactive(v) == v.st = "over"
Auth == {"verify", "logout", "invalidate"}          \* requests of /api/auth/
Guarded == {"refresh", "create", "stop", "volume", "logout", "invalidate"}
Ops == Auth \cup Guarded \cup {"idle", "session", "confirm", "stopping", "tool"}
Event == events < MaxEvents /\ events' = events + 1

PageTypeOK ==
    /\ {signedIn, bound, srvSigned, failed, overtaken} \subseteq BOOLEAN
    /\ {shown, srv} \subseteq View
    /\ page \in [loaded : 0..MaxWorkspaces, socket : Sockets \cup {NoSocket},
                 timer : BOOLEAN, ceremony : BOOLEAN]
    /\ reconnect \subseteq Ids
    /\ wire \in [Sockets -> [st : {"free", "open", "closing"}, id : 0..MaxWorkspaces]]
    /\ requests \in [Calls -> [op : Ops, ans : {"none", "ok", "out", "denied", "error"},
                                  view : View]]
    /\ orphans \subseteq Sockets
    /\ events \in 0..MaxEvents

\* The page is loaded, and asks for the session.
PageInit ==
    /\ signedIn = FALSE /\ bound = FALSE
    /\ shown = None /\ page = Nothing /\ reconnect = {}
    /\ wire = [s \in Sockets |-> [st |-> "free", id |-> 0]]
    /\ requests = [r \in Calls |-> IF r = 1 THEN Sent("session") ELSE Idle]
    /\ srv \in {None} \cup [id : {1}, st : {"queued", "running"}]
    /\ srvSigned \in BOOLEAN
    /\ orphans = {} /\ events = 0 /\ failed = FALSE /\ overtaken = FALSE

-------------------------------------------------------------------------------
(* What the page shows and what it runs *)

\* closeTerminal, on the sockets.
Closing(w) ==
    IF page.socket = NoSocket THEN w ELSE [w EXCEPT ![page.socket].st = "closing"]

\* closeWorkspaceResources.
CloseResources == page' = Nothing /\ wire' = Closing(wire)

\* Mutant: only a running workspace is polled.
PollRunning(v) == v.st = "running"

\* Every active workspace is polled, each 1.5 s until it runs, then 10 s.
Polled(v) == ~Inactive(v)

Least(S) == {s \in S : \A t \in S : s <= t}
Free(w) == Least({s \in Sockets : w[s].st = "free"})

\* openTerminal and the WebSocket it makes.
Open(w, s, i) == [w EXCEPT ![s] = [st |-> "open", id |-> i]]

\* A workspace that runs: the tools are reset for another workspace, then the
\* terminal is opened and the ceremony poll started unless they are there.
ShowRunning(v) ==
    LET other == page.loaded # v.id
        w == IF other THEN Closing(wire) ELSE wire
        kept == ~other /\ page.socket # NoSocket IN
    \E s \in IF kept THEN {page.socket} ELSE Free(w) :
        /\ page' = [loaded |-> v.id, socket |-> s, timer |-> Polled(v), ceremony |-> TRUE]
        /\ wire' = IF kept THEN w ELSE Open(w, s, v.id)

\* renderWorkspace.
Render(v) ==
    \/ Inactive(v) /\ CloseResources
    \/ v.st = "running" /\ ShowRunning(v)
    \/ /\ v.st \in {"queued", "stopping"}
       /\ page' = [page EXCEPT !.timer = Polled(v)]
       /\ UNCHANGED wire

\* session.workspace is set and shown.
Show(v) ==
    /\ shown' = v
    /\ Render(v)
    /\ overtaken' = (overtaken \/ (Inactive(v) /\ ~Inactive(srv)))

\* session = { authenticated: false, ... }, and its rendering.
SignOut ==
    /\ signedIn' = FALSE
    /\ shown' = None
    /\ CloseResources
    /\ UNCHANGED overtaken

-------------------------------------------------------------------------------
(* Requests *)

Answer(r, ans, view) ==
    requests' = [requests EXCEPT ![r].ans = ans, ![r].view = view]

\* requireSession refuses.
Refuse(r) ==
    /\ requests[r].op \in Guarded
    /\ ~srvSigned
    /\ Answer(r, "denied", None)
    /\ UNCHANGED srvVars

\* A limit, a conflict, a human check or an agent that cannot be reached.
Reject(r) ==
    /\ \/ requests[r].op \in {"create", "volume"} /\ srvSigned
       \/ requests[r].op \in {"verify", "stopping"}
    /\ Answer(r, "error", None)
    /\ UNCHANGED srvVars

\* workspaces.current.
Current == IF Inactive(srv) THEN None ELSE srv

ServeSession(r) ==
    /\ requests[r].op \in {"session", "confirm"}
    /\ IF srvSigned THEN Answer(r, "ok", Current) ELSE Answer(r, "out", None)
    /\ UNCHANGED srvVars

ServeCurrent(r) ==
    /\ requests[r].op = "refresh" /\ srvSigned
    /\ Answer(r, "ok", Current)
    /\ UNCHANGED srvVars

\* POST /api/workspaces; GET's view is the new row.
ServeCreate(r) ==
    /\ requests[r].op = "create" /\ srvSigned
    /\ Inactive(srv) /\ srv.id < MaxWorkspaces
    /\ srv' = [id |-> srv.id + 1, st |-> "queued"]
    /\ Answer(r, "ok", srv')
    /\ UNCHANGED srvSigned

\* DELETE /api/workspaces/current: stopping first, the answer when it is over.
ServeStop(r) ==
    /\ \/ /\ requests[r].op = "stop" /\ srvSigned
          /\ IF Inactive(srv)
             THEN Answer(r, "ok", None) /\ UNCHANGED srv
             ELSE /\ srv' = [srv EXCEPT !.st = "stopping"]
                  /\ requests' = [requests EXCEPT ![r] = Sent("stopping")]
       \/ /\ requests[r].op = "stopping"
          /\ srv' = IF srv.st = "stopping" THEN [srv EXCEPT !.st = "over"] ELSE srv
          /\ Answer(r, "ok", None)
    /\ UNCHANGED srvSigned

\* DELETE /api/workspace-volume: a workspace without it may be active.
ServeVolume(r) ==
    /\ requests[r].op = "volume" /\ srvSigned
    /\ Answer(r, "ok", None)
    /\ UNCHANGED srvVars

ServeAuth(r) ==
    /\ requests[r].op \in Auth
    /\ requests[r].op # "verify" => srvSigned
    /\ srvSigned' = (requests[r].op = "verify")
    /\ Answer(r, "ok", None)
    /\ UNCHANGED srv

\* The control plane handles a request.
Serve(r) ==
    /\ requests[r].ans = "none"
    /\ \/ Refuse(r) \/ Reject(r) \/ ServeSession(r) \/ ServeCurrent(r) \/ ServeCreate(r)
       \/ ServeStop(r) \/ ServeVolume(r) \/ ServeAuth(r)
    /\ UNCHANGED <<pageVars, events, failed, overtaken>>

\* A request, or its answer, is lost.
Fail(r) ==
    /\ requests[r].op # "idle" /\ requests[r].ans # "error"
    /\ Event /\ failed' = TRUE
    /\ Answer(r, "error", None)
    /\ UNCHANGED <<pageVars, srvVars, overtaken>>

-------------------------------------------------------------------------------
(* Answers *)

Finish(r) == requests' = [requests EXCEPT ![r] = Idle]
Go(r, op) == requests' = [requests EXCEPT ![r] = Sent(op)]

\* Mutant: a 401 is an error like any other.
ExpireNever(r) == FALSE

\* api: a 401 outside /api/auth/.
Expires(r) == requests[r].ans = "denied" /\ requests[r].op \notin Auth

\* expireSession.
ExpireSession(r) == Expires(r) /\ bound' = FALSE /\ SignOut /\ Finish(r)

\* The error is a message, and nothing else: a poll that fails is the last.
\* logout throws when its session is gone.
Message(r) ==
    /\ requests[r].ans \in {"denied", "error"} /\ ~Expires(r)
    /\ requests[r].op \notin {"confirm", "invalidate"}
    /\ Finish(r)
    /\ UNCHANGED <<signedIn, bound, shown, page, wire, overtaken>>

\* loadSession.
LoadSession(r) ==
    /\ requests[r].op \in {"session", "confirm"} /\ requests[r].ans = "ok"
    /\ signedIn' = TRUE
    /\ Show(requests[r].view)
    /\ Finish(r)
    /\ UNCHANGED bound

LoadSignedOut(r) ==
    /\ requests[r].op = "session" /\ requests[r].ans = "out"
    /\ SignOut /\ Finish(r)
    /\ UNCHANGED bound

\* refreshWorkspace, createWorkspace.
Apply(r) ==
    /\ requests[r].op \in {"refresh", "create"} /\ requests[r].ans = "ok"
    /\ Show(requests[r].view)
    /\ Finish(r)
    /\ UNCHANGED <<signedIn, bound>>

\* deletePersistentVolume: the page shows no workspace, whatever it had.
VolumeDeleted(r) ==
    /\ requests[r].op = "volume" /\ requests[r].ans = "ok"
    /\ Show(None)
    /\ Finish(r)
    /\ UNCHANGED <<signedIn, bound>>

\* stopWorkspace.
Stopped(r) ==
    /\ requests[r].op \in {"stop", "stopping"} /\ requests[r].ans = "ok"
    /\ Go(r, "refresh")
    /\ UNCHANGED <<signedIn, bound, shown, page, wire, overtaken>>

\* authenticate: the wallet is bound before the session is confirmed.
Verified(r) ==
    /\ requests[r].op = "verify" /\ requests[r].ans = "ok"
    /\ signedIn' = TRUE /\ bound' = TRUE
    /\ Go(r, "confirm")
    /\ UNCHANGED <<shown, page, wire, overtaken>>

\* The session is not confirmed: invalidateWalletSession, which does nothing
\* when the binding is gone by now, and asks the server only when signed in.
NotConfirmed(r) ==
    /\ requests[r].op = "confirm"
    /\ bound' = FALSE
    /\ \/ /\ requests[r].ans = "out" \/ (requests[r].ans = "error" /\ bound /\ ~signedIn)
          /\ SignOut /\ Finish(r)
       \/ /\ requests[r].ans = "error" /\ (bound => signedIn)
          /\ IF bound THEN Go(r, "invalidate") ELSE Finish(r)
          /\ UNCHANGED <<signedIn, shown, page, wire, overtaken>>

\* The end of invalidateWalletSession, whatever the server answered.
Invalidated(r) ==
    /\ requests[r].op = "invalidate" /\ requests[r].ans # "none"
    /\ SignOut /\ Finish(r)
    /\ UNCHANGED bound

\* Mutant: the session is not loaded again.
LoggedOutStays(r) ==
    /\ requests[r].op = "logout" /\ requests[r].ans = "ok"
    /\ bound' = FALSE
    /\ CloseResources
    /\ Finish(r)
    /\ UNCHANGED <<signedIn, shown, overtaken>>

\* logout.
LoggedOut(r) ==
    /\ requests[r].op = "logout" /\ requests[r].ans = "ok"
    /\ bound' = FALSE
    /\ CloseResources
    /\ Go(r, "session")
    /\ UNCHANGED <<signedIn, shown, overtaken>>

Deliver(r) ==
    /\ \/ ExpireSession(r) \/ Message(r) \/ LoadSession(r) \/ LoadSignedOut(r) \/ Apply(r)
       \/ VolumeDeleted(r) \/ Stopped(r) \/ Verified(r) \/ NotConfirmed(r)
       \/ Invalidated(r) \/ LoggedOut(r)
    /\ UNCHANGED <<reconnect, orphans, srvVars, events, failed>>

-------------------------------------------------------------------------------
(* The user, the wallet and the timers *)

InFlight(ops) == \E r \in Calls : requests[r].op \in ops

Send(op) ==
    /\ \E r \in Least({q \in Calls : requests[q] = Idle}) : Go(r, op)
    /\ UNCHANGED <<srvVars, failed, overtaken>>

\* The buttons the page shows; runAuth lets one sign-in run at a time.
Click ==
    /\ \/ signedIn /\ Inactive(shown) /\ Send("create")
       \/ signedIn /\ ~Inactive(shown) /\ Send("stop")
       \/ signedIn /\ Inactive(shown) /\ Send("volume")
       \/ signedIn /\ Send("logout")
       \/ ~signedIn /\ ~InFlight({"verify", "confirm"}) /\ Send("verify")
    /\ Event
    /\ UNCHANGED pageVars

\* The wallet's account, chain or connection changes.
WalletChanges ==
    /\ bound /\ bound' = FALSE
    /\ Event
    /\ IF signedIn
       THEN Send("invalidate") /\ UNCHANGED <<signedIn, shown, page, wire>>
       ELSE SignOut /\ UNCHANGED <<requests, srvVars, failed>>
    /\ UNCHANGED <<reconnect, orphans>>

\* workspacePollTimer.
PollFires ==
    /\ page.timer
    /\ page' = [page EXCEPT !.timer = FALSE]
    /\ Send("refresh")
    /\ UNCHANGED <<events, signedIn, bound, shown, reconnect, wire, orphans>>

\* The interval of startCeremonyPoll, or a tool, asks and is refused.
ToolRefused ==
    /\ page.ceremony /\ signedIn /\ ~srvSigned
    /\ \E r \in Least({q \in Calls : requests[q] = Idle}) :
        requests' = [requests EXCEPT ![r] = [Sent("tool") EXCEPT !.ans = "denied"]]
    /\ UNCHANGED <<pageVars, srvVars, events, failed, overtaken>>

\* The close event of a terminal's socket.  It forgets `socket`, also when
\* that is a newer one by now.
SocketCloses(s, clean) ==
    /\ wire[s].st # "free"
    /\ IF wire[s].st = "open" /\ srv = [id |-> wire[s].id, st |-> "running"]
       THEN Event ELSE UNCHANGED events
    /\ wire' = [wire EXCEPT ![s] = [st |-> "free", id |-> 0]]
    /\ page' = [page EXCEPT !.socket = NoSocket]
    /\ reconnect' = IF ~clean /\ page.loaded = wire[s].id
                    THEN reconnect \cup {wire[s].id} ELSE reconnect
    /\ orphans' = (orphans \cup ({page.socket} \ {NoSocket})) \ {s}
    /\ UNCHANGED <<signedIn, bound, shown, requests, srvVars, failed, overtaken>>

\* Mutant: the page is not asked again whether it still has that workspace.
ReopenAlways(i) == TRUE

Reopens(i) == page.loaded = i /\ page.socket = NoSocket

ReconnectFires(i) ==
    /\ i \in reconnect
    /\ reconnect' = reconnect \ {i}
    /\ IF Reopens(i)
       THEN \E s \in Free(wire) :
                /\ page' = [page EXCEPT !.socket = s]
                /\ wire' = Open(wire, s, i)
       ELSE UNCHANGED <<page, wire>>
    /\ UNCHANGED <<signedIn, bound, shown, orphans, requests, srvVars, events, failed, overtaken>>

-------------------------------------------------------------------------------
(* The control plane, of itself: see WorkspaceService and SignIn *)

ServerMoves ==
    /\ \/ srv.st = "queued" /\ srv' = [srv EXCEPT !.st = "running"]
       \/ srv.st \in {"queued", "running"} /\ srv' = [srv EXCEPT !.st = "stopping"]
       \/ srv.st \in {"queued", "stopping"} /\ srv' = [srv EXCEPT !.st = "over"]
    /\ UNCHANGED <<pageVars, requests, srvSigned, events, failed, overtaken>>

SessionEnds ==
    /\ srvSigned /\ srvSigned' = FALSE
    /\ Event
    /\ UNCHANGED <<pageVars, requests, srv, failed, overtaken>>

PageNext ==
    \/ \E r \in Calls : Serve(r) \/ Fail(r) \/ Deliver(r)
    \/ Click \/ WalletChanges \/ PollFires \/ ToolRefused
    \/ \E s \in Sockets, clean \in BOOLEAN : SocketCloses(s, clean)
    \/ \E i \in Ids : ReconnectFires(i)
    \/ ServerMoves \/ SessionEnds

PageSpec == PageInit /\ [][PageNext]_allVars

\* Requests are answered and answers handled, and the poll fires: strongly,
\* for only the bounds on requests and sockets can hold them up.  A workspace
\* does not stay queued for ever (RowsEnd), nor does a terminal outlive its
\* VM (TerminalsEnd).
FairPageSpec ==
    /\ PageSpec
    /\ \A r \in Calls : WF_allVars(Serve(r)) /\ SF_allVars(Deliver(r))
    /\ SF_allVars(PollFires)
    /\ \A s \in Sockets : WF_allVars(SocketCloses(s, TRUE) \/ SocketCloses(s, FALSE))
    /\ WF_allVars(srv.st = "queued" /\ ServerMoves)

-------------------------------------------------------------------------------
(* Properties *)

\* A terminal socket is open only while the page tracks it, for the workspace
\* it has loaded, whatever order closes, reconnect timers and answers come in;
\* the exception is the socket a late close event of an older one hides.
TerminalTracked ==
    /\ \A s \in Sockets : wire[s].st = "open" => s = page.socket \/ s \in orphans
    /\ page.socket # NoSocket => wire[page.socket] = [st |-> "open", id |-> page.loaded]

\* A workspace the page shows as active is always going to be asked for again,
\* by the poll timer or by a request on its way, although what renders an answer,
\* signs out or closes clears that timer and answers overtake each other: only a
\* request that failed ends the chain of polls.
PollGoesOn == ~Inactive(shown) => page.timer \/ InFlight({"refresh", "session"}) \/ failed

\* Once the server's session is gone for good, the page stops polling and
\* leaves its terminal for good, although answers of that session still
\* come and start them again: the next poll's 401 ends them.
SignedOutQuiet == <>[](~srvSigned /\ ~failed) => <>[](page = Nothing)

\* "This page will connect as soon as a machine is free": the page shown a
\* queued workspace loads it when it runs, unless it ends first, a sign-out or a
\* lost request intervenes, or an older answer hid the workspace.
PageConnects ==
    \A i \in Ids :
        (signedIn /\ shown = [id |-> i, st |-> "queued"])
            ~> \/ page.loaded = i
               \/ srv.id # i \/ srv.st \notin {"queued", "running"}
               \/ ~signedIn \/ ~srvSigned \/ failed \/ overtaken

===============================================================================
