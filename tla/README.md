# A TLA+ development for bloom-workspaces

Bloom Workspaces rents short-lived virtual machines to the owners of wallets. A
control plane keeps the queue and the leases in SQLite and talks over a Unix
socket to a node agent, which runs the machines (QEMU, Firecracker, or a plain
process for development). In each machine a guest controller runs jobs and sets
up SSH and NFS. This directory holds TLA+ models of the parts whose correctness
depends on what happens between two awaits, two threads or two processes; the
configurations that model-check them; and proofs for every size of instance.

File names below are relative to `src/`; `control/`, `agent/`, `ssh/` and `jobs/`
are directories of `src/src/`, and `*.rs` files are in `src/ops/guest-control/src/`.

## 1. Inventory

| Component | State | Operations | What makes it correct |
| --- | --- | --- | --- |
| Workspace service (`control/workspaces.ts`) | rows of `workspaces` and `persistent_volumes`; in memory: the running reconciliation, stop operations, volumes being destroyed | create, stop, destroy volume, reconcile, recover | never more rows with a VM than `maxRunning`; first come first served; limits per wallet, network and day; a volume in at most one place; every row ends |
| Agent client (`control/agent-client.ts`) | calls in flight | request with timeout | a timeout says nothing about the effect of the call |
| Node agent (`agent/server.ts`, `agent/pty-runtime.ts`, `agent/qemu-runtime.ts`) | instances, disk images, connections | create, stop, status, sweep, destroy volume | a failed creation leaves no VM; every VM ends with its lease |
| SSH lease manager (`ssh/lease-manager.ts`) | leases, streams, connections being made | issue, revoke, expire, open a tunnel | one grant per scope; no stream without a live grant; limits |
| Egress proxy (`agent/egress-*.ts`) | connection slots, timers, pairs of sockets | HTTP requests, CONNECT tunnels | slots exact; only approved destinations; byte and time budgets; everything ends |
| Sign-in (`control/auth.ts`, `control/session.ts`) | rows of `auth_challenges` and `sessions` | challenge, verify, logout, janitor | one signature, one session, of the wallet that signed |
| Guest job engine (`jobs.rs`) | table of jobs, order, limits | start, cancel, waiter and grace threads, prune | terminal states final; limits; deadlines and cancellations end jobs |
| Job logs, event stream and job panel (`logs.rs`, `control/server.ts`, `web/main.ts`) | ring, offsets, cursors, stream, timers | drain, slice, stream, poll, cancel | offsets exact, losses reported, the end reaches the page |
| Guest connections (`control.rs`) | scope, pids of the daemons, mutex | connections.configure | one scope per guest; every request answered |
| Terminal bridge (`control/terminal-admission.ts`, `control/server.ts`, `agent/server.ts`, `agent/firecracker-runtime.ts`) | slots, pairs of sockets, pending and held input, the socket into the guest | upgrade, relay, retry, close | slots exact; frames in order; a terminal ends with its VM |
| Firecracker runtime (`agent/firecracker-runtime.ts`) | instances, jail uids, directories, egress proxies | create, stop, exit, sweep, cleanup | a uid in use by one VM; nothing held by what is over |
| Data disks (`agent/data-volume.ts`) | images, temporary files | ensure, publish, validate, destroy | an image is complete once visible and is never replaced |
| Web page (`web/main.ts`) | session, workspace shown, timers, terminal socket, wallet binding | sign in and out, create, stop, poll, reconnect | one terminal, of the workspace loaded; quiet once signed out; connects when the workspace runs |
| Guest files (`files.rs`, `agent/data-files.ts`, `agent/guest-workspace.ts`) | uploads, temporary files | chunks, commit, delete, quota | a file is replaced as a whole |
| Guest channel (`agent/guest-channel.ts`, `server.rs`) | one exchange at a time | request with timeout | an answer belongs to its request |
| Validation, certificates, plans, configuration, images | none, or presentation | pure functions | out of scope, see section 8 |

How they interact. Browsers reach the control plane over HTTP and WebSockets; the
control plane calls the agent over HTTP on a Unix socket, with a timeout after which
it no longer listens while the agent's handler goes on; the agent reaches a guest
over virtio-serial or vsock. Each TypeScript process runs one handler at a time and
switches only at an `await`. The guest controller is threaded: one thread serves
stdio, one the sockets, and each job has a waiter thread and, after a cancellation,
a grace thread.

What is hard: state read before an `await` and used after it (capacity, a lease being
signed, a challenge being verified, a name being looked up); calls that time out and
take effect later; crashes of either process between a write and its consequence;
sweeps, timers and owners that end the same thing; check-then-act on two holds of one
mutex; answers that overtake each other on their way to the page; and the promise that
all of it comes to an end. `PROJECT.json` lists these
hazards line by line.

## 2. Modules

```
AgentCalls ── WorkspaceService ──┐
     └─────── NodeAgent ─────────┴─ Lifecycle ── MCLifecycle, LifecycleProofs
                 WorkspaceQueue ────┘ (abstract specification, INSTANCE)
SshGateway ── MCSshGateway, SshGatewayProofs
FirecrackerRuntime ── MCFirecrackerRuntime, FirecrackerRuntimeProofs
TerminalBridge ── TerminalBridgeProofs
EgressProxy ── EgressProxyProofs
SignIn ── MCSignIn, WebProofs
WorkspacePage ── WebProofs
JobModel ── GuestJobs ── MCGuestJobs, GuestJobsProofs    (JobModel: abstract specification, INSTANCE)
JobLogs ──┬─ JobView ── JobViewProofs
LogReader ┘                                 (LogReader: abstract specification, INSTANCE)
GuestConnections
```

* **AgentCalls** holds what the control plane and the agent share: the clock and the
  HTTP calls. A call is one value per workspace or volume that says how far it got.
  A call the client has given up is still in flight at the agent.
* **WorkspaceService** is `WorkspaceService` of `control/workspaces.ts`. `Create`,
  `StopCurrent` and `DestroyVolume` are the owner's requests; `RecBegin` to `RecDone`
  are the segments of `runReconciliation` between its awaits, `recPc` naming the
  await it is at; `recCap` is its cached capacity. `ControlCrash` loses everything
  but the rows.
* **NodeAgent** is the handler of `POST /v1/workspaces` cut at its awaits (disks, spawn,
  guest, connections), the other handlers, the lease sweep, exits of VMs, and a crash.
* **Lifecycle** composes the two, and states their properties. **WorkspaceQueue** is the
  abstract specification: requests are admitted under the limits, and claimed in order
  while fewer than `MaxRunning` slots are taken. `Lifecycle!QueueSpec` instantiates it
  with *claimed* = the rows whose creation has been sent.
* **SshGateway** is `SshLeaseManager` with the handlers and sweeps of `agent/server.ts` that
  drive it. Awaits: the guest's configuration, the certificate signer, the private endpoint.
* **EgressProxy** is one workspace's proxy. `phase` is the await a handler is at (`dns`,
  `hello`, `connecting`, `tunnel`, `transfer`); names, addresses and ClientHellos are
  reduced to the policy's verdict about them. Bytes come in chunks of different sizes: `buffered` counts
  the ClientHello, `bytes` is the proxy's meter, and `passed` what was really written on. The end of a guest's
  socket is told apart by how it becomes visible: a FIN waits until somebody listens, the
  close of an HTTP response is an event that can be missed, a reset without a listener
  ends the process.
* **SignIn** keeps the two tables; a verify request has one await, between the read of
  its challenge and the `UPDATE` that consumes it. `signed` records what wallets have
  signed and `origin` which challenge made a session; neither is in the database.
* **GuestJobs** is the job engine with its threads; a step is one hold of the table's or
  a job's mutex. `contested` records the running jobs that were inserted while another handler
  had passed the check of the same id. **JobModel** is the abstract specification of a job's life, the table of transitions of
  `jobs/model.ts` that the control plane and the clients go by; `GuestJobs!ImplementsModel` instantiates it
  with a job that is not started yet as queued. **GuestConnections** is `configure_connections` with its mutex.
* **JobLogs** is one job's pipe, its waiter and its ring. **JobView** extends it with the readers: the
  handler of `.../events`, whose `HandlerPolls` is one turn of its loop, and the page's job panel.
  `feed` holds the events on their way, `poll` and `cancel` the panel's requests, `timers` what
  `setTimeout` has set and `timer` the one `jobPollTimer` knows. `StartJob` applies the answer to the `POST`, which
  brings whatever the new job has written by then and perhaps its end. It does not stop the polls and
  cancellations of the job before; they may say anything that job can have written, and `crossed` records that such
  an answer was applied. **LogReader** is the abstract
  specification of who follows a bounded log: it goes forward only, over bytes the log has, shows every byte it passes,
  and passes one over only when the log has dropped it. It knows neither streams nor polls.
  `JobView!ImplementsReader` instantiates it with ring and panel.
* **FirecrackerRuntime** cuts `create` at its awaits, in a jail (a uid, no volume) or not (a volume, no
  uid), with `ensureExt4Volume` step by step. `proc` is the VM's process as the kernel has it,
  `running` the ids whose instance says so, and `cleanup` the two calls of the cleanup closure, by `stop`
  and by the exit event. An image is named after the creation that made its file, so that replacing
  one is visible. `robbed` records the ids whose uid was freed by another VM's cleanup while they held it, `exposed`
  those whose creation overlapped a removal of their volume. `Die` loses memory and keeps the disk.
* **TerminalBridge** follows a browser's terminal or a client's SSH tunnel through its sockets:
  `browser` and `upstream` in the control plane, `agent` at the agent, `vsock` into the guest. Frames are
  numbered per client. `pending`, `wire` and `held` are the places where they wait; `input` is what the
  guest's terminal was given by all its clients, merged, and `got` what a tunnel's endpoint was given.
* **WorkspacePage** is the page: what it shows, its timers, its terminal's sockets, and its requests, each
  sent, served and answered in three steps, any of them lost, and each answer applied to the page as it is
  then. The server is reduced to the wallet's workspace and session. `orphans`, `overtaken` and `failed`
  record what section 7 tells of.

Where proofs reason about flags these are mostly written as strings or sets, and no module that is
proved about declares a recursive operator.

## 3. Runs

Each run answers one question. All bounds are constants of the modules; those marked
*bound* in a module (`MaxTime`, `MaxFaults`, `MaxAnswers`, sets of ids) limit a behaviour,
the others are parameters of the program.

| Run | Checks | Instance |
| --- | --- | --- |
| `rows` | `SlotsReserved`, `FailedCreateLeavesNoVm`, `VolumesSafe` | 2 workspaces for 1 slot, 2 wallets, 2 volumes, SSH on, one fault (1.8 million states) |
| `liveness` | `RowsEnd`, `VmsEnd` | 2 workspaces for 1 slot, leases that begin at 2 times, one fault (200 thousand states) |
| `overcommit` | violates `VmsWithinCapacity` | 2 workspaces of one wallet for 1 slot |
| `grants` | `OneGrantPerScope`, `StreamsAuthorized`, `NoStreamAfterStop`, `ConnectionLimit`, `NoStreamAfterLease`, `ConnectionsEnd`, `GrantsEnd` | 2 workspaces leased for 3 ticks, 2 grants of 2 or 3 with a margin of 1, 2 tunnels, 1 connection per grant, 4 ticks (160 thousand states) |
| `firecracker` | `UidsExclusive`, `LeaksExplained`, `DisksWhole`, `DiskKept` | 3 workspaces and 3 uids in a jail, or 2 without one for 1 volume, one fault or crash (1.3 million states) |
| `terminal` | `TerminalSlots`, `FramesInOrder`, `TerminalsEnd` | 2 bridges to 1 VM for 1 slot, 2 frames each, every buffer of 1, 1 retry (280 thousand states) |
| `page` | `TerminalTracked`, `PollGoesOn`, `SignedOutQuiet`, `PageConnects` | 2 workspaces, 2 requests in flight, 2 sockets, 2 events of user, wallet and network (190 thousand states) |
| `job_view` | `RingExact`, refinement of `LogReader`, `AllLogged`, `ViewEnds` | 2 jobs of 3 bytes through a pipe of 2 and a ring of 2, chunks of 1 and 2, 1 break (290 thousand states) |
| `jobs` | `StatusConsistent`, `RunningKnown`, refinement of `JobModel`, `CancelPrevails`, `DeadlineEnds` | 2 server threads, 2 ids, 2 jobs, processes that end with zero or not, 1 active and 1 retained (350 thousand states up to the names of the ids) |
| `egress` | `SlotsExact`, `OnlyApproved`, `BytesBounded`, `HandlersEnd`, `UpstreamsEnd` | 3 connections for 2 slots, 2 hosts, DNS answers of up to 2 addresses, chunks of 1 or 2 bytes, a budget of 2 and ClientHellos of up to 3 (225 thousand states) |
| `signin` | `SingleUse`, `SessionsProven` | 2 challenges, 2 requests, 2 sessions, 2 networks, 2 wallets, 4 ticks (2 million states) |
| `connections_nfs` | violates `Answered` | 2 threads, 2 workspaces, with and without NFS |

Why the bounds are enough for what they ask. Two rows for one slot are the least with
which a slot is refused, given back and taken again; one fault lets a timeout,
a failed handler or a crash of either process happen at any step, and every hazard of
section 7 needs one. Two wallets and two volumes let a volume be destroyed and made again
while the other wallet's is attached. A budget of two bytes and chunks of up to two let a chunk straddle it, and a
ClientHello exceed it. The grants' margin is shorter than the shortest grant, as in the program. Two overlapping requests are what a race between a
check and its use takes, in the gateway, the job engine, the controller, sign-in and the page;
three connections for two slots show a slot refused, given back and taken again. Three VMs are what the
double release of a uid takes: one to be released twice and two that then share. Buffers of one frame
and two frames let every limit of the bridge be met and passed; a terminal beside a tunnel, or after another
terminal, is the most that one slot admits. The
ring is smaller than what is written, so that it overflows while a reader
holds a cursor. Where sets are interchangeable and no liveness is checked,
the runs use symmetry. `jobs` checks liveness too: its only symmetry is that of the ids, which no fairness condition and no
temporal property of `GuestJobs` mentions, so that a permutation of them changes neither. `CHECK_DEADLOCK FALSE` stands where a system may come to rest:
all jobs ended, all connections done, all leases expired.

That the oldest row is claimed first can be told only by three rows of different ages, one of which holds the slot while
the other two wait. `QueueSpec` is proved (section 5), and `Lifecycle_queue.cfg`, which is not one of the listed
runs, checks it on three such rows (1.5 million states); it fails there when the newest is claimed (`RecClaimNewest`).

Every property of a passing run has a mutant in `PROJECT.json`: a definition of the model
replaced by a plausible mistake in the code it models (a dropped guard, a missing
state in a count, a timer that is cleared), under which TLC finds the property violated.

## 4. Fairness

* `Lifecycle!Fairness`: time passes; the reconciler's interval and its continuation after
  an await run; the agent's handlers and lease sweep run; answers to stops and destructions
  are eventually delivered (strong fairness, since a crash or a timeout may come in
  between). Nothing is assumed of owners, guests or faults. Intervals and promise
  continuations of one event loop justify it (`control/server.ts:409`, `agent/server.ts:302`).
* `SshGateway!Fairness`: the clock, the two sweeps and the expiry timer of a lease. Nothing
  is assumed of clients, the signer or the guest.
* `EgressProxy!FairSpec`: the timers only: DNS, ClientHello, connect, deadline and, for an
  upstream left alone, its connect or idle timer. An idle timer of a live transfer is not
  assumed to fire, because data resets it.
* `GuestJobs!FairSpec`: server, waiter and grace threads run. Neither that a process ends nor
  that its deadline passes is assumed; `DeadlineEnds` starts where the waiter has seen it pass.
* `JobView!FairSpec`: the waiter thread runs, the handler of the stream polls, and the page handles its
  events, answers and timers. Neither that the process ends nor that a cancellation is answered is assumed.
* `TerminalBridge!Fairness`: the agent takes an upgrade it is sent, and a WebSocket that is being closed gets
  its close event (`ws` gives up after a timeout). Clients, guests and VMs get none.
* `WorkspacePage!FairPageSpec`: requests are served and answers handled, the poll timer fires, a queued
  workspace leaves the queue (`RowsEnd`) and a terminal whose VM is over is closed (`TerminalsEnd`). The
  fairness of answers and polls is strong because the bounds on requests and sockets in flight may
  disable them for a while, which the program has not. Nothing is assumed of the user and the wallet.
* `GuestConnections!FairSpec`: handlers run, and a mutex that is released again and again is granted to a
  thread that waits.

## 5. Proofs

TLAPS proves the following for every value of the constants that satisfies the named
assumptions (finite sets of ids, null values outside them, natural limits).

| Theorem | Says |
| --- | --- |
| `LifecycleProofs!TypeCorrect` | `TypeOK` |
| `LifecycleProofs!SlotsAlwaysReserved` | `SlotsReserved` |
| `LifecycleProofs!ImplementsQueue` | the detailed specification implements `WorkspaceQueue` |
| `LifecycleProofs!VolumesAlwaysSafe` | `VolumesSafe` |
| `LifecycleProofs!FailedCreateNeverLeavesVm` | `FailedCreateLeavesNoVm` |
| `SshGatewayProofs!OneGrantAlways`, `StreamsAlwaysAuthorized`, `NoStreamEverAfterStop`, `NoStreamEverAfterLease`, `ConnectionsAlwaysLimited` | the four safety invariants and the action property of the gateway |
| `WebProofs!SingleUseAlways`, `SessionsAlwaysProven` | the two invariants of sessions |
| `WebProofs!TerminalAlwaysTracked`, `PollAlwaysGoesOn` | the two invariants of the page |
| `FirecrackerRuntimeProofs!UidsAlwaysExclusive`, `LeaksAlwaysExplained`, `DisksAlwaysWhole`, `DiskAlwaysKept` | the three invariants and the action property of the runtime |
| `TerminalBridgeProofs!TerminalSlotsExact`, `FramesAlwaysInOrder` | the two invariants of the bridge |
| `EgressProxyProofs!OnlyApprovedAlways`, `BytesAlwaysBounded`, `SlotsAlwaysExact` | the three invariants of the proxy |
| `GuestJobsProofs!StatusAlwaysConsistent`, `TerminalAlwaysFinal`, `OnlyEndedEverPruned`, `RunningAlwaysKnown`, `LimitsAlwaysBounded` | consistency, finality, pruning, knowledge of running jobs, and the limits with *n* server threads |
| `GuestJobsProofs!EngineImplementsModel` | the engine implements `JobModel` |
| `JobViewProofs!RingAlwaysExact`, `ViewAlwaysExact` | the ring of the log, and what the page shows of it |
| `JobViewProofs!PageImplementsReader` | ring, handler and page implement `LogReader` |

The inductive invariants and why they are needed:

* *Slots.* `SlotsReserved` is not inductive: the reconciler claims under a capacity computed many
  awaits before. `SlotInv` adds `CapacitySound`: while it claims, slots taken plus capacity left
  stay within the maximum; and a call is sent for a row exactly when the row is claimed. Every
  action is first reduced to its effect on rows and capacity (`Effect`: none, admit, claim, end,
  update), so that the cardinality argument is made once per effect. The refinement uses the same lemma.
* *Volumes.* `VolInv` adds that a volume whose destruction is awaited is not destroyed yet and that
  its owner is in the set of wallets being destroyed, which keeps a create from attaching it, and that a
  row with a volume has a wallet and a destroyed volume an owner.
* *Gateway.* `GatewayInv` follows a tunnel from its authorization: the lease it was authorized by is
  live or gone for good, and while live, its workspace is still in the connections map.
  That last part gives `NoStreamAfterStop` although a grant may be issued after the stop. `GrantsCapped` adds that a grant, while
  it is signed and afterwards, is good for no longer than its workspace's lease; with the second look at the clock in
  `OpenEnd` this gives `NoStreamAfterLease`, whatever the timers do.
* *Sign-in.* `SignInInv` says that the challenge of a session can never be fresh again, and that what a
  verify request read before its await still holds of the columns nobody updates.
* *VMs.* `FailedCreateLeavesNoVm` is inductive with the types and with `CallsFollowRows`: a row is claimed
  once, so that a creation is never sent for a VM that runs.
* *Runtime.* `StageInv` says what a creation has made at each await of `create` (uid, directories, proxy, instance,
  process) and what it has not; `UidInv` that an allocated uid belongs to a workspace not yet released, and that of two unreleased
  workspaces with one uid one was robbed of it: freeing a uid keeps this because whoever else holds it joins `robbed`.
  A live process is unreleased unless it was killed and stop's cleanup ran first. `VolumeInv` says that no removal of a
  volume is under way while a workspace with it is being prepared or runs, unless that one is `exposed`. The disk's parts go through the files: the one at the stable path is one that a creator
  has formatted, and `link` never replaces.
* *Bridge.* `SlotInv` counts the bridges that hold a slot, as finite sets whose cardinality is the counter, for
  each workspace and in all. `FrameInv` lays the frames of a client on one line: given to the guest, held, on the wire,
  pending. It says that this line ascends, and for an SSH tunnel has no gap, so that each move from one buffer to the
  next keeps it; and that nothing is held while the socket into the guest is open.
* *Proxy.* `HandlerInv` says of each await of a handler what was decided before it: the approved host and address from the
  lookup on, and of the bytes (`Counted`) that nothing passes before the meter starts, at a ClientHello within the
  budget, and that from then on the meter knows all that passed. The slots are counted as in the bridge: the counter is the cardinality of
  the handlers that run.
* *Job view.* `RingInv`: the bytes written are dropped, in the ring, or in the pipe, each a run of consecutive numbers,
  so that `append` and `slice` become facts about runs (`BytesConcat`, `BytesPart`). `ViewInv` says who may be asking:
  a stream or a poll of the last job, never both, while answers about older jobs name them; and that
  each answer on its way is right (`Fits`) for the cursor the page will have when it is applied: the first event for
  the page's cursor, each further one for the end of the event before it (`Chain`), and the handler's offset for the last.
  The refinement adds `HonestInv`: an answer on its way that says "truncated" names an offset the ring has already
  dropped, and goes on doing so because the start of the ring only moves forward; nothing is said of the jobs before.
  `StartEffect` shows that the answer that starts a job leaves the page at a prefix of what the ring has, whatever the job did by then.
* *Jobs.* `JobInv` ties a waiter's position to the state of its job; `LimitInv` counts, besides the
  jobs in the table, the server threads between the check and the insert. `JobInv` is also what the refinement of
  `JobModel` takes: a waiter writes its outcome only to a job that is still running. `RunningKnown` is not inductive, since a job is in the table before
  it is waited for, and a handler is on its way to the insert before it replaces an entry. `KnownInv` adds `OrderInv`, the same for a
  handler between insert and waiter, and `RivalInv`: who is about to insert under an id
  whose job runs was already starting when that job was inserted, so the job is contested.
* *Page.* `TrackInv` adds to `TerminalTracked` the types of the page's record and of its sockets, without which a socket that
  is opened or closed could be the tracked one. `PollInv` follows the chain of polls through the requests:
  `AskedInv` says that a poll or a session request is answered with an error only when it failed, and that the session
  is never denied, so that the step which takes the last of them either sets the timer again, shows no active workspace, or
  has recorded the failure.

## 6. Only model-checked

Liveness (all `...End` and `...Ends`, `CancelPrevails`, `AllLogged`, `SignedOutQuiet`, `PageConnects`), since fairness is out
of the prover's reach. Every invariant, action property and refinement of a passing run has a theorem. The other way round, some results are
proved and in no run: `QueueSpec` takes three rows (section 3); `CapacitySound` is part of the inductive invariant; `ActiveBound` and `RetainedBound` take more ids
than an instance with two server threads can afford; `TerminalIsFinal` and `ViewExact` also follow from the refinements
of `JobModel` and `LogReader`, which the runs check instead; and `OnlyEndedPruned` goes with `RunningKnown`.

## 7. Observations

Two runs show what the code does against what the repository says of it:

1. `overcommit`: a creation times out, the status check asks an agent that is still preparing the
   disks and knows no instance, the row fails and its slot is given away, and both VMs start
   (`control/workspaces.ts:251`; `docs/testing.md:44`: "Queue floods never exceed the configured
   number of VM processes").
2. `connections_nfs`: `configure_connections` holds the `conn` mutex while `start_nfs` locks it again
   (`control.rs:547`; `README.md:14`: "optional NFSv4 over an NFS-only SSH tunnel").

Met while modelling and not stated as a run:

* A `DELETE` for a workspace whose creation has not registered an instance succeeds at once, and
  the VM is spawned afterwards (`agent/pty-runtime.ts:89`; `docs/architecture.md:46`: "node confirms
  termination"). `VmsEnd` shows the lease sweep ends it.
* When a volume's destruction times out, the wallet may attach it again while the agent still removes
  it (`control/workspaces.ts:210`; `control/workspaces.test.ts:108`).
* A grant that is being signed when its workspace stops is issued afterwards and stays until it
  expires (`ssh/lease-manager.ts:123`; `README.md:63`). No stream can be opened with it
  (`NoStreamAfterStop`). The lease sweep ends VMs before streams are revoked (`docs/architecture.md:49`
  says the opposite order).
* The active-job limit is exceeded by one when stdio and a socket start jobs at the same time
  (`jobs.rs:146`); `ActiveBound` says that this is the worst. Two starts of one id at the same time
  leave a process that no entry of the table knows (`jobs.rs:143`); `RunningKnown` says that nothing else hides one.
* A job whose launcher cannot be spawned is kept as failed with a finish time and no start time (`jobs.rs:226`).
  `jobs/model.ts:92` rejects such a status ("start time and state disagree"), so that `JobStatus.parse` fails for this job
  after start, status and cancel (`jobs/client.ts:27`, `:32`, `:37`) and its failure is never reported as such.
  `StatusConsistent` states the rules of `JobStatus` with this one exception.
* A cancellation between the waiter's read of `cancel_requested` and its write of the state is accepted and lost
  (`jobs.rs:373`). `CancelPrevails` says that a cancellation before that read is the outcome, `ImplementsModel` that
  one after it changes nothing.
* The event stream ends at the first terminal status, with what is beyond one chunk unsent
  (`control/server.ts:252`), and the page stops following a job with the first terminal status it is given, also by
  the answer to a cancellation, which carries no bytes (`web/main.ts:958`): the tail of the output is then not shown.
  `ImplementsReader` speaks of what is before the cursor.
* A poll or a cancellation of an earlier job that is answered after the next one was started is applied to the new
  job's panel: its state, its bytes, and a cursor that may be beyond the end of the new job's log, which then refuses the next
  poll (`web/main.ts:998`). `ImplementsReader` and `ViewEnds` promise nothing from then on (`crossed`), so that they do not catch
  this; a poll that fails is the last one (`failed`; with one break in the run, only after such an answer).
* A client that leaves an HTTP request of the egress proxy ends its handler, which frees the slot
  and clears the deadline while the upstream request lives on until its idle timer
  (`agent/egress-proxy.ts:473`). `UpstreamsEnd` says that it does end.
* A reset of a CONNECT socket during the lookup or the connection to the upstream meets no error
  listener (`agent/egress-proxy.ts:271`), and an unhandled error event ends the agent.
* The expiry of a challenge is not looked at again after the await (`control/auth.ts:47`), nor the
  session after Turnstile's (`control/server.ts:167`).
* `ws` may abort a handshake without calling back: the terminal slot taken before it is then not
  given back (`control/server.ts:379`). `TerminalSlots` counts such a slot as held, and says that nothing else keeps one. In the run
  both limits are 1; the theorem has any two.
* The uid of a jail is released by `stop` and again by the exit event (`agent/firecracker-runtime.ts:283`). A VM
  created in between may be given the uid and be robbed of it by the second release, so that a third is given it
  too, and robs or is robbed in turn. Besides, `stop` does not await the end of the process it kills
  (`agent/firecracker-runtime.ts:140`): its cleanup frees the uid while the killed process may still live, and the next VM
  shares it for that while. `UidsExclusive`, which speaks of live processes, says that there is no third way.
* `destroyVolume` spares the volumes of running instances only, and looks before it awaits (`agent/firecracker-runtime.ts:127`): a
  creation that is preparing, or begins during the removal, loses its disk, and may run without one.
  `DiskKept` says that the disk of a running VM is removed only when its creation overlapped the removal.
* A creation that fails before its VM's process exists keeps its uid and its directories
  (`agent/firecracker-runtime.ts:262`), and one whose process cannot be spawned its proxy too, because no exit event
  comes (`agent/firecracker-runtime.ts:60`). `LeaksExplained` says that nothing else is kept without a failed removal
  or a crash. A rejected cleanup of the exit event is not handled (`agent/firecracker-runtime.ts:69`), which ends the agent.
* A crash while a volume is being made leaves its temporary image until the volume is destroyed
  (`agent/data-volume.ts:46`).
* A socket into the guest that closes without an error is not retried until somebody types or attaches
  (`agent/firecracker-runtime.ts:178`), and what was typed before the limit of held input was passed is still delivered after
  the terminal was closed for it (`agent/firecracker-runtime.ts:97`).
* The close event of a terminal's socket clears `socket`, also when that is a newer one by now (`web/main.ts:709`):
  the newer socket stays open and unknown to the page. `TerminalTracked` says that no other is.
* The page polls from the answer to its last poll: one that fails ends the polling (`web/main.ts:485`), and an older
  answer without a workspace hides a new one and ends it too. `PageConnects` holds but for these, and `PollGoesOn`
  says that a workspace which is shown as active is asked for again unless a request failed.
* A 401 of the session before signs the page out of the session after (`web/main.ts:149`), and `logout` fails, with the page
  still signed in, when the server's session is already over (`web/main.ts:354`).

## 8. Not modelled

Pure functions and presentation: validation of requests, construction of certificates, sshd and NFS plans,
configuration, layout and the files, Bloom, ceremony and connection panels of the web client, the MCP translation, images and build scripts. Pass-through
calls of the control plane (files, jobs, ceremony) change no state of it. The janitor's deletion of
rows after 30 days, pids reused by the kernel, and the contents of DNS names, addresses and TLS
records are left out of the models that touch them. `PROJECT.json` gives the reason for each component.

## 9. Plan

Done: the lifecycle core with its refinement and proofs, the SSH gateway, the job engine with
logs, connections and the page's job panel, the egress proxy, sign-in, the Firecracker runtime with its
disks, the terminal bridge, and the page; theorems for all of their safety properties and for the three refinements.

Next, in this order:

1. *Guest files*: chunked upload, temporary file, rename, quota and concurrent writers (`files.rs`,
   `agent/data-files.ts`); an abstract file store with atomic replacement that the upload implements.
2. *The output of a terminal*: history, its limit, and what a second terminal of the same VM is shown.
