# TLA+ models of pi-agent-web

pi-agent-web puts a browser in front of `pi` coding-agent processes. One Node
server keeps a pool of child processes, one per open Session; browsers attach
over a WebSocket, watch a Session's events, and one of them at a time may drive
it. This directory holds TLA+ models of the parts where that can go wrong, the
TLC runs that check them and the proofs TLAPS checks.

Paths are relative to `packages/server/src` unless they say otherwise.

## 1. The system

| component | state | operations | talks to |
|---|---|---|---|
| lease authority, `session-supervisor.ts` | lease entry per handle (generation, revision, owner, terminal), lease actor | claim, takeover, release, release exact, release of a connection, rekey, reconcile | bridge (requests, transitions), pool (handles, generations) |
| pool, `session-supervisor.ts` | runtimes by handle, activations, deletion and workspace reservations, restart timers, pool lock | activate, create, restart, evict, reap, delete, abandon, crash restart, stop all | runtimes (start, stop, crash callback), routes (deletion) |
| runtime lifecycle, `session-runtime.ts` | process, process token, generation, phase, start and stop promises, content owner, finalization | start, spawn, ready, failure, stop | Pi process, content store, pool |
| commands, `session-runtime.ts` | pending commands, reserved turns, operations, agent activity, queue, dialogs | send, event, turn expiry, dialog answer and timeout | Pi process, supervisor |
| replay, `session-runtime.ts`, `session-live-projection.ts` | replay ring, sequence number, snapshot base, sticky requests | emit frame, get replay, compact | bridge |
| identity transition, `session-runtime.ts`, `transition-payload-ledger.ts` | transition stage, staged frames and payload references | fork, clone, switch, new session: stage, commit, roll back | pool (commit under the lock), content store |
| bridge, `session-ws-bridge.ts` | connections, catch-ups with buffered messages, live subscriptions, deferred leases, control intents, outbound queues | hello, subscribe, history page, claim, takeover, release, command, rekey broadcast, disconnect | supervisor, browsers |
| content custody, `generation-content-owner.ts`, `epoch-content-store.ts`, `pi-payload-externalizer.ts` | generation owners, staged and committed payloads, reference counts, budgets | stage, commit, retire, read | runtime, HTTP content routes |
| Pi process, `pi-process.ts`, `jsonl.ts` | child, stdin queue, pending requests, timers | spawn, send, response, timeout, stop with escalation | operating system |
| catalog and history, `native-session-catalog.ts`, `session-history-reader.ts` | index of Session files | list, resolve, read page | routes, pool |
| trash, `recoverable-session-trash.ts`, `native-routes.ts` | trashed files, restore records | trash, restore, purge | pool (deletion reservation) |
| HTTP services, `*-routes.ts`, `access-control.ts`, ... | small files | one request at a time | browsers |
| protocol, `packages/protocol` | none | encode, decode | both ends |
| UI stores, `packages/ui/src/stores` | connection, subscriptions, projection, control view, commands in flight, recovery | reducers over server messages, user intents | bridge |
| UI components | presentation | | UI stores |
| CLI, scripts | none | | server |

### What makes it hard

* **Two promise chains.** The pool lock (`poolTail`) is held across awaits; the
  lease actor (`leaseTail`) is not. Claims and takeovers take both, releases and
  disconnects only the second, so they run in between.
* **State read before an await.** A claim, a capacity check, a replay, a native
  history read: each looks at a runtime that may have been rekeyed, stopped,
  crashed or replaced when the promise resolves.
* **Identity changes under a live process.** A fork or clone turns a running
  process into another Session: the handle, the generation, the lease, the
  replay ring, the content owner and the browser's subscription all move, not
  at one instant.
* **Failure.** The child process may exit at any await; browsers disconnect
  between a request and its answer; restarts are budgeted and delayed by timers.
* **Bounded everything.** Process pool, replay ring, outbound queue, pending
  turns, dialogs, content bytes: each has a limit with its own overflow path.

### What must hold

* Lease: a fencing token that was given up never opens a Session again; at most
  one owner; revisions order owners; a disconnect leaves nothing held.
* Pool: never more processes than the cap; no process is tracked twice or
  leaked; a Session under deletion is not started; a stop drains everything.
* Runtime: callbacks of an old process change nothing; a payload owner is
  never dropped while referenced; a start finds the last stop finished.
* Commands: work in flight pins the runtime; a turn reservation is released
  exactly once; a dialog is answered at most once.
* Replay: what a subscriber has seen plus what it is sent is what happened,
  in order, with no gap, across catch-up and rekey.
* UI: the view of control converges to the server's; a command whose outcome is
  unknown is never sent twice.

## 2. Modules

A step of every model is the code between two awaits: one task of the event
loop. Names are the source's names where TLA+ allows it.

| module | models |
|---|---|
| `SessionLease`, `LeaseRegister` | the lease authority with the bridge's control requests; what it promises, a register of owners |
| `SessionPool` | the pool of processes: lock, capacity, activation, creation, forks, deletion, shutdown |
| `RuntimeLifecycle` | the life of one runtime: process tokens, start, stop, failure, forks, who keeps its content |
| `RuntimeOperations` | what a runtime is busy with: commands, reserved turns, the agent, compactions, dialogs |
| `PiProcess` | the wrapper of one child process: requests, lines, decoding, stop and finalization |
| `ContentStore`, `ContentCustody` | content by digest with its holds, pins, quota and locks; who answers for each hold |
| `LiveProjection`, `Transcript` | the base and the suffix of a Session's events, and the conversation that browsers build from them |
| `SessionChannel` | one browser that follows Sessions over one socket: replay, catch-ups, live subscriptions |
| `BridgeOutbound` | what the bridge queues, reserves and reads for its sockets |
| `NativeCatalog` | the catalog of the Session files on disk |
| `SessionTrash` | the deletion of a Session into the trash |
| `ExtensionDialogs` | dialogs and sticky state of extensions, on the server and in the browser |
| `BrowserControl` | the browser's view of who controls a Session, and what it offers |
| `HotRecovery` | the inventory of hot runtimes and the browser's queue of exact recoveries |
| `BrowserStream` | from frames to what the browser shows, and to answers of commands |
| `GatewayConnection` | the connection between browser and gateway |
| `SessionDirectory` | the browser's workspaces and Sessions, and the Sessions it created |
| `MC...` | what the runs instantiate |
| `...Proofs` | theorems |

The parts meet where the code's parts meet. `SessionLease`, `SessionPool`,
`RuntimeLifecycle`, `RuntimeOperations` and `SessionChannel` all see a runtime:
its lease, its place in the pool, its process, its work, what it publishes. A
fork is spread over all of them, each with the part it moves. The MC modules put
modules that share no state side by side; a variable says which of them moves,
so that one run answers for several parts.

### SessionLease

`runtimes`, `leases` and `deleting` are the supervisor's maps `runtimes`,
`leases` and `deletionReservations`; `sessionHandle`, `generation` and `phase`
are fields of each `SessionRuntime`; `pool` names the operation that holds the
pool lock while it waits for the lease actor, or the rekey that does. `request`
is what a `session_claim` or `session_takeover` handler of the bridge keeps
across its awaits, `closed` and `swept` are the two moments of a disconnect: the
socket closes, and `releaseConnectionWithTransitions` runs in the actor.
`nextToken` stands for `randomUUID`. `spent` is history: every token that
`assertLease` once accepted and then did not.

| action | code |
|---|---|
| `ClaimRequest`, `ClaimAdmit`, `ClaimCommit`, `Continue` | the bridge handler, `claimWithTransition` under the pool lock, its body in the actor, the handler after the await (a socket that closed meanwhile gives the lease back) |
| `TakeoverRequest`, `TakeoverAdmit`, `TakeoverCommit` | the same for `takeover` |
| `Release`, `Unsubscribe`, `Disconnect`, `Sweep` | releases by token, release of one Session, close, cleanup of the connection |
| `Track`, `Respawn`, `Restart`, `Crash`, `Evict`, `Reconcile` | a runtime for a handle, a new generation, `restart`, the end of a process, `reconcileLease` |
| `RekeyRuntime`, `RekeyLease` | the pool part and the actor part of `rekeyRuntime` |
| `ReserveDeletion`, `AbortDeletion`, `FinishDeletion`, `ForgetLease` | `withSessionDeletion` |

Abstracted: a connection has one control request in flight; the checks of
`takeover` that only look at the file and the workspace of a Session are left to
`SessionPool`; the rekey of a created Session from its temporary handle is part
of `Track`; `Respawn` needs no lock, which allows more than the code does and
covers starts chained behind a stop. "fenced" is `requiresExplicitRestart`.

### SessionPool

`queue` is the promise chain `poolTail`, whose head holds the lock; a task is
one asynchronous operation and its `pc` is what it awaits. `phase`, `leader` and
`ending` describe a runtime: its state, its process (alive; or exited with
descendants to clean up), and what its `stopPromise` stands for. `deleting`,
`transition` and `creations` are the three kinds of reservation of a workspace,
`closing` is the progress of `stopAll`. `unadmitted` is history: the processes
that came up without passing `ensureCapacity`.

| action | code |
|---|---|
| `EnsureRuntime`, `Resolve`, `Track`, `Start`, `Acquire`, `Resume`, `Complete` | `ensureRuntime`, `startRuntimeWithCapacity`, `acquireRuntime` and their callers |
| `Evict`, `RoomDenied`, `LaunchTracked`, `LaunchNew`, `LaunchCreation` | one turn of the loop of `ensureCapacity`, and the start it was called for |
| `Create`, `ReserveCreation`, `LaunchAdmit`, `CommitCreation`, `Untrack`, `EndCreation` | `createSession` |
| `ReserveTransition`, `ForkAnswered`, `ForkFails`, `CommitTransition`, `EndTransition` | a fork seen from the pool |
| `Manage`, `Reserve`, `Stopped`, `Operate`, `ForgetTransient`, `FinishDeletion` | `withSessionDeletion` (controlled or not) and `abandonSession` |
| `Reap...`, `Restart...`, `TimerFires` | `reapIdle`, `restart`, the timer of a crash restart |
| `StopAll`, `Drained`, `StopRuntimes`, `RuntimesStopped`, `Clear` | `stopAll` |
| `Ready`, `TurnEnds`, `LeaderExits`, `HandleFailure`, `ContentFails`, `Settle`, `Revive` | events of the process and of its cleanup, `SessionRuntime.start` behind a stop |

A start chained behind a stop runs in the microtask that settles the stop
(`Revive` has priority over events, as promise reactions have). A process becomes
ready (`Ready`) only if `Opens`: a runtime that was ready once has an existing file
as its target, and `handleReady` refuses to open one that is gone. Abstracted: one
workspace; no aliases but temporary handles (a fork keeps none); leases are the
set `owned`; ages, idle times, the order of eviction and the restart budget are
nondeterministic; a second activation of a Session nobody tracks waits where the
code shares a promise. Left out: runtimes that need an explicit restart, cleanups
that fail, a content failure during startup or finalization (`RuntimeLifecycle`
has it), removal of a file by others. A leader that exits with a line in hand is
not counted by `ensureCapacity` until its finalization begins, as in the code.
`Collect` lets the model use again the object of a runtime nothing refers to.

### RuntimeLifecycle

A process is named by the number it was spawned under, which is the
`processToken`; `token` 0 is one no process has, so late callbacks are ignored.
`spawn`, `starter`, `fork` and `compaction` are the coroutines that outlive a
step, `ending` is `stopPromise`, `item` says of each set of content who has it.

| action | code |
|---|---|
| `Open`, `StartAgain`, `SpawnReady`, `SpawnDone`, `SpawnFails`, `SpawnStopped`, `SpawnEnds` | `start`, `startInternal`, `spawn` and the probe |
| `ProcessStep` | a process: a payload arrives, the leader exits, `onExit`, `handleFailure`, finalization |
| `Stop`, `Untrusted`, `ContentFails`, `RetainedFails`, `EndingSettles`, `ItemSettles` | `stop`, a projection that no longer fits, a failed owner, cleanups |
| `Fork...` | `sendIdentityTransition` with its stage, verify, commit and rollback |
| `Compaction...` | an idle compaction that throws away a transfer |

### RuntimeOperations

| action | code |
|---|---|
| `Request`, `Admit`, `Headroom`, `Respond`, `Finish` | `send`: the admission chain, the wait for headroom, the response, the `finally` |
| `TurnExpires`, `LeaseMoves` | the timer of a reserved turn, a lease that changes hands while a command waits |
| `AgentStarts`, `AgentSettles`, `QueueUpdate`, `Compaction...`, `Dialog...`, `IdleCompaction...` | events of Pi and the compaction of the idle projection |
| `Lose`, `Crash`, `Stop`, `Stopped`, `Restart` | the process is lost, its exit handled, stopped, replaced |

### PiProcess

One wrapper, spawned once. `lease` is what became of the payloads of each line.
`DecodeStep` and `DecodedLate` are a decoder with a deadline; `Commit` is the
second of the two steps in which a consumer takes a line over; `arbitrating` is
an exit that waits for the line in hand.

### ContentStore and ContentCustody

A token `<<a, k>>` is what an actor has on a content: a hold of a frame, a pin of
a download. `StoreStep` runs an operation of a token from one await to the next:
waiting for the digest lock, verifying, writing, publishing, renaming into a
tombstone, removing; each may fail. `Collect` and `SweepStep` are `gc()`, which no
production code calls today; `Shutdown` and `Close` are `close`.
`ContentCustody` adds `externalizePiPayload` with its rollback, the ledger of a
fork and `GenerationContentOwner` with its cleanup of duplicates and `release`.
The owner's poisoned state is modelled and never reached.

### LiveProjection and Transcript

`Transcript` has the two ways to a conversation: `ReduceProjection`, the fold of
events into turns and steps (`projection-reducer.ts`), and
`RebuildProjectionFromMessages` from settled messages (`projection.ts`). A step
has a number of text chunks and at most one tool call. In `LiveProjection` Pi
runs turns, calls tools, is steered and answers `get_messages`; the runtime
commits its events into `proj` (`SessionLiveProjection`: base, suffix, sequence,
phase), merges deltas, reserves half of the suffix for a turn it accepts, and
compacts the base when it is idle. `page` is a browser that followed every event
and holds the deltas of a frame back (`SessionEventScheduler`). `Conversation` is
what is compared: a list of messages opens a turn at every user message and calls
a skipped call interrupted, which the reader cannot tell apart. A browser that
joins a crashed Session whose content is retained is not compared: the failure is
marked before the snapshot is applied, so its last turn is shown as running.

### SessionChannel

`stream` is what a `SessionRuntime` numbers and keeps: handle, generation,
`lastSeq`, `lastTransientSeq`, replay ring, state, lease. `bridge` is the
`ConnectionState` of the one connection: `live`, `aliases`, `catchUps`,
`rekeyLeases`. `client` is the browser, one channel per Session, and `inbox` its
requests on the way. `committing` is a fork that has moved its runtime and not
announced it. `owed`, `opened` and a channel's `runtime` are history.

| action | code |
|---|---|
| `Emit`, `SetState`, `Crash`, `Restart`, `Ready` | `emitFrame`, `setState`, `handleFailure`, `spawn` |
| `LeaseChange` | `commitLeaseTransition` for another connection, with its broadcast |
| `Open` | `ensureRuntime` creates a runtime |
| `ForkApply`, `ForkPublish` | `commitIdentityTransition` up to the lease actor; the rekey, the staged frames and the child's lease |
| `HandleSubscribe`, `Read`, `Answer`, `SubscribeError` | `subscribe` of the bridge: `beginCatchUp`; the supervisor's `subscribe` with `getReplay`; what follows the await, `adoptCatchUpHandle` included; its `catch` |
| `HandleUnsubscribe` | `unsubscribe` |
| `SubscribeSession`, `UnsubscribeSession`, `Refresh` | the browser's intents, and a resync |
| `Disconnect`, `Reconnect` | the socket closes; the next connection subscribes every channel again |

Messages reach the browser in the step that sends them: one socket keeps their
order, and the browser's requests, which do wait, already give every crossing of
a request with a message. An await has any length, except that a fork does not
slip between the reading of a replay and its answer, which are microtasks of one
chain. What a resync contains is left out: a snapshot is a `baseline` with the
number it covers.

### BridgeOutbound

Frames queued or given to `ws.send`, what catch-ups buffer, answers reserved for
running commands and history pages being read, each counted against a cap of its
connection and of the gateway. A frame has a weight; a page is admitted by its
estimate. Events race to give bytes back: the callback of `ws.send`, a disconnect,
the baseline of a catch-up, its error or a later subscribe, the end of a read, a
late answer. `Subscribe` is `beginCatchUp`, `SubscribeAnswered` what follows the await
(`Baseline`, `SubscribeFails`); which buffered frames the baseline covers is left
open (`Covers`), and so is whether the gateway's limits on channels and catch-ups
refuse a subscribe. A page request repeated on the same Session aborts the first
without an answer, as in the code. Connections begin subscribed by replay; their
admission and hello are `GatewayConnection`'s, leases and rekeys `SessionChannel`'s,
exact subscriptions `HotRecovery`'s.

### NativeCatalog

A file is a sequence of lines and a revision; other programs append, rewrite,
create and remove it at any step. `Refresh` is a caller, `Plan` and `Scanning`
are the scan of directories and files (stat, open, read, stat again, up to two
attempts), `RoundEnds` publishes the list. Rewrites strictly between the two
64 KiB checkpoints of an incremental read are not compared by the code and not
made by the model; a file that appears and vanishes between two directory
revisions stays listed until the directory changes (`CameAndWent`; the exception
was first stated as if nothing else happened to the file, which holds for two
changes and not for three: the proof needed what it says now).

Errors are those the code retries: a file that is gone, `EACCES`, `EBUSY`, `EIO`,
too many open files and the like. Permanent ones (`ELOOP`, `EPERM`, `ENOTDIR`) are
left out, and `CatalogTruthful` is not true of them: a file that cannot be read
(`native-session-catalog.ts:639`, `894`), or with a diagnostic a whole source
(`348-357`), counts as having no Session in a list that is not partial.

### SessionTrash

The path, the inodes, the entries of the trash and one `move`, step by step:
lstat, open, reserve, metadata, stat, rename, and back by link and unlink when
another file was moved; any call may fail, and the server may crash between any
two.

### ExtensionDialogs

`runtime` has the pending dialogs and the sticky state within their limits and
the frames held back by startup or a fork; `down` and `up` are in order; `told` is
what Pi heard. One browser is connected and in control. A dialog id is used again
only after its dialog closed; a fork ends with the parent's dialogs. `Only` is the
`filter` of the source, `Expanding` and `Committing` its loops over the frames held
back and over the suffix of a snapshot, written as recursive functions.

### BrowserControl, HotRecovery, BrowserStream, GatewayConnection

The browser's machines. In each the handlers are operators on a browser record,
composed in the order of the source, and frames in both directions are queues.
`BrowserControl` is the control machine with claims, takeovers, releases and
`session-control.ts`; the other browsers are one, `other`. `HotRecovery` is the
supervisor's inventory, the exact subscriptions and the queue of recoveries.
`BrowserStream` is the tail of projections, the replay buffer, resync with its
retries, and the commands that wait for their events; chunked snapshots begin
with their first chunk, extension notices are left out; after a restart the
bridge subscribes its subscribers again. `GatewayConnection` is the connection
machine with its three timers, re-authentication and sockets named by the epoch
they were opened in, and the gateway's greeting, heartbeat and cleanup.

### SessionDirectory

Everything the browser knows is the record `b`; the functions of
`session-directory.ts` and `session-controller.ts` are operators on it. What the
directory was told (`b.fact`, `b.hot`) and what the channel was told (`b.runtime`)
need not agree, and most of the code is about that. Left out: other browsers,
generations of a runtime, removal of a workspace by this browser, renaming,
unread marks, search. Two things the code allows and the model shows: a new
Session may resume one that is being abandoned, and a list in flight while a
Session is deleted can bring it back. `DraftReachable` has an exception for the
same reason as `draft_abandoned`: between the stop of a discarded Session at the
gateway and its answer, an inventory may take it out of the sidebar while the
user types in it, and whoever leaves it then does not find it again.

## 3. Runs

| run | instance | shows |
|---|---|---|
| `lease` | 1 Session, 2 connections, 2 runtimes, 4 revisions, 3 tokens; and 1 runtime forking between 2 Sessions | `LeaseInv`, `SpentStaysSpent`, `DisconnectReleasesAll`, `RevisionOrdersOwners`, `TakeoverReplacesObserved`, `ImplementsRegister` |
| `pool` | 2 tasks, 2 Sessions, 2 runtimes, 1 process; four mixes of operations | `AdmittedWithinCap`, `AwaitsAreAnswered`, `StopsLoseNothing`, `ProcessesTracked`, `WorkspaceReserved` |
| `runtime` | lifecycle: 2 processes, 3 content items; operations: 2 commands, 1 dialog; process: 1 request and the probe, 2 lines | `KeepingExact`, `CleanStart`, `OperationsExact`, `ProcessExact`, `StopEnds`, `DispatchCurrent`, `CommitsCurrent`, `TurnsReleased`, `EndIsReported` |
| `content` | 2 frames with a content in common, 1 download or collection, a fork, or a shutdown; a quota of 2; transcript: 2 runs, 2 assistant messages of 2 deltas, 1 lost connection, question or exit | `StoreExact`, `TranscriptExact`, `OwnerReleaseEnds` |
| `channel` | 1 Session through restarts and reconnections; 2 Sessions and a fork, twice | `ViewsExact`, `LeasesExact`, `FollowerServed` |
| `page` | directory: 3 Sessions, 2 workspaces, 4 moves, 2 requests; control: 2 generations, 3 revisions; recovery: 2 hot Sessions | `DirectoryExact`, `OvertakenAnswersLost`, `ControlExact`, `RecoveryExact` |
| `browser` | stream: 2 events, 2 generations, 2 commands, 2 faults; connection: 2 sockets, 2 gateways | `StreamExact`, `AnsweredInOrder`, `StreamRecovers`, `ConnectionExact`, `Reconnects`, `PeersReaped` |
| `gateway` | 2 connections, 2 commands and 2 page requests; 1 or 2 files with 2 changes or a fault; 3 inodes, 2 deletions, a crash; 1 dialog, 2 sticky keys, 3 requests, 1 resync | `BridgeExact`, `CatalogTruthful`, `NothingLost`, `DialogsAgree` |

The bounds are the smallest that make the interesting cases happen. Two
connections give a takeover and every race of a release with a claim; two
runtimes for one Session give a request that outlives its runtime; a third token
gives a third owner. One process for two Sessions makes every activation an
eviction, and two operations show each pair that meets under the lock. A ring of one
frame and two frames per generation give each answer of `getReplay`. Two
generations separate old from new; three revisions a grant, its loss and another.
Two frames that share one content give every meeting under a digest lock. Two
runs are one that is compacted and one that begins meanwhile. Two
hot Sessions are one recovery and one that waits behind it. A catalog of one file
that changes twice shows an append and a rewrite inside one scan.

No run looks for deadlocks, except those of the pool; in `pool`,
`AwaitsAreAnswered` and the absence of a deadlock say together that no operation
waits for ever; elsewhere processes, users and browsers may stop for good.

Fairness. Liveness is asked under weak fairness of what the code does by itself:
promises resume, timers fire, a stop escalates to a kill, an answer comes or its
time-out does (`StopEnds`, `TurnsReleased`, `EndIsReported`, `OwnerReleaseEnds`),
frames arrive on an open socket and retries run (`StreamRecovers`, `Reconnects`),
the heartbeat beats (`PeersReaped`). Nothing is assumed of users, of the agent, of
downloads, or of the operating system beyond the end of a killed group.

### Where the code and its documentation part

| run | says | the code |
|---|---|---|
| `pool_deletion` | no process can open the file between the safety check of a deletion and the move (`session-supervisor.ts:717`, `docs/decisions/0004-...:17`) | the stop of a deletion (`:875`) joins the cleanup of a crash, behind which a subscription already chained a start; the start opens the file while the deletion moves it |
| `takeover_offered` | the UI offers `Take over` when the lease permits (`docs/ui-ux.md:26`) | a lease equal to the baseline is ignored though it answers a claim; the claim stays pending and the offered takeover is refused by the machine |
| `recovery_blocked` | recovery goes on without blocking other hot Sessions (`docs/decisions/0009-...:53`) | while any runtime is in transition a restart elsewhere is announced as a change only; the browser's active recovery is moved to the new generation without a request and never ends |
| `draft_abandoned` | a transient Session is abandoned after untouched checks (`docs/decisions/0009-...:66`) | the Session of an overtaken creation is abandoned as soon as it is controlled, without asking whether the user opened it from the list and typed |

The passing properties of the pool speak of admitted processes, those not in
`unadmitted`: a start chained behind the stop of an evicted or deleted runtime
does not ask for capacity (the first finding shows one), and `acquireRuntime` does
not ask whether the runtime it waited with is still tracked. Such a forgotten
runtime is started, but as its Session has no file it never opens one (`Opens`).
`page` checks
`RecoveryExact` without transitions, for the third finding. `ViewsExact` is checked
without a parent that opens again after its fork: a new runtime object counts
from one, and the channel of the former one takes its frames for its own.
`LeasesExact` and `FollowerServed` leave out what is broken where resyncs, forks
and restarts meet: a deferred lease of a crashed generation sent in place of the
current one, a notification covered by the baseline that replaces it, and a
subscription to a fork's child while the parent's catch-up awaits its answer.
`FollowerServed` is checked without subscriptions that fail: an error names no
request, so that of an earlier subscribe, arriving after unsubscribe and subscribe
again, makes the browser forget a Session the bridge goes on serving.
`DisconnectReleasesAll` holds until revisions run out: the walk of
`releaseConnectionWithTransitions` ends at the first exhausted lease.

## 4. Proofs

| module | theorems |
|---|---|
| `SessionLeaseProofs` | `LeaseInvariant`, `SpentTokensStaySpent`, `TokensOpenOneSession`, `LeaseImplementsRegister`, `RevisionsOrderOwners`, `TakeoversReplaceObserved`, `DisconnectsReleaseAll` |
| `SessionPoolProofs` | `PoolInvariant`, `CapsHold`, `NoProcessIsLost`, `DeletionsAreAlone`, `NoWakeUpIsLost`, `NothingIsStoppedAtWork` |
| `MCRuntimeProofs` | `OperationsAgree`, `DispatchesAreCurrent`, `ProcessEndsCleanly`, `CommitsAreCurrent`, `ContentIsKept`, `StartsAreClean` |
| `MCBrowserProofs` | `ConnectionHolds` |
| `BrowserControlProofs` | `ControlTheorem` |
| `SessionDirectoryProofs` | `DirectoryTheorem`, `OvertakenTheorem` |
| `NativeCatalogProofs` | `CatalogTheorem` |
| `MCGatewayProofs` | `DeletionsLoseNothing`, `CatalogsTruthful`, `DialogsAlwaysAgree` |

Most leaves need a second or two. The ones over the widest records (a whole
`Directory`, an entry of the trash) or over many quantified facts name their
prover and a longer limit (`ZenonT(100)`, `SMTT(60)`), so that they also check on a
busy machine; none of them needs more than about a tenth of it on an idle one.

The theorems are for any sets of Sessions, connections, runtimes, commands, files and
sockets, and any bounds, under the assumptions the modules state: bounds are
numbers, positive where the code's are; `None` is none of the values it is
compared with; sets that are counted are finite.

**The lease.** `SpentStaysSpent` is not inductive. A token could come back in
three ways: it is drawn again (`TokensDrawn`), it sits in two entries and only
one is revoked (`GrantsDistinct`), or it sits in an entry that is not accepted
now and becomes current later. The last is the hard one: an entry stops being
current when the generation moves on and can never catch up (`OwnersNotAhead`);
it also stops when its Session loses its runtime, and then a new runtime that
counts from one could meet it; `UntrackedUnowned` says this entry has no owner,
except while a rekey or a deletion that already took the runtime away waits for
the actor (`RekeyInProgress`). `TrackedAtHome` and `RequestsGrounded` are what
the actions rely on. What all steps of the actor share is proved once
(`LeaseStepKeeps`). The refinement has a lemma per action to the register's
actions. `DisconnectsReleaseAll` has the hypothesis that less than half of the
revisions have been drawn as tokens (`Unexhausted`): an exhausted lease ends
the walk of the cleanup, so that without it the property is false.

**The pool.** `PoolInv` has the conjuncts `Shape` (what an operation has when it
waits for something), `Locked` (who holds the lock), `Roomy` (what a body found
and still finds after each eviction), `HomesTracked`, `HomesKnown`,
`AdmittedTracked` (where runtimes are), `PhasesFit`, `PendingKnown`, `Excluded`
and `DeletionsAlone` (what reservations keep apart), `Closed` (how far shutdown
is) and `Awaited` (what ends each await). The caps hold because a body that found
room keeps the lock until its process counts, and only processes it stops itself
or that die change the count meanwhile.

**The runtime.** `OperationsAgree`: the count of commands in flight, the state
and what was published agree, because a command dispatched to an earlier process
no longer counts. `ContentIsKept` follows from who the custodian of each item is
(`Custodian`): an owner, a fork's stage, or a release that somebody awaits.
`ProcessEndsCleanly` from the order in which a spawn ends (`EndedInOrder`).

**The connection.** `ConnInv` says of each phase which timer, promise or socket
it has, that one socket is open, and which frames may be on their way to it.

**The control.** `ControlInv` speaks of the frames in flight. `FramesTrue`: a status
of the present generation is true if its revision is current, revisions come in
order, and a resync or a snapshot has a status behind it. `LeaseTrue`: nothing on
its way is older than what the browser shows or keeps for later. `AttachedTrue`
carries the property: a subscribed browser with no subscription of its own in
flight either knows the present generation or will hear of it and then of its lease
(`Known`), and once the last status has been taken (`Silent`) what it shows, or what
it kept until its snapshot is in, is the lease (`Shown`), unless a release is on its
way. `AttemptTrue`: a takeover under way has its request, its answer or its answer
kept for later somewhere (`Outstanding`). The parts are stated of values, so that
each handler has a lemma about the record it returns, and a status is judged once
(`Ready`, `Reduced`) for `handleLease` and for `finishSnapshot`.

**The directory.** `DirectoryInv` has five parts. `ListsInOrder`: a request is
answered once, and the latest for a workspace has read nothing older than what is
listed, so that lists go forward only. `Spinning`: a turning spinner has the
latest request of what is shown among the answers on their way; a navigation to
another workspace breaks it until its handler has sent the request of its own, so
that the lemma about a navigation does without. `Homes` and `Alive` say where a
Session without a file is: what the directory takes for one runs, unless the
gateway has stopped it on request and the answer is on its way. `Runs`: what runs
is in the last inventory, or in the list when none is under way; with `Alive` this
gives `DraftReachable`, which is not inductive by itself. `Kept` is `NoneKept`; it
breaks between the steps of one handler, for the Session about to be shown or just
told of, and each function has a lemma with that Session left out (`KeptBut`).
`Creating` keeps a created Session unknown until its answer: no click can have
reached it, so what `discardStaleCreatedSession` finds is fresh. The functions of
the source are one record of thirty fields to another; what releases, claims and
subscriptions leave alone is said once (`Quiet`), and so is where a navigation leads
(`Navigated`).

**The catalog.** A revision is a place in a file's history, so that `CatalogInv`
can speak of moments. `EntryOK`: an entry says what one state of its file says, not
an earlier one than its revision. `CachedOK`: a directory cached under a revision is
true under it, or of a file that came and went. `ScansFile`: a scan compares a file
with the state it had when its directory was looked at, never with a later one, and
`FileScanOK` follows stat, open, read and stat again. `FoundOK` and `ListOK` carry
this through the rounds to the list, which claims nothing of a directory it did not
cover. `DrainOK` and `CallerOK` count the forced refreshes. An incremental read
needs no word about inodes: it compares all lines it has seen with what it reads.
The theorem is for any catalog; `CatalogsTruthful` takes it to the three of the run.

**The deletion.** Each step of the move is a step of the file: at its path, in
an entry with its metadata, or in both while it is linked back.

**The dialogs.** `DialogsInv` follows one key at a time, a kind and an id. `Final`
says what the messages on their way, in their order, will make of what is shown
for the key, and `Base` where they begin: at what is shown, or, while a snapshot is
awaited, at the snapshot, the frames buffered after it and the answers that came
meanwhile. `Agreed` is that this end is what the runtime keeps, but for a dialog
whose frame is still held back and may be shown or not; during the startup nothing
is shown (`StartupHeld`: the frames held back make the sticky state). With nothing
on its way it is the property. It needs the numbers to rise along `down` and beyond
every snapshot (`NumbersOK`), else `commitSessionSnapshot` would drop or repeat a
frame; a dialog answered while a snapshot is awaited to be over at the server
(`ResultsOK`), else leaving it out would hide an open one; and notifications to
travel in the order they were made (`NotesOK`), which makes each heard at most
once. A step of the runtime is judged by the frames it sends (`Becomes`, `Tells`,
`Shows`). What `Only`, `Expanding` and `Committing` compute is proved by counting: a
set of numbers that has zero and each successor is all of them (`Counting`), and
the recursive function is the one such function (`LeftDef`, `ExpandingDef`,
`CommittingDef`).

Only model-checked, and why:

* liveness (`StopEnds`, `TurnsReleased`, `EndIsReported`, `OwnerReleaseEnds`,
  `StreamRecovers`, `Reconnects`, `PeersReaped`): under fairness, beyond the prover;
* `ViewsExact`, `LeasesExact`, `FollowerServed`, `StreamExact`,
  `AnsweredInOrder`, `RecoveryExact`: their handlers fold queues and sets
  of frames with the folds of the library, whose definition is recursive over a
  set; no induction over it is at hand;
* `TranscriptExact` (folds of events), `BridgeExact` (sums over queues) and
  `CustodyExact`, a part of `StoreExact` (filtered and flattened sequences), for
  the same reason. `DialogsAgree` is proved because its folds were written as
  functions of a number; the others could be, at the same price of some hundred
  lemmas each;
* `StoreExact` as a whole: not proved.

## 5. What is not modelled

Decoding and validation of messages and the Pi adapter (stateless), the HTTP
routes and local services (one request at a time over small files), bootstrap,
CLI and scripts (wiring), React components (presentation), the layout of a
download into ranges and of a payload into chunks. Byte budgets are counts of
items. The reader of history pages is not modelled yet.

## 6. Plan

The history pages (a plan of the file, cursors and fences: pages must meet
without a gap or a repetition). Then the invariant of `ContentStore` as a theorem.
