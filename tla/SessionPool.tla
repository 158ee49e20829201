---------------------------- MODULE SessionPool ----------------------------
(***************************************************************************)
(* The pool of Pi processes that SessionSupervisor owns: who may start,    *)
(* stop, evict, rename, delete and forget the runtime of a Session.        *)
(*                                                                         *)
(* Every decision about the pool is made under one promise chain, the pool *)
(* lock (poolTail), which a body keeps while it awaits: "queue" is that    *)
(* chain, its head holds the lock.  A task is one asynchronous operation   *)
(* of the supervisor; its "pc" says what it awaits or which body it wants  *)
(* to run under the lock.  A step runs the code between two awaits.        *)
(*                                                                         *)
(* The processes live outside the lock: they become ready, work, exit and  *)
(* get cleaned up at any time, and SessionRuntime.start chains itself      *)
(* behind a stop or a cleanup in progress.  Such a start runs in the       *)
(* microtask after the cleanup settles, long after whoever asked for it    *)
(* looked at the pool.  acquireRuntime starts a runtime without asking     *)
(* whether the pool still has it at that handle.  And a process whose      *)
(* leader is gone while a line of it is still being read is not running    *)
(* for the pool until its finalization begins.  A failed activation        *)
(* forgets its runtime whatever the process has become.  "unadmitted"      *)
(* remembers the processes that got in, or out of sight, in these ways.    *)
(*                                                                         *)
(* All Sessions belong to one workspace.  Leases are reduced to the set of *)
(* runtimes somebody controls (module SessionLease has them in full).      *)
(***************************************************************************)
EXTENDS Naturals, FiniteSets, Sequences

CONSTANTS
    Task,           \* operations of the supervisor in flight
    Closer,         \* the operation stopAll
    Handle,         \* Session handles
    Runtime,        \* SessionRuntime objects; a forgotten one is used again
    None,           \* undefined
    MaxHot,         \* maxHotProcesses
    MaxRetained,    \* maxRetainedProjectionBytes, counted in reservations
    Persisted,      \* the Sessions that have a file at the start
    Requests        \* the operations that are asked for

ASSUME MaxHotAssumption == MaxHot \in Nat \ {0}
ASSUME MaxRetainedAssumption == MaxRetained \in Nat \ {0}
ASSUME RuntimeAssumption == IsFiniteSet(Runtime)
ASSUME PersistedAssumption == Persisted \subseteq Handle
ASSUME RequestsAssumption ==
    Requests \subseteq {"view", "command", "fork", "restart", "create", "delete",
                        "remove", "abandon", "reap", "stopAll"}
ASSUME TaskAssumption ==
    Closer \notin Task /\ None \notin Task \union Handle \union Runtime

VARIABLES
    runtimes,   \* the runtime tracked at each handle
    pending,    \* new runtimes tracked at a temporary handle
    home,       \* the handle each runtime believes it has
    phase,      \* the state of each runtime; "retained" is crashed, content kept
    leader,     \* the process of each runtime: "exited" has a line to deliver,
                \* "finalizing" has descendants to clean up
    ending,     \* what stopPromise of each runtime stands for
    owned,      \* runtimes somebody controls
    intent,     \* runtimes that accepted a conversation
    files,      \* Sessions with a file
    task,       \* the state of each operation
    queue,      \* poolTail: the operations that hold or await the pool lock
    deleting,   \* deletionReservations
    transition, \* the fork that reserved the workspace
    creations,  \* the creations that reserved the workspace
    timers,     \* the runtime each restart timer would start
    closing,    \* how far stopAll got
    unadmitted  \* history: processes that nobody admitted, see above

processVars == <<phase, leader, ending, unadmitted>>
sessionVars == <<home, intent, files>>
trackVars == <<runtimes, pending, owned, timers>>
reserveVars == <<deleting, transition, creations>>
vars == <<processVars, sessionVars, trackVars, reserveVars, task, queue, closing>>

-----------------------------------------------------------------------------
(* Data. *)

Op == {"none", "view", "command", "fork", "timer", "restart", "create",
       "delete", "remove", "abandon", "reap"}

\* Bodies run under the pool lock.
Body == {"track", "start", "acquire", "restart", "launch",
         "reserve", "forget", "finish", "sweep", "sweepIdle",
         "transit", "commit", "endTransit",
         "creation", "commitNew", "untrack", "endCreation"}
\* "room" is ensureCapacity about to look; "evicting" and "reaping" await a stop
\* with the lock held, "reaped" has it; the others hold no lock.
PC == Body \union {"idle", "resolve", "room", "evicting", "reaping", "reaped", "chained",
                   "starting", "started", "failed", "working", "forking",
                   "stopping", "stopped", "operating"}

TaskState == [op : Op, pc : PC, body : Body \union {"none", "join"},
              handle : Handle \union {None}, runtime : Runtime \union {None},
              victim : Runtime \union {None}, fresh : BOOLEAN, ok : BOOLEAN]

Idle == [op |-> "none", pc |-> "idle", body |-> "none", handle |-> None,
         runtime |-> None, victim |-> None, fresh |-> FALSE, ok |-> FALSE]

Phase == {"dormant", "starting", "idle", "busy", "crashed", "retained"}
Leader == {"none", "alive", "exited", "finalizing"}
Ending == {"none", "stop", "cleanup"}
Closing == {"open", "draining", "barrier", "stopping", "clearing", "closed"}

Open == closing = "open"
\* The fault of a body that does not ask whether the supervisor is closing.
AssertOpenNever == TRUE
AssertOpen == Open

Holds(t) == queue # <<>> /\ Head(queue) = t
At(t, pc) == task[t].pc = pc
Tracked(r) == r \in pending \/ \E h \in Handle : runtimes[h] = r
TrackedRuntimes == {r \in Runtime : Tracked(r)}

Crashed(r) == phase[r] \in {"crashed", "retained"}
Recoverable(r) == home[r] \in files
\* Its process group is not cleaned up.
Alive == {r \in Runtime : leader[r] # "none"}
Running(r) == ending[r] # "none" \/ leader[r] \in {"alive", "finalizing"}
Hot(r) == Running(r) \/ phase[r] = "starting"

\* A runtime with a reservation: an operation of the supervisor uses it.
PinningBody == {"start", "acquire", "restart"}
Pins(t, r) ==
    /\ task[t].runtime = r
    /\ \/ task[t].pc \in {"chained", "starting", "started", "failed"}
          /\ task[t].body \in PinningBody
       \/ task[t].pc \in {"working", "forking", "transit", "commit", "endTransit"}
       \/ task[t].op = "fork" /\ task[t].pc \in {"stopping", "stopped"}
Pinned(r) == \E t \in Task : Pins(t, r)

Transitioning(r) ==
    \E t \in Task : task[t].runtime = r /\ task[t].pc \in {"forking", "commit"}

\* identityTransitionBlocker() === null
Unblocked(r) == Running(r) /\ phase[r] = "idle" /\ ~Transitioning(r)

\* The fault of evicting by idleness alone.
CanEvictPinned(r) == ending[r] = "none" /\ Recoverable(r) /\ Unblocked(r)
CanEvict(r) ==
    ending[r] = "none" /\ Recoverable(r) /\ ~Pinned(r) /\ Unblocked(r)

CanAbandon(r) ==
    r \notin intent /\ ~Recoverable(r) /\ ~Pinned(r) /\ Unblocked(r)
IsEvictable(r) == CanEvict(r) /\ r \notin owned

PendingIdentity == transition # None \/ creations # {}

\* Nothing refers to the object any more.
Unused == {r \in Runtime :
              /\ ~Tracked(r) /\ leader[r] = "none" /\ ending[r] = "none"
              /\ \A h \in Handle : timers[h] # r
              /\ \A t \in Task : r \notin {task[t].runtime, task[t].victim}}
Garbage == {r \in Unused : phase[r] # "dormant" \/ home[r] # None}

-----------------------------------------------------------------------------
(* Steps of the pool lock and of the tasks. *)

Set(t, s) == task' = [task EXCEPT ![t] = s]
Goto(t, pc) == Set(t, [task[t] EXCEPT !.pc = pc])
Want(t, body) == Set(t, [task[t] EXCEPT !.pc = body, !.body = body])
Done(t) == Set(t, Idle)

Unlock == queue' = Tail(queue)
\* Leave the lock and join the queue again for the next body.
Relock(t) == queue' = Append(Tail(queue), t)
Enqueue(t) == queue' = Append(queue, t)

\* SessionRuntime.start: what it does, and what its promise then waits for.
Spawns(r) == ending[r] = "none" /\ leader[r] = "none"
             /\ phase[r] \notin {"starting", "retained"}
JoinPc(r) ==
    CASE ending[r] # "none" -> "chained"
      [] ending[r] = "none" /\ phase[r] = "starting" -> "starting"
      [] ending[r] = "none" /\ phase[r] # "starting" /\ leader[r] = "exited" -> "chained"
      [] ending[r] = "none" /\ phase[r] # "starting"
         /\ leader[r] \in {"alive", "finalizing"} -> "started"
      [] OTHER -> "failed"

\* spawn: a new process generation, which nobody controls yet.
Spawn(r, history) ==
    /\ phase' = [phase EXCEPT ![r] = "starting"]
    /\ leader' = [leader EXCEPT ![r] = "alive"]
    /\ unadmitted' = history
    /\ UNCHANGED ending

\* SessionRuntime.stop: joins a stop or a cleanup in progress.
StopCall(r) ==
    /\ ending' = [ending EXCEPT ![r] = IF @ = "none" THEN "stop" ELSE @]
    /\ UNCHANGED <<phase, leader, unadmitted>>

\* What the operations that use the process of r learn when it is lost.
Bereaved(r) == [t \in Task |->
    CASE task[t].runtime = r /\ task[t].pc \in {"forking", "commit"} ->
            [task[t] EXCEPT !.ok = FALSE]
      [] task[t].runtime = r /\ task[t].pc = "starting" ->
            [task[t] EXCEPT !.pc = "failed"]
      [] OTHER -> task[t]]

-----------------------------------------------------------------------------
Init ==
    /\ runtimes = [h \in Handle |-> None]
    /\ pending = {}
    /\ home = [r \in Runtime |-> None]
    /\ phase = [r \in Runtime |-> "dormant"]
    /\ leader = [r \in Runtime |-> "none"]
    /\ ending = [r \in Runtime |-> "none"]
    /\ owned = {}
    /\ intent = {}
    /\ files = Persisted
    /\ task = [t \in Task |-> Idle]
    /\ queue = <<>>
    /\ deleting = {}
    /\ transition = None
    /\ creations = {}
    /\ timers = [h \in Handle |-> None]
    /\ closing = "open"
    /\ unadmitted = {}

-----------------------------------------------------------------------------
(* Processes. *)

\* A runtime is made for a Session with a file or for a new one, whose process
\* may make the file later; any later start has an existing file as its target,
\* and finds it or fails (handleReady, inspectFrozenSessionFile).  So a runtime
\* that acquireRuntime starts though it was forgotten opens no Session.
Opens(r) == r \in pending \/ Recoverable(r)

\* handleReady; without the file it throws and the process is finalized.
Ready(r) ==
    /\ phase[r] = "starting" /\ leader[r] = "alive" /\ ending[r] = "none"
    /\ Opens(r)
    /\ phase' = [phase EXCEPT ![r] = "idle"]
    /\ task' = [t \in Task |->
          IF task[t].runtime = r /\ task[t].pc = "starting"
          THEN [task[t] EXCEPT !.pc = "started"] ELSE task[t]]
    /\ UNCHANGED <<leader, ending, unadmitted, sessionVars, trackVars, reserveVars,
                   queue, closing>>

\* A turn ends; its first durable entry creates the Session file.
TurnEnds(r) ==
    /\ phase[r] = "busy" /\ leader[r] \in {"alive", "exited"} /\ ending[r] = "none"
    /\ phase' = [phase EXCEPT ![r] = "idle"]
    /\ files' \in {files, files \union {home[r]}}
    /\ UNCHANGED <<leader, ending, unadmitted, home, intent, trackVars, reserveVars,
                   task, queue, closing>>

\* The leader exits while a line of it is being decoded.  Until that is done
\* the process does not count as running; a start in progress still does.
LeaderExits(r) ==
    /\ leader[r] = "alive" /\ ending[r] = "none"
    /\ leader' = [leader EXCEPT ![r] = "exited"]
    /\ unadmitted' = IF phase[r] = "starting" THEN unadmitted ELSE unadmitted \union {r}
    /\ UNCHANGED <<phase, ending, sessionVars, trackVars, reserveVars, task, queue,
                   closing>>

\* Its last line is delivered, or there was none, or the leader violated the
\* protocol: its process group is cleaned up.
Finalizes(r) ==
    /\ leader[r] \in {"alive", "exited"} /\ ending[r] = "none"
    /\ leader' = [leader EXCEPT ![r] = "finalizing"]
    /\ UNCHANGED <<phase, ending, unadmitted, sessionVars, trackVars, reserveVars,
                   task, queue, closing>>

\* handleCrash: within the budget a recoverable runtime gets a restart timer.
ArmTimer(r) ==
    IF Open /\ Recoverable(r)
    THEN timers' \in {timers, [timers EXCEPT ![home[r]] = r]}
    ELSE UNCHANGED timers

\* handleFailure, from onExit: content of a crash nobody can restart may be
\* kept, everything else is released behind a new stopPromise.
HandleFailure(r) ==
    /\ leader[r] = "finalizing" /\ ending[r] = "none"
    /\ leader' = [leader EXCEPT ![r] = "none"]
    /\ UNCHANGED unadmitted
    /\ \/ /\ ~Recoverable(r) /\ phase[r] # "starting"
          /\ phase' = [phase EXCEPT ![r] = "retained"]
          /\ UNCHANGED ending
       \/ /\ phase' = [phase EXCEPT ![r] = "crashed"]
          /\ ending' = [ending EXCEPT ![r] = "cleanup"]
    /\ ArmTimer(r)
    /\ task' = Bereaved(r)
    /\ UNCHANGED <<sessionVars, runtimes, pending, owned, reserveVars, queue,
                   closing>>

\* terminalizeGenerationContentFailure: the process is stopped with the content.
ContentFails(r) ==
    /\ leader[r] = "alive" /\ ending[r] = "none" /\ phase[r] # "starting"
    /\ phase' = [phase EXCEPT ![r] = "crashed"]
    /\ ending' = [ending EXCEPT ![r] = "cleanup"]
    /\ task' = Bereaved(r)
    /\ UNCHANGED <<leader, unadmitted, sessionVars, trackVars, reserveVars, queue,
                   closing>>

\* The fault of waking only those who await the stop with the lock held, and the
\* code: stopPromise settles; whoever awaited it is to run next.
SettledForEvictions(r) == [t \in Task |->
    IF task[t].victim = r /\ task[t].pc = "evicting"
    THEN [task[t] EXCEPT !.pc = IF task[t].op = "reap" THEN "sweepIdle" ELSE "room",
                         !.victim = None]
    ELSE task[t]]
Settled(r) == [t \in Task |->
    CASE task[t].victim = r /\ task[t].pc = "evicting" ->
            [task[t] EXCEPT !.pc = IF task[t].op = "reap"
                                   THEN "sweepIdle" ELSE "room",
                            !.victim = None]
      [] task[t].victim = r /\ task[t].pc = "reaping" ->
            [task[t] EXCEPT !.pc = "reaped"]
      [] task[t].runtime = r /\ task[t].pc = "stopping" ->
            [task[t] EXCEPT !.pc = "stopped"]
      [] task[t].runtime = r /\ task[t].pc = "starting" ->
            [task[t] EXCEPT !.pc = "failed"]
      [] OTHER -> task[t]]

Settle(r) ==
    /\ ending[r] # "none"
    /\ leader' = [leader EXCEPT ![r] = "none"]
    /\ phase' = [phase EXCEPT ![r] = IF ending[r] = "stop" THEN "dormant" ELSE @]
    /\ ending' = [ending EXCEPT ![r] = "none"]
    /\ unadmitted' = unadmitted \ {r}
    /\ task' = Settled(r)
    /\ UNCHANGED <<sessionVars, trackVars, reserveVars, queue, closing>>

\* Starts chained behind what has just settled.  They run before anything but
\* the other continuations of the same promise.
Reviving == {r \in Runtime :
    /\ ending[r] = "none" /\ leader[r] \notin {"exited", "finalizing"}
    /\ \E t \in Task : task[t].runtime = r /\ task[t].pc = "chained"}

Revive(r) ==
    /\ r \in Reviving
    /\ IF Spawns(r) THEN Spawn(r, unadmitted \union {r}) /\ owned' = owned \ {r}
       ELSE UNCHANGED <<processVars, owned>>
    /\ task' = [t \in Task |->
          IF task[t].runtime = r /\ task[t].pc = "chained"
          THEN [task[t] EXCEPT !.pc = IF Spawns(r) THEN "starting" ELSE JoinPc(r)]
          ELSE task[t]]
    /\ UNCHANGED <<sessionVars, runtimes, pending, timers, reserveVars, queue,
                   closing>>

-----------------------------------------------------------------------------
(* Leases, as far as the pool looks at them. *)

Claim(h) ==
    /\ Open /\ queue = <<>> /\ h \notin deleting
    /\ runtimes[h] # None /\ home[runtimes[h]] = h
    /\ owned' = owned \union {runtimes[h]}
    /\ UNCHANGED <<processVars, sessionVars, runtimes, pending, timers,
                   reserveVars, task, queue, closing>>

GiveUp(r) ==
    /\ r \in owned
    /\ owned' = owned \ {r}
    /\ UNCHANGED <<processVars, sessionVars, runtimes, pending, timers,
                   reserveVars, task, queue, closing>>

-----------------------------------------------------------------------------
(* ensureRuntime, and the bodies it reaches: a subscription needs no more. *)

\* Activations of one untracked Session share a promise (activationPromises);
\* here the second one waits for the first to end.
Activating(h) == \E t \in Task : task[t].fresh /\ task[t].handle = h

Asks(op, h, r) == [Idle EXCEPT !.op = op, !.handle = h, !.runtime = r]

\* Bound of the exploration: one fork in flight.
Forking == \E t \in Task : task[t].op = "fork"

EnsureRuntime(t, op, h) ==
    /\ Open /\ At(t, "idle") /\ h \notin deleting
    /\ op = "fork" => ~Forking
    /\ LET r == runtimes[h] IN
       \/ /\ r = None /\ ~Activating(h)
          /\ Set(t, [Asks(op, h, None) EXCEPT !.pc = "resolve", !.fresh = TRUE])
          /\ UNCHANGED queue
       \/ /\ r # None /\ Crashed(r) /\ ~Recoverable(r) /\ op # "view"
          /\ Set(t, [Asks(op, h, r) EXCEPT !.pc = "acquire", !.body = "acquire"])
          /\ Enqueue(t)
       \/ /\ r # None /\ ~(Crashed(r) /\ ~Recoverable(r)) /\ Hot(r)
          /\ Set(t, [Asks(op, h, r) EXCEPT !.pc = JoinPc(r), !.body = "join"])
          /\ UNCHANGED queue
       \/ /\ r # None /\ ~(Crashed(r) /\ ~Recoverable(r)) /\ ~Hot(r)
          /\ ~PendingIdentity
          /\ Set(t, [Asks(op, h, r) EXCEPT !.pc = "start", !.body = "start"])
          /\ Enqueue(t)
    /\ UNCHANGED <<processVars, sessionVars, trackVars, reserveVars, closing>>

\* resolveSession looks for the Session on disk.
Resolve(t) ==
    /\ At(t, "resolve")
    /\ IF Open /\ task[t].handle \in files
       THEN Want(t, "track") /\ Enqueue(t)
       ELSE Done(t) /\ UNCHANGED queue
    /\ UNCHANGED <<processVars, sessionVars, trackVars, reserveVars, closing>>

\* The body of the activation: track a new runtime, unless one got there first.
Track(t) ==
    /\ Holds(t) /\ At(t, "track")
    /\ LET h == task[t].handle IN
       IF ~AssertOpen \/ h \in deleting \/ PendingIdentity THEN Done(t) /\ Unlock
       ELSE IF runtimes[h] # None
       THEN /\ Set(t, [task[t] EXCEPT !.pc = "start", !.body = "start",
                                      !.runtime = runtimes[h]])
            /\ Relock(t)
       ELSE Goto(t, "room") /\ UNCHANGED queue
    /\ UNCHANGED <<processVars, sessionVars, trackVars, reserveVars, closing>>

\* ensureRuntime forgets a runtime that failed to start and has no file.
Forgets(t) ==
    /\ task[t].fresh /\ runtimes[task[t].handle] = task[t].runtime
    /\ ~Recoverable(task[t].runtime)

DropActivation(t) ==
    IF Forgets(t)
    THEN /\ runtimes' = [runtimes EXCEPT ![task[t].handle] = None]
         /\ timers' = [timers EXCEPT ![home[task[t].runtime]] = None]
         /\ unadmitted' = unadmitted \union ({task[t].runtime} \intersect Alive)
    ELSE UNCHANGED <<runtimes, timers, unadmitted>>

\* startRuntimeWithCapacity
Start(t) ==
    /\ Holds(t) /\ At(t, "start")
    /\ LET r == task[t].runtime
           rejects == \/ ~AssertOpen \/ ~Tracked(r) \/ home[r] \in deleting
                      \/ ~Hot(r) /\ PendingIdentity
       IN \/ rejects /\ Done(t) /\ Unlock /\ DropActivation(t)
          \/ ~rejects /\ Hot(r) /\ Goto(t, JoinPc(r)) /\ Unlock
             /\ UNCHANGED <<runtimes, timers, unadmitted>>
          \/ ~rejects /\ ~Hot(r) /\ Goto(t, "room")
             /\ UNCHANGED <<queue, runtimes, timers, unadmitted>>
    /\ UNCHANGED <<phase, leader, ending, sessionVars, pending, owned, reserveVars,
                   closing>>

\* acquireRuntime: it does not ask whether the runtime is still tracked.
Acquire(t) ==
    /\ Holds(t) /\ At(t, "acquire")
    /\ LET r == task[t].runtime IN
       IF ~AssertOpen \/ task[t].handle \in deleting \/ (~Hot(r) /\ PendingIdentity)
       THEN Done(t) /\ Unlock
       ELSE IF Hot(r) THEN Goto(t, JoinPc(r)) /\ Unlock
       ELSE IF Crashed(r) /\ ~Recoverable(r) THEN Done(t) /\ Unlock
       ELSE Goto(t, "room") /\ UNCHANGED queue
    /\ UNCHANGED <<processVars, sessionVars, trackVars, reserveVars, closing>>

\* restart: only an inactive runtime, and for its controller.
Restart(t, h) ==
    /\ Open /\ At(t, "idle") /\ runtimes[h] # None
    /\ Set(t, [Asks("restart", h, runtimes[h]) EXCEPT !.pc = "restart",
                                                     !.body = "restart"])
    /\ Enqueue(t)
    /\ UNCHANGED <<processVars, sessionVars, trackVars, reserveVars, closing>>

RestartAdmit(t) ==
    /\ Holds(t) /\ At(t, "restart")
    /\ LET h == task[t].handle
           r == task[t].runtime
       IN IF /\ AssertOpen /\ runtimes[h] = r /\ h \notin deleting /\ Recoverable(r)
             /\ phase[r] \in {"crashed", "retained", "dormant"} /\ r \in owned
          THEN /\ timers' = [timers EXCEPT ![home[r]] = None]
               /\ Goto(t, "room") /\ UNCHANGED queue
          ELSE Done(t) /\ Unlock /\ UNCHANGED timers
    /\ UNCHANGED <<processVars, sessionVars, runtimes, pending, owned,
                   reserveVars, closing>>

TimerFires(t, h) ==
    /\ At(t, "idle") /\ timers[h] # None
    /\ timers' = [timers EXCEPT ![h] = None]
    /\ IF Open /\ Tracked(timers[h])
       THEN /\ Set(t, [Asks("timer", h, timers[h]) EXCEPT !.pc = "start",
                                                         !.body = "start"])
            /\ Enqueue(t)
       ELSE UNCHANGED <<task, queue>>
    /\ UNCHANGED <<processVars, sessionVars, runtimes, pending, owned,
                   reserveVars, closing>>

-----------------------------------------------------------------------------
(* ensureCapacity, and the start it makes room for. *)

HotSet == {r \in TrackedRuntimes : Hot(r)}
ProjectionOwners == HotSet \union {r \in TrackedRuntimes : phase[r] = "retained"}

\* The fault of an off-by-one in the caps.
FullAbove ==
    \/ Cardinality(HotSet) > MaxHot
    \/ Cardinality(ProjectionOwners) > MaxRetained
Full ==
    \/ Cardinality(HotSet) >= MaxHot
    \/ Cardinality(ProjectionOwners) >= MaxRetained

\* A body gives up with the lock held.
Abort(t) ==
    /\ IF task[t].body = "launch"
       THEN Want(t, "endCreation") /\ Relock(t)
       ELSE Done(t) /\ Unlock
    /\ IF task[t].body = "start" THEN DropActivation(t)
       ELSE UNCHANGED <<runtimes, timers, unadmitted>>

\* Handles that no Session has or had: Pi draws a new id.
NewHandles ==
    {h \in Handle \ files : /\ runtimes[h] = None /\ h \notin deleting
                            /\ \A r \in Runtime : home[r] # h}

\* Bound of the exploration: no object or handle left for a new runtime.
Exhausted(t) ==
    \/ task[t].body \in {"track", "launch"} /\ Unused = {}
    \/ task[t].body = "launch" /\ NewHandles = {}

RoomDenied(t) ==
    /\ Holds(t) /\ At(t, "room")
    /\ ~AssertOpen \/ Exhausted(t) \/ (Full /\ \A r \in HotSet : ~IsEvictable(r))
    /\ Abort(t)
    /\ UNCHANGED <<phase, leader, ending, sessionVars, pending, owned, reserveVars,
                   closing>>

\* The least recently active candidate is stopped; activity is not modelled, so
\* any candidate may be the one.
Evict(t) ==
    /\ Holds(t) /\ At(t, "room") /\ AssertOpen /\ Full
    /\ \E r \in HotSet :
          /\ IsEvictable(r)
          /\ StopCall(r)
          /\ Set(t, [task[t] EXCEPT !.pc = "evicting", !.victim = r])
    /\ UNCHANGED <<sessionVars, trackVars, reserveVars, queue, closing>>

\* There is room for a runtime the supervisor has: start it, and keep it pinned.
LaunchTracked(t) ==
    /\ Holds(t) /\ At(t, "room") /\ AssertOpen /\ ~Full
    /\ task[t].body \in PinningBody
    /\ LET r == task[t].runtime
           forgotten == \/ ~Tracked(r)
                        \/ task[t].body = "acquire" /\ runtimes[task[t].handle] # r
       IN IF Spawns(r)
          THEN /\ Spawn(r, IF forgotten THEN unadmitted \union {r} ELSE unadmitted \ {r})
               /\ owned' = owned \ {r}
               /\ Goto(t, "starting")
          ELSE Goto(t, JoinPc(r)) /\ UNCHANGED <<processVars, owned>>
    /\ Unlock
    /\ UNCHANGED <<sessionVars, runtimes, pending, timers, reserveVars, closing>>

\* There is room for a new runtime of an existing Session.
LaunchNew(t) ==
    /\ Holds(t) /\ At(t, "room") /\ AssertOpen /\ ~Full /\ task[t].body = "track"
    /\ \E r \in Unused :
          /\ runtimes' = [runtimes EXCEPT ![task[t].handle] = r]
          /\ home' = [home EXCEPT ![r] = task[t].handle]
          /\ Spawn(r, unadmitted \ {r})
          /\ Set(t, [task[t] EXCEPT !.pc = "start", !.body = "start",
                                    !.runtime = r])
    /\ Relock(t)
    /\ UNCHANGED <<files, intent, pending, owned, timers, reserveVars, closing>>

LaunchCreation(t) ==
    /\ Holds(t) /\ At(t, "room") /\ AssertOpen /\ ~Full /\ task[t].body = "launch"
    /\ \E r \in Unused, h \in NewHandles :
          /\ pending' = pending \union {r}
          /\ home' = [home EXCEPT ![r] = h]
          /\ Spawn(r, unadmitted \ {r})
          /\ Set(t, [task[t] EXCEPT !.pc = "starting", !.runtime = r, !.handle = h])
    /\ Unlock
    /\ UNCHANGED <<files, intent, runtimes, owned, timers, reserveVars, closing>>

\* A failed start rejects after the cleanup that it began.
FailureKnown(t) == At(t, "failed") /\ ending[task[t].runtime] = "none"

\* The start a task awaits came to its end.  A start that waits behind a
\* finalisation or a cleanup is "chained" until Revive.
Resume(t) ==
    /\ At(t, "started") \/ FailureKnown(t)
    /\ LET started == At(t, "started")
           body == task[t].body
       IN /\ CASE body = "launch" ->
                     Want(t, IF started THEN "commitNew" ELSE "untrack") /\ Enqueue(t)
               [] body # "launch" /\ ~started ->
                     Done(t) /\ UNCHANGED queue
               [] body \in {"join", "start"} /\ started
                  /\ task[t].op \in {"command", "fork"} ->
                     Set(t, [task[t] EXCEPT !.pc = "acquire", !.body = "acquire",
                                            !.fresh = FALSE])
                     /\ Enqueue(t)
               [] body = "acquire" /\ started ->
                     IF task[t].op = "fork" THEN Want(t, "transit") /\ Enqueue(t)
                     ELSE Goto(t, "working") /\ UNCHANGED queue
               [] OTHER -> Done(t) /\ UNCHANGED queue
          /\ IF body = "start" /\ ~started THEN DropActivation(t)
             ELSE UNCHANGED <<runtimes, timers, unadmitted>>
    /\ UNCHANGED <<phase, leader, ending, sessionVars, pending, owned, reserveVars,
                   closing>>

\* A command begins a turn; from here on the runtime holds a conversation.
Converse(t) ==
    /\ At(t, "working")
    /\ LET r == task[t].runtime IN
       /\ phase[r] = "idle" /\ leader[r] = "alive" /\ ending[r] = "none"
       /\ phase' = [phase EXCEPT ![r] = "busy"]
       /\ intent' = intent \union {r}
    /\ UNCHANGED <<leader, ending, unadmitted, home, files, trackVars, reserveVars,
                   task, queue, closing>>

Complete(t) ==
    /\ At(t, "working")
    /\ Done(t)
    /\ UNCHANGED <<processVars, sessionVars, trackVars, reserveVars, queue, closing>>

-----------------------------------------------------------------------------
(* createSession. *)

Create(t) ==
    /\ Open /\ At(t, "idle")
    /\ Set(t, [Asks("create", None, None) EXCEPT !.pc = "creation",
                                                !.body = "creation"])
    /\ Enqueue(t)
    /\ UNCHANGED <<processVars, sessionVars, trackVars, reserveVars, closing>>

\* The fault of a creation that does not look for a fork in progress.
CreationAdmissibleAnyway == AssertOpen /\ deleting = {}
CreationAdmissible == AssertOpen /\ deleting = {} /\ transition = None

ReserveCreation(t) ==
    /\ Holds(t) /\ At(t, "creation")
    /\ IF CreationAdmissible
       THEN creations' = creations \union {t} /\ Want(t, "launch") /\ Relock(t)
       ELSE Done(t) /\ Unlock /\ UNCHANGED creations
    /\ UNCHANGED <<processVars, sessionVars, trackVars, deleting, transition,
                   closing>>

LaunchAdmit(t) ==
    /\ Holds(t) /\ At(t, "launch")
    /\ IF AssertOpen THEN Goto(t, "room") /\ UNCHANGED queue
       ELSE Want(t, "endCreation") /\ Relock(t)
    /\ UNCHANGED <<processVars, sessionVars, trackVars, reserveVars, closing>>

\* The Session gets its canonical handle.
CommitCreation(t) ==
    /\ Holds(t) /\ At(t, "commitNew")
    /\ LET r == task[t].runtime
           h == home[r]
       IN IF AssertOpen /\ r \in pending /\ runtimes[h] \in {None, r}
          THEN /\ pending' = pending \ {r}
               /\ runtimes' = [runtimes EXCEPT ![h] = r]
               /\ Want(t, "endCreation") /\ Relock(t)
               /\ UNCHANGED processVars
          ELSE /\ StopCall(r)
               /\ Goto(t, "stopping") /\ Unlock
               /\ UNCHANGED <<pending, runtimes>>
    /\ UNCHANGED <<sessionVars, owned, timers, reserveVars, closing>>

Untrack(t) ==
    /\ Holds(t) /\ At(t, "untrack")
    /\ LET r == task[t].runtime IN
       /\ pending' = pending \ {r}
       /\ timers' = [timers EXCEPT ![home[r]] = None]
       /\ runtimes' = [h \in Handle |->
             IF h = home[r] /\ runtimes[h] = r THEN None ELSE runtimes[h]]
    /\ Want(t, "endCreation") /\ Relock(t)
    /\ UNCHANGED <<processVars, sessionVars, owned, reserveVars, closing>>

EndCreation(t) ==
    /\ Holds(t) /\ At(t, "endCreation")
    /\ creations' = creations \ {t}
    /\ Done(t) /\ Unlock
    /\ UNCHANGED <<processVars, sessionVars, trackVars, deleting, transition,
                   closing>>

-----------------------------------------------------------------------------
(* sendCommand with an identity transition: a fork renames its runtime. *)

ReserveTransition(t) ==
    /\ Holds(t) /\ At(t, "transit")
    /\ IF /\ AssertOpen /\ deleting = {} /\ ~PendingIdentity
          /\ \A r \in TrackedRuntimes : phase[r] # "starting"
       THEN /\ transition' = t
            /\ LET r == task[t].runtime IN
               IF Unblocked(r) /\ ending[r] = "none" /\ r \in owned
               THEN Set(t, [task[t] EXCEPT !.pc = "forking", !.ok = TRUE]) /\ Unlock
               ELSE Want(t, "endTransit") /\ Relock(t)
       ELSE Done(t) /\ Unlock /\ UNCHANGED transition
    /\ UNCHANGED <<processVars, sessionVars, trackVars, deleting, creations,
                   closing>>

\* Pi still has the parent, or it answered with the identity of a child.
ForkAnswered(t) ==
    /\ At(t, "forking") /\ task[t].ok /\ leader[task[t].runtime] \in {"alive", "exited"}
    /\ \/ Want(t, "endTransit") \/ Want(t, "commit")
    /\ Enqueue(t)
    /\ UNCHANGED <<processVars, sessionVars, trackVars, reserveVars, closing>>

\* No answer, or one that cannot be trusted: nobody knows whose process it is.
ForkFails(t) ==
    /\ At(t, "forking")
    /\ StopCall(task[t].runtime)
    /\ Goto(t, "stopping")
    /\ UNCHANGED <<sessionVars, trackVars, reserveVars, queue, closing>>

\* The fault of a commit that does not look for another runtime of the child.
CommitAdmissibleAnyway(t, child) ==
    /\ AssertOpen /\ transition # None
    /\ runtimes[task[t].handle] = task[t].runtime
    /\ {task[t].handle, child} \intersect deleting = {}
    /\ task[t].ok /\ leader[task[t].runtime] \in {"alive", "finalizing"}

\* commitIdentityTransition with the checks of apply.
CommitAdmissible(t, child) ==
    /\ AssertOpen /\ transition # None
    /\ runtimes[task[t].handle] = task[t].runtime
    /\ {task[t].handle, child} \intersect deleting = {}
    /\ runtimes[child] \in {None, task[t].runtime}
    /\ task[t].ok /\ leader[task[t].runtime] \in {"alive", "finalizing"}

\* The child is another Session of the directory, with or without a file.
CommitTransition(t) ==
    /\ Holds(t) /\ At(t, "commit")
    /\ \E child \in Handle \ {task[t].handle} :
       LET r == task[t].runtime
           parent == task[t].handle
       IN IF CommitAdmissible(t, child)
          THEN /\ runtimes' = [runtimes EXCEPT ![parent] = None, ![child] = r]
               /\ home' = [home EXCEPT ![r] = child]
               /\ owned' = owned \ {r}
               /\ files' \in {files, files \union {child}}
               /\ \/ Want(t, "endTransit") /\ Relock(t) /\ UNCHANGED processVars
                  \/ StopCall(r) /\ Goto(t, "stopping") /\ Unlock
          ELSE /\ StopCall(r) /\ Goto(t, "stopping") /\ Unlock
               /\ UNCHANGED <<runtimes, home, owned, files>>
    /\ UNCHANGED <<intent, pending, timers, reserveVars, closing>>

EndTransition(t) ==
    /\ Holds(t) /\ At(t, "endTransit")
    /\ transition' = None
    /\ Done(t) /\ Unlock
    /\ UNCHANGED <<processVars, sessionVars, trackVars, deleting, creations,
                   closing>>

-----------------------------------------------------------------------------
(* Deletion (controlled "delete", plain "remove") and abandon. *)

Management == {"delete", "remove", "abandon"}

Manage(t, op, h) ==
    /\ Open /\ At(t, "idle") /\ op \in Management
    /\ Set(t, [Asks(op, h, None) EXCEPT !.pc = "reserve", !.body = "reserve"])
    /\ Enqueue(t)
    /\ UNCHANGED <<processVars, sessionVars, trackVars, reserveVars, closing>>

DeletableState(r) ==
    \/ phase[r] \in {"crashed", "retained", "dormant"}
    \/ phase[r] = "idle" /\ CanEvict(r)

\* The fault of a plain deletion that trusts the caller to have stopped it.
ReservableActive(op, h) ==
    /\ AssertOpen /\ h \notin deleting /\ ~PendingIdentity
    /\ LET r == runtimes[h] IN
       CASE op = "delete" -> r # None /\ r \in owned /\ Recoverable(r)
                             /\ DeletableState(r)
         [] op = "abandon" -> r # None /\ r \in owned /\ CanAbandon(r)
         [] OTHER -> TRUE

Reservable(op, h) ==
    /\ AssertOpen /\ h \notin deleting /\ ~PendingIdentity
    /\ LET r == runtimes[h] IN
       CASE op = "delete" -> r # None /\ r \in owned /\ Recoverable(r)
                             /\ DeletableState(r)
         [] op = "abandon" -> r # None /\ r \in owned /\ CanAbandon(r)
         [] OTHER -> r # None => ~Hot(r)

\* The reservation, and the stop that follows it outside the lock.
Reserve(t) ==
    /\ Holds(t) /\ At(t, "reserve")
    /\ LET h == task[t].handle
           r == runtimes[h]
       IN \/ /\ ~Reservable(task[t].op, h)
             /\ Done(t) /\ UNCHANGED <<deleting, processVars>>
          \/ /\ Reservable(task[t].op, h) /\ task[t].op # "remove"
             /\ deleting' = deleting \union {h}
             /\ StopCall(r)
             /\ Set(t, [task[t] EXCEPT !.pc = "stopping", !.runtime = r])
          \/ /\ Reservable(task[t].op, h) /\ task[t].op = "remove"
             /\ deleting' = deleting \union {h}
             /\ Set(t, [task[t] EXCEPT !.pc = "operating", !.runtime = r])
             /\ UNCHANGED processVars
    /\ Unlock
    /\ UNCHANGED <<sessionVars, trackVars, transition, creations, closing>>

\* What follows the stop that this operation awaited.
Stopped(t) ==
    /\ At(t, "stopped")
    /\ CASE task[t].op = "fork" -> Want(t, "endTransit") /\ Enqueue(t)
         [] task[t].op = "create" -> Want(t, "untrack") /\ Enqueue(t)
         [] task[t].op = "abandon" -> Want(t, "forget") /\ Enqueue(t)
         [] OTHER -> Goto(t, "operating") /\ UNCHANGED queue
    /\ UNCHANGED <<processVars, sessionVars, trackVars, reserveVars, closing>>

\* The operation moves the file of the Session away, or fails.
Operate(t) ==
    /\ At(t, "operating")
    /\ \E moved \in BOOLEAN :
          /\ files' = IF moved THEN files \ {task[t].handle} ELSE files
          /\ Set(t, [task[t] EXCEPT !.pc = "finish", !.body = "finish", !.ok = moved])
    /\ Enqueue(t)
    /\ UNCHANGED <<processVars, home, intent, trackVars, reserveVars, closing>>

Forget(h) ==
    /\ timers' = [timers EXCEPT ![h] = None]
    /\ runtimes' = [runtimes EXCEPT ![h] = None]
    /\ owned' = owned \ {runtimes[h]}

\* performTransientAbandon looks again: the Session may have got its file.
ForgetTransient(t) ==
    /\ Holds(t) /\ At(t, "forget")
    /\ LET h == task[t].handle IN
       IF runtimes[h] = task[t].runtime /\ h \in deleting /\ h \notin files
       THEN Forget(h) ELSE UNCHANGED <<timers, runtimes, owned>>
    /\ Want(t, "finish") /\ Relock(t)
    /\ UNCHANGED <<processVars, sessionVars, pending, reserveVars, closing>>

FinishDeletion(t) ==
    /\ Holds(t) /\ At(t, "finish")
    /\ deleting' = deleting \ {task[t].handle}
    /\ IF task[t].ok THEN Forget(task[t].handle)
       ELSE UNCHANGED <<timers, runtimes, owned>>
    /\ Done(t) /\ Unlock
    /\ UNCHANGED <<processVars, sessionVars, pending, transition, creations, closing>>

-----------------------------------------------------------------------------
(* reapIdle, under the lock from end to end: first the runtimes that may be    *)
(* forgotten, then those that may sleep.  Ages are not modelled: a runtime that *)
(* qualifies may be old enough.                                                *)

Reap(t) ==
    /\ Open /\ At(t, "idle")
    /\ Set(t, [Asks("reap", None, None) EXCEPT !.pc = "sweep", !.body = "sweep"])
    /\ Enqueue(t)
    /\ UNCHANGED <<processVars, sessionVars, trackVars, reserveVars, closing>>

ReapTransient(t) ==
    /\ Holds(t) /\ At(t, "sweep")
    /\ \E h \in Handle :
       LET r == runtimes[h] IN
       /\ r # None /\ CanAbandon(r) /\ r \notin owned /\ h \notin deleting
       /\ ~PendingIdentity
       /\ deleting' = deleting \union {h}
       /\ StopCall(r)
       /\ Set(t, [task[t] EXCEPT !.pc = "reaping", !.victim = r, !.handle = h])
    /\ UNCHANGED <<sessionVars, trackVars, transition, creations, queue, closing>>

Reaped(t) ==
    /\ Holds(t) /\ At(t, "reaped")
    /\ LET h == task[t].handle IN
       /\ IF h \in files THEN UNCHANGED <<timers, runtimes, owned>> ELSE Forget(h)
       /\ deleting' = deleting \ {h}
    /\ Set(t, [task[t] EXCEPT !.pc = "sweep", !.victim = None, !.handle = None])
    /\ UNCHANGED <<processVars, sessionVars, pending, transition, creations,
                   queue, closing>>

ReapEvictable(t) ==
    /\ Holds(t) /\ task[t].pc \in {"sweep", "sweepIdle"}
    /\ \E r \in TrackedRuntimes :
          /\ IsEvictable(r)
          /\ StopCall(r)
          /\ Set(t, [task[t] EXCEPT !.pc = "evicting", !.victim = r])
    /\ UNCHANGED <<sessionVars, trackVars, reserveVars, queue, closing>>

ReapEnds(t) ==
    /\ Holds(t) /\ task[t].pc \in {"sweep", "sweepIdle"}
    /\ Done(t) /\ Unlock
    /\ UNCHANGED <<processVars, sessionVars, trackVars, reserveVars, closing>>

-----------------------------------------------------------------------------
(* stopAll. *)

closeVars == <<processVars, sessionVars, runtimes, pending, owned, reserveVars>>

StopAll ==
    /\ Open
    /\ closing' = "draining"
    /\ timers' = [h \in Handle |-> None]
    /\ UNCHANGED <<closeVars, task, queue>>

\* Activations and deletions in progress end first.
Drained ==
    /\ closing = "draining"
    /\ \A t \in Task : ~task[t].fresh /\ task[t].op \notin Management
    /\ closing' = "barrier" /\ Enqueue(Closer)
    /\ UNCHANGED <<closeVars, timers, task>>

StopRuntimes ==
    /\ Holds(Closer) /\ closing = "barrier"
    /\ ending' = [r \in Runtime |->
          IF Tracked(r) /\ ending[r] = "none" THEN "stop" ELSE ending[r]]
    /\ Unlock
    /\ closing' = "stopping"
    /\ UNCHANGED <<phase, leader, unadmitted, sessionVars, trackVars, reserveVars, task>>

RuntimesStopped ==
    /\ closing = "stopping"
    /\ \A r \in TrackedRuntimes : ending[r] = "none"
    /\ closing' = "clearing" /\ Enqueue(Closer)
    /\ UNCHANGED <<closeVars, timers, task>>

Clear ==
    /\ Holds(Closer) /\ closing = "clearing"
    /\ closing' = "closed"
    /\ Unlock
    /\ runtimes' = [h \in Handle |-> None]
    /\ pending' = {} /\ owned' = {}
    /\ deleting' = {} /\ transition' = None /\ creations' = {}
    /\ UNCHANGED <<processVars, sessionVars, timers, task>>

-----------------------------------------------------------------------------
(* JavaScript runs every promise reaction that is ready before the next event, *)
(* so while one is ready only reactions run; their order is left open.         *)

\* The bodies that have the lock and the continuations that are ready.
React(t) ==
    \/ RoomDenied(t) \/ Evict(t) \/ LaunchTracked(t) \/ LaunchNew(t)
    \/ LaunchCreation(t)
    \/ Track(t) \/ Start(t) \/ Acquire(t) \/ RestartAdmit(t) \/ Resume(t)
    \/ ReserveCreation(t) \/ LaunchAdmit(t) \/ CommitCreation(t) \/ Untrack(t)
    \/ EndCreation(t)
    \/ ReserveTransition(t) \/ CommitTransition(t) \/ EndTransition(t)
    \/ Reserve(t) \/ Stopped(t) \/ ForgetTransient(t) \/ FinishDeletion(t)
    \/ ReapTransient(t) \/ Reaped(t) \/ ReapEvictable(t) \/ ReapEnds(t)

Reaction ==
    \/ \E t \in Task : React(t)
    \/ \E r \in Runtime : Revive(r)
    \/ StopRuntimes \/ Clear

ReactionReady ==
    \/ Reviving # {}
    \/ Holds(Closer)
    \/ \E t \in Task : \/ At(t, "started") \/ At(t, "stopped") \/ FailureKnown(t)
                       \/ Holds(t) /\ task[t].pc \notin {"evicting", "reaping"}

\* Answers from outside that an operation waits for.
Answer(t) ==
    \/ Resolve(t) \/ Converse(t) \/ Complete(t)
    \/ ForkAnswered(t) \/ ForkFails(t) \/ Operate(t)

Request(t) ==
    \/ \E h \in Handle, op \in {"view", "command", "fork"} \intersect Requests :
          EnsureRuntime(t, op, h)
    \/ \E h \in Handle : "restart" \in Requests /\ Restart(t, h)
    \/ \E h \in Handle : TimerFires(t, h)
    \/ "create" \in Requests /\ Create(t)
    \/ "reap" \in Requests /\ Reap(t)
    \/ \E h \in Handle, op \in Management \intersect Requests : Manage(t, op, h)

ProcessEvent(r) ==
    \/ Ready(r) \/ TurnEnds(r) \/ LeaderExits(r) \/ Finalizes(r) \/ HandleFailure(r)
    \/ ContentFails(r) \/ Settle(r)

\* The supervisor is gone.
Terminated ==
    /\ closing = "closed" /\ \A t \in Task : At(t, "idle")
    /\ UNCHANGED vars

Event ==
    \/ \E t \in Task : Answer(t) \/ Request(t)
    \/ \E r \in Runtime : ProcessEvent(r) \/ GiveUp(r)
    \/ \E h \in Handle : Claim(h)
    \/ "stopAll" \in Requests /\ StopAll
    \/ Drained \/ RuntimesStopped
    \/ Terminated

\* The object of a forgotten runtime stands for a new one.
Collect ==
    /\ Garbage # {}
    /\ phase' = [r \in Runtime |-> IF r \in Garbage THEN "dormant" ELSE phase[r]]
    /\ home' = [r \in Runtime |-> IF r \in Garbage THEN None ELSE home[r]]
    /\ intent' = intent \ Garbage
    /\ owned' = owned \ Garbage
    /\ unadmitted' = unadmitted \ Garbage
    /\ UNCHANGED <<leader, ending, files, runtimes, pending, timers, reserveVars,
                   task, queue, closing>>

Next ==
    \/ Collect
    \/ Garbage = {} /\ (Reaction \/ (~ReactionReady /\ Event))

Spec == Init /\ [][Next]_vars

-----------------------------------------------------------------------------
(* Properties. *)

\* The tracked runtimes that keep a projection.
Kept == {r \in TrackedRuntimes : leader[r] # "none" \/ phase[r] = "retained"}

TypeOK ==
    /\ runtimes \in [Handle -> Runtime \union {None}]
    /\ pending \subseteq Runtime
    /\ home \in [Runtime -> Handle \union {None}]
    /\ phase \in [Runtime -> Phase]
    /\ leader \in [Runtime -> Leader]
    /\ ending \in [Runtime -> Ending]
    /\ owned \subseteq Runtime /\ intent \subseteq Runtime /\ unadmitted \subseteq Runtime
    /\ files \subseteq Handle /\ deleting \subseteq Handle
    /\ task \in [Task -> TaskState]
    /\ queue \in Seq(Task \union {Closer})
    /\ transition \in Task \union {None}
    /\ creations \subseteq Task
    /\ timers \in [Handle -> Runtime \union {None}]
    /\ closing \in Closing

\* However activations, restarts, creations and evictions interleave, the
\* processes that were admitted under the pool lock never exceed the cap, nor
\* the projections kept their budget (ensureCapacity).
AdmittedWithinCap ==
    /\ Cardinality(Alive \ unadmitted) <= MaxHot
    /\ Cardinality(Kept \ unadmitted) <= MaxRetained

\* A process that was admitted belongs to a runtime that the supervisor tracks
\* under the handle of its Session, so that stopAll, eviction and deletion reach
\* it: forks, failed creations, deletion, abandon and reaping never lose one.
NoOrphanProcess ==
    \A r \in Alive \ unadmitted :
        r \in pending \/ (home[r] # None /\ runtimes[home[r]] = r)

\* While a deletion moves the file of a Session, no process is at work in that
\* Session: "no process can open the file between the safety check and the move"
\* (session-supervisor.ts:718), the Session is reserved "against activation"
\* (ADR 0004).  Not so for a start that waits for the stop the deletion awaits.
NoneOpensDeleted ==
    \A t \in Task : task[t].pc = "operating" =>
        \A r \in Alive : phase[r] \in {"idle", "busy"} => home[r] # task[t].handle

\* While the operation of a deletion moves the file of a Session, no process
\* that was admitted has the Session open, and no identity of the workspace is
\* being decided (withSessionDeletion, reserveWorkspaceTransition,
\* reserveWorkspaceCreation).
DeletionAlone ==
    \A t \in Task : task[t].pc = "operating" =>
        /\ \A r \in Alive \ unadmitted : home[r] # task[t].handle
        /\ task[t].handle \in deleting
        /\ ~PendingIdentity

\* Until shutdown, stopping a process loses nothing: it is not at work, no
\* operation uses it but the fork or creation that failed, and a conversation
\* that it accepted has its file (canEvict, canAbandon, the checks of deletion).
StopsLoseNothing ==
    [][\A r \in Runtime :
          (ending[r] = "none" /\ ending'[r] = "stop" /\ leader[r] = "alive" /\ Open)
          => \/ \E t \in Task : task[t].runtime = r /\ task[t].op \in {"fork", "create"}
                                /\ task'[t].pc = "stopping"
             \/ /\ phase[r] = "idle" /\ ~Pinned(r)
                /\ r \in intent => Recoverable(r)]_vars

\* After shutdown no process that was admitted is left, whatever was starting,
\* queued or stopping when it began (stopAll, assertOpen in every body).
ShutdownStopsAll == closing = "closed" => Alive \subseteq unadmitted

\* The workspace is reserved by deletions, forks and creations for no longer
\* than they run, and never by two kinds at once.
ReservationsHeld ==
    /\ TypeOK
    /\ closing # "closed" =>
        /\ \A h \in deleting : \E t \in Task :
              /\ task[t].handle = h
              /\ task[t].pc \in {"stopping", "stopped", "operating", "forget", "finish",
                                 "reaping", "reaped"}
        /\ \A t \in creations : task[t].op = "create"
        /\ transition # None => task[transition].op = "fork"
        /\ ~(transition # None /\ creations # {})
        /\ deleting # {} => ~PendingIdentity

\* No wake-up is lost: whatever an operation awaits is still to come, so the
\* pool lock is always given up (withPoolLock, SessionRuntime.start and stop).
AwaitsAreAnswered ==
    \A t \in Task :
        /\ task[t].pc \in {"evicting", "reaping"} =>
              Holds(t) /\ ending[task[t].victim] # "none"
        /\ task[t].pc = "stopping" => ending[task[t].runtime] # "none"
        /\ task[t].pc = "starting" => phase[task[t].runtime] = "starting"
        /\ task[t].pc \in Body => \E i \in DOMAIN queue : queue[i] = t

\* No process that was admitted is lost: it is tracked under its Session, and
\* none is left after a shutdown.
ProcessesTracked == NoOrphanProcess /\ ShutdownStopsAll

\* A deletion is alone with its Session and its workspace, and what an operation
\* reserves it gives back.
WorkspaceReserved == DeletionAlone /\ ReservationsHeld

=============================================================================
