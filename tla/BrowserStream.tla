---------------------------- MODULE BrowserStream ----------------------------
(***************************************************************************)
(* How the browser turns the frames of one Session into what it shows and  *)
(* into answers to its commands (session-transport.ts, with its command    *)
(* machine, its resync coordinator, the frame bus, the router of           *)
(* stream-pipeline.ts and the scheduler of deltas).  Frames wait in a tail *)
(* while their content is fetched, deltas wait for the next animation      *)
(* frame, a gap is closed by a snapshot and the frames buffered behind it, *)
(* and a response waits for the frames it says came before it.             *)
(*                                                                         *)
(* Snapshots come in chunks and begin in the tail when their first chunk   *)
(* arrives.  Extension notices, which may be shown twice, are left out.    *)
(***************************************************************************)
EXTENDS Naturals, Sequences, FiniteSets
LOCAL INSTANCE SequencesExt
LOCAL INSTANCE FiniteSetsExt

CONSTANTS
  Command,        \* ids of the commands
  History,        \* those that read the history
  Delta,          \* the events that are deltas of a message
  MaxSeq,         \* events of a generation
  MaxGeneration,  \* generations of the runtime
  MaxAttempts,    \* SESSION_RESYNC_MAX_ATTEMPTS
  MaxDeferred,    \* MAX_PENDING_REDUCER_EVENTS_PER_SESSION
  MaxTail,        \* MAX_RESYNC_BUFFERED_FRAMES, of the tail
  MaxBuffer,      \* MAX_RESYNC_BUFFERED_FRAMES, of the buffer
  MaxInFlight,    \* messages each way when the gateway begins a step
  MaxFaults       \* disconnects, failures, prunings and retries of the user

VARIABLES
  server,    \* generation and sequence number of the runtime
  attached,  \* the connection has a live subscription
  up, down,  \* messages to the gateway and to the browser
  b,         \* see NewBrowser
  faults

vars == <<server, attached, up, down, b, faults>>

Foreign == 0  \* what an earlier generation left on the screen
NoResync == [on |-> FALSE, barrier |-> 0, fresh |-> FALSE]
NoWaiter == [on |-> FALSE, suffix |-> FALSE, end |-> 0]
NoRecovery == [phase |-> "none", attempt |-> 0]
NoCommand == [pc |-> "idle", generation |-> 0, barrier |-> 0]

Max0(S) == Max(S \cup {0})
UpTo(n) == [i \in 1..n |-> i]

\* The channel of the Session, the replay buffer, the tail of projections, the
\* scheduler, the snapshot waiter (suffix: its pendingCompletion), the
\* coordinator's entry, what the projection shows and the pending commands.
NewBrowser ==
  [live |-> TRUE, generation |-> 0, runtime |-> 0, baseline |-> FALSE,
   last |-> 0, projected |-> 0, resync |-> NoResync, buffer |-> {}, tail |-> <<>>,
   scheduled |-> <<>>, waiter |-> NoWaiter, recovery |-> NoRecovery, shown |-> <<>>,
   commands |-> [c \in Command |-> NoCommand], out |-> <<>>]

-----------------------------------------------------------------------------
\* Commands that wait

Pending(x, c) == x.commands[c].pc \in {"sent", "materializing", "ready"}

Reject(x, S) ==
  [x EXCEPT !.commands =
     [c \in Command |-> IF c \in S /\ Pending(x, c) THEN [@[c] EXCEPT !.pc = "rejected"] ELSE @[c]]]

\* (a fault: an answer is given though its events still wait)
AnswerableEarly(x, c) ==
  /\ x.baseline /\ x.commands[c].pc = "ready"
  /\ x.commands[c].generation = x.generation /\ x.commands[c].barrier <= x.last

Answerable(x, c) ==
  /\ x.baseline /\ x.commands[c].pc = "ready"
  /\ x.commands[c].generation = x.generation /\ x.commands[c].barrier <= x.projected

\* projection_advanced
Resolve(x) ==
  [x EXCEPT !.commands =
     [c \in Command |-> IF Answerable(x, c) THEN [@[c] EXCEPT !.pc = "done"] ELSE @[c]]]

\* requiredProjectionBarrier.  A history response counts as soon as it arrived.
Barrier(x) ==
  Max0({x.resync.barrier} \cup
       {x.commands[c].barrier : c \in
          {d \in Command : /\ x.commands[d].generation = x.generation
                           /\ \/ x.commands[d].pc = "ready"
                              \/ x.commands[d].pc = "materializing" /\ d \in History}})

-----------------------------------------------------------------------------
\* The coordinator of recoveries and its snapshot waiter

Subscription(x) ==
  [type |-> "subscribe", generation |-> IF x.baseline THEN x.generation ELSE 0,
   seq |-> IF x.baseline THEN x.last ELSE 0]

Post(x, m) == IF x.live THEN [x EXCEPT !.out = Append(@, m)] ELSE x

HasSnapshot(x) == \E i \in DOMAIN x.tail : x.tail[i].snapshot

\* Without its waiter, a snapshot in the tail is no longer awaited.
Unawaited(x) ==
  [x EXCEPT !.waiter = NoWaiter,
            !.tail = [i \in DOMAIN @ |-> [@[i] EXCEPT !.awaited = FALSE]]]

\* runAttempt; asking is left to the caller.
Attempt(x, n) ==
  LET y == [Unawaited(x) EXCEPT !.recovery = [phase |-> "syncing", attempt |-> n]]
  IN  IF x.live THEN [y EXCEPT !.waiter.on = TRUE] ELSE y

\* failSnapshot and failAttempt
FailAttempt(x) ==
  IF ~x.waiter.on THEN x
  ELSE [Unawaited(x) EXCEPT
          !.recovery.phase = IF x.recovery.attempt >= MaxAttempts THEN "degraded" ELSE "retry"]

\* clearIdentityBuffers, and with it the chunked snapshot that is being read.
ClearIdentity(x) ==
  [Unawaited(x) EXCEPT !.buffer = {}, !.tail = IF HasSnapshot(x) THEN <<>> ELSE @]

\* clearSessionResyncData and all that a new generation makes void.
ForgetGeneration(x) ==
  Reject([Unawaited(x) EXCEPT !.buffer = {}, !.tail = <<>>, !.recovery = NoRecovery, !.baseline = FALSE,
            !.projected = 0, !.shown = <<Foreign>>, !.scheduled = <<>>], Command)

\* (a fault: a recovery under way is left alone though its waiter is gone)
HandleResyncIfIdle(x, generation, seq, fresh, fromServer) ==
  LET retained == {s \in x.buffer : s > seq}
      z == [x EXCEPT !.generation = generation, !.runtime = seq, !.baseline = FALSE,
                     !.buffer = retained, !.last = Max0({seq} \cup retained), !.scheduled = <<>>,
                     !.resync = [on |-> TRUE, barrier |-> seq, fresh |-> x.resync.fresh \/ fresh]]
  IN  IF z.recovery.phase # "none" THEN z
      ELSE IF fromServer THEN Attempt(z, 1) ELSE Post(Attempt(z, 1), Subscription(z))

\* handleResyncRequired
HandleResync(x, generation, seq, fresh, fromServer) ==
  IF generation < x.generation THEN x
  ELSE LET y == IF generation = x.generation \/ x.generation = 0 THEN x ELSE ForgetGeneration(x)
           retained == {s \in y.buffer : s > seq}
           z == [y EXCEPT !.generation = generation, !.runtime = seq, !.baseline = FALSE,
                          !.buffer = retained, !.last = Max0({seq} \cup retained), !.scheduled = <<>>,
                          !.resync = [on |-> TRUE, barrier |-> seq, fresh |-> x.resync.fresh \/ fresh]]
           begins == z.recovery.phase = "none" \/ (~z.waiter.on /\ z.recovery.phase # "degraded")
       IN  IF ~begins THEN z
           ELSE IF fromServer THEN Attempt(z, 1)
           ELSE Post(Attempt(z, 1), Subscription(z))

\* reportProjectionFailure
ReportFailure(x) ==
  IF x.generation = 0 \/ x.resync.fresh THEN x
  ELSE LET y == ClearIdentity(Reject(x, History))
           z == [y EXCEPT !.baseline = FALSE, !.last = y.projected,
                          !.resync = [on |-> TRUE, barrier |-> y.projected, fresh |-> TRUE]]
       IN  HandleResync(z, x.generation, x.projected, FALSE, FALSE)

\* failSnapshotProjection
FailSnapshotProjection(x) ==
  IF ~x.waiter.on \/ ~x.resync.on THEN x
  ELSE FailAttempt([x EXCEPT !.buffer = {}, !.baseline = FALSE, !.last = x.projected,
                             !.resync = [on |-> TRUE, barrier |-> x.projected, fresh |-> TRUE]])

\* The snapshot fails and so does its projection: an attempt that fails if a
\* fresh baseline is already asked for, a first attempt anew otherwise.
FailAndReport(x) == IF x.resync.fresh THEN FailAttempt(x) ELSE ReportFailure(Unawaited(x))

-----------------------------------------------------------------------------
\* Events on their way to the screen

\* finishSnapshot
Finish(x) ==
  IF ~x.resync.on \/ x.last # x.waiter.end THEN x
  ELSE IF x.waiter.end < Barrier(x) THEN FailAttempt(x)
  ELSE Resolve([Unawaited(x) EXCEPT !.baseline = TRUE, !.projected = x.waiter.end, !.resync = NoResync,
                                    !.buffer = {}, !.recovery = NoRecovery])

SuffixPending(x) == x.resync.on /\ x.waiter.suffix

\* confirmProjectionDelivery
Confirm(x) ==
  IF ~x.resync.on THEN IF x.projected > x.last THEN x ELSE Resolve([x EXCEPT !.projected = x.last])
  ELSE IF ~x.waiter.suffix THEN x
  ELSE IF x.last > x.waiter.end THEN FailAndReport(x)
  ELSE Finish([x EXCEPT !.projected = Max0({@, x.last})])

\* flushSession and the router's onFlush
Flush(x) ==
  LET y == [x EXCEPT !.scheduled = <<>>]
  IN  IF x.scheduled = <<>> THEN x
      ELSE IF x.resync.on /\ ~SuffixPending(x) THEN y
      ELSE Confirm([y EXCEPT !.shown = @ \o x.scheduled])

\* (a fault: an event is shown before the deltas that wait)
RouteAtOnce(x, s) ==
  IF s \in Delta THEN [browser |-> [x EXCEPT !.scheduled = Append(@, s)], deferred |-> TRUE]
  ELSE [browser |-> [x EXCEPT !.shown = Append(@, s)], deferred |-> FALSE]

\* enqueue of the scheduler, which publishes first when it is full
Enqueue(x, s) ==
  LET y == IF Len(x.scheduled) >= MaxDeferred THEN Flush(x) ELSE x
  IN  [y EXCEPT !.scheduled = Append(@, s)]

\* routeEvent: a delta waits, anything else is shown after the deltas before it.
Route(x, s) ==
  IF s \in Delta THEN [browser |-> Enqueue(x, s), deferred |-> TRUE]
  ELSE LET y == Flush(x)
       IN  IF y.resync.fresh /\ ~SuffixPending(y) THEN [browser |-> y, deferred |-> TRUE]
           ELSE [browser |-> [y EXCEPT !.shown = Append(@, s)], deferred |-> FALSE]

\* (a fault: a deferred event counts as projected)
AppliedAtOnce(x, s, projected) == [x EXCEPT !.last = s, !.projected = s]

\* applyReplayFrameState
Applied(x, s, projected) ==
  [x EXCEPT !.last = s, !.projected = IF projected /\ @ + 1 = s THEN s ELSE @]

\* bufferReplayFrame and, when it is full, forceReplayResync
Overflows(x, s) == s \notin x.buffer /\ Cardinality(x.buffer) >= MaxBuffer
Buffered(x, s) ==
  IF Overflows(x, s)
  THEN HandleResync(ClearIdentity(x), x.generation,
                    IF x.resync.on THEN x.resync.barrier ELSE x.runtime, FALSE, FALSE)
  ELSE IF s \in x.buffer THEN x
  ELSE [x EXCEPT !.buffer = @ \cup {s}, !.last = Max0({@, s})]

\* handleReplayFrame
HandleReplay(x, s) ==
  IF x.resync.on THEN IF s <= x.resync.barrier THEN x ELSE Buffered(x, s)
  ELSE IF s <= x.last THEN x
  ELSE IF s # x.last + 1
  THEN IF Overflows(x, s) THEN Buffered(x, s)
       ELSE HandleResync(Buffered(x, s), x.generation, x.runtime, FALSE, FALSE)
  ELSE LET e == Route(x, s)
       IN  IF e.browser.resync.fresh THEN e.browser
           ELSE Resolve(Applied(e.browser, s, ~e.deferred))

\* commitSessionSnapshot
Commit(x, asOf) ==
  LET behind == {s \in x.buffer : s > asOf}
      end == asOf + Cardinality(behind)
      begun == [x EXCEPT !.waiter = [on |-> TRUE, suffix |-> TRUE, end |-> end],
                         !.scheduled = <<>>, !.shown = UpTo(asOf), !.baseline = FALSE,
                         !.runtime = asOf, !.last = asOf, !.projected = asOf]
      Step(acc, s) ==
        LET e == Route(acc.browser, s)
        IN  IF ~acc.browser.waiter.on THEN acc
            ELSE IF ~e.browser.waiter.on THEN [acc EXCEPT !.browser = e.browser]
            ELSE [browser |-> Applied(e.browser, s, ~e.deferred), deferred |-> acc.deferred \/ e.deferred]
      ended == FoldLeft(Step, [browser |-> begun, deferred |-> FALSE], [i \in 1..(end - asOf) |-> asOf + i])
      y == [ended.browser EXCEPT !.buffer = {}]
  IN  IF behind # (asOf + 1)..end \/ end < Barrier(x) THEN FailAttempt(x)
      ELSE IF ~ended.browser.waiter.on THEN ended.browser
      ELSE IF ended.deferred /\ y.projected < end THEN y
      ELSE Finish(y)

-----------------------------------------------------------------------------
\* Messages that arrive

\* enqueueProjection of an event.  A full tail is discarded with what it holds.
EnqueueEvent(x, s) ==
  LET y == [x EXCEPT !.tail = <<>>]
  IN  IF Cardinality({i \in DOMAIN x.tail : ~x.tail[i].snapshot}) < MaxTail
      THEN [x EXCEPT !.tail = Append(@, [snapshot |-> FALSE, seq |-> s, awaited |-> FALSE])]
      ELSE IF ~HasSnapshot(x) THEN ReportFailure(y)
      ELSE IF \E i \in DOMAIN x.tail : x.tail[i].awaited THEN FailSnapshotProjection(y) ELSE y

\* handleSessionSnapshotBegin
EnqueueSnapshot(x, asOf) ==
  IF ~x.resync.on \/ ~x.waiter.on THEN x
  ELSE [x EXCEPT !.tail = Append(IF HasSnapshot(x) THEN <<>> ELSE @,
                                 [snapshot |-> TRUE, seq |-> asOf, awaited |-> TRUE])]

\* handleRuntimeState
HandleRuntime(x, generation, seq) ==
  LET y == IF x.generation \in {0, generation} THEN x
           ELSE [ForgetGeneration(x) EXCEPT !.last = 0, !.resync = NoResync]
  IN  IF generation < x.generation THEN x
      ELSE Resolve(Flush([y EXCEPT !.generation = generation, !.runtime = seq]))

\* wire_response
HandleResponse(x, c, generation, barrier) ==
  IF x.commands[c].pc # "sent" THEN x
  ELSE IF generation # x.commands[c].generation THEN Reject(x, {c})
  ELSE [x EXCEPT !.commands[c].pc = "materializing", !.commands[c].barrier = barrier]

\* ingestServerMessage and ingestFrameMessage
Received(x, m) ==
  CASE m.type = "runtime" -> HandleRuntime(x, m.generation, m.seq)
    [] m.type = "resync" -> HandleResync(x, m.generation, m.seq, m.fresh, TRUE)
    [] m.type = "event" -> IF m.generation = x.generation THEN EnqueueEvent(x, m.seq) ELSE x
    [] m.type = "snapshot" -> IF m.generation = x.generation THEN EnqueueSnapshot(x, m.seq) ELSE x
    [] m.type = "response" -> HandleResponse(x, m.command, m.generation, m.seq)

-----------------------------------------------------------------------------
Init ==
  /\ server = [generation |-> 1, seq |-> 0] /\ attached = FALSE
  /\ b = NewBrowser
  /\ up = <<Subscription(NewBrowser)>> /\ down = <<>> /\ faults = 0

Becomes(x) == b' = [x EXCEPT !.out = <<>>] /\ up' = up \o x.out
Faulty == faults < MaxFaults /\ faults' = faults + 1
Quiet == Len(up) <= MaxInFlight /\ Len(down) <= MaxInFlight
Message(type, seq) == [type |-> type, generation |-> server.generation, seq |-> seq]

\* The runtime appends an event to its journal.
Emit ==
  /\ Quiet /\ server.seq < MaxSeq
  /\ server' = [server EXCEPT !.seq = @ + 1]
  /\ down' = IF attached THEN Append(down, Message("event", server.seq + 1)) ELSE down
  /\ UNCHANGED <<attached, up, b, faults>>

\* A restart, after which the bridge subscribes its subscribers again (handleRestart).
Restart ==
  /\ Quiet /\ server.generation < MaxGeneration
  /\ server' = [generation |-> server.generation + 1, seq |-> 0]
  /\ IF attached
     THEN /\ down' = Append(down, [type |-> "runtime", generation |-> server.generation + 1, seq |-> 0])
          /\ up' = Append(up, Subscription(NewBrowser))
     ELSE UNCHANGED <<down, up>>
  /\ UNCHANGED <<attached, b, faults>>

\* subscribe of the bridge with getReplay of the runtime: the frames behind the
\* cursor, or a resync and a snapshot.
AnswerSubscribe(pruned) ==
  /\ up # <<>> /\ Head(up).type = "subscribe"
  /\ LET known == Head(up).generation = server.generation /\ Head(up).seq <= server.seq
         frames == [i \in 1..(server.seq - Head(up).seq) |-> Message("event", Head(up).seq + i)]
         resync == [type |-> "resync", generation |-> server.generation, seq |-> server.seq,
                    fresh |-> ~pruned]
     IN  /\ pruned => known /\ Head(up).seq < server.seq
         /\ down' = Append(down, Message("runtime", server.seq))
                    \o (IF known /\ ~pruned THEN frames ELSE <<resync, Message("snapshot", server.seq)>>)
  /\ IF pruned THEN Faulty ELSE UNCHANGED faults
  /\ attached' = TRUE /\ up' = Tail(up)
  /\ UNCHANGED <<server, b>>

\* handleCommand of the bridge: the response says after which event it came.
AnswerCommand ==
  /\ up # <<>> /\ Head(up).type = "command"
  /\ down' = Append(down, [type |-> "response", command |-> Head(up).command,
                           generation |-> server.generation, seq |-> server.seq])
  /\ up' = Tail(up)
  /\ UNCHANGED <<server, attached, b, faults>>

Arrive ==
  /\ down # <<>> /\ down' = Tail(down)
  /\ Becomes(Received(b, Head(down)))
  /\ UNCHANGED <<server, attached, faults>>

\* The head of the tail has its content.
Project ==
  /\ b.tail # <<>>
  /\ LET entry == Head(b.tail)
         x == [b EXCEPT !.tail = Tail(@)]
     IN  Becomes(IF ~entry.snapshot THEN HandleReplay(x, entry.seq)
                 ELSE IF entry.awaited /\ x.resync.on THEN Commit(x, entry.seq) ELSE x)
  /\ UNCHANGED <<server, attached, down, faults>>

\* The content of the head cannot be had.
PrepareFails ==
  /\ b.tail # <<>> /\ Faulty
  /\ LET x == [b EXCEPT !.tail = <<>>]
     IN  Becomes(IF ~HasSnapshot(b) THEN ReportFailure(x)
                 ELSE IF \E i \in DOMAIN b.tail : b.tail[i].awaited THEN FailSnapshotProjection(x) ELSE x)
  /\ UNCHANGED <<server, attached, down>>

\* The animation frame or the timer of a hidden page.
Publish ==
  /\ b.scheduled # <<>> /\ Becomes(Flush(b))
  /\ UNCHANGED <<server, attached, down, faults>>

\* The reducer refuses the deltas.
PublishFails ==
  /\ b.scheduled # <<>> /\ (b.resync.on => SuffixPending(b)) /\ Faulty
  /\ Becomes(ReportFailure([b EXCEPT !.scheduled = <<>>]))
  /\ UNCHANGED <<server, attached, down>>

\* request: only a mutation needs the baseline.
Request(c) ==
  /\ b.live /\ b.generation # 0 /\ b.commands[c].pc = "idle"
  /\ c \notin History => b.baseline
  /\ Len(up) <= MaxInFlight
  /\ Becomes(Post([b EXCEPT !.commands[c] = [pc |-> "sent", generation |-> b.generation, barrier |-> 0]],
                  [type |-> "command", command |-> c]))
  /\ UNCHANGED <<server, attached, down, faults>>

\* startResponseMaterialization ends, one way or the other.
Materialize(c) ==
  /\ b.commands[c].pc = "materializing"
  /\ Becomes(Resolve([b EXCEPT !.commands[c].pc = "ready"]))
  /\ UNCHANGED <<server, attached, down, faults>>

MaterializeFails(c) ==
  /\ b.commands[c].pc = "materializing" /\ Faulty
  /\ Becomes(Reject(IF c \in History THEN ReportFailure(b) ELSE b, {c}))
  /\ UNCHANGED <<server, attached, down>>

TimeOut(c) ==
  /\ Pending(b, c) /\ Faulty
  /\ Becomes(Reject(b, {c}))
  /\ UNCHANGED <<server, attached, down>>

\* scheduleRetry
RetryTimer ==
  /\ b.live /\ b.recovery.phase = "retry"
  /\ Becomes(Post(Attempt(b, b.recovery.attempt + 1), Subscription(b)))
  /\ UNCHANGED <<server, attached, down, faults>>

\* manualRetryResync
ManualRetry ==
  /\ b.recovery.phase = "degraded" /\ Faulty
  /\ Becomes(Post(Attempt(b, 1), Subscription(b)))
  /\ UNCHANGED <<server, attached, down>>

\* handleDisconnected
Disconnect ==
  /\ b.live /\ Faulty
  /\ b' = [Reject([Unawaited(b) EXCEPT !.tail = <<>>], Command) EXCEPT !.live = FALSE]
  /\ attached' = FALSE /\ up' = <<>> /\ down' = <<>>
  /\ UNCHANGED server

\* The first inventory of a new connection: the coordinator goes on, and every
\* Session that it has not given up is subscribed.
Reconnect ==
  /\ ~b.live
  /\ LET x == [b EXCEPT !.live = TRUE]
         y == IF x.recovery.phase = "syncing"
              THEN Post(Attempt(x, x.recovery.attempt), Subscription(x)) ELSE x
     IN  Becomes(IF y.recovery.phase = "degraded" THEN y ELSE Post(y, Subscription(y)))
  /\ UNCHANGED <<server, attached, down, faults>>

\* What the gateway, the browser's timers and its tasks do by themselves.
Runs ==
  \/ AnswerSubscribe(FALSE) \/ AnswerCommand \/ Arrive \/ Project \/ Publish
  \/ RetryTimer \/ Reconnect
  \/ \E c \in Command : Materialize(c)

Next ==
  \/ Runs \/ Emit \/ Restart \/ AnswerSubscribe(TRUE)
  \/ PrepareFails \/ PublishFails \/ ManualRetry \/ Disconnect
  \/ \E c \in Command : Request(c) \/ MaterializeFails(c) \/ TimeOut(c)

Spec == Init /\ [][Next]_vars /\ WF_vars(Runs)

-----------------------------------------------------------------------------
\* Bounds, and a waiter only of an attempt that runs on a live connection.
TypeOK ==
  /\ server.generation \in 1..MaxGeneration /\ server.seq \in 0..MaxSeq /\ faults \in 0..MaxFaults
  /\ b.generation \in 0..MaxGeneration /\ b.buffer \subseteq 1..MaxSeq
  /\ {b.last, b.projected, b.runtime, b.waiter.end} \subseteq 0..MaxSeq
  /\ b.recovery.phase \in {"none", "syncing", "retry", "degraded"}
  /\ b.recovery.attempt \in 0..MaxAttempts
  /\ b.waiter.on => b.live /\ b.recovery.phase = "syncing"

\* While the baseline counts as authoritative, the screen holds every event up to
\* the projected one, once and in order, and those behind it wait in the scheduler.
ShownExact ==
  b.baseline => /\ ~b.resync.on /\ b.shown = UpTo(b.projected)
                /\ b.scheduled = [i \in 1..(b.last - b.projected) |-> b.projected + i]

\* No answer whose events are on the screen keeps waiting.
AnswersGiven == \A c \in Command : ~Answerable(b, c)

\* A command is answered only when everything that came before the answer shows.
AnsweredWell(x, c) ==
  /\ x.baseline /\ x.generation = x.commands[c].generation
  /\ x.shown = UpTo(x.projected) /\ x.commands[c].barrier <= x.projected
AnsweredInOrder ==
  [][\A c \in Command : b'.commands[c].pc = "done" /\ b.commands[c].pc # "done" =>
       AnsweredWell(b', c)]_vars

\* Once events and faults end, the screen shows all that the runtime journalled,
\* or the recovery gave up and says so.
Settled ==
  \/ b.recovery.phase = "degraded"
  \/ b.baseline /\ b.generation = server.generation /\ b.shown = UpTo(server.seq)
Recovers == <>[]Settled

\* The invariants together.
StreamExact == TypeOK /\ ShownExact /\ AnswersGiven
=============================================================================
