----------------------------- MODULE HotRecovery -----------------------------
(***************************************************************************)
(* How one browser comes to observe every hot runtime: the inventory the   *)
(* supervisor publishes (session-supervisor.ts), the exact and the plain   *)
(* subscriptions the bridge answers (session-ws-bridge.ts), and the        *)
(* browser's queue of exact recoveries with its resync coordinator         *)
(* (session-transport.ts, recovery-machine.ts, session-resync.ts).  An     *)
(* identity is a Session and the generation of its runtime; a lease only   *)
(* says of which generation it is the baseline.                            *)
(***************************************************************************)
EXTENDS Naturals, Sequences, FiniteSets
LOCAL INSTANCE FiniteSetsExt

CONSTANTS
  Session,        \* the Sessions, whose runtimes are hot at first
  Nothing,        \* no Session
  MaxGeneration,  \* generations of a runtime
  MaxAttempts,    \* SESSION_RESYNC_MAX_ATTEMPTS
  MaxBudget,      \* requests of the user, gaps and failures
  MaxInFlight,    \* frames each way when a step begins
  Happens         \* kinds of steps: "requests" of the user, "transitions" of other runtimes

VARIABLES
  generation, hot,  \* of each runtime
  transitioning,    \* some other runtime is in an identity transition
  refresh,          \* hotInventoryRefreshScheduled
  inventory,        \* hotInventoryEntries: the generation listed, 0 for no entry
  revision,         \* hotInventoryRevision
  live,             \* subscriptions of the connection
  catchUp,          \* its catch-up of a Session, NoCatchUp for none
  up, down,         \* frames to the gateway and to the browser
  browser,          \* see NewBrowser
  budget

supervisor == <<generation, hot, transitioning, refresh, inventory, revision>>
bridge == <<live, catchUp>>
vars == <<supervisor, bridge, up, down, browser, budget>>

Generation == 0..MaxGeneration
NoCatchUp == [asked |-> FALSE, expected |-> 0, cursor |-> 0]
NoActive == [handle |-> Nothing, generation |-> 0, baseline |-> FALSE, lease |-> FALSE, started |-> FALSE]
NoResync == [generation |-> 0, phase |-> "none", attempt |-> 0]

\* The channels, the recovery machine and the resync coordinator.  waiter is the
\* identity of a channel's snapshot waiter, retry a timer of the coordinator.
NewBrowser ==
  [online |-> TRUE,
   subscribed |-> [s \in Session |-> FALSE], generation |-> [s \in Session |-> 0],
   baseline |-> [s \in Session |-> FALSE], fresh |-> [s \in Session |-> 0],
   pending |-> [s \in Session |-> 0], resync |-> [s \in Session |-> FALSE],
   rejected |-> [s \in Session |-> FALSE], waiter |-> [s \in Session |-> 0],
   recovery |-> [s \in Session |-> NoResync], observed |-> [s \in Session |-> 0],
   hot |-> [s \in Session |-> 0], revision |-> 0,
   queue |-> <<>>, active |-> NoActive, out |-> <<>>]

-----------------------------------------------------------------------------
\* What the browser sends, and its queue of exact recoveries

Post(b, m) == IF b.online THEN [b EXCEPT !.out = Append(@, m)] ELSE b

\* validCursor
ValidCursor(b, s) == IF b.baseline[s] THEN b.generation[s] ELSE 0

\* sendSubscriptionForRuntime; expected is 0 for a plain subscription.
SendSubscription(b, s, expected) ==
  LET seen == IF expected # 0 THEN expected ELSE b.generation[s]
  IN  Post([b EXCEPT !.fresh[s] = 0,
                     !.observed[s] = IF b.online /\ seen # 0 THEN seen ELSE @],
           [type |-> "subscribe", handle |-> s, cursor |-> ValidCursor(b, s), expected |-> expected])

\* hasAuthoritativeHotBaseline
Served(b, s) ==
  /\ b.subscribed[s] /\ b.baseline[s]
  /\ b.fresh[s] = b.generation[s] /\ b.generation[s] = b.hot[s]

\* hasConnectionObservation, isManualOnlyDegraded
Attended(b, s) ==
  \/ Served(b, s)
  \/ b.observed[s] = b.hot[s]
  \/ b.recovery[s].phase = "degraded" /\ b.recovery[s].generation = b.hot[s]

Queued(b) == {b.queue[i] : i \in 1..Len(b.queue)}
Without(q, s) == SelectSeq(q, LAMBDA t : t # s)

\* pumpExactHotRecovery: the first Session of the queue that wants recovery.
Pump(b) ==
  LET wants == {i \in 1..Len(b.queue) :
                  LET s == b.queue[i] IN b.hot[s] # 0 /\ ~Attended(b, s) /\ b.subscribed[s]}
      first == CHOOSE i \in wants : \A j \in wants : i <= j
      s == b.queue[first]
      started == [b EXCEPT !.queue = SubSeq(@, first + 1, Len(@)),
                           !.active = [handle |-> s, generation |-> b.hot[s], lease |-> FALSE, started |-> FALSE,
                                       baseline |-> b.baseline[s] /\ b.generation[s] = b.hot[s]]]
  IN  CASE b.active # NoActive \/ ~b.online -> b
        [] wants = {} -> [b EXCEPT !.queue = <<>>]
        [] OTHER -> SendSubscription(started, s, b.hot[s])

\* The fault: a Session whose baseline is missing is queued although this
\* connection asked for it already, so that each inventory asks again.
QueueAgain(b, s) ==
  LET seen == IF b.subscribed[s] THEN b
              ELSE [b EXCEPT !.subscribed[s] = TRUE, !.fresh[s] = 0, !.rejected[s] = FALSE]
  IN  Pump([seen EXCEPT !.queue = Append(@, s)])

\* queueHotRuntimeRecovery
QueueRecovery(b, s) ==
  LET seen == IF b.subscribed[s] THEN b
              ELSE [b EXCEPT !.subscribed[s] = TRUE, !.fresh[s] = 0, !.rejected[s] = FALSE]
  IN  IF Attended(seen, s) \/ seen.active.handle = s \/ s \in Queued(seen) THEN seen
      ELSE Pump([seen EXCEPT !.queue = Append(@, s)])

\* clear_session of the recovery machine
ClearSession(b, s) ==
  [b EXCEPT !.observed[s] = 0, !.queue = Without(@, s),
            !.active = IF @.handle = s THEN NoActive ELSE @]

\* cancelExactHotRecovery
CancelExact(b, s) ==
  Pump([b EXCEPT !.queue = Without(@, s), !.active = IF @.handle = s THEN NoActive ELSE @])

\* advanceExactHotRecovery
AdvanceExact(b, s, kind) ==
  LET updated == IF kind = "baseline" THEN [b.active EXCEPT !.baseline = TRUE]
                 ELSE [b.active EXCEPT !.lease = TRUE]
      done == [b EXCEPT !.active = NoActive]
  IN  CASE b.active.handle # s \/ b.active.generation # b.generation[s] -> b
        [] ~(updated.baseline /\ updated.lease) -> [b EXCEPT !.active = updated]
        [] b.hot[s] \notin {0, b.generation[s]} -> Pump(QueueRecovery(done, s))
        [] OTHER -> Pump(done)

\* settleExactHotRecoveryError
SettleError(b, s) ==
  LET done == [b EXCEPT !.active = NoActive,
                        !.observed[s] = IF @ = b.active.generation THEN 0 ELSE @]
  IN  IF b.hot[s] \notin {0, b.active.generation} THEN Pump(QueueRecovery(done, s)) ELSE Pump(done)

-----------------------------------------------------------------------------
\* The resync coordinator

\* runAttempt with attemptResync: the gateway that asked for the resync sends
\* its snapshot unasked, so that such an attempt skips its subscription.
RunAttempt(b, s, attempt, skip) ==
  LET next == [b EXCEPT !.recovery[s] = [generation |-> b.generation[s], phase |-> "syncing", attempt |-> attempt],
                        !.waiter[s] = b.generation[s]]
  IN  IF skip THEN next ELSE SendSubscription(next, s, 0)

\* The fault: the recovery of a Session that gave up stays the active one.
DegradedKept(b, s) == [b EXCEPT !.recovery[s].phase = "degraded"]

\* The last attempt failed; the coordinator's listener lets the queue go on.
Degraded(b, s) ==
  LET done == [b EXCEPT !.recovery[s].phase = "degraded"]
  IN  IF b.active.handle = s /\ b.active.generation = b.recovery[s].generation
      THEN Pump([done EXCEPT !.active = NoActive]) ELSE done

\* failAttempt, for the waiter that is rejected
FailAttempt(b, s) ==
  LET failed == [b EXCEPT !.waiter[s] = 0]
  IN  CASE b.waiter[s] = 0 -> b
        [] b.recovery[s].attempt >= MaxAttempts -> Degraded(failed, s)
        [] OTHER -> [failed EXCEPT !.recovery[s].phase = "retry_wait"]

Forget(b, s) == [b EXCEPT !.recovery[s] = NoResync, !.waiter[s] = 0]

\* handleResyncRequired; own is a resync the browser itself starts.
ResyncRequired(b, s, g, own) ==
  LET same == b.generation[s] = g
      kept == IF same \/ b.generation[s] = 0 THEN b ELSE Forget(b, s)
      reset == [kept EXCEPT !.observed[s] = g, !.fresh[s] = 0, !.pending[s] = IF same THEN @ ELSE 0,
                            !.generation[s] = g, !.baseline[s] = FALSE, !.resync[s] = TRUE,
                            !.active.started = @ \/ (b.active.handle = s /\ b.active.generation = g)]
      r == reset.recovery[s]
  IN  IF ~b.subscribed[s] \/ g < b.generation[s] THEN b
      ELSE IF r.phase # "none" /\ r.generation = g /\ (reset.waiter[s] = g \/ r.phase = "degraded") THEN reset
      ELSE RunAttempt(Forget(reset, s), s, 1, ~own)

-----------------------------------------------------------------------------
\* What the browser receives

\* unsubscribeSession
Unsubscribed(b, s) ==
  IF ~b.subscribed[s] THEN b
  ELSE LET left == [ClearSession(b, s) EXCEPT !.subscribed[s] = FALSE, !.fresh[s] = 0, !.pending[s] = 0,
                                              !.rejected[s] = FALSE]
       IN  Post(Forget(CancelExact(left, s), s), [type |-> "unsubscribe", handle |-> s])

\* Op applied for each Session of a set, in an order the code does not promise.
ForEach(Op(_, _), b, ss) == FoldSet(LAMBDA s, acc : Op(acc, s), b, ss)

Remove(b, s) == Unsubscribed(CancelExact([b EXCEPT !.observed[s] = 0], s), s)

\* handleHotRuntimeInventory
HandleInventory(b, m) ==
  LET next == [b EXCEPT !.hot = m.entries, !.revision = m.revision]
      gone == {s \in Session : b.hot[s] # 0 /\ m.entries[s] = 0}
  IN  IF m.revision <= b.revision THEN b
      ELSE ForEach(QueueRecovery, ForEach(Remove, next, gone), {s \in Session : m.entries[s] # 0})

\* handleRuntimeState
HandleRuntimeState(b, m) ==
  LET s == m.handle
      g == m.generation
      changed == b.generation[s] \notin {0, g}
      wasActive == b.active.handle = s
      wasQueued == s \in Queued(b)
      cleared == [Forget(ClearSession(b, s), s)
                    EXCEPT !.generation[s] = g, !.baseline[s] = FALSE, !.resync[s] = FALSE,
                           !.fresh[s] = 0, !.pending[s] = 0, !.observed[s] = g]
  IN  CASE ~b.subscribed[s] \/ g < b.generation[s] -> b
        [] ~changed -> [b EXCEPT !.generation[s] = g, !.observed[s] = g]
        [] wasActive -> Pump([cleared EXCEPT !.active = [NoActive EXCEPT !.handle = s, !.generation = g]])
        [] wasQueued -> Pump([cleared EXCEPT !.queue = Append(@, s)])
        [] OTHER -> Pump(cleared)

\* handleLease: it waits for an authoritative baseline, and a second one of the
\* same content is no news.
HandleLease(b, m) ==
  LET s == m.handle IN
    CASE ~b.subscribed[s] \/ b.generation[s] # m.generation -> b
      [] ~b.baseline[s] -> [b EXCEPT !.pending[s] = m.generation]
      [] b.fresh[s] = m.generation -> b
      [] OTHER -> AdvanceExact([b EXCEPT !.fresh[s] = m.generation, !.rejected[s] = FALSE, !.pending[s] = 0],
                               s, "lease")

\* commitSessionSnapshot and finishSnapshot
FinishSnapshot(b, s) ==
  LET done == AdvanceExact([Forget(b, s) EXCEPT !.baseline[s] = TRUE, !.resync[s] = FALSE, !.rejected[s] = FALSE],
                           s, "baseline")
  IN  IF b.pending[s] # b.generation[s] THEN done
      ELSE AdvanceExact([done EXCEPT !.fresh[s] = b.generation[s], !.pending[s] = 0], s, "lease")

Snapshots(b, m) == b.subscribed[m.handle] /\ b.resync[m.handle] /\ b.waiter[m.handle] = m.generation
                   /\ b.generation[m.handle] = m.generation

\* handleSessionError of a subscribe
HandleError(b, m) ==
  LET s == m.handle
      told == [b EXCEPT !.rejected[s] = TRUE]
  IN  CASE b.active.handle = s /\ ~b.active.started -> SettleError(told, s)
        [] ~b.subscribed[s] -> b
        [] b.resync[s] -> FailAttempt([told EXCEPT !.pending[s] = 0], s)
        [] OTHER -> [told EXCEPT !.subscribed[s] = FALSE, !.fresh[s] = 0, !.pending[s] = 0, !.observed[s] = 0]

Handle(b, m) ==
  CASE m.type = "inventory" -> HandleInventory(b, m)
    [] m.type = "runtime_state" -> HandleRuntimeState(b, m)
    [] m.type = "resync_required" -> ResyncRequired(b, m.handle, m.generation, FALSE)
    [] m.type = "snapshot" -> IF Snapshots(b, m) THEN FinishSnapshot(b, m.handle) ELSE b
    [] m.type = "lease" -> HandleLease(b, m)
    [] m.type = "error" -> HandleError(b, m)

-----------------------------------------------------------------------------
Inventory(entries, r) == [type |-> "inventory", entries |-> entries, revision |-> r]

Becomes(b) ==
  /\ browser' = [b EXCEPT !.out = <<>>]
  /\ up' = up \o b.out

Room == Len(up) <= MaxInFlight /\ Len(down) <= MaxInFlight
Spend == budget < MaxBudget /\ budget' = budget + 1

Init ==
  /\ generation = [s \in Session |-> 1] /\ hot = [s \in Session |-> TRUE]
  /\ transitioning = FALSE /\ refresh = FALSE
  /\ inventory = generation /\ revision = 1
  /\ live = {} /\ catchUp = [s \in Session |-> NoCatchUp]
  /\ LET b == HandleInventory(NewBrowser, Inventory(inventory, 1))
     IN  browser = [b EXCEPT !.out = <<>>] /\ up = b.out
  /\ down = <<>> /\ budget = 0

Receive ==
  /\ down # <<>> /\ Len(up) <= MaxInFlight
  /\ down' = Tail(down) /\ Becomes(Handle(browser, Head(down)))
  /\ UNCHANGED <<supervisor, bridge, budget>>

\* failSnapshotProjection: the snapshot could not be projected.
ProjectionFails ==
  /\ Room /\ down # <<>> /\ Head(down).type = "snapshot" /\ Snapshots(browser, Head(down))
  /\ Spend
  /\ down' = Tail(down)
  /\ Becomes(FailAttempt([browser EXCEPT !.fresh[Head(down).handle] = 0], Head(down).handle))
  /\ UNCHANGED <<supervisor, bridge>>

\* A frame is missing, or could not be projected: reportProjectionFailure and
\* the gap in handleReplayFrame.
Gap(s) ==
  /\ Room /\ browser.online /\ browser.subscribed[s] /\ s \in live
  /\ browser.generation[s] = generation[s] /\ hot[s] /\ ~browser.resync[s]
  /\ Spend
  /\ Becomes(ResyncRequired(browser, s, browser.generation[s], TRUE))
  /\ UNCHANGED <<supervisor, bridge, down>>

RetryTimer(s) ==
  /\ Room /\ browser.online /\ browser.recovery[s].phase = "retry_wait"
  /\ Becomes(RunAttempt(browser, s, browser.recovery[s].attempt + 1, FALSE))
  /\ UNCHANGED <<supervisor, bridge, down, budget>>

ManualRetry(s) ==
  /\ Room /\ browser.online /\ browser.recovery[s].phase = "degraded" /\ Spend
  /\ Becomes(RunAttempt(browser, s, 1, FALSE))
  /\ UNCHANGED <<supervisor, bridge, down>>

\* subscribeSession of a channel that is not followed
Subscribe(s) ==
  /\ "requests" \in Happens /\ Room /\ ~browser.subscribed[s] /\ Spend
  /\ LET b == [browser EXCEPT !.subscribed[s] = TRUE, !.fresh[s] = 0, !.rejected[s] = FALSE]
     IN  Becomes(IF b.online THEN SendSubscription(b, s, 0) ELSE b)
  /\ UNCHANGED <<supervisor, bridge, down>>

\* retrySessionSubscription of a channel that is
RetrySubscription(s) ==
  /\ "requests" \in Happens /\ Room /\ browser.online /\ browser.subscribed[s] /\ browser.rejected[s] /\ Spend
  /\ LET b == [browser EXCEPT !.rejected[s] = FALSE, !.observed[s] = 0]
     IN  Becomes(IF b.hot[s] # 0 THEN QueueRecovery(b, s) ELSE SendSubscription(b, s, 0))
  /\ UNCHANGED <<supervisor, bridge, down>>

Unsubscribe(s) ==
  /\ "requests" \in Happens /\ Room /\ browser.subscribed[s] /\ Spend
  /\ Becomes(Unsubscribed(browser, s))
  /\ UNCHANGED <<supervisor, bridge, down>>

\* handleDisconnected and the gateway's end of the connection
Disconnect ==
  /\ browser.online /\ Spend
  /\ browser' = [browser EXCEPT !.online = FALSE, !.fresh = [s \in Session |-> 0], !.pending = [s \in Session |-> 0],
                                !.waiter = [s \in Session |-> 0], !.observed = [s \in Session |-> 0],
                                !.hot = [s \in Session |-> 0], !.revision = 0, !.queue = <<>>, !.active = NoActive]
  /\ up' = <<>> /\ down' = <<>>
  /\ live' = {} /\ catchUp' = [s \in Session |-> NoCatchUp]
  /\ UNCHANGED supervisor

\* The initial inventory of the next connection: coordinator entries go on, hot
\* runtimes are queued, and the other channels subscribe again.
Reconnect ==
  /\ ~browser.online
  /\ LET Again(b, s) == IF b.recovery[s].phase = "syncing" /\ b.subscribed[s]
                        THEN RunAttempt(b, s, b.recovery[s].attempt, FALSE) ELSE b
         Resubscribe(b, s) == IF b.subscribed[s] /\ b.recovery[s].phase # "degraded"
                              THEN SendSubscription(b, s, 0) ELSE b
         online == [browser EXCEPT !.online = TRUE, !.hot = inventory, !.revision = revision]
         listed == {s \in Session : inventory[s] # 0}
     IN  Becomes(ForEach(Resubscribe, ForEach(QueueRecovery, ForEach(Again, online, Session), listed),
                         Session \ listed))
  /\ UNCHANGED <<supervisor, bridge, down, budget>>

-----------------------------------------------------------------------------
\* The supervisor

Tell(ms) == down' = IF browser.online THEN down \o ms ELSE down
State(s, g) == [type |-> "runtime_state", handle |-> s, generation |-> g]

\* What is emitted reaches a live subscription; a catch-up buffers it, and its
\* answer covers what it buffered.
Emit(s, g) == IF s \in live /\ ~catchUp[s].asked THEN Tell(<<State(s, g)>>) ELSE UNCHANGED down

\* The end of a process: a crash, a stop, an eviction.
Ends(s) ==
  /\ Room /\ hot[s] /\ hot' = [hot EXCEPT ![s] = FALSE] /\ refresh' = TRUE
  /\ Spend
  /\ Emit(s, generation[s])
  /\ UNCHANGED <<generation, transitioning, inventory, revision, bridge, up, browser>>

\* spawn, for the restart timer of handleCrash or an activation; both wait for
\* the pool lock behind a refresh that was scheduled before.
Spawns(s) ==
  /\ Room /\ ~hot[s] /\ ~refresh /\ generation[s] < MaxGeneration
  /\ hot' = [hot EXCEPT ![s] = TRUE] /\ generation' = [generation EXCEPT ![s] = @ + 1]
  /\ refresh' = TRUE
  /\ Emit(s, generation[s] + 1)
  /\ UNCHANGED <<transitioning, inventory, revision, bridge, up, browser, budget>>

TransitionBegins ==
  /\ "transitions" \in Happens /\ ~transitioning /\ transitioning' = TRUE /\ Spend
  /\ UNCHANGED <<generation, hot, refresh, inventory, revision, bridge, up, down, browser>>

\* Its end publishes the operational state, which schedules a refresh.
TransitionEnds ==
  /\ transitioning /\ transitioning' = FALSE /\ refresh' = TRUE
  /\ UNCHANGED <<generation, hot, inventory, revision, bridge, up, down, browser, budget>>

\* commitHotRuntimeInventoryIfChanged in the turn of scheduleHotRuntimeInventoryRefresh
Entries == [s \in Session |-> IF hot[s] THEN generation[s] ELSE 0]

Refresh ==
  /\ refresh /\ refresh' = FALSE
  /\ IF transitioning \/ Entries = inventory
     THEN UNCHANGED <<inventory, revision, down>>
     ELSE /\ inventory' = Entries /\ revision' = revision + 1
          /\ Tell(<<Inventory(Entries, revision + 1)>>)
  /\ UNCHANGED <<generation, hot, transitioning, bridge, up, browser, budget>>

-----------------------------------------------------------------------------
\* The bridge

\* subscribe up to its await, and unsubscribe
Serve ==
  /\ up # <<>> /\ up' = Tail(up)
  /\ LET m == Head(up)
         s == m.handle
     IN  CASE m.type = "unsubscribe" ->
                live' = live \ {s} /\ catchUp' = [catchUp EXCEPT ![s] = NoCatchUp]
           [] m.expected # 0 /\ (s \in live \/ catchUp[s].asked) -> UNCHANGED bridge
           [] OTHER ->
                /\ catchUp' = [catchUp EXCEPT ![s] = [asked |-> TRUE, expected |-> m.expected, cursor |-> m.cursor]]
                /\ live' = IF m.expected # 0 THEN live ELSE live \ {s}
  /\ UNCHANGED <<supervisor, down, browser, budget>>

\* The rest of subscribe: runtime_state, the frames or the snapshot, the lease.
Baseline(s, g) ==
  /\ live' = live \cup {s}
  /\ LET lease == [type |-> "lease", handle |-> s, generation |-> g]
         snapshot == <<[type |-> "resync_required", handle |-> s, generation |-> g],
                       [type |-> "snapshot", handle |-> s, generation |-> g]>>
     IN  IF catchUp[s].cursor = g THEN Tell(<<State(s, g), lease>>)
         ELSE Tell(<<State(s, g)>> \o snapshot \o <<lease>>)

Refused(s) ==
  /\ live' = live
  /\ Tell(<<[type |-> "error", handle |-> s]>>)

\* subscribeHotExact, or the activation behind a plain subscribe.
Answer(s) ==
  /\ catchUp[s].asked /\ Len(down) <= MaxInFlight
  /\ catchUp' = [catchUp EXCEPT ![s] = NoCatchUp]
  /\ LET g == catchUp[s].expected IN
       IF g # 0
       THEN /\ IF hot[s] /\ generation[s] = g THEN Baseline(s, g) ELSE Refused(s)
            /\ UNCHANGED <<generation, hot, refresh>>
       ELSE \/ hot[s] /\ Baseline(s, generation[s]) /\ UNCHANGED <<generation, hot, refresh>>
            \/ /\ ~hot[s] /\ ~refresh /\ generation[s] < MaxGeneration
               /\ hot' = [hot EXCEPT ![s] = TRUE] /\ generation' = [generation EXCEPT ![s] = @ + 1]
               /\ refresh' = TRUE
               /\ Baseline(s, generation[s] + 1)
            \/ ~hot[s] /\ Refused(s) /\ UNCHANGED <<generation, hot, refresh>>
  /\ UNCHANGED <<transitioning, inventory, revision, up, browser, budget>>

Next ==
  \/ Receive \/ ProjectionFails \/ Disconnect \/ Reconnect \/ Serve
  \/ \E s \in Session : \/ Gap(s) \/ RetryTimer(s) \/ ManualRetry(s)
                        \/ Subscribe(s) \/ RetrySubscription(s) \/ Unsubscribe(s)
                        \/ Ends(s) \/ Spawns(s) \/ Answer(s)
  \/ TransitionBegins \/ TransitionEnds \/ Refresh

Spec == Init /\ [][Next]_vars

-----------------------------------------------------------------------------
TypeOK ==
  /\ generation \in [Session -> 1..MaxGeneration] /\ hot \in [Session -> BOOLEAN]
  /\ inventory \in [Session -> Generation] /\ live \subseteq Session
  /\ browser.hot \in [Session -> Generation] /\ browser.generation \in [Session -> Generation]
  /\ \A s \in Session : browser.waiter[s] # 0 => browser.recovery[s].phase = "syncing"
  /\ Cardinality(Queued(browser)) = Len(browser.queue)
  /\ browser.out = <<>> /\ budget \in 0..MaxBudget

\* Every frame has arrived, every request is answered, no retry is to come, and
\* the inventory the browser has is the supervisor's.
Quiet ==
  /\ browser.online /\ up = <<>> /\ down = <<>> /\ ~refresh /\ ~transitioning
  /\ \A s \in Session : browser.recovery[s].phase # "retry_wait"
  /\ \A s \in Session : ~catchUp[s].asked

\* What the browser shows of a hot runtime it follows is authoritative, or the
\* user is told that it is not.
Recovered(s) ==
  \/ Served(browser, s)
  \/ browser.recovery[s].phase = "degraded"
  \/ browser.rejected[s]

EveryHotServed ==
  Quiet => \A s \in Session : browser.hot[s] # 0 /\ browser.subscribed[s] => Recovered(s)

\* An exact recovery never blocks those of the other Sessions behind it.
NoneBlocked == Quiet => browser.active = NoActive /\ browser.queue = <<>>

RecoveryExact == EveryHotServed /\ NoneBlocked
=============================================================================
