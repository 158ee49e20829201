---------------------------- MODULE BrowserControl ----------------------------
(***************************************************************************)
(* One browser's view of who controls a Session: the control machine       *)
(* (control-machine.ts), the handlers of session-transport.ts that drive   *)
(* it, and what session-control.ts offers to the user.  The gateway's side *)
(* is the lease of SessionLease, reduced to the answers this browser gets  *)
(* over its socket in order; `other' stands for every other browser.       *)
(***************************************************************************)
EXTENDS Integers, Sequences

CONSTANTS
  MaxGeneration,  \* generations of the runtime
  MaxRevision,    \* lease revisions of a generation
  MaxAhead,       \* frames on their way in each direction when a step begins
  MaxControl      \* requests of the user and failures

ASSUME ControlAssumption ==
  MaxGeneration \in Nat \ {0} /\ MaxRevision \in Nat /\ MaxControl \in Nat

VARIABLES
  generation,  \* of the runtime
  overflowed,  \* the runtime has crashed and wants an explicit restart
  owner,       \* of the lease: "free", "us" or "other"
  revision,    \* of the lease
  joined,      \* the gateway has this connection among the subscribers
  up, down,    \* frames on their way to the gateway and to the browser
  browser,     \* see Browser
  requests     \* requests and failures so far

gateway == <<generation, overflowed, owner, revision, joined>>
controlVars == <<gateway, up, down, browser, requests>>

Transition == {"baseline", "claim", "release", "takeover", "disconnect"}
Unknown == -1

\* lease_status as this connection is told it; the fencing token is the
\* controller's revision.
LeaseStatus(g, r, o, t) ==
  [type |-> "lease_status", generation |-> g, revision |-> r, held |-> o # "free",
   controller |-> o = "us", transition |-> t]
Lease == [held : BOOLEAN, controller : BOOLEAN, revision : Nat \cup {Unknown},
          transition : Transition, conflicted : BOOLEAN]
NoLease == [held |-> FALSE, controller |-> FALSE, revision |-> Unknown,
            transition |-> "baseline", conflicted |-> FALSE]
NoAttempt == [generation |-> 0, revision |-> Unknown]
NoStatus == [type |-> "none"]

\* subscriptionBaseline: undefined, null, or the generation it expects.
Undefined == -1
AnyBaseline == 0

\* emptySession
EmptySession ==
  [subscribed |-> FALSE, intent |-> FALSE, fresh |-> 0, lease |-> NoLease, claimPending |-> FALSE,
   attempt |-> NoAttempt, released |-> FALSE, baseline |-> Undefined,
   pending |-> NoStatus, pendingExpected |-> FALSE]

\* The browser: its connection, its control record and the parts of the channel
\* that decide about control.  waiter is the snapshot waiter of a resync.
NewBrowser ==
  [online |-> TRUE, ctl |-> EmptySession, generation |-> 0, crashed |-> FALSE, baseline |-> FALSE,
   resync |-> FALSE, waiter |-> "none", degraded |-> FALSE, restart |-> 0, offering |-> FALSE,
   out |-> <<>>]

-----------------------------------------------------------------------------
\* control-machine.ts

Update(b, c) == [b EXCEPT !.ctl = c]
Post(b, m) == IF b.online THEN [b EXCEPT !.out = Append(@, m)] ELSE b
Request(t) == [type |-> t]

\* hasFreshBaseline
Fresh(b) == b.generation # 0 /\ b.ctl.fresh = b.generation

\* leaseStateFrom, clearFenceLease, failClosedLease
LeaseFrom(m) == [held |-> m.held, controller |-> m.controller, revision |-> m.revision,
                 transition |-> m.transition, conflicted |-> FALSE]
ClearFence(l) == [l EXCEPT !.controller = FALSE, !.conflicted = FALSE]
FailClosed(m) == [LeaseFrom(m) EXCEPT !.controller = FALSE, !.conflicted = TRUE]

SameSemantics(m, l) == LeaseFrom(m) = [l EXCEPT !.transition = m.transition]
SameLease(m, l) == LeaseFrom(m) = l

Conflict(c, m) == [c EXCEPT !.fresh = 0, !.claimPending = FALSE, !.attempt = NoAttempt,
                            !.lease = FailClosed(m)]

Outcome(b, accepted, conflict) == [b |-> b, accepted |-> accepted, conflict |-> conflict]
Ignored(b) == Outcome(b, FALSE, FALSE)

\* hasPendingInactiveRecovery
InactiveRecovery(b) ==
  /\ b.online /\ b.ctl.subscribed /\ b.generation # 0
  /\ b.resync /\ b.crashed /\ b.restart = b.generation

\* The accepted status of reduceLeaseStatus; session-control.ts observes it.
Accept(b, m, keepsProvenance) ==
  LET c == b.ctl
      next == [c EXCEPT !.fresh = b.generation, !.attempt = NoAttempt, !.pending = NoStatus,
                        !.released = IF m.controller THEN @ ELSE FALSE,
                        !.baseline = IF @ \in {AnyBaseline, b.generation} THEN Undefined ELSE @,
                        !.lease = IF keepsProvenance THEN @ ELSE LeaseFrom(m)]
  IN  Outcome([Update(b, next) EXCEPT !.offering = FALSE], TRUE, FALSE)

\* A status that may not be believed yet is kept, and the newest of them.
Defer(b, m, controlled) ==
  LET c == b.ctl
      pends == [c EXCEPT !.pending = m, !.pendingExpected = controlled]
  IN  IF c.pending = NoStatus \/ m.revision > c.pending.revision THEN Ignored(Update(b, pends))
      ELSE IF m.revision = c.pending.revision /\ ~SameLease(m, LeaseFrom(c.pending))
           THEN Outcome(Update(b, [Conflict(c, m) EXCEPT !.pending = NoStatus]), FALSE, TRUE)
           ELSE Ignored(b)

\* Two statuses of one revision agree, or the lease is in conflict.
Compare(b, m, controlled) ==
  IF SameLease(m, b.ctl.lease) THEN (IF Fresh(b) THEN Ignored(b) ELSE Accept(b, m, FALSE))
  ELSE IF controlled /\ SameSemantics(m, b.ctl.lease) THEN Accept(b, m, TRUE)
  ELSE Outcome(Update(b, Conflict(b.ctl, m)), FALSE, TRUE)

Judge(b, m, controlled) ==
  IF m.controller /\ b.ctl.released THEN Ignored(Post(b, Request("release")))
  ELSE IF m.revision < b.ctl.lease.revision THEN Ignored(b)
  ELSE IF m.revision = b.ctl.lease.revision THEN Compare(b, m, controlled)
  ELSE Accept(b, m, FALSE)

\* reduceLeaseStatus
ReduceLeaseStatus(b, m, authoritative, expected) ==
  LET controlled == \/ expected
                    \/ m.transition = "baseline" /\ b.ctl.baseline \in {AnyBaseline, b.generation}
      recovers == InactiveRecovery(b) /\ (controlled \/ Fresh(b))
  IN  IF ~b.ctl.subscribed \/ b.generation # m.generation THEN Ignored(b)
      ELSE IF authoritative \/ recovers THEN Judge(b, m, controlled)
      ELSE Defer(b, m, controlled)

\* What connection_reset, runtime_reset and a resync with a new identity forget.
ForgetLease(c) == [c EXCEPT !.fresh = 0, !.lease = NoLease, !.claimPending = FALSE,
                            !.attempt = NoAttempt, !.baseline = Undefined, !.pending = NoStatus]

\* claim_if_ready
ClaimIfReady(b) ==
  IF /\ b.ctl.subscribed /\ b.online /\ b.ctl.intent /\ (b.baseline \/ InactiveRecovery(b))
     /\ Fresh(b) /\ ~b.ctl.lease.controller /\ ~b.ctl.claimPending /\ b.ctl.baseline = Undefined
  THEN Post([b EXCEPT !.ctl.claimPending = TRUE], Request("claim"))
  ELSE b

\* claim_intent, for a channel whose takeover is not in flight
CanIntend(b) == b.ctl.subscribed /\ b.ctl.attempt = NoAttempt
Intend(b) == IF CanIntend(b) THEN [b EXCEPT !.ctl.intent = TRUE, !.ctl.released = FALSE] ELSE b

\* takeover
AcceptsTakeover(b) ==
  /\ b.ctl.subscribed /\ b.online /\ b.baseline /\ Fresh(b) /\ ~b.resync
  /\ ~b.ctl.lease.conflicted /\ ~b.ctl.lease.controller /\ b.ctl.lease.held
  /\ ~b.ctl.claimPending /\ b.ctl.attempt = NoAttempt /\ b.ctl.baseline = Undefined

-----------------------------------------------------------------------------
\* The driver in session-transport.ts

ValidCursor(b) == IF b.baseline THEN b.generation ELSE 0

\* sendSubscription
SendSubscription(b, cursor) ==
  Post([b EXCEPT !.ctl.fresh = 0, !.ctl.baseline = IF b.online THEN b.generation ELSE Undefined],
       [type |-> "subscribe", cursor |-> cursor])

\* attemptResync, without and with a subscription of its own
AwaitSnapshot(b) == [b EXCEPT !.waiter = "waiting", !.degraded = FALSE]
AttemptResync(b) == SendSubscription(AwaitSnapshot(b), 0)

\* The attempt failed: the coordinator tries again or gives up.
ResyncFails(b) == {AttemptResync(b), [b EXCEPT !.waiter = "none", !.degraded = TRUE]}

\* handleRuntimeState
HandleRuntimeState(b, m) ==
  IF ~b.ctl.subscribed \/ m.generation < b.generation THEN b
  ELSE IF b.generation \in {0, m.generation}
       THEN [b EXCEPT !.generation = m.generation, !.crashed = m.overflowed]
       ELSE [b EXCEPT !.ctl = ForgetLease(@), !.generation = m.generation, !.crashed = m.overflowed,
                      !.baseline = FALSE, !.resync = FALSE, !.waiter = "none", !.degraded = FALSE,
                      !.restart = 0]

\* handleResyncRequired, asked for by the gateway
HandleResyncRequired(b, m) ==
  IF ~b.ctl.subscribed \/ m.generation < b.generation THEN b
  ELSE LET same == b.generation = m.generation
           reset == [b EXCEPT !.ctl = IF same THEN [@ EXCEPT !.fresh = 0] ELSE ForgetLease(@),
                              !.generation = m.generation, !.crashed = m.overflowed,
                              !.baseline = FALSE, !.resync = TRUE]
       IN  IF same /\ (b.waiter # "none" \/ b.degraded) THEN reset ELSE AwaitSnapshot(reset)

\* commitSessionSnapshot begins; the projection may confirm it later.
HandleSnapshot(b, m) ==
  IF b.ctl.subscribed /\ b.resync /\ b.generation = m.generation /\ b.waiter = "waiting"
  THEN [b EXCEPT !.waiter = "projecting", !.baseline = FALSE]
  ELSE b

\* finishSnapshot
FinishSnapshot(b) ==
  LET done == [b EXCEPT !.baseline = TRUE, !.resync = FALSE, !.waiter = "none"]
      m == b.ctl.pending
      cleared == [done EXCEPT !.ctl.pending = NoStatus]
      replayed == IF m = NoStatus \/ m.generation # b.generation THEN done
                  ELSE ReduceLeaseStatus(cleared, m, TRUE, b.ctl.pendingExpected).b
  IN  ClaimIfReady(replayed)

\* failSnapshotProjection
FailProjection(b) ==
  [b EXCEPT !.ctl.fresh = 0, !.ctl.baseline = Undefined, !.baseline = FALSE, !.resync = TRUE]

\* handleLease
HandleLease(b, m) ==
  IF ~b.ctl.subscribed \/ b.generation # m.generation THEN b
  ELSE LET r == ReduceLeaseStatus(b, m, b.baseline, FALSE)
           next == IF r.conflict THEN [r.b EXCEPT !.restart = 0] ELSE r.b
       IN  IF ~r.accepted THEN next
           ELSE IF ~m.controller THEN ClaimIfReady(next)
           ELSE IF next.crashed /\ next.restart = next.generation
           THEN Post([next EXCEPT !.ctl.claimPending = FALSE, !.restart = 0],
                     [type |-> "restart", generation |-> m.generation, revision |-> m.revision])
           ELSE next

\* handleSessionError
SubscribeError(b) ==
  LET preserved == b.resync /\ b.generation # 0
      c == [b.ctl EXCEPT !.claimPending = FALSE, !.attempt = NoAttempt, !.baseline = Undefined,
                         !.pending = NoStatus]
  IN  IF preserved
      THEN IF b.waiter = "none" THEN {Update(b, c)} ELSE ResyncFails(Update(b, c))
      ELSE LET left == Update(b, [c EXCEPT !.subscribed = FALSE, !.fresh = 0, !.lease = NoLease])
           IN  {IF b.ctl.lease.controller THEN Post(left, Request("release")) ELSE left}

\* The fault: the refused takeover stays offered as if under way.
TakeoverErrorKeepsOffer(b) == [b EXCEPT !.ctl.attempt = NoAttempt]

TakeoverError(b) ==
  LET attempt == b.ctl.attempt
      stale == \/ attempt = NoAttempt \/ attempt.generation # b.generation
               \/ b.ctl.lease.revision > attempt.revision
  IN  [b EXCEPT !.ctl.attempt = NoAttempt, !.offering = FALSE,
                !.ctl.fresh = IF stale THEN @ ELSE 0,
                !.ctl.lease = IF stale THEN @ ELSE ClearFence(@)]

HandleError(b, m) ==
  IF ~b.ctl.subscribed THEN {b}
  ELSE CASE m.operation = "subscribe" -> SubscribeError(b)
         [] m.operation = "claim" -> {[b EXCEPT !.ctl.claimPending = FALSE, !.restart = 0]}
         [] m.operation = "takeover" -> {TakeoverError(b)}
         [] OTHER -> {b}

Handle(b, m) ==
  CASE m.type = "runtime_state" -> {HandleRuntimeState(b, m)}
    [] m.type = "resync_required" -> {HandleResyncRequired(b, m)}
    [] m.type = "session_snapshot" -> {HandleSnapshot(b, m)}
    [] m.type = "lease_status" -> {HandleLease(b, m)}
    [] m.type = "session_error" -> HandleError(b, m)

-----------------------------------------------------------------------------
ControlInit ==
  /\ generation = 1 /\ overflowed = FALSE /\ owner = "free" /\ revision = 0
  /\ joined = FALSE /\ up = <<>> /\ down = <<>>
  /\ browser = NewBrowser /\ requests = 0

\* What a handler sends goes on the wire when it returns.
Becomes(b) ==
  /\ browser' = [b EXCEPT !.out = <<>>]
  /\ up' = up \o b.out

Busy == Len(up) > MaxAhead \/ Len(down) > MaxAhead
Asks == requests < MaxControl /\ ~Busy /\ requests' = requests + 1

\* subscribeSession
Subscribe ==
  /\ Asks /\ ~browser.ctl.subscribed
  /\ LET b == [browser EXCEPT !.ctl.subscribed = TRUE, !.ctl.fresh = 0]
     IN  Becomes(IF b.online THEN SendSubscription(b, ValidCursor(b)) ELSE b)
  /\ UNCHANGED <<gateway, down>>

\* unsubscribeSession
Unsubscribe ==
  /\ Asks /\ browser.ctl.subscribed
  /\ Becomes(Post([browser EXCEPT !.ctl = EmptySession, !.waiter = "none", !.degraded = FALSE,
                                  !.restart = 0, !.offering = FALSE],
                  Request("unsubscribe")))
  /\ UNCHANGED <<gateway, down>>

\* A hot runtime that is observed anew, or a retry of a rejected subscription.
Resubscribe ==
  /\ ~Busy /\ requests < MaxControl /\ requests' = requests + 1
  /\ browser.online /\ browser.ctl.subscribed /\ browser.waiter = "none"
  /\ Becomes(SendSubscription(browser, ValidCursor(browser)))
  /\ UNCHANGED <<gateway, down>>

\* claimSession
Claim ==
  /\ Asks /\ CanIntend(browser)
  /\ Becomes(ClaimIfReady(Intend(browser)))
  /\ UNCHANGED <<gateway, down>>

\* releaseSession
Release ==
  /\ Asks /\ browser.ctl.subscribed
  /\ LET c == browser.ctl
         released == [c EXCEPT !.intent = FALSE, !.fresh = 0, !.lease = ClearFence(c.lease),
                               !.claimPending = FALSE, !.attempt = NoAttempt, !.released = TRUE]
     IN  Becomes(Post([browser EXCEPT !.restart = 0, !.ctl = released], Request("release")))
  /\ UNCHANGED <<gateway, down>>

\* canTakeOver of session-control.ts: what the user is offered.
Offered(b) ==
  /\ b.online /\ b.ctl.subscribed /\ b.baseline /\ Fresh(b) /\ ~b.offering
  /\ ~b.ctl.lease.controller /\ b.ctl.lease.held /\ ~b.ctl.lease.conflicted /\ ~b.resync

\* requestTakeover and takeoverSession
Takeover ==
  /\ Asks /\ Offered(browser) /\ AcceptsTakeover(browser)
  /\ LET attempt == [generation |-> browser.generation, revision |-> browser.ctl.lease.revision]
     IN  Becomes(Post([browser EXCEPT !.ctl.attempt = attempt, !.offering = TRUE],
                      [type |-> "takeover", generation |-> attempt.generation,
                       revision |-> attempt.revision]))
  /\ UNCHANGED <<gateway, down>>

\* manualRetryResync
ManualRetry ==
  /\ Asks /\ browser.degraded
  /\ Becomes(AttemptResync(IF browser.crashed
                           THEN [Intend(browser) EXCEPT !.restart = browser.generation]
                           ELSE browser))
  /\ UNCHANGED <<gateway, down>>

\* The buffered frames behind the snapshot do not reach what is required of it.
SuffixFails ==
  /\ Asks /\ browser.waiter = "projecting" /\ browser.online
  /\ \E b \in ResyncFails(browser) : Becomes(b)
  /\ UNCHANGED <<gateway, down>>

Project ==
  /\ browser.waiter = "projecting" /\ ~Busy
  /\ Becomes(FinishSnapshot(browser))
  /\ UNCHANGED <<gateway, down, requests>>

ProjectionFails ==
  /\ Asks /\ browser.waiter = "projecting"
  /\ \E b \in ResyncFails(FailProjection(browser)) : Becomes(b)
  /\ UNCHANGED <<gateway, down>>

Receive ==
  /\ down # <<>> /\ Len(up) <= MaxAhead
  /\ down' = Tail(down)
  /\ \E b \in Handle(browser, Head(down)) : Becomes(b)
  /\ UNCHANGED <<gateway, requests>>

-----------------------------------------------------------------------------
\* The gateway, as this connection sees it

Tell(ms) == down' = down \o ms
RuntimeState(g, o) == [type |-> "runtime_state", generation |-> g, overflowed |-> o]
Refusal(operation) == [type |-> "session_error", operation |-> operation]
View(t) == LeaseStatus(generation, revision, owner, t)

\* commitLeaseTransition and its broadcast
Commit(o, t) ==
  /\ revision < MaxRevision
  /\ owner' = o /\ revision' = revision + 1
  /\ IF joined THEN Tell(<<LeaseStatus(generation, revision + 1, o, t)>>) ELSE UNCHANGED down
  /\ UNCHANGED <<generation, overflowed, joined>>

OtherActs ==
  /\ ~Busy
  /\ \/ owner = "free" /\ Commit("other", "claim")
     \/ owner = "other" /\ \E t \in {"release", "disconnect"} : Commit("free", t)
     \/ owner = "us" /\ Commit("other", "takeover")
  /\ UNCHANGED <<up, browser, requests>>

\* A new generation starts free at revision zero.
NewGeneration ==
  /\ generation' = generation + 1 /\ overflowed' = FALSE /\ owner' = "free" /\ revision' = 0
  /\ IF joined THEN Tell(<<RuntimeState(generation + 1, FALSE)>>) ELSE UNCHANGED down
  /\ UNCHANGED joined

Restarts ==
  /\ ~Busy /\ generation < MaxGeneration /\ ~overflowed
  /\ NewGeneration /\ UNCHANGED <<up, browser, requests>>

Overflows ==
  /\ ~Busy /\ ~overflowed /\ requests < MaxControl /\ requests' = requests + 1
  /\ overflowed' = TRUE
  /\ IF joined THEN Tell(<<RuntimeState(generation, TRUE)>>) ELSE UNCHANGED down
  /\ UNCHANGED <<generation, owner, revision, joined, up, browser>>

\* The answer to session_subscribe; a catch-up is atomic here.
AnswerSubscribe(m) ==
  /\ joined' = TRUE
  /\ LET resync == [type |-> "resync_required", generation |-> generation, overflowed |-> overflowed]
         state == <<RuntimeState(generation, overflowed)>>
     IN  IF overflowed
         THEN Tell(state \o <<resync, View("baseline"), Refusal("subscribe")>>)
         ELSE \/ m.cursor = generation /\ Tell(state \o <<View("baseline")>>)
              \/ Tell(state \o <<resync, [type |-> "session_snapshot", generation |-> generation],
                                 View("baseline")>>)
  /\ UNCHANGED <<generation, overflowed, owner, revision>>

Answer(m) ==
  CASE m.type = "subscribe" -> AnswerSubscribe(m)
    [] m.type = "unsubscribe" ->
         /\ joined' = FALSE
         /\ IF owner = "us" THEN owner' = "free" /\ revision' = revision + 1 ELSE UNCHANGED <<owner, revision>>
         /\ UNCHANGED <<generation, overflowed, down>>
    [] m.type = "claim" ->
         IF ~joined THEN Tell(<<Refusal("claim")>>) /\ UNCHANGED gateway
         ELSE IF owner = "free" THEN Commit("us", "claim")
         ELSE Tell(<<View("baseline")>>) /\ UNCHANGED gateway
    [] m.type = "release" ->
         IF owner = "us" THEN Commit("free", "release")
         ELSE Tell(<<View("baseline")>>) /\ UNCHANGED gateway
    [] m.type = "takeover" ->
         IF joined /\ m.generation = generation /\ m.revision = revision /\ owner = "other" /\ ~overflowed
         THEN Commit("us", "takeover")
         ELSE Tell(<<Refusal("takeover")>>) /\ UNCHANGED gateway
    [] m.type = "restart" ->
         IF m.generation = generation /\ overflowed /\ owner = "us" /\ m.revision = revision
         THEN NewGeneration
         ELSE Tell(<<Refusal("restart")>>) /\ UNCHANGED gateway

Serve ==
  /\ up # <<>> /\ Len(down) <= MaxAhead
  /\ Head(up).type = "restart" => generation < MaxGeneration
  /\ Head(up).type = "unsubscribe" => revision < MaxRevision
  /\ Answer(Head(up))
  /\ up' = Tail(up)
  /\ UNCHANGED <<browser, requests>>

-----------------------------------------------------------------------------
\* The connection is lost and comes back (resetDisconnectedState, then the
\* subscriptions after the initial inventory).
Disconnect ==
  /\ Asks /\ browser.online
  /\ browser' = [browser EXCEPT !.online = FALSE, !.ctl = [ForgetLease(@) EXCEPT !.released = FALSE],
                                !.waiter = "none", !.restart = 0]
  /\ up' = <<>> /\ down' = <<>> /\ joined' = FALSE
  /\ IF owner = "us" THEN revision < MaxRevision /\ owner' = "free" /\ revision' = revision + 1
     ELSE UNCHANGED <<owner, revision>>
  /\ UNCHANGED <<generation, overflowed>>

Rejoin ==
  /\ ~browser.online
  /\ LET b == [browser EXCEPT !.online = TRUE]
     IN  Becomes(IF ~b.ctl.subscribed \/ b.degraded THEN b
                 ELSE IF b.resync THEN AttemptResync(b)
                 ELSE SendSubscription(b, ValidCursor(b)))
  /\ UNCHANGED <<gateway, down, requests>>

ControlNext ==
  \/ Subscribe \/ Unsubscribe \/ Resubscribe \/ Claim \/ Release \/ Takeover \/ ManualRetry
  \/ SuffixFails \/ Project \/ ProjectionFails \/ Receive
  \/ OtherActs \/ Restarts \/ Overflows \/ Serve \/ Disconnect \/ Rejoin

ControlSpec == ControlInit /\ [][ControlNext]_controlVars

-----------------------------------------------------------------------------
(* What the browser shows                                                   *)

ControlShape ==
  /\ generation \in 1..MaxGeneration /\ overflowed \in BOOLEAN
  /\ owner \in {"free", "us", "other"} /\ revision \in 0..MaxRevision /\ joined \in BOOLEAN
  /\ requests \in 0..MaxControl
  /\ browser.ctl.lease \in Lease
  /\ browser.ctl.fresh \in 0..MaxGeneration /\ browser.generation \in 0..MaxGeneration
  /\ browser.ctl.baseline \in -1..MaxGeneration
  /\ browser.waiter \in {"none", "waiting", "projecting"} /\ browser.out = <<>>

\* Everything sent has arrived, and the browser has its baseline.
Quiet ==
  /\ up = <<>> /\ down = <<>> /\ browser.online /\ browser.ctl.subscribed /\ joined
  /\ browser.baseline /\ browser.waiter = "none"

\* A lease the browser holds to be current is the gateway's lease.
LeaseShownExact ==
  Quiet /\ Fresh(browser) =>
    /\ browser.generation = generation
    /\ browser.ctl.lease.controller = (owner = "us")
    /\ browser.ctl.lease.held = (owner # "free")
    /\ browser.ctl.lease.revision = revision

\* The gateway never keeps a lease for a browser that does not know of it:
\* a claim or a takeover that was granted after the user released is given back.
NothingHeldUnknown ==
  Quiet /\ owner = "us" => browser.ctl.lease.controller \/ browser.ctl.lease.conflicted

\* A takeover is one request: once it is answered the attempt is over, and the
\* user is offered another.
AttemptsEnd ==
  Quiet /\ Fresh(browser) => browser.ctl.attempt = NoAttempt /\ ~browser.offering

ControlExact == ControlShape /\ LeaseShownExact /\ NothingHeldUnknown /\ AttemptsEnd

\* While another browser holds the lease, the user is offered to take it over
\* and the offer works.
TakeoverOffered ==
  Quiet /\ owner = "other" => Offered(browser) /\ AcceptsTakeover(browser)
=============================================================================
