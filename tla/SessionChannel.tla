--------------------------- MODULE SessionChannel ---------------------------
(***************************************************************************)
(* How one browser follows Sessions over one WebSocket: the replay of      *)
(* SessionRuntime, the catch-ups of SessionWsBridge and the channels of    *)
(* the UI's session transport.                                             *)
(*                                                                         *)
(* A runtime numbers its frames within a generation and keeps the last of  *)
(* them.  A subscription is a catch-up until the supervisor has answered:  *)
(* it buffers what is broadcast meanwhile, and then sends a baseline or    *)
(* the missing frames, the lease, and what of the buffer is newer.  A fork *)
(* turns a runtime into another Session while catch-ups for its old handle *)
(* are in flight.                                                          *)
(*                                                                         *)
(* Messages to the browser are delivered in the step that sends them;      *)
(* requests of the browser wait in "inbox".  A resync with its snapshot is *)
(* one "baseline" message.  A lease change and its announcement, a few     *)
(* microtasks apart, are one step.  Left out: subscriptions to an exact    *)
(* hot runtime and the inventory they come from (the browser's subscribe   *)
(* and unsubscribe stand for what the inventory makes it do), history      *)
(* pages, limits on bytes and channels, temporary handles of new Sessions, *)
(* and crashed runtimes that need an explicit restart.                     *)
(***************************************************************************)
EXTENDS Naturals, FiniteSets, SequencesExt

CONSTANTS
    Handle,         \* Session handles
    Runtime,        \* SessionRuntime objects, each created at most once
    None,           \* undefined
    First,          \* the Session that runs at the start, and its runtime
    FirstRuntime,
    ReplayLimit,    \* frames kept for replay
    Happens,        \* what may happen: the kinds of steps below
    MaxSeq,         \* bounds of the exploration: frames of a generation,
    MaxGeneration,  \* generations of a runtime,
    MaxRevision,    \* lease revisions of a generation,
    MaxInbox,       \* requests the user has in flight,
    MaxBuffer       \* messages a catch-up buffers

ASSUME FirstAssumption == First \in Handle /\ FirstRuntime \in Runtime
ASSUME ReplayLimitAssumption == ReplayLimit \in Nat \ {0}
ASSUME HappensAssumption ==
    Happens \subseteq {"notify", "state", "lease", "restart", "open", "reopen", "fork",
                       "fail", "disconnect", "refresh", "unsubscribe"}

VARIABLES
    stream,     \* what each runtime publishes
    runtimes,   \* the runtime tracked at each handle
    files,      \* Sessions on disk
    opened,     \* history: the Sessions that have had a runtime
    committing, \* a fork that moved its runtime and has not announced it
    bridge,     \* the connection's state in the bridge
    client,     \* the browser: its channels, and its requests on the way
    owed        \* history: notifications the connection was to be sent

vars == <<stream, runtimes, files, opened, committing, bridge, client, owed>>

-----------------------------------------------------------------------------
(* Data. *)

State == {"unborn", "starting", "idle", "busy", "crashed"}

\* entry is the generation and revision of the lease entry of the Session.
Stream == [handle : Handle \union {None}, generation : Nat, lastSeq : Nat,
           lastTransientSeq : Nat, replay : Seq(Nat), state : State,
           entry : [generation : Nat, revision : Nat]]

Unborn == [handle |-> None, generation |-> 0, lastSeq |-> 0, lastTransientSeq |-> 0,
           replay |-> <<>>, state |-> "unborn", entry |-> [generation |-> 0, revision |-> 0]]

Running(r) == stream[r].state \in {"idle", "busy"}

Cursor == [generation : Nat, seq : Nat]

\* A runtime_state, event, notify, session_rekeyed or baseline.
Message(type, r, s) ==
    [type |-> type, runtime |-> r, handle |-> s.handle, generation |-> s.generation,
     seq |-> s.lastSeq, state |-> s.state, previous |-> None]

Lease(r, h, generation, revision) ==
    [type |-> "lease_status", runtime |-> r, handle |-> h, generation |-> generation,
     revision |-> revision]

ErrorMessage(h) == [type |-> "session_error", handle |-> h]

\* pendingRekeyLeases has no entry, or one without a lease.
Absent == [type |-> "absent"]
Awaited == [type |-> "awaited"]

\* order is the place in catchUps.  moved: rekeyVersion changed since the
\* supervisor was asked for target.  runtime is the one ensureRuntime awaits.
NewCatchUp(h, cursor) ==
    [requested |-> h, current |-> h, handles |-> {h}, moved |-> FALSE, lease |-> None,
     buffered |-> <<>>, target |-> h, runtime |-> runtimes[h], cursor |-> cursor,
     result |-> None, conflict |-> FALSE]

NoConnection == [online |-> FALSE, live |-> {}, aliases |-> [h \in Handle |-> None],
                 catchUps |-> <<>>, rekeyLeases |-> [h \in Handle |-> Absent],
                 sent |-> <<>>, conflict |-> FALSE]

\* generation = 0: the channel knows no runtime.  runtime is history: the
\* object whose content the channel shows.  held is pendingLeaseStatus; awaits
\* is subscriptionBaseline, where 0 is null and None undefined.  shown are the
\* delivered notify keys of the identity.  While a resync is on, frames wait in
\* buffer.
EmptyChannel == [subscribed |-> FALSE, generation |-> 0, seq |-> 0, baseline |-> FALSE,
                 state |-> "unborn", runtime |-> None, lease |-> None, held |-> None,
                 awaits |-> None, shown |-> {}, resync |-> FALSE, buffer |-> <<>>]

Subscribe(h, cursor) == [type |-> "session_subscribe", handle |-> h, cursor |-> cursor]
Unsubscribe(h) == [type |-> "session_unsubscribe", handle |-> h]

Tell(m) == <<m.runtime, m.generation, m.seq>>

-----------------------------------------------------------------------------
(* The browser.  Each operator is a handler: client state and message in,  *)
(* client state out.                                                       *)

Update(cl, h, ch) == [cl EXCEPT !.channels[h] = ch]

\* validCursor
ValidCursor(ch) ==
    IF ch.generation = 0 \/ ~ch.baseline THEN None
    ELSE [generation |-> ch.generation, seq |-> ch.seq]

\* sendSubscription: subscription_started, then the request.
SendSubscription(cl, h, cursor) ==
    [cl EXCEPT !.channels[h].awaits = cl.channels[h].generation,
               !.inbox = Append(@, Subscribe(h, cursor))]

ForgetLease(ch) == [ch EXCEPT !.lease = None, !.held = None, !.awaits = None]

Ignores(ch, m) == ~ch.subscribed \/ m.generation < ch.generation

\* What a new generation does to a channel (runtime_reset and resync_reset).
Renewed(ch, m) ==
    IF ch.generation \in {0, m.generation} THEN ch
    ELSE [ForgetLease(ch) EXCEPT !.seq = 0, !.baseline = FALSE, !.runtime = None,
                                 !.shown = {}, !.resync = FALSE, !.buffer = <<>>]

HandleRuntimeState(cl, m) ==
    LET ch == cl.channels[m.handle]
    IN  IF Ignores(ch, m) THEN cl
        ELSE Update(cl, m.handle, [Renewed(ch, m) EXCEPT !.generation = m.generation,
                                                         !.state = m.state])

\* The views of a lease are ordered by revision; two of one revision that
\* differ fail closed.
Newer(known, m) ==
    IF known = None \/ m.revision > known.revision THEN m
    ELSE IF m.revision < known.revision \/ m = known THEN known
    ELSE [known EXCEPT !.runtime = None]

\* reduceLeaseStatus: before the baseline the view is held.
HandleLease(cl, m) ==
    LET ch == cl.channels[m.handle]
    IN  IF ~ch.subscribed \/ ch.generation # m.generation THEN cl
        ELSE IF ~ch.baseline
        THEN Update(cl, m.handle, [ch EXCEPT !.held = Newer(@, m)])
        ELSE Update(cl, m.handle,
               [ch EXCEPT !.lease = Newer(@, m),
                          !.awaits = IF @ \in {0, m.generation} THEN None ELSE @])

Deliver(cl, m) ==
    IF m.type = "notify"
    THEN [cl EXCEPT !.channels[m.handle].shown = @ \union {m.seq},
                    !.told = @ \union {Tell(m)}]
    ELSE cl

\* handleResyncRequired of the browser itself: a baseline is asked for.
StartResync(cl, h) ==
    SendSubscription(Update(cl, h, [cl.channels[h] EXCEPT !.baseline = FALSE,
                                                          !.resync = TRUE]), h, None)

\* handleReplayFrame.
HandleReplayFrame(cl, m) ==
    LET ch == cl.channels[m.handle]
        delivered == Deliver(cl, m)
        shows == IF ch.seq = 0 \/ ch.runtime = m.runtime THEN m.runtime ELSE None
        buffered == Update(cl, m.handle, [ch EXCEPT !.buffer = Append(@, m), !.seq = m.seq])
    IN  IF \/ ~ch.subscribed \/ ch.generation # m.generation
           \/ m.type = "notify" /\ m.seq \in ch.shown
        THEN cl
        ELSE IF m.seq <= ch.seq
        THEN IF m.type = "notify" THEN delivered ELSE cl
        ELSE IF ch.resync THEN buffered
        ELSE IF m.seq = ch.seq + 1
        THEN [delivered EXCEPT !.channels[m.handle].seq = m.seq,
                               !.channels[m.handle].runtime = shows]
        ELSE StartResync(buffered, m.handle)

\* handleResyncRequired of the bridge and commitSessionSnapshot with what is
\* buffered beyond it, then baseline_committed.
HandleBaseline(cl, m) ==
    LET ch == cl.channels[m.handle]
        next == [Renewed(ch, m) EXCEPT !.generation = m.generation, !.seq = m.seq,
                   !.baseline = TRUE, !.state = m.state, !.runtime = m.runtime,
                   !.resync = FALSE, !.buffer = <<>>]
        suffix == SelectSeq(Renewed(ch, m).buffer, LAMBDA f : f.seq > m.seq)
        settled == FoldLeft(HandleReplayFrame,
                            Update(cl, m.handle, [next EXCEPT !.held = None]), suffix)
    IN  IF Ignores(ch, m) THEN cl
        ELSE IF next.held = None THEN settled ELSE HandleLease(settled, next.held)

\* handleRekey: the parent's channel stays, dormant; the child's is subscribed
\* anew unless a baseline is on its way.
HandleRekey(cl, m) ==
    LET ch == cl.channels[m.previous]
        inFlight == ch.awaits # None /\ ch.awaits \in {0, ch.generation}
        child == [EmptyChannel EXCEPT !.subscribed = TRUE, !.generation = m.generation,
                    !.seq = m.seq, !.state = m.state,
                    !.awaits = IF inFlight THEN m.generation ELSE None]
        moved == [cl EXCEPT !.channels[m.previous] =
                              [ForgetLease(ch) EXCEPT !.subscribed = FALSE, !.buffer = <<>>],
                            !.channels[m.handle] = child]
    IN  IF ~ch.subscribed THEN cl
        ELSE IF inFlight THEN moved
        ELSE SendSubscription(moved, m.handle, None)

\* handleSessionError of a subscription: a resync is to be tried again.
HandleSubscribeError(cl, m) ==
    LET ch == cl.channels[m.handle]
    IN  IF ~ch.subscribed THEN cl
        ELSE IF ch.resync
        THEN Update(cl, m.handle, [ch EXCEPT !.awaits = None, !.held = None])
        ELSE Update(cl, m.handle, [ForgetLease(ch) EXCEPT !.subscribed = FALSE])

Receive(cl, m) ==
    CASE m.type = "runtime_state" -> HandleRuntimeState(cl, m)
      [] m.type = "baseline" -> HandleBaseline(cl, m)
      [] m.type \in {"event", "notify"} -> HandleReplayFrame(cl, m)
      [] m.type = "lease_status" -> HandleLease(cl, m)
      [] m.type = "session_rekeyed" -> HandleRekey(cl, m)
      [] m.type = "session_error" -> HandleSubscribeError(cl, m)

-----------------------------------------------------------------------------
(* The bridge.  Each operator takes the connection's state and returns it; *)
(* what it sends is collected in "sent".                                   *)

Send(b, messages) == [b EXCEPT !.sent = @ \o messages]

Covers(c, h) == h \in c.handles
CatchingUp(b, h) == \E k \in DOMAIN b.catchUps : Covers(b.catchUps[k], h)

BroadcastLive(b, m) == IF m.handle \in b.live THEN Send(b, <<m>>) ELSE b

\* bufferCatchUpMessage and send, in broadcast.
Broadcast(b, m) ==
    IF CatchingUp(b, m.handle)
    THEN [b EXCEPT !.catchUps = [k \in DOMAIN @ |->
            IF Covers(@[k], m.handle) THEN [@[k] EXCEPT !.buffered = Append(@, m)] ELSE @[k]]]
    ELSE IF m.handle \in b.live THEN Send(b, <<m>>) ELSE b

\* Of two views the one with the higher revision is kept; two that differ at
\* one revision close the connection.
KeepsLease(known, m) == known # None /\ m.revision <= known.revision
LeaseConflict(known, m) == known # None /\ m.revision = known.revision /\ m # known

\* deferCatchUpLease
DeferCatchUpLease(c, m) ==
    IF c.current # m.handle THEN c
    ELSE [c EXCEPT !.conflict = @ \/ LeaseConflict(c.lease, m),
                   !.lease = IF KeepsLease(c.lease, m) THEN c.lease ELSE m]

\* broadcastLeaseTransition and deferPendingRekeyLease
BroadcastLease(b, m) ==
    LET pending == b.rekeyLeases[m.handle]
        known == IF pending = Awaited THEN None ELSE pending
    IN  IF CatchingUp(b, m.handle)
        THEN [b EXCEPT !.catchUps = [k \in DOMAIN @ |->
                IF Covers(@[k], m.handle) THEN DeferCatchUpLease(@[k], m) ELSE @[k]]]
        ELSE IF pending # Absent
        THEN [b EXCEPT !.conflict = @ \/ LeaseConflict(known, m),
                       !.rekeyLeases[m.handle] = IF KeepsLease(known, m) THEN known ELSE m]
        ELSE IF m.handle \in b.live THEN Send(b, <<m>>) ELSE b

\* removeLiveSubscription
RemoveLive(b, h) ==
    [b EXCEPT !.live = @ \ {h},
              !.aliases = [a \in Handle |-> IF @[a] = h THEN None ELSE @[a]]]

RekeyKeepingLease(c, m) ==
    IF ~Covers(c, m.previous) THEN c
    ELSE [c EXCEPT !.current = m.handle, !.handles = @ \union {m.handle}, !.moved = TRUE,
                   !.buffered = Append(@, m)]

\* broadcastRekey: catch-ups of the parent follow it, a live subscription
\* migrates and its lease waits for the baseline of the child.
RekeyCatchUp(c, m) ==
    IF ~Covers(c, m.previous) THEN c
    ELSE [c EXCEPT !.current = m.handle, !.handles = @ \union {m.handle}, !.moved = TRUE,
                   !.lease = None, !.buffered = Append(@, m)]

BroadcastRekey(b, m) ==
    LET followed == [b EXCEPT !.catchUps = [k \in DOMAIN @ |-> RekeyCatchUp(@[k], m)]]
        migrated == [followed EXCEPT
            !.live = (@ \ {m.previous}) \union {m.handle},
            !.aliases = [a \in Handle |->
               IF @[a] = m.previous \/ a \in {m.previous, m.handle} THEN m.handle ELSE @[a]],
            !.rekeyLeases[m.previous] = Absent,
            !.rekeyLeases[m.handle] = Awaited]
    IN  IF m.previous \notin b.live THEN followed
        ELSE IF CatchingUp(b, m.previous) THEN migrated ELSE Send(migrated, <<m>>)

\* transferCatchUpJournalAndCancel: rekeys and notifications are kept.
Transfer(from, to) ==
    LET kept == SelectSeq(from.buffered, LAMBDA m :
                    m.type \in {"session_rekeyed", "notify"} /\ ~Contains(to.buffered, m))
        next == [to EXCEPT !.buffered = @ \o kept,
                           !.conflict = @ \/ from.conflict]
    IN  IF from.lease = None THEN next ELSE DeferCatchUpLease(next, from.lease)

Overlapping(b, h) == SelectSeq(b.catchUps, LAMBDA c : Covers(c, h))
Others(b, h) == SelectSeq(b.catchUps, LAMBDA c : ~Covers(c, h))

\* beginCatchUp
BeginCatchUp(b, h, cursor) ==
    LET pending == b.rekeyLeases[h]
        new == [NewCatchUp(h, cursor) EXCEPT
                  !.lease = IF pending \in {Absent, Awaited} THEN None ELSE pending]
        heir == FoldLeft(LAMBDA to, from : Transfer(from, to), new, Overlapping(b, h))
    IN  RemoveLive([b EXCEPT !.rekeyLeases[h] = Absent,
                             !.aliases[h] = None,
                             !.catchUps = Append(Others(b, h), heir)], h)

\* enqueueBufferedRekeys
BufferedRekeys(c) == SelectSeq(c.buffered, LAMBDA m : m.type = "session_rekeyed")

EndLiveSubscription(b, h) == RemoveLive(b, h)

\* unsubscribe; the lease it releases is a lease change of its own.
EndSubscription(b, h) ==
    LET canonical == IF b.aliases[h] # None THEN b.aliases[h]
                     ELSE IF CatchingUp(b, h) THEN Last(Overlapping(b, h)).current
                     ELSE h
        Ends(c) == c.handles \intersect {h, canonical} # {}
        ended == SelectSeq(b.catchUps, Ends)
        quiet == [b EXCEPT !.rekeyLeases[h] = Absent, !.rekeyLeases[canonical] = Absent,
                           !.catchUps = SelectSeq(@, LAMBDA c : ~Ends(c))]
    IN  RemoveLive(Send(quiet, FlattenSeq([k \in DOMAIN ended |-> BufferedRekeys(ended[k])])),
                   canonical)

\* getReplay
GetReplay(r, requested, cursor) ==
    LET s == stream[r]
        oldest == IF s.replay = <<>> THEN s.lastSeq + 1 ELSE s.replay[1]
        covered == /\ cursor # None
                   /\ requested = s.handle
                   /\ cursor.generation = s.generation
                   /\ \/ cursor.seq = s.lastSeq
                      \/ /\ cursor.seq < s.lastSeq
                         /\ cursor.seq >= s.lastTransientSeq
                         /\ cursor.seq + 1 >= oldest
        missing == SelectSeq(s.replay, LAMBDA n : n > cursor.seq)
    IN  [runtime |-> Message("runtime_state", r, s),
         frames |-> IF covered
                    THEN [i \in DOMAIN missing |->
                            Message("event", r, [s EXCEPT !.lastSeq = missing[i]])]
                    ELSE <<Message("baseline", r, s)>>]

\* leaseFor
LeaseFor(h) ==
    LET r == runtimes[h]
    IN  IF r = None THEN Lease(None, h, 0, 0)
        ELSE Lease(r, h, stream[r].generation,
                   IF stream[r].entry.generation = stream[r].generation
                   THEN stream[r].entry.revision ELSE 0)

\* findBaselineMarker
BaselineMarker(buffered, base) ==
    LET Marks == {i \in DOMAIN buffered : buffered[i] = base}
    IN  IF Marks = {} THEN 0 ELSE CHOOSE i \in Marks : \A j \in Marks : j <= i

NewerSequence(buffered, i, base) ==
    LET m == buffered[i]
    IN  /\ m.type # "session_rekeyed"
        /\ \/ m.generation > base.generation
           \/ m.generation = base.generation /\ m.seq > base.seq

\* isNewerThanBaseline, at index i of the buffer.
NewerThanBaseline(buffered, i, base) ==
    LET m == buffered[i]
    IN  /\ m.type # "session_rekeyed"
        /\ \/ m.generation > base.generation
           \/ m.generation = base.generation /\ m.seq > base.seq
           \/ /\ m.generation = base.generation /\ m.seq = base.seq
              /\ m.type = "runtime_state"
              /\ i > BaselineMarker(buffered, base)
              /\ m.handle # base.handle \/ m.state # base.state

SuffixOfNewer(buffered, base) ==
    FlattenSeq([i \in DOMAIN buffered |->
        IF NewerThanBaseline(buffered, i, base) THEN <<buffered[i]>> ELSE <<>>])

Suffix(buffered, base) ==
    LET sends == [i \in DOMAIN buffered |->
                    IF buffered[i].type = "notify" \/ NewerThanBaseline(buffered, i, base)
                    THEN <<buffered[i]>> ELSE <<>>]
    IN  FlattenSeq(sends)

\* The answer of a catch-up c whose result stands: what subscribe sends, and
\* establishLiveSubscription.
Establish(b, c) ==
    LET base == c.result.runtime
        h == base.handle
        rekeyed == IF c.requested = h THEN <<>>
                   ELSE <<[base EXCEPT !.type = "session_rekeyed", !.previous = c.requested]>>
        lease == IF c.lease # None THEN c.lease ELSE LeaseFor(h)
        established == RemoveLive(b, h)
    IN  Send([established EXCEPT
                !.live = @ \union {h},
                !.aliases = [a \in Handle |->
                               IF a \in c.handles \union {h} THEN h ELSE @[a]]],
             rekeyed \o <<base>> \o c.result.frames \o <<lease>> \o Suffix(c.buffered, base))

-----------------------------------------------------------------------------
(* Steps.  What a step sends reaches the browser in it; two lease views    *)
(* that conflict close the connection.                                     *)

Lost(cl) == [cl EXCEPT !.inbox = <<>>,
                       !.channels = [h \in Handle |-> ForgetLease(@[h])]]

Flush(b, cl) ==
    LET closes == b.conflict \/ \E k \in DOMAIN b.catchUps : b.catchUps[k].conflict
        received == FoldLeft(Receive, cl, b.sent)
    IN  /\ bridge' = IF closes THEN NoConnection ELSE [b EXCEPT !.sent = <<>>]
        /\ client' = IF closes THEN Lost(received) ELSE received

Init ==
    /\ stream = [r \in Runtime |->
                   IF r = FirstRuntime
                   THEN [Unborn EXCEPT !.handle = First, !.generation = 1, !.state = "idle",
                                       !.entry = [generation |-> 1, revision |-> 0]]
                   ELSE Unborn]
    /\ runtimes = [h \in Handle |-> IF h = First THEN FirstRuntime ELSE None]
    /\ files \in {hs \in SUBSET Handle : First \in hs}
    /\ opened = {First}
    /\ committing = None
    /\ bridge = [NoConnection EXCEPT !.online = TRUE]
    /\ client = [channels |-> [h \in Handle |-> EmptyChannel], inbox |-> <<>>,
                 told |-> {}]
    /\ owed = {}

Room == \A k \in DOMAIN bridge.catchUps : Len(bridge.catchUps[k].buffered) < MaxBuffer

\* Runtime r changes to s and broadcasts it as a message of this type.
Publish(r, s, type) ==
    /\ Room
    /\ stream' = [stream EXCEPT ![r] = s]
    /\ Flush(Broadcast(bridge, Message(type, r, s)), client)

EmittedUnlimited(s, type) ==
    [s EXCEPT !.lastSeq = @ + 1, !.replay = Append(@, s.lastSeq + 1)]

\* emitFrame
Emitted(s, type) ==
    LET kept == Append(s.replay, s.lastSeq + 1)
    IN  IF type = "notify"
        THEN [s EXCEPT !.lastSeq = @ + 1, !.lastTransientSeq = s.lastSeq + 1]
        ELSE [s EXCEPT !.lastSeq = @ + 1,
                       !.replay = IF Len(kept) > ReplayLimit THEN Tail(kept) ELSE kept]

Follows(h) == bridge.online /\ (h \in bridge.live \/ CatchingUp(bridge, h))

Emit(r, type) ==
    LET s == Emitted(stream[r], type)
    IN  /\ Running(r)
        /\ committing = None
        /\ type = "notify" => "notify" \in Happens
        /\ stream[r].lastSeq < MaxSeq
        /\ Publish(r, s, type)
        /\ owed' = IF type = "notify" /\ Follows(s.handle)
                   THEN owed \union {Tell(Message(type, r, s))} ELSE owed
        /\ UNCHANGED <<runtimes, files, opened, committing>>

\* setState: a turn starts or ends.
SetState(r) ==
    /\ "state" \in Happens
    /\ Running(r)
    /\ committing = None
    /\ Publish(r, [stream[r] EXCEPT !.state = IF @ = "idle" THEN "busy" ELSE "idle"],
               "runtime_state")
    /\ UNCHANGED <<runtimes, files, opened, committing, owed>>

\* handleFailure
Crash(r) ==
    /\ "restart" \in Happens
    /\ stream[r].state \in {"starting", "idle", "busy"}
    /\ committing = None
    /\ Publish(r, [stream[r] EXCEPT !.state = "crashed", !.replay = <<>>,
                                    !.lastTransientSeq = 0],
               "runtime_state")
    /\ UNCHANGED <<runtimes, files, opened, committing, owed>>

\* spawn, of a crashed runtime.
Spawned(s) == [s EXCEPT !.generation = @ + 1, !.lastSeq = 0, !.lastTransientSeq = 0,
                        !.replay = <<>>, !.state = "starting"]

Restart(r) ==
    /\ stream[r].state = "crashed"
    /\ stream[r].generation < MaxGeneration
    /\ committing = None
    /\ Publish(r, Spawned(stream[r]), "runtime_state")
    /\ UNCHANGED <<runtimes, files, opened, committing, owed>>

\* The rest of spawn, and reconcileLeaseGeneration.
Ready(r) ==
    /\ stream[r].state = "starting"
    /\ committing = None
    /\ Publish(r, [stream[r] EXCEPT !.state = "idle",
                      !.entry = [generation |-> stream[r].generation, revision |-> 0]],
               "runtime_state")
    /\ UNCHANGED <<runtimes, files, opened, committing, owed>>

\* Another connection claims the lease or gives it up; without a running
\* process it can only give it up.
LeaseChange(r) ==
    LET s == stream[r]
        held == s.entry.generation = s.generation /\ Running(r)
        next == [s EXCEPT !.entry.revision = @ + 1]
    IN  /\ "lease" \in Happens
        /\ s.state # "unborn"
        /\ runtimes[s.handle] = r
        /\ committing = None
        /\ held \/ s.entry.revision > 0
        /\ s.entry.revision < MaxRevision
        /\ stream' = [stream EXCEPT ![r] = next]
        /\ Flush(BroadcastLease(bridge, Lease(r, s.handle, s.entry.generation,
                                              next.entry.revision)), client)
        /\ UNCHANGED <<runtimes, files, opened, committing, owed>>

\* ensureRuntime creates a runtime: its first generation is 1.
Open(h, r) ==
    /\ IF h \in opened THEN "reopen" \in Happens ELSE "open" \in Happens
    /\ h \in files
    /\ runtimes[h] = None
    /\ stream[r].state = "unborn"
    /\ committing = None
    /\ Publish(r, Spawned([Unborn EXCEPT !.handle = h]), "runtime_state")
    /\ runtimes' = [runtimes EXCEPT ![h] = r]
    /\ opened' = opened \union {h}
    /\ UNCHANGED <<files, committing, owed>>

\* commitIdentityTransition: apply and rekeyRuntime up to the lease actor.  An
\* answer is a few microtasks away from its Read, and the lock of the pool, from
\* which this step comes, is not handed over between them.
ForkApply(r, child) ==
    LET parent == stream[r].handle
    IN  /\ "fork" \in Happens
        /\ stream[r].state = "idle"
        /\ stream[r].generation < MaxGeneration
        /\ runtimes[parent] = r
        /\ child \notin files
        /\ committing = None
        /\ \A k \in DOMAIN bridge.catchUps : bridge.catchUps[k].result = None
        /\ stream' = [stream EXCEPT ![r] =
                        [@ EXCEPT !.handle = child, !.generation = @ + 1, !.lastSeq = 0,
                                  !.lastTransientSeq = 0, !.replay = <<>>]]
        /\ runtimes' = [runtimes EXCEPT ![parent] = None, ![child] = r]
        /\ files' = files \union {child}
        /\ opened' = opened \union {child}
        /\ committing' = [runtime |-> r, parent |-> parent]
        /\ UNCHANGED <<bridge, client, owed>>

\* The rest of commitIdentityTransition: the rekey, the frames staged during
\* the transition, the ownerless lease of the child.
ForkPublish(staged) ==
    LET r == committing.runtime
        s == FoldLeft(Emitted, [stream[r] EXCEPT
                        !.entry = [generation |-> stream[r].generation, revision |-> 0]],
                      staged)
        rekey == [Message("session_rekeyed", r, s) EXCEPT !.previous = committing.parent]
        frames == [i \in DOMAIN staged |-> Message(staged[i], r, [s EXCEPT !.lastSeq = i])]
        announced == FoldLeft(Broadcast, BroadcastRekey(bridge, rekey), frames)
    IN  /\ committing # None
        /\ Room
        /\ stream' = [stream EXCEPT ![r] = s]
        /\ committing' = None
        /\ Flush(BroadcastLease(announced, Lease(r, s.handle, s.generation, 0)), client)
        /\ owed' = owed \union {Tell(m) : m \in {m \in ToSet(frames) :
                                  m.type = "notify" /\ Follows(committing.parent)}}
        /\ UNCHANGED <<runtimes, files, opened>>

\* Requests are handled in order, each to its first await.
Handles(type) ==
    /\ client.inbox # <<>>
    /\ Head(client.inbox).type = type
    /\ committing = None

Taken == [client EXCEPT !.inbox = Tail(@)]

HandleSubscribe ==
    /\ Handles("session_subscribe")
    /\ Flush(BeginCatchUp(bridge, Head(client.inbox).handle, Head(client.inbox).cursor), Taken)
    /\ UNCHANGED <<stream, runtimes, files, opened, committing, owed>>

HandleUnsubscribe ==
    /\ Handles("session_unsubscribe")
    /\ Flush(EndSubscription(bridge, Head(client.inbox).handle), Taken)
    /\ owed' = {}
    /\ UNCHANGED <<stream, runtimes, files, opened, committing>>

\* The supervisor's subscribe: ensureRuntime has a running process, and
\* getReplay reads it.
ActivatedFor(c) == IF c.runtime # None THEN c.runtime ELSE runtimes[c.target]

Read(k) ==
    LET c == bridge.catchUps[k]
        r == ActivatedFor(c)
    IN  /\ c.result = None
        /\ r # None
        /\ Running(r)
        /\ bridge' = [bridge EXCEPT !.catchUps[k].result = GetReplay(r, c.target, c.cursor)]
        /\ UNCHANGED <<stream, runtimes, files, opened, committing, client, owed>>

Without(b, k) == [b EXCEPT !.catchUps = RemoveAt(@, k)]

\* The answer reaches the bridge.  adoptCatchUpHandle merges the catch-ups of
\* the Session it is for into the latest; an answer for a handle that has been
\* rekeyed meanwhile is asked for again, without a cursor.
Answer(k) ==
    LET c == bridge.catchUps[k]
        h == c.result.runtime.handle
        adopted == [c EXCEPT !.handles = @ \union {h}, !.current = IF c.moved THEN @ ELSE h]
        earlier == Overlapping([catchUps |-> SubSeq(bridge.catchUps, 1, k - 1)], h)
        merged == FoldLeft(LAMBDA to, from : Transfer(from, to), adopted, earlier)
        later == {j \in DOMAIN bridge.catchUps : j > k /\ Covers(bridge.catchUps[j], h)}
        j == CHOOSE j \in later : \A i \in later : j <= i
        again == [merged EXCEPT !.target = merged.current, !.runtime = runtimes[merged.current],
                                !.cursor = None, !.moved = FALSE, !.result = None]
        Keep(b, m) == [b EXCEPT !.catchUps =
                         Others([catchUps |-> SubSeq(@, 1, k - 1)], h) \o <<m>>
                         \o SubSeq(@, k + 1, Len(@))]
        kept == Keep(bridge, merged)
        own == Len(kept.catchUps) - (Len(bridge.catchUps) - k)
    IN  /\ c.result # None
        /\ IF later # {}
           THEN Flush(Without([kept EXCEPT !.catchUps[own + j - k] = Transfer(merged, @)], own),
                      client)
           ELSE IF merged.current # h
           THEN Flush(RemoveLive(Keep(bridge, again), h), client)
           ELSE Flush(Establish(RemoveLive(Without(kept, own), h), merged), client)
        /\ UNCHANGED <<stream, runtimes, files, opened, committing, owed>>

\* The runtime cannot be started.
SubscribeError(k) ==
    LET c == bridge.catchUps[k]
        r == ActivatedFor(c)
    IN  /\ "fail" \in Happens \/ c.target \notin files
        /\ c.result = None
        /\ committing = None
        /\ r # None => stream[r].state = "crashed"
        /\ Flush(Send(Without(bridge, k),
                      Append(BufferedRekeys(c), ErrorMessage(c.requested))), client)
        /\ owed' = {}
        /\ UNCHANGED <<stream, runtimes, files, opened, committing>>

\* The user and the browser.
Asks == bridge.online /\ committing = None /\ Len(client.inbox) < MaxInbox

SubscribeSession(h) ==
    LET ch == client.channels[h]
    IN  /\ Asks
        /\ h \in files
        /\ ~ch.subscribed
        /\ client' = SendSubscription([client EXCEPT !.channels[h].subscribed = TRUE], h,
                                      ValidCursor(ch))
        /\ UNCHANGED <<stream, runtimes, files, opened, committing, bridge, owed>>

UnsubscribeSession(h) ==
    /\ "unsubscribe" \in Happens
    /\ Asks
    /\ client.channels[h].subscribed
    /\ client' = [client EXCEPT
                    !.channels[h] = [ForgetLease(@) EXCEPT !.subscribed = FALSE, !.shown = {},
                                                           !.buffer = <<>>],
                    !.inbox = Append(@, Unsubscribe(h))]
    /\ UNCHANGED <<stream, runtimes, files, opened, committing, bridge, owed>>

\* reportProjectionFailure: the content cannot be shown and is asked for anew.
\* A resync is tried again when it is refused or late.
Refresh(h) ==
    LET ch == client.channels[h]
    IN  /\ "refresh" \in Happens
        /\ Asks
        /\ ch.subscribed
        /\ ch.baseline \/ ch.resync
        /\ client' = StartResync(client, h)
        /\ UNCHANGED <<stream, runtimes, files, opened, committing, bridge, owed>>

Disconnect ==
    /\ "disconnect" \in Happens
    /\ bridge.online
    /\ committing = None
    /\ bridge' = NoConnection
    /\ client' = Lost(client)
    /\ owed' = {}
    /\ UNCHANGED <<stream, runtimes, files, opened, committing>>

\* handleHotRuntimeInventory, the first of a connection: every channel is
\* subscribed again.
Reconnect ==
    LET Again(cl, h) == IF cl.channels[h].subscribed
                        THEN SendSubscription(cl, h, ValidCursor(cl.channels[h])) ELSE cl
    IN  /\ ~bridge.online
        /\ committing = None
        /\ bridge' = [NoConnection EXCEPT !.online = TRUE]
        /\ client' = FoldLeft(Again, client, SetToSeq(Handle))
        /\ UNCHANGED <<stream, runtimes, files, opened, committing, owed>>

Next ==
    \/ \E r \in Runtime :
          \/ \E type \in {"event", "notify"} : Emit(r, type)
          \/ SetState(r)
          \/ Crash(r)
          \/ Restart(r)
          \/ Ready(r)
          \/ LeaseChange(r)
          \/ \E h \in Handle : Open(h, r) \/ ForkApply(r, h)
    \/ \E staged \in {<<>>, <<"event">>, <<"notify">>} : ForkPublish(staged)
    \/ HandleSubscribe
    \/ HandleUnsubscribe
    \/ \E k \in DOMAIN bridge.catchUps : Read(k) \/ Answer(k) \/ SubscribeError(k)
    \/ \E h \in Handle : SubscribeSession(h) \/ UnsubscribeSession(h) \/ Refresh(h)
    \/ Disconnect
    \/ Reconnect

Spec == Init /\ [][Next]_vars

-----------------------------------------------------------------------------
(* Properties.                                                              *)

NatOrNone == Nat \union {None}

\* The types, and the numbering of a generation: what is kept for replay is
\* part of what was published, in order, and no more than replayLimit frames
\* (emitFrame, clearReplay).
TypeOK ==
    /\ stream \in [Runtime -> Stream]
    /\ runtimes \in [Handle -> Runtime \union {None}]
    /\ committing \in [runtime : Runtime, parent : Handle] \union {None}
    /\ bridge.live \subseteq files
    /\ bridge.aliases \in [Handle -> Handle \union {None}]
    /\ \A h \in Handle : /\ client.channels[h].generation \in Nat
                         /\ client.channels[h].awaits \in NatOrNone
    /\ \A r \in Runtime :
          LET kept == stream[r].replay
          IN  /\ Len(kept) <= ReplayLimit
              /\ \A i \in DOMAIN kept : kept[i] <= stream[r].lastSeq
              /\ \A i, j \in DOMAIN kept : i < j => kept[i] < kept[j]
              /\ stream[r].lastTransientSeq <= stream[r].lastSeq

\* Nothing is on the way: no request, no catch-up, no fork to be announced.
Quiet == /\ bridge.online
         /\ committing = None
         /\ client.inbox = <<>>
         /\ bridge.catchUps = <<>>

\* What the browser shows of a Session it follows is what the Session's runtime
\* has published: its generation, its last frame, its state, and no frame of
\* another runtime, whatever subscriptions, restarts, forks and reconnections
\* crossed (subscribe's baseline, replay and buffered suffix).
ViewExact ==
    Quiet => \A h \in bridge.live :
        LET ch == client.channels[h]
            r == runtimes[h]
        IN  ch.subscribed /\ ch.baseline =>
              /\ r # None
              /\ ch.seq > 0 => ch.runtime = r
              /\ ch.generation = stream[r].generation
              /\ ch.seq = stream[r].lastSeq
              /\ ch.state = stream[r].state

\* A browser that follows a Session is served it and waits for no baseline that
\* will not come; the bridge serves no Session the browser let go (subscribe
\* and unsubscribe of both sides, a catch-up cancelled by an unsubscribe).
Served ==
    Quiet => \A h \in Handle :
        LET ch == client.channels[h]
        IN  /\ ch.subscribed => ch.awaits = None /\ (h \in bridge.live \/ ch.resync)
            /\ h \in bridge.live => ch.subscribed

\* Of the generation that still runs, the browser has been told of every
\* notification published since it asked for the Session: no snapshot holds
\* them, so a catch-up must hand them over itself (isNonReplayableCatchUpMessage).
NotifyDelivered ==
    Quiet => \A t \in owed : stream[t[1]].generation = t[2] => t \in client.told

\* The lease the browser knows for the Session it shows is the server's, of the
\* generation it shows: lease views overtake and are overtaken by catch-ups and
\* rekeys (deferCatchUpLease, deferPendingRekeyLease, reduceLeaseStatus).
LeaseExact ==
    Quiet => \A h \in bridge.live :
        LET ch == client.channels[h]
            r == runtimes[h]
        IN  ch.subscribed /\ ch.baseline /\ r # None /\ stream[r].state # "starting" =>
              ch.lease = LeaseFor(h)

=============================================================================
