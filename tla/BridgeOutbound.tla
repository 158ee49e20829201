--------------------------- MODULE BridgeOutbound ---------------------------
(***************************************************************************)
(* What session-ws-bridge.ts holds for the sockets it writes to: frames    *)
(* queued or handed to ws.send, what a catch-up buffers until its baseline *)
(* is there, the answers reserved for running commands, and the pages of   *)
(* history being read.  Every byte counts against a cap of the whole       *)
(* gateway, several events race to give it back (the callback of ws.send,  *)
(* a disconnect, the end of a read, a late answer), and a page must not    *)
(* follow the frames of a newer snapshot.                                  *)
(*                                                                         *)
(* The handles that forks change, leases, and a process replaced in the    *)
(* few microtasks between a snapshot and its use are SessionChannel's; an  *)
(* exact subscription is HotRecovery's, and one kept after an overflow     *)
(* sends like a replayed one.                                              *)
(* Bytes are small units; a frame above MaxBuffered is large.  A page is   *)
(* admitted by its estimate (PageBytes) and sent as begin, one chunk, end. *)
(***************************************************************************)
EXTENDS Integers, FiniteSets, Sequences

CONSTANTS
  Conn, Session, None,
  MaxCommands,     \* bound: commands taken up or refused
  MaxPageRequests, \* bound: page reads asked for
  RequestId,       \* ids a client gives its page requests
  MaxBuffered,     \* MAX_SESSION_WS_BUFFERED_BYTES
  MaxFrame,        \* the negotiated frame limit
  MaxHistory,      \* SESSION_HISTORY_MAX_STREAM_BYTES
  MaxOutbound,     \* maxGatewayOutboundBytes
  MaxReserved,     \* maxGatewayPendingCommandResponseBytes
  MaxConnReserved, \* maxPendingCommandResponseBytes
  MaxInFlight,     \* MAX_SESSION_WS_IN_FLIGHT_COMMANDS
  MaxPages,        \* maxConcurrentHistoryPages
  PageBytes,       \* chunked.pageTargetBytes(cursor, limit)
  Weights,         \* commandResponseReservationBytes of the commands
  MaxAsked         \* bound: broadcasts, and messages of the clients that start something

VARIABLE bridge    \* SessionWsBridge: its counters, connections, commands and pages

LOCAL SeqX == INSTANCE SequencesExt
LOCAL SetX == INSTANCE FiniteSetsExt

vars == <<bridge>>

Command == 1..MaxCommands  \* numbered by requestCounter
Page == 1..MaxPageRequests

\* What ws does with a frame: takes it, is congested (bufferedAmount), throws.
Socket == {"takes", "congested", "throws"}

\* A connection that has said hello and subscribed by replay.
ConnectionState ==
  [closed |-> FALSE, open |-> TRUE, subscriptions |-> Session, sent |-> None, sending |-> FALSE,
   queue |-> <<>>, small |-> 0, large |-> 0, history |-> 0, pending |-> {}, reserved |-> 0,
   snapshot |-> [s \in Session |-> 0], pages |-> [r \in RequestId |-> None],
   shown |-> [s \in Session |-> 0],
   catchUp |-> [s \in Session |-> None], caughtSmall |-> 0, caughtLarge |-> 0]

Init ==
  bridge =
    [outbound |-> 0, reserved |-> 0, conn |-> [c \in Conn |-> ConnectionState],
     command |-> [k \in Command |-> [pc |-> "idle", conn |-> None, weight |-> 0, released |-> FALSE]],
     page |-> [p \in Page |-> [pc |-> "idle", conn |-> None, session |-> None, request |-> None,
                               snapshot |-> 0, aborted |-> FALSE, retained |-> FALSE]],
     reading |-> [s \in Session |-> None], baselines |-> 0, asked |-> 0]

Less(a, b) == IF a > b THEN a - b ELSE 0
Large(f) == f.bytes > MaxBuffered
Small(f) == ~Large(f)
Bytes(frames) == SeqX!FoldLeft(LAMBDA n, f : n + f.bytes, 0, frames)

\* A broadcast that a catch-up buffers; a notification is in no baseline.
Buffered(bytes, kind) == [bytes |-> bytes, kind |-> kind]
Notification(m) == m.kind = "notify"

Frame(bytes) ==
  [bytes |-> bytes, history |-> FALSE, retained |-> TRUE, release |-> None, page |-> FALSE,
   snapshot |-> 0, behind |-> 0]
Response(bytes, k) == [Frame(bytes) EXCEPT !.release = k]
\* begin, chunk and end of a snapshot or of a page of it.
Stream(page, snapshot, behind) ==
  [i \in 1..3 |-> [Frame(1) EXCEPT !.history = TRUE, !.page = page, !.snapshot = snapshot, !.behind = behind]]

\* The frames of an open connection: the one inside ws.send, then the queue.
Held(b, c) ==
  LET k == b.conn[c] IN
  IF k.closed THEN <<>> ELSE (IF k.sent = None THEN <<>> ELSE <<k.sent>>) \o k.queue

\* What ws may do with the next frame written to it now: only an idle socket is asked.
SocketOf(c) ==
  LET k == bridge.conn[c] IN
  IF k.closed \/ ~k.open \/ k.sending THEN {"takes"} ELSE Socket

\* The bridge as one more broadcast or message is handled.
Asked == [bridge EXCEPT !.asked = @ + 1]

-----------------------------------------------------------------------------
(* Giving back *)

\* A fault: a command whose send fails is released by the send and by the handler.
ReleaseReservationTwice(b, k) ==
  IF k = None THEN b
  ELSE [b EXCEPT !.command[k].released = TRUE,
                 !.reserved = Less(@, b.command[k].weight),
                 !.conn[b.command[k].conn].reserved = Less(@, b.command[k].weight)]

ReleaseReservation(b, k) ==
  IF k = None \/ (k # None /\ b.command[k].released) THEN b
  ELSE [b EXCEPT !.command[k].released = TRUE,
                 !.reserved = Less(@, b.command[k].weight),
                 !.conn[b.command[k].conn].reserved = Less(@, b.command[k].weight)]

ReleaseOutboundPayload(b, f) ==
  ReleaseReservation([b EXCEPT !.outbound = IF f.retained THEN Less(@, f.bytes) ELSE @], f.release)

ReleaseHistoryPageBytes(b, p) ==
  IF b.page[p].retained
  THEN [b EXCEPT !.page[p].retained = FALSE, !.outbound = Less(@, PageBytes)] ELSE b

ReleaseHistoryPage(b, p, abort) ==
  LET o == b.page[p] IN
  [b EXCEPT !.conn[o.conn].pages[o.request] = IF @ = p THEN None ELSE @,
            !.page[p].aborted = @ \/ abort]

ReleasePages(b, c, held) ==
  [b EXCEPT !.conn[c].pages = [r \in RequestId |-> IF @[r] \in held THEN None ELSE @[r]],
            !.page = [p \in Page |-> IF p \in held THEN [@[p] EXCEPT !.aborted = TRUE] ELSE @[p]]]

HeldPages(b, c) == {b.conn[c].pages[r] : r \in RequestId} \ {None}

ClearHistorySnapshot(b, c, s) ==
  ReleasePages([b EXCEPT !.conn[c].snapshot[s] = 0], c, {p \in HeldPages(b, c) : b.page[p].session = s})

SettleHistoryPage(b, p) ==
  LET o == b.page[p] IN
  [ReleaseHistoryPage(ReleaseHistoryPageBytes(b, p), p, FALSE)
    EXCEPT !.page[p].pc = "settled", !.reading[o.session] = IF @ = p THEN None ELSE @]

\* A catch-up is over, or there was none: its buffer is given back.
CancelCatchUp(b, c, s) ==
  LET buffered == b.conn[c].catchUp[s] IN
  IF buffered = None THEN b
  ELSE [b EXCEPT !.outbound = Less(@, Bytes(buffered)),
                 !.conn[c].caughtSmall = Less(@, Bytes(SelectSeq(buffered, Small))),
                 !.conn[c].caughtLarge = Less(@, Len(SelectSeq(buffered, Large))),
                 !.conn[c].catchUp[s] = None]

CancelCatchUps(b, c) == SetX!FoldSet(LAMBDA s, x : CancelCatchUp(x, c, s), b, Session)

\* A fault: the queue is dropped, and what its frames hold is not given back.
DisconnectDropsQueue(b, c) ==
  LET k == b.conn[c] IN
  IF k.closed THEN b
  ELSE LET gone == [ReleasePages(CancelCatchUps(b, c), c, HeldPages(b, c)) EXCEPT
                      !.conn[c] = [ConnectionState EXCEPT !.closed = TRUE, !.open = FALSE, !.subscriptions = {},
                                     !.sent = IF k.sent = None THEN None
                                              ELSE [k.sent EXCEPT !.retained = FALSE, !.release = None]]]
       IN  IF k.sent = None THEN gone ELSE ReleaseOutboundPayload(gone, k.sent)

\* The connection forgets everything; the frames it holds are given back.  The
\* frame inside ws.send is given back now, and its callback still comes.
Disconnect(b, c) ==
  LET k == b.conn[c] IN
  IF k.closed THEN b
  ELSE LET gone == [ReleasePages(CancelCatchUps(b, c), c, HeldPages(b, c)) EXCEPT
                      !.conn[c] = [ConnectionState EXCEPT !.closed = TRUE, !.open = FALSE, !.subscriptions = {},
                                     !.sent = IF k.sent = None THEN None
                                              ELSE [k.sent EXCEPT !.retained = FALSE, !.release = None]]]
       IN  SeqX!FoldLeft(ReleaseOutboundPayload, gone, Held(b, c))

-----------------------------------------------------------------------------
(* Sending *)

\* startPayloadSend: ws.send takes the frame, or throws and the connection ends.
StartPayloadSend(b, c, f, socket) ==
  LET started == [b EXCEPT !.conn[c].sending = TRUE, !.conn[c].sent = f] IN
  IF socket # "throws" THEN started
  ELSE Disconnect([ReleaseOutboundPayload(b, f) EXCEPT !.conn[c].sending = TRUE], c)

\* Why sendPayload, classifyPayload or retainOutboundPayload gives the client up.
Refuses(b, c, f, socket) ==
  LET k == b.conn[c] IN
  \/ f.bytes > MaxFrame
  \/ ~f.history /\ Large(f) /\ k.large >= 1
  \/ f.history /\ k.history + f.bytes > MaxHistory
  \/ k.sending /\ ~f.history /\ ~Large(f) /\ k.small + f.bytes > MaxBuffered
  \/ ~k.sending /\ socket = "congested"
  \/ b.outbound + f.bytes > MaxOutbound

SendPayload(b, c, f, socket) ==
  LET k == b.conn[c]
      kept == [b EXCEPT !.outbound = @ + f.bytes,
                        !.conn[c].history = IF f.history THEN @ + f.bytes ELSE @,
                        !.conn[c].large = IF ~f.history /\ Large(f) THEN @ + 1 ELSE @]
  IN  IF k.closed \/ ~k.open THEN ReleaseReservation(b, f.release)
      ELSE IF Refuses(b, c, f, socket) THEN ReleaseReservation(Disconnect(b, c), f.release)
      ELSE IF ~k.sending THEN StartPayloadSend(kept, c, f, socket)
      ELSE [kept EXCEPT !.conn[c].queue = Append(@, f),
                        !.conn[c].small = IF f.history \/ Large(f) THEN @ ELSE @ + f.bytes]

SendAll(b, c, frames, socket) ==
  SeqX!FoldLeft(LAMBDA x, f : SendPayload(x, c, f, socket), b, frames)

\* The callback of ws.send: the next frame of the queue starts.
Sent(c, error, socket) ==
  LET k == bridge.conn[c]
      f == k.sent
      b1 == [ReleaseOutboundPayload(bridge, f) EXCEPT !.conn[c].sent = None]
      b2 == [b1 EXCEPT !.conn[c].sending = FALSE,
                       !.conn[c].history = IF f.history THEN Less(@, f.bytes) ELSE @,
                       !.conn[c].large = IF ~f.history /\ Large(f) THEN Less(@, 1) ELSE @]
      next == Head(k.queue)
      b3 == [b2 EXCEPT !.conn[c].queue = Tail(@),
                       !.conn[c].small = IF next.history \/ Large(next) THEN @ ELSE Less(@, next.bytes)]
  IN  /\ k.sent # None
      /\ bridge' = IF k.closed THEN b1
                   ELSE IF error THEN Disconnect(b2, c)
                   ELSE IF k.queue = <<>> THEN b2
                   ELSE IF socket = "congested" THEN Disconnect(ReleaseOutboundPayload(b3, next), c)
                   ELSE StartPayloadSend(b3, c, next, socket)

\* The peer closes its side: frames are no longer taken, and the close event follows.
SocketCloses(c) ==
  /\ bridge.conn[c].open
  /\ bridge' = [bridge EXCEPT !.conn[c].open = FALSE]

\* The close or error event of ws, or heartbeat() finding the peer silent.
Closed(c) ==
  /\ ~bridge.conn[c].closed
  /\ bridge' = Disconnect(bridge, c)

-----------------------------------------------------------------------------
(* Commands *)

HandleCommand(c, weight, socket) ==
  LET n == bridge.conn[c]
      k == Cardinality({x \in Command : bridge.command[x].pc # "idle"}) + 1
      refused == \/ n.subscriptions = {}
                 \/ Cardinality(n.pending) >= MaxInFlight
                 \/ n.reserved + weight > MaxConnReserved
                 \/ bridge.reserved + weight > MaxReserved
  IN  /\ ~n.closed /\ k \in Command /\ bridge.asked < MaxAsked
      /\ bridge' =
           IF refused
           THEN SendPayload([Asked EXCEPT !.command[k].pc = "done"], c, Frame(1), socket)
           ELSE [Asked EXCEPT
                   !.command[k] = [pc |-> "running", conn |-> c, weight |-> weight, released |-> FALSE],
                   !.conn[c].pending = @ \union {k}, !.conn[c].reserved = @ + weight,
                   !.reserved = @ + weight]

\* The supervisor answers or fails: the frame takes the reservation with it, or
\* the handler releases it.
CommandAnswered(k, bytes, socket) ==
  LET c == bridge.command[k].conn
      done == [bridge EXCEPT !.command[k].pc = "done", !.conn[c].pending = @ \ {k}]
      sent == SendPayload(done, c, Response(bytes, k), socket)
  IN  /\ bridge.command[k].pc = "running"
      /\ bridge' = IF \E i \in DOMAIN Held(sent, c) : Held(sent, c)[i].release = k THEN sent
                   ELSE ReleaseReservation(sent, k)

-----------------------------------------------------------------------------
(* Baselines *)

RemoveLiveSubscription(b, c, s) ==
  [ClearHistorySnapshot(b, c, s) EXCEPT !.conn[c].subscriptions = @ \ {s}]

\* bufferCatchUpMessage: what does not fit ends the connection.
BufferCatchUpMessage(b, c, s, m) ==
  LET k == b.conn[c] IN
  IF \/ m.bytes > MaxFrame
     \/ b.outbound + m.bytes > MaxOutbound
     \/ Large(m) /\ k.caughtLarge >= 1
     \/ Small(m) /\ k.caughtSmall + m.bytes > MaxBuffered
  THEN Disconnect(b, c)
  ELSE [b EXCEPT !.outbound = @ + m.bytes,
                 !.conn[c].caughtLarge = IF Large(m) THEN @ + 1 ELSE @,
                 !.conn[c].caughtSmall = IF Large(m) THEN @ ELSE @ + m.bytes,
                 !.conn[c].catchUp[s] = Append(@, m)]

\* subscribe() begins a catch-up in place of the live subscription and of an
\* earlier catch-up, whose notifications it takes over; or the limits on channels
\* and catch-ups of the gateway, which are not counted here, refuse it.
Subscribe(c, s, admitted, socket) ==
  LET old == bridge.conn[c].catchUp[s]
      begun == [CancelCatchUp(Asked, c, s) EXCEPT !.conn[c].catchUp[s] = <<>>]
      taken == IF old = None THEN <<>> ELSE SelectSeq(old, Notification)
  IN  /\ ~bridge.conn[c].closed /\ bridge.asked < MaxAsked
      /\ bridge' =
           IF ~admitted THEN SendPayload(Asked, c, Frame(1), socket)
           ELSE RemoveLiveSubscription(
                  SeqX!FoldLeft(LAMBDA b, m : BufferCatchUpMessage(b, c, s, m), begun, taken), c, s)

\* The baselines that the answer of the supervisor may be: it covers what was
\* buffered before it was read.
Covers(buffered) ==
  {n \in 0..Len(buffered) : \A i \in (n + 1)..Len(buffered) : buffered[i].kind # "state"}

\* The supervisor answers: the baseline is sent (a replay, one large snapshot or
\* a stream), and if the connection is still there the subscription is live,
\* pages of the new snapshot may be asked for, and what was buffered is given
\* back and sent, if it is newer or a notification.
Baseline(c, s, kind, covered, socket) ==
  LET n == bridge.baselines + 1
      buffered == bridge.conn[c].catchUp[s]
      frames == CASE kind = "replay" -> <<Frame(1)>>
                  [] kind = "snapshot" -> <<Frame(MaxBuffered + 1)>>
                  [] kind = "chunked" -> Stream(FALSE, n, n)
      sent == SendAll([bridge EXCEPT !.baselines = n, !.conn[c].shown[s] = n], c, frames, socket)
      live == [RemoveLiveSubscription(CancelCatchUp(sent, c, s), c, s) EXCEPT
                 !.conn[c].subscriptions = @ \union {s},
                 !.conn[c].snapshot[s] = IF kind = "chunked" THEN n ELSE 0]
      newer == SelectSeq(SubSeq(buffered, 1, covered), Notification)
               \o SubSeq(buffered, covered + 1, Len(buffered))
      Deliver(b, m) == SendPayload(b, c, Frame(m.bytes), socket)
  IN  bridge' = IF sent.conn[c].closed THEN sent ELSE SeqX!FoldLeft(Deliver, live, newer)

\* The supervisor fails: the catch-up ends with an error.
SubscribeFails(c, s, socket) ==
  bridge' = SendPayload(CancelCatchUp(bridge, c, s), c, Frame(1), socket)

SubscribeAnswered(c, s, socket) ==
  LET buffered == bridge.conn[c].catchUp[s] IN
  /\ buffered # None
  /\ \/ \E kind \in {"replay", "snapshot", "chunked"}, covered \in Covers(buffered) :
          Baseline(c, s, kind, covered, socket)
     \/ SubscribeFails(c, s, socket)

Unsubscribe(c, s) ==
  /\ s \in bridge.conn[c].subscriptions \/ bridge.conn[c].catchUp[s] # None
  /\ bridge' = RemoveLiveSubscription(CancelCatchUp(bridge, c, s), c, s)

Orders == {o \in [1..Cardinality(Conn) -> Conn] : \A i, j \in DOMAIN o : o[i] = o[j] => i = j}

\* broadcast of an event or a notification of s, to each connection in the order
\* of `connections`: a catch-up buffers it, a live subscription sends it.
BroadcastEvent(s, m, order, socket) ==
  LET Tell(b, c) ==
        IF b.conn[c].catchUp[s] # None THEN BufferCatchUpMessage(b, c, s, m)
        ELSE IF s \in b.conn[c].subscriptions THEN SendPayload(b, c, Frame(m.bytes), socket)
        ELSE b
  IN  /\ bridge.asked < MaxAsked
      /\ bridge' = SeqX!FoldLeft(Tell, Asked, order)

\* broadcast of a runtime_state of another generation: the snapshots of the old
\* one are gone before the frame is sent.
BroadcastGeneration(s, order, socket) ==
  LET n == bridge.baselines + 1
      Tell(b, c) ==
        IF b.conn[c].closed THEN b
        ELSE LET b1 == IF b.conn[c].snapshot[s] # 0 THEN ClearHistorySnapshot(b, c, s) ELSE b IN
             IF b1.conn[c].catchUp[s] # None THEN BufferCatchUpMessage(b1, c, s, Buffered(1, "state"))
             ELSE IF s \notin b.conn[c].subscriptions THEN b1
             ELSE SendPayload([b1 EXCEPT !.conn[c].shown[s] = n], c, Frame(1), socket)
  IN  /\ bridge.asked < MaxAsked
      /\ bridge' = SeqX!FoldLeft(Tell, [Asked EXCEPT !.baselines = n], order)

-----------------------------------------------------------------------------
(* Pages of history *)

HandleHistoryPage(c, s, r, snapshot, socket) ==
  LET n == bridge.conn[c]
      p == Cardinality({x \in Page : bridge.page[x].pc # "idle"}) + 1
      asked == [Asked EXCEPT !.page[p].pc = "settled"]
      known == s \in n.subscriptions /\ n.snapshot[s] = snapshot
      fresh == IF n.pages[r] = None THEN asked ELSE ReleaseHistoryPage(asked, n.pages[r], TRUE)
      other == fresh.reading[s]
      full == \/ Cardinality({x \in Session : fresh.reading[x] # None}) >= MaxPages
              \/ fresh.outbound + PageBytes > MaxOutbound
      Error(b) == SendPayload(b, c, Frame(1), socket)
  IN  /\ ~n.closed /\ p \in Page /\ bridge.asked < MaxAsked
      /\ bridge' =
           IF ~known THEN Error(asked)
           ELSE IF other # None
           THEN Error(IF fresh.page[other].conn = c THEN ReleaseHistoryPage(fresh, other, TRUE) ELSE fresh)
           ELSE IF full THEN Error(fresh)
           ELSE [fresh EXCEPT
                   !.outbound = @ + PageBytes, !.conn[c].pages[r] = p, !.reading[s] = p,
                   !.page[p] = [pc |-> "reading", conn |-> c, session |-> s, request |-> r,
                                snapshot |-> snapshot, aborted |-> FALSE, retained |-> TRUE]]

CancelHistoryPage(c, r, s) ==
  LET p == bridge.conn[c].pages[r] IN
  /\ p # None /\ bridge.page[p].session = s /\ bridge.conn[c].snapshot[s] # 0
  /\ bridge' = ReleaseHistoryPage(bridge, p, TRUE)

\* A fault: a page that was read is sent as long as the connection is there.
IsCurrentHistoryPageOpen(b, p) == ~b.conn[b.page[p].conn].closed

IsCurrentHistoryPage(b, p) ==
  LET o == b.page[p]  n == b.conn[o.conn] IN
  /\ ~n.closed /\ n.pages[o.request] = p
  /\ o.session \in n.subscriptions /\ n.snapshot[o.session] = o.snapshot

\* readPage resolves or rejects (an aborted one may do either), its bytes are
\* given back first, and the page is sent if it is still the one asked for.
PageRead(p, ok, socket) ==
  LET o == bridge.page[p]
      read == ReleaseHistoryPageBytes(bridge, p)
      frames == IF ok THEN Stream(TRUE, o.snapshot, read.conn[o.conn].shown[o.session])
                ELSE IF o.aborted THEN <<>> ELSE <<Frame(1)>>
  IN  /\ o.pc = "reading"
      /\ bridge' = SettleHistoryPage(IF IsCurrentHistoryPage(read, p)
                                     THEN SendAll(read, o.conn, frames, socket) ELSE read, p)

-----------------------------------------------------------------------------
\* What is broadcast: a notification is small.
Messages == {Buffered(b, "event") : b \in {MaxBuffered, MaxBuffered + 1, MaxFrame + 1}}
            \union {Buffered(1, "notify")}

Next ==
  \/ \E c \in Conn : SocketCloses(c) \/ Closed(c)
  \/ \E s \in Session, order \in Orders, socket \in UNION {SocketOf(c) : c \in Conn} :
       \/ \E m \in Messages : BroadcastEvent(s, m, order, socket)
       \/ BroadcastGeneration(s, order, socket)
  \/ \E c \in Conn : \E error \in BOOLEAN, socket \in Socket : Sent(c, error, socket)
  \/ \E c \in Conn : \E socket \in SocketOf(c) :
       \/ \E w \in Weights : HandleCommand(c, w, socket)
       \/ \E s \in Session : SubscribeAnswered(c, s, socket) \/ \E admitted \in BOOLEAN : Subscribe(c, s, admitted, socket)
       \/ \E s \in Session, r \in RequestId, n \in 1..MaxAsked : HandleHistoryPage(c, s, r, n, socket)
       \/ \E k \in Command, bytes \in {1, MaxBuffered + 1} :
            bridge.command[k].conn = c /\ CommandAnswered(k, bytes, socket)
       \/ \E p \in Page, ok \in BOOLEAN : bridge.page[p].conn = c /\ PageRead(p, ok, socket)
  \/ \E c \in Conn, s \in Session : Unsubscribe(c, s) \/ \E r \in RequestId : CancelHistoryPage(c, r, s)

Spec == Init /\ [][Next]_vars

-----------------------------------------------------------------------------
(* Properties *)

SumOver(S, Of(_)) == SetX!MapThenSumSet(Of, S)

\* What the catch-ups of a connection buffer.
Caught(c) ==
  LET Buffer(s) == bridge.conn[c].catchUp[s]
      Busy == {s \in Session : Buffer(s) # None}
  IN  [small |-> SumOver(Busy, LAMBDA s : Bytes(SelectSeq(Buffer(s), Small))),
       large |-> SumOver(Busy, LAMBDA s : Len(SelectSeq(Buffer(s), Large))),
       bytes |-> SumOver(Busy, LAMBDA s : Bytes(Buffer(s)))]

Reading == {p \in Page : bridge.page[p].pc = "reading"}
\* A command that still owes its answer, or whose answer waits on the socket.
Owed(c) ==
  {k \in Command : /\ bridge.command[k].conn = c
                   /\ \/ bridge.command[k].pc = "running"
                      \/ \E i \in DOMAIN Held(bridge, c) : Held(bridge, c)[i].release = k}
Weight(k) == bridge.command[k].weight

\* Nothing the bridge counts against a cap is lost or given back twice, whichever
\* of the racing events comes first: the bytes outbound are those of the frames
\* held for open connections, of what their catch-ups buffer and of the pages
\* being read, the bytes reserved are those of the answers owed, each counter of
\* an open connection is what its queue and its catch-ups hold, the slots of a
\* page are those being read, and the caps hold.
OutboundExact ==
  /\ bridge.outbound = SumOver(Conn, LAMBDA c : Bytes(Held(bridge, c)) + Caught(c).bytes)
                       + PageBytes * Cardinality(Reading)
  /\ bridge.outbound <= MaxOutbound
  /\ bridge.reserved = SumOver(UNION {Owed(c) : c \in Conn}, Weight)
  /\ bridge.reserved <= MaxReserved
  /\ \A s \in Session : {p \in Reading : bridge.page[p].session = s} = {bridge.reading[s]} \ {None}
  /\ \A c \in Conn : ~bridge.conn[c].closed =>
       LET k == bridge.conn[c]  all == Held(bridge, c) IN
       /\ k.small = Bytes(SelectSeq(k.queue, LAMBDA f : ~f.history /\ Small(f)))
       /\ k.caughtSmall = Caught(c).small /\ k.caughtSmall <= MaxBuffered
       /\ k.caughtLarge = Caught(c).large /\ k.caughtLarge <= 1
       /\ k.large = Len(SelectSeq(all, LAMBDA f : ~f.history /\ Large(f))) /\ k.large <= 1
       /\ k.history = Bytes(SelectSeq(all, LAMBDA f : f.history)) /\ k.history <= MaxHistory
       /\ k.reserved = SumOver(Owed(c), Weight) /\ k.reserved <= MaxConnReserved
       /\ k.sending = (k.sent # None)

\* A page of history is never sent behind the frames of a newer baseline of its
\* Session, whenever its read ends: the browser would add old messages to the
\* new snapshot.
PagesFollowSnapshot ==
  \A c \in Conn : \A i \in DOMAIN Held(bridge, c) :
    Held(bridge, c)[i].page => Held(bridge, c)[i].snapshot = Held(bridge, c)[i].behind
=============================================================================
