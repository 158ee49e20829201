------------------------ MODULE BrowserControlProofs ------------------------
(***************************************************************************)
(* Proofs about the control of a Session as one browser shows it           *)
(* (BrowserControl): once everything sent has arrived, the lease it shows  *)
(* is the gateway's, nothing is held for it that it does not know of, and  *)
(* no takeover is still under way.  The parts of ControlInv are stated of  *)
(* the browser b, the queues u to the gateway and d to the browser, and    *)
(* the gateway's generation g, owner o, revision r and subscription jn, so *)
(* that the lemmas about the handlers speak of values, not of steps.       *)
(***************************************************************************)
EXTENDS BrowserControl, SequenceTheorems, TLAPS

-----------------------------------------------------------------------------
(* The shape of the state                                                  *)

Generations == 0..MaxGeneration
Status == [type : {"lease_status"}, generation : Nat, revision : Nat, held : BOOLEAN,
           controller : BOOLEAN, transition : Transition]
Announcement == [type : {"runtime_state", "resync_required"}, generation : Nat, overflowed : BOOLEAN]
SnapshotFrame == [type : {"session_snapshot"}, generation : Nat]
ErrorFrame == [type : {"session_error"}, operation : {"subscribe", "claim", "takeover", "restart"}]
ToBrowser == Status \cup Announcement \cup SnapshotFrame \cup ErrorFrame
ToGateway == [type : {"claim", "release", "unsubscribe"}]
             \cup [type : {"subscribe"}, cursor : Nat]
             \cup [type : {"takeover", "restart"}, generation : Nat, revision : Int]
Attempt == [generation : Nat, revision : Int]
Session == [subscribed : BOOLEAN, intent : BOOLEAN, fresh : Generations, lease : Lease,
            claimPending : BOOLEAN, attempt : Attempt, released : BOOLEAN,
            baseline : -1..MaxGeneration, pending : Status \cup {NoStatus}, pendingExpected : BOOLEAN]
Browser == [online : BOOLEAN, ctl : Session, generation : Generations, crashed : BOOLEAN,
            baseline : BOOLEAN, resync : BOOLEAN, waiter : {"none", "waiting", "projecting"},
            degraded : BOOLEAN, restart : Generations, offering : BOOLEAN, out : Seq(ToGateway)]

GatewayShape ==
  /\ generation \in 1..MaxGeneration /\ overflowed \in BOOLEAN
  /\ owner \in {"free", "us", "other"} /\ revision \in 0..MaxRevision /\ joined \in BOOLEAN
  /\ requests \in 0..MaxControl
  /\ up \in Seq(ToGateway) /\ down \in Seq(ToBrowser)

-----------------------------------------------------------------------------
(* The inductive invariant                                                 *)

Holds(q, S) == \E i \in 1..Len(q) : q[i] \in S
Sent(t, u) == Holds(u, {m \in ToGateway : m.type = t})

\* The lease as a status of generation g says it, and whether it is so.
IsLease(g, m) == m.type = "lease_status" /\ m.generation = g
Agrees(m, o, r) ==
  /\ m.revision <= r
  /\ m.revision = r => m.held = (o # "free") /\ m.controller = (o = "us")

\* What is on its way to the browser is no lie about the present generation,
\* comes in the order of the revisions, and a resync brings a lease with it.
Answered(d, i) ==
  \E j \in 1..Len(d) : i < j /\ d[j].type = "lease_status" /\ d[j].generation = d[i].generation
Ordered(d, g) ==
  \A i, j \in 1..Len(d) :
    i <= j /\ IsLease(g, d[i]) /\ IsLease(g, d[j]) => d[i].revision <= d[j].revision
FramesTrue(d, g, o, r) ==
  /\ \A i \in 1..Len(d) :
       /\ d[i].type # "session_error" => d[i].generation \in 1..g
       /\ IsLease(g, d[i]) => Agrees(d[i], o, r)
       /\ d[i].type \in {"resync_required", "session_snapshot"} => Answered(d, i)
  /\ Ordered(d, g)

Pends(b) == b.ctl.pending # NoStatus

\* The record of the Session and the phases of its channel fit together.
PhasesFit(b) ==
  /\ b.ctl.fresh \in {0, b.generation}
  /\ b.generation = 0 => b.ctl.lease.revision = Unknown /\ ~Pends(b)
  /\ Pends(b) => b.ctl.pending.generation = b.generation /\ b.ctl.subscribed /\ b.online
  /\ b.baseline => ~Pends(b) /\ ~b.resync /\ ~b.degraded /\ b.waiter # "projecting"
  /\ b.waiter # "none" => ~b.degraded
  /\ Fresh(b) => ~b.ctl.released

\* What the browser has been told of the present generation is no lie, and
\* nothing older than that is still on its way.
LeaseTrue(b, d, g, o, r) ==
  /\ b.generation <= g
  /\ b.generation = g =>
       /\ b.ctl.lease.revision <= r
       /\ b.ctl.lease.revision = r =>
            /\ b.ctl.lease.held = (o # "free")
            /\ b.ctl.lease.controller => o = "us"
            /\ Fresh(b) => b.ctl.lease.controller = (o = "us")
       /\ Pends(b) => Agrees(b.ctl.pending, o, r) /\ b.ctl.lease.revision <= b.ctl.pending.revision
       /\ \A i \in 1..Len(d) : IsLease(g, d[i]) =>
            /\ b.ctl.lease.revision <= d[i].revision
            /\ Pends(b) => b.ctl.pending.revision <= d[i].revision

\* The gateway tells this connection of every change from now on.
Attached(b, u, jn) ==
  b.online /\ b.ctl.subscribed /\ jn /\ ~Sent("subscribe", u) /\ ~Sent("unsubscribe", u)

Silent(d, g) == ~Holds(d, {m \in ToBrowser : IsLease(g, m)})
CurrentAfter(d, g, r, i) == \E k \in 1..Len(d) : i < k /\ IsLease(g, d[k]) /\ d[k].revision = r
Announces(m, g) == m.type \in {"runtime_state", "resync_required"} /\ m.generation = g

\* The browser knows the present generation, or is about to hear of it and then
\* of its lease.
Known(b, d, g, r) ==
  /\ Silent(d, g) \/ CurrentAfter(d, g, r, 0)
  /\ \/ b.generation = g
     \/ \E i \in 1..Len(d) : Announces(d[i], g) /\ (Silent(d, g) \/ CurrentAfter(d, g, r, i))

\* Nothing is on its way: what the browser shows, or will show with its
\* baseline, is the lease; unless its channel waits for a snapshot of its own.
Settled(b, r) ==
  \/ Pends(b) /\ b.ctl.pending.revision = r
  \/ ~b.baseline /\ b.waiter # "projecting"
Shown(b, o, r) ==
  /\ o = "us" => \/ Settled(b, r)
                 \/ b.ctl.lease.revision = r /\ (b.ctl.lease.controller \/ b.ctl.lease.conflicted)
  /\ Fresh(b) => Settled(b, r) \/ b.ctl.lease.revision = r
  /\ Pends(b) => b.ctl.pending.revision = r

AttachedTrue(b, u, d, g, o, r, jn) ==
  Attached(b, u, jn) =>
    /\ Known(b, d, g, r)
    /\ Silent(d, g) /\ b.generation # g => o # "us"
    /\ Silent(d, g) /\ b.generation = g /\ ~Sent("release", u) => Shown(b, o, r)

\* A takeover under way has an answer to come.
Asked(a) == {m \in ToGateway : m.type = "takeover" /\ m.generation = a.generation /\ m.revision = a.revision}
Answers(a) ==
  {m \in ToBrowser : \/ m.type = "session_error" /\ m.operation = "takeover"
                     \/ IsLease(a.generation, m) /\ m.revision > a.revision}
Outstanding(b, u, d) ==
  LET a == b.ctl.attempt
  IN  \/ Holds(u, Asked(a)) \/ Holds(d, Answers(a))
      \/ Pends(b) /\ b.ctl.pending.revision > a.revision
AttemptTrue(b, u, d) ==
  /\ b.ctl.attempt # NoAttempt =>
       /\ b.ctl.subscribed /\ b.online /\ ~b.ctl.released
       /\ ~b.ctl.lease.controller /\ ~b.ctl.lease.conflicted
       /\ b.ctl.attempt.generation = b.generation
       /\ b.ctl.attempt.revision = b.ctl.lease.revision
       /\ Outstanding(b, u, d)
  /\ b.offering /\ Fresh(b) => b.ctl.attempt # NoAttempt \/ (~b.baseline /\ b.waiter = "none")

\* Nothing is on the wire of a connection that is lost.
OfflineTrue(b, u, d, jn) == ~b.online => ~jn /\ u = <<>> /\ d = <<>>

BrowserParts(b, u, d, g, o, r, jn) ==
  /\ b \in Browser /\ PhasesFit(b) /\ LeaseTrue(b, d, g, o, r)
  /\ AttachedTrue(b, u, d, g, o, r, jn) /\ AttemptTrue(b, u, d) /\ OfflineTrue(b, u, d, jn)
ControlParts(b, u, d, g, o, r, jn) ==
  FramesTrue(d, g, o, r) /\ BrowserParts(b, u, d, g, o, r, jn) /\ b.out = <<>>
ControlInv ==
  GatewayShape /\ ControlParts(browser, up, down, generation, owner, revision, joined)

-----------------------------------------------------------------------------
(* Queues                                                                  *)

LEMMA HoldsConcat ==
  ASSUME NEW T, NEW q \in Seq(T), NEW s \in Seq(T), NEW S
  PROVE  q \o s \in Seq(T) /\ (Holds(q \o s, S) <=> Holds(q, S) \/ Holds(s, S))
  <1>1. /\ q \o s \in Seq(T) /\ Len(q \o s) = Len(q) + Len(s)
        /\ \A i \in 1..Len(q) : (q \o s)[i] = q[i]
        /\ \A i \in 1..Len(s) : (q \o s)[Len(q) + i] = s[i]
    OBVIOUS
  <1>2. ASSUME Holds(q \o s, S) PROVE Holds(q, S) \/ Holds(s, S)
    <2>1. PICK i \in 1..Len(q \o s) : (q \o s)[i] \in S
      BY <1>2 DEF Holds
    <2>2. CASE i <= Len(q)
      BY <2>1, <2>2, <1>1 DEF Holds
    <2>3. CASE i > Len(q)
      <3>1. i - Len(q) \in 1..Len(s) /\ i = Len(q) + (i - Len(q))
        BY <1>1, <2>3
      <3> QED BY <3>1, <2>1, <1>1 DEF Holds
    <2> QED BY <2>2, <2>3
  <1>3. ASSUME Holds(q, S) PROVE Holds(q \o s, S)
    BY <1>1, <1>3 DEF Holds
  <1>4. ASSUME Holds(s, S) PROVE Holds(q \o s, S)
    <2>1. PICK i \in 1..Len(s) : s[i] \in S
      BY <1>4 DEF Holds
    <2>2. Len(q) + i \in 1..Len(q \o s)
      BY <1>1
    <2> QED BY <2>1, <2>2, <1>1 DEF Holds
  <1> QED BY <1>1, <1>2, <1>3, <1>4

LEMMA HoldsTail ==
  ASSUME NEW T, NEW q \in Seq(T), q # <<>>, NEW S
  PROVE  /\ Tail(q) \in Seq(T) /\ Head(q) \in T
         /\ Holds(q, S) <=> Head(q) \in S \/ Holds(Tail(q), S)
  <1>1. /\ Tail(q) \in Seq(T) /\ Len(Tail(q)) = Len(q) - 1 /\ Len(q) > 0
        /\ \A i \in 1..Len(Tail(q)) : Tail(q)[i] = q[i + 1]
        /\ Head(q) = q[1]
    OBVIOUS
  <1>2. ASSUME Holds(q, S), Head(q) \notin S PROVE Holds(Tail(q), S)
    <2>1. PICK i \in 1..Len(q) : q[i] \in S
      BY <1>2 DEF Holds
    <2>2. i - 1 \in 1..Len(Tail(q)) /\ Tail(q)[i - 1] = q[i]
      BY <1>1, <1>2, <2>1
    <2> QED BY <2>1, <2>2 DEF Holds
  <1>3. ASSUME Holds(Tail(q), S) PROVE Holds(q, S)
    <2>1. PICK i \in 1..Len(Tail(q)) : Tail(q)[i] \in S
      BY <1>3 DEF Holds
    <2>2. i + 1 \in 1..Len(q) /\ q[i + 1] \in S
      BY <1>1, <2>1
    <2> QED BY <2>2 DEF Holds
  <1> QED BY <1>1, <1>2, <1>3 DEF Holds

LEMMA HoldsFew ==
  ASSUME NEW S, NEW x, NEW y, NEW z
  PROVE  /\ ~Holds(<<>>, S)
         /\ Holds(<<x>>, S) <=> x \in S
         /\ Holds(<<x, y>>, S) <=> x \in S \/ y \in S
         /\ Holds(<<x, y, z>>, S) <=> x \in S \/ y \in S \/ z \in S
  <1>1. Len(<<x>>) = 1 /\ <<x>>[1] = x /\ Len(<<>>) = 0
    OBVIOUS
  <1>2. Len(<<x, y>>) = 2 /\ <<x, y>>[1] = x /\ <<x, y>>[2] = y
    OBVIOUS
  <1>3. Len(<<x, y, z>>) = 3 /\ <<x, y, z>>[1] = x /\ <<x, y, z>>[2] = y /\ <<x, y, z>>[3] = z
    OBVIOUS
  <1>4. 1..0 = {} /\ 1..1 = {1} /\ 1..2 = {1, 2} /\ 1..3 = {1, 2, 3}
    OBVIOUS
  <1> QED BY <1>1, <1>2, <1>3, <1>4 DEF Holds
LEMMA TailIs ==
  ASSUME NEW d \in Seq(ToBrowser), d # <<>>
  PROVE  /\ Tail(d) \in Seq(ToBrowser) /\ Len(Tail(d)) = Len(d) - 1 /\ Len(d) \in Nat /\ Len(d) > 0
         /\ \A i \in 1..Len(Tail(d)) : i + 1 \in 1..Len(d) /\ Tail(d)[i] = d[i + 1]
         /\ \A i \in 1..Len(d) : i > 1 => i - 1 \in 1..Len(Tail(d)) /\ Tail(d)[i - 1] = d[i]
         /\ Head(d) = d[1] /\ Head(d) \in ToBrowser /\ 1 \in 1..Len(d)
  OBVIOUS

LEMMA FrameIs ==
  ASSUME NEW m \in ToBrowser
  PROVE  /\ m.type \in {"lease_status", "runtime_state", "resync_required", "session_snapshot", "session_error"}
         /\ m.type = "lease_status" => m \in Status
         /\ m.type \in {"runtime_state", "resync_required"} => m \in Announcement
         /\ m.type = "session_snapshot" => m \in SnapshotFrame
         /\ m.type = "session_error" => m \in ErrorFrame
  BY DEF ToBrowser, Status, Announcement, SnapshotFrame, ErrorFrame

-----------------------------------------------------------------------------
(* A frame is taken from the queue                                         *)

LEMMA FramesTail ==
  ASSUME NEW d \in Seq(ToBrowser), d # <<>>, NEW g \in Nat, NEW o, NEW r \in Nat,
         FramesTrue(d, g, o, r)
  PROVE  FramesTrue(Tail(d), g, o, r)
  <1> DEFINE e == Tail(d)
  <1>1. ASSUME NEW i \in 1..Len(e), e[i].type \in {"resync_required", "session_snapshot"}
        PROVE  Answered(e, i)
    <2>1. i + 1 \in 1..Len(d) /\ e[i] = d[i + 1]
      BY TailIs
    <2>2. PICK j \in 1..Len(d) : i + 1 < j /\ d[j].type = "lease_status" /\ d[j].generation = d[i + 1].generation
      BY <1>1, <2>1 DEF FramesTrue, Answered
    <2>3. j - 1 \in 1..Len(e) /\ e[j - 1] = d[j] /\ i < j - 1
      BY <2>2, TailIs
    <2> QED BY <2>1, <2>2, <2>3 DEF Answered
  <1>2. ASSUME NEW i \in 1..Len(e)
        PROVE  /\ e[i].type # "session_error" => e[i].generation \in 1..g
               /\ IsLease(g, e[i]) => Agrees(e[i], o, r)
    BY TailIs DEF FramesTrue
  <1>3. Ordered(e, g)
    <2> SUFFICES ASSUME NEW i \in 1..Len(e), NEW j \in 1..Len(e), i <= j, IsLease(g, e[i]), IsLease(g, e[j])
                 PROVE  e[i].revision <= e[j].revision
      BY DEF Ordered
    <2>1. i + 1 \in 1..Len(d) /\ e[i] = d[i + 1] /\ j + 1 \in 1..Len(d) /\ e[j] = d[j + 1] /\ i + 1 <= j + 1
      BY TailIs
    <2> QED BY <2>1 DEF FramesTrue, Ordered
  <1> QED BY <1>1, <1>2, <1>3 DEF FramesTrue

LEMMA SilentTail ==
  ASSUME NEW d \in Seq(ToBrowser), d # <<>>, NEW g
  PROVE  Silent(d, g) <=> ~IsLease(g, Head(d)) /\ Silent(Tail(d), g)
  <1>1. Head(d) \in ToBrowser
    BY TailIs
  <1>2. Holds(d, {m \in ToBrowser : IsLease(g, m)}) <=>
          Head(d) \in {m \in ToBrowser : IsLease(g, m)} \/ Holds(Tail(d), {m \in ToBrowser : IsLease(g, m)})
    BY HoldsTail
  <1> QED BY <1>1, <1>2 DEF Silent

LEMMA SilentIs ==
  ASSUME NEW d \in Seq(ToBrowser), NEW g
  PROVE  Silent(d, g) <=> \A i \in 1..Len(d) : ~IsLease(g, d[i])
  <1>1. \A i \in 1..Len(d) : d[i] \in ToBrowser
    OBVIOUS
  <1> QED BY <1>1 DEF Silent, Holds

\* The last status of a generation is still the last when another frame is taken.
LEMMA CurrentTail ==
  ASSUME NEW d \in Seq(ToBrowser), d # <<>>, NEW g \in Nat, NEW o, NEW r \in Nat, FramesTrue(d, g, o, r),
         CurrentAfter(d, g, r, 0)
  PROVE  Silent(Tail(d), g) \/ CurrentAfter(Tail(d), g, r, 0)
  <1> DEFINE e == Tail(d)
  <1>1. PICK k \in 1..Len(d) : IsLease(g, d[k]) /\ d[k].revision = r
    BY DEF CurrentAfter
  <1>2. CASE k > 1
    <2>1. k - 1 \in 1..Len(e) /\ e[k - 1] = d[k] /\ 0 < k - 1
      BY <1>2, TailIs
    <2> QED BY <1>1, <2>1 DEF CurrentAfter
  <1>3. CASE k = 1 /\ ~Silent(e, g)
    <2>1. e \in Seq(ToBrowser)
      BY TailIs
    <2>2. PICK j \in 1..Len(e) : IsLease(g, e[j])
      BY <1>3, <2>1, SilentIs
    <2>3. j + 1 \in 1..Len(d) /\ e[j] = d[j + 1] /\ 0 < j /\ 1 <= j + 1
      BY TailIs
    <2>4. d[k].revision <= d[j + 1].revision
      BY <1>1, <1>3, <2>2, <2>3 DEF FramesTrue, Ordered
    <2>5. d[j + 1].revision <= r /\ d[j + 1].revision \in Nat
      <3>1. d[j + 1] \in Status
        BY <2>2, <2>3, FrameIs DEF IsLease
      <3> QED BY <2>2, <2>3, <3>1 DEF FramesTrue, Agrees, Status
    <2>6. e[j].revision = r
      BY <1>1, <2>3, <2>4, <2>5
    <2> QED BY <2>2, <2>3, <2>6 DEF CurrentAfter
  <1> QED BY <1>1, <1>2, <1>3

LEMMA KnownTail ==
  ASSUME NEW d \in Seq(ToBrowser), d # <<>>, NEW g \in Nat, NEW o, NEW r \in Nat, FramesTrue(d, g, o, r),
         NEW b, NEW b1, Known(b, d, g, r),
         b1.generation = g \/ (b1.generation = b.generation /\ ~Announces(Head(d), g))
  PROVE  Known(b1, Tail(d), g, r)
  <1> DEFINE e == Tail(d)
  <1>1. Silent(e, g) \/ CurrentAfter(e, g, r, 0)
    BY SilentTail, CurrentTail DEF Known
  <1>2. CASE b1.generation = g
    BY <1>1, <1>2 DEF Known
  <1>3. CASE b1.generation # g
    <2>1. b1.generation = b.generation /\ ~Announces(Head(d), g)
      BY <1>3
    <2>2. PICK i \in 1..Len(d) : Announces(d[i], g) /\ (Silent(d, g) \/ CurrentAfter(d, g, r, i))
      BY <1>3, <2>1 DEF Known
    <2>3. i > 1 /\ i - 1 \in 1..Len(e) /\ e[i - 1] = d[i]
      BY <2>1, <2>2, TailIs
    <2>4. ASSUME CurrentAfter(d, g, r, i) PROVE CurrentAfter(e, g, r, i - 1)
      <3>1. PICK k \in 1..Len(d) : i < k /\ IsLease(g, d[k]) /\ d[k].revision = r
        BY <2>4 DEF CurrentAfter
      <3>2. k - 1 \in 1..Len(e) /\ e[k - 1] = d[k] /\ i - 1 < k - 1
        BY <3>1, <2>3, TailIs
      <3> QED BY <3>1, <3>2 DEF CurrentAfter
    <2>5. Silent(d, g) => Silent(e, g)
      BY SilentTail
    <2> QED BY <1>1, <2>2, <2>3, <2>4, <2>5 DEF Known
  <1> QED BY <1>2, <1>3

\* What the browser knew stays true of the frames that remain.
LEMMA LeaseTail ==
  ASSUME NEW d \in Seq(ToBrowser), d # <<>>, NEW g \in Nat, NEW o, NEW r \in Nat,
         NEW b, LeaseTrue(b, d, g, o, r)
  PROVE  LeaseTrue(b, Tail(d), g, o, r)
  BY TailIs DEF LeaseTrue

-----------------------------------------------------------------------------
(* The gateway tells                                                       *)

LEMMA GrowIs ==
  ASSUME NEW d \in Seq(ToBrowser), NEW ms \in Seq(ToBrowser)
  PROVE  /\ d \o ms \in Seq(ToBrowser) /\ Len(d \o ms) = Len(d) + Len(ms)
         /\ \A i \in 1..Len(d) : i \in 1..Len(d \o ms) /\ (d \o ms)[i] = d[i]
         /\ \A i \in 1..Len(ms) : Len(d) + i \in 1..Len(d \o ms) /\ (d \o ms)[Len(d) + i] = ms[i]
         /\ \A i \in 1..Len(d \o ms) :
              i \in 1..Len(d) \/ (i - Len(d) \in 1..Len(ms) /\ (d \o ms)[i] = ms[i - Len(d)] /\ i > Len(d))
  OBVIOUS

\* Statuses of the present are added to what was told before.
Present(ms, g, r) == \A i \in 1..Len(ms) : IsLease(g, ms[i]) => ms[i].revision = r

LEMMA FramesGrow ==
  ASSUME NEW d \in Seq(ToBrowser), NEW ms \in Seq(ToBrowser), NEW g \in Nat, NEW o, NEW r \in Nat,
         FramesTrue(d, g, o, r), FramesTrue(ms, g, o, r), Present(ms, g, r)
  PROVE  FramesTrue(d \o ms, g, o, r)
  <1> DEFINE e == d \o ms
  <1>1. ASSUME NEW i \in 1..Len(e)
        PROVE  /\ e[i].type # "session_error" => e[i].generation \in 1..g
               /\ IsLease(g, e[i]) => Agrees(e[i], o, r)
               /\ e[i].type \in {"resync_required", "session_snapshot"} => Answered(e, i)
    <2>1. CASE i \in 1..Len(d)
      <3>1. e[i] = d[i]
        BY <2>1, GrowIs
      <3>2. ASSUME Answered(d, i) PROVE Answered(e, i)
        BY <3>1, <3>2, GrowIs DEF Answered
      <3> QED BY <2>1, <3>1, <3>2 DEF FramesTrue
    <2>2. CASE i \notin 1..Len(d)
      <3>1. i - Len(d) \in 1..Len(ms) /\ e[i] = ms[i - Len(d)] /\ Len(d) \in Nat
        BY <2>2, GrowIs
      <3>2. ASSUME Answered(ms, i - Len(d)) PROVE Answered(e, i)
        <4>1. PICK j \in 1..Len(ms) : /\ i - Len(d) < j /\ ms[j].type = "lease_status"
                                      /\ ms[j].generation = ms[i - Len(d)].generation
          BY <3>2 DEF Answered
        <4>2. Len(d) + j \in 1..Len(e) /\ e[Len(d) + j] = ms[j] /\ i < Len(d) + j
          BY <4>1, <3>1, GrowIs
        <4> QED BY <4>1, <4>2, <3>1 DEF Answered
      <3> QED BY <3>1, <3>2 DEF FramesTrue
    <2> QED BY <2>1, <2>2
  <1>2. Ordered(e, g)
    <2> SUFFICES ASSUME NEW i \in 1..Len(e), NEW j \in 1..Len(e), i <= j, IsLease(g, e[i]), IsLease(g, e[j])
                 PROVE  e[i].revision <= e[j].revision
      BY DEF Ordered
    <2>1. CASE j \in 1..Len(d)
      <3>1. i \in 1..Len(d) /\ e[i] = d[i] /\ e[j] = d[j]
        BY <2>1, GrowIs
      <3> QED BY <2>1, <3>1 DEF FramesTrue, Ordered
    <2>2. CASE j \notin 1..Len(d)
      <3>1. j - Len(d) \in 1..Len(ms) /\ e[j] = ms[j - Len(d)]
        BY <2>2, GrowIs
      <3>2. e[j].revision = r
        BY <3>1 DEF Present
      <3> QED BY <1>1, <3>2 DEF Agrees
    <2> QED BY <2>1, <2>2
  <1> QED BY <1>1, <1>2 DEF FramesTrue

LEMMA LeaseGrow ==
  ASSUME NEW d \in Seq(ToBrowser), NEW ms \in Seq(ToBrowser), NEW g \in Nat, NEW o, NEW r \in Nat,
         Present(ms, g, r), NEW b, LeaseTrue(b, d, g, o, r)
  PROVE  LeaseTrue(b, d \o ms, g, o, r)
  <1> DEFINE e == d \o ms
  <1>1. ASSUME b.generation = g, NEW i \in 1..Len(e), IsLease(g, e[i])
        PROVE  b.ctl.lease.revision <= e[i].revision /\ (Pends(b) => b.ctl.pending.revision <= e[i].revision)
    <2>1. CASE i \in 1..Len(d)
      BY <1>1, <2>1, GrowIs DEF LeaseTrue
    <2>2. CASE i \notin 1..Len(d)
      <3>1. i - Len(d) \in 1..Len(ms) /\ e[i] = ms[i - Len(d)]
        BY <2>2, GrowIs
      <3>2. e[i].revision = r
        BY <1>1, <3>1 DEF Present
      <3> QED BY <1>1, <3>2 DEF LeaseTrue, Agrees
    <2> QED BY <2>1, <2>2
  <1> QED BY <1>1 DEF LeaseTrue

LEMMA CurrentGrow ==
  ASSUME NEW d \in Seq(ToBrowser), NEW ms \in Seq(ToBrowser), NEW g, NEW r, NEW i \in Nat,
         CurrentAfter(d, g, r, i) \/ (i <= Len(d) /\ CurrentAfter(ms, g, r, 0))
  PROVE  CurrentAfter(d \o ms, g, r, i)
  <1>1. CASE CurrentAfter(d, g, r, i)
    BY <1>1, GrowIs DEF CurrentAfter
  <1>2. CASE i <= Len(d) /\ CurrentAfter(ms, g, r, 0)
    <2>1. PICK k \in 1..Len(ms) : IsLease(g, ms[k]) /\ ms[k].revision = r
      BY <1>2 DEF CurrentAfter
    <2>2. Len(d) + k \in 1..Len(d \o ms) /\ (d \o ms)[Len(d) + k] = ms[k] /\ i < Len(d) + k
      BY <1>2, <2>1, GrowIs
    <2> QED BY <2>1, <2>2 DEF CurrentAfter
  <1> QED BY <1>1, <1>2

LEMMA SilentGrow ==
  ASSUME NEW d \in Seq(ToBrowser), NEW ms \in Seq(ToBrowser), NEW g
  PROVE  Silent(d \o ms, g) <=> Silent(d, g) /\ Silent(ms, g)
  BY HoldsConcat DEF Silent

\* Whoever was on the way to know is so still, when frames without a lease or
\* with the present one follow.
LEMMA KnownGrow ==
  ASSUME NEW d \in Seq(ToBrowser), NEW ms \in Seq(ToBrowser), NEW g, NEW r, NEW b,
         Known(b, d, g, r), Silent(ms, g) \/ CurrentAfter(ms, g, r, 0)
  PROVE  Known(b, d \o ms, g, r)
  <1> DEFINE e == d \o ms
  <1>1. Silent(e, g) \/ CurrentAfter(e, g, r, 0)
    <2>1. 0 \in Nat /\ 0 <= Len(d)
      OBVIOUS
    <2> QED BY <2>1, SilentGrow, CurrentGrow DEF Known
  <1>2. ASSUME NEW i \in 1..Len(d), Announces(d[i], g), Silent(d, g) \/ CurrentAfter(d, g, r, i)
        PROVE  i \in 1..Len(e) /\ Announces(e[i], g) /\ (Silent(e, g) \/ CurrentAfter(e, g, r, i))
    <2>1. i \in 1..Len(e) /\ e[i] = d[i] /\ i \in Nat /\ i <= Len(d)
      BY GrowIs
    <2> QED BY <1>2, <2>1, SilentGrow, CurrentGrow
  <1> QED BY <1>1, <1>2 DEF Known

\* The same, when the lease itself has moved: the present one follows.
LEMMA KnownTold ==
  ASSUME NEW d \in Seq(ToBrowser), NEW ms \in Seq(ToBrowser), NEW g, NEW r, NEW r2, NEW b,
         Known(b, d, g, r), CurrentAfter(ms, g, r2, 0)
  PROVE  Known(b, d \o ms, g, r2)
  <1>1. CurrentAfter(d \o ms, g, r2, 0)
    <2>1. 0 \in Nat /\ 0 <= Len(d)
      OBVIOUS
    <2> QED BY <2>1, CurrentGrow
  <1>2. ASSUME NEW i \in 1..Len(d), Announces(d[i], g)
        PROVE  i \in 1..Len(d \o ms) /\ Announces((d \o ms)[i], g) /\ CurrentAfter(d \o ms, g, r2, i)
    <2>1. i \in 1..Len(d \o ms) /\ (d \o ms)[i] = d[i] /\ i \in Nat /\ i <= Len(d)
      BY GrowIs
    <2> QED BY <1>2, <2>1, CurrentGrow
  <1> QED BY <1>1, <1>2 DEF Known

LEMMA CurrentSpeaks ==
  ASSUME NEW d \in Seq(ToBrowser), NEW g, NEW r, NEW i \in Nat, CurrentAfter(d, g, r, i)
  PROVE  ~Silent(d, g)
  BY SilentIs DEF CurrentAfter

\* A request may have been served.
Served(u, v) == v = u \/ (u # <<>> /\ v = Tail(u))

LEMMA AttachTold ==
  ASSUME NEW d \in Seq(ToBrowser), NEW ms \in Seq(ToBrowser), NEW g, NEW o, NEW o2, NEW r, NEW r2, NEW b,
         NEW u, NEW v, NEW jn, AttachedTrue(b, u, d, g, o, r, jn), Attached(b, v, jn) => Attached(b, u, jn),
         CurrentAfter(ms, g, r2, 0)
  PROVE  AttachedTrue(b, v, d \o ms, g, o2, r2, jn)
  <1>1. ~Silent(d \o ms, g)
    <2>1. 0 \in Nat
      OBVIOUS
    <2> QED BY <2>1, SilentGrow, CurrentSpeaks
  <1> QED BY <1>1, KnownTold DEF AttachedTrue

LEMMA AttachQuiet ==
  ASSUME NEW d \in Seq(ToBrowser), NEW ms \in Seq(ToBrowser), NEW g, NEW o, NEW r, NEW b,
         NEW u, NEW v, NEW jn, AttachedTrue(b, u, d, g, o, r, jn), Attached(b, v, jn) => Attached(b, u, jn),
         Silent(ms, g), Sent("release", u) => Sent("release", v)
  PROVE  AttachedTrue(b, v, d \o ms, g, o, r, jn)
  BY KnownGrow, SilentGrow DEF AttachedTrue

LEMMA ServedKeeps ==
  ASSUME NEW u \in Seq(ToGateway), NEW v, Served(u, v)
  PROVE  /\ v \in Seq(ToGateway)
         /\ \A S : Holds(u, S) => Holds(v, S) \/ (u # <<>> /\ v = Tail(u) /\ Head(u) \in S)
         /\ \A S : Holds(v, S) => Holds(u, S)
  <1>1. CASE v = u
    BY <1>1
  <1>2. CASE u # <<>> /\ v = Tail(u)
    <2>1. ASSUME NEW S
          PROVE  v \in Seq(ToGateway) /\ (Holds(u, S) <=> Head(u) \in S \/ Holds(v, S))
      BY <1>2, HoldsTail
    <2> QED BY <1>2, <2>1
  <1> QED BY <1>1, <1>2 DEF Served

LEMMA AttachServed ==
  ASSUME NEW u \in Seq(ToGateway), NEW v, Served(u, v), NEW b, NEW jn,
         u # <<>> /\ v = Tail(u) => Head(u).type \notin {"subscribe", "unsubscribe"},
         Attached(b, v, jn)
  PROVE  Attached(b, u, jn)
  <1>1. ASSUME NEW t \in {"subscribe", "unsubscribe"}, Sent(t, u)
        PROVE  Sent(t, v)
    BY <1>1, ServedKeeps DEF Sent
  <1> QED BY <1>1 DEF Attached

LEMMA AttemptMore ==
  ASSUME NEW d \in Seq(ToBrowser), NEW ms \in Seq(ToBrowser), NEW b, NEW u \in Seq(ToGateway), NEW v,
         Served(u, v), AttemptTrue(b, u, d),
         u # <<>> /\ v = Tail(u) /\ b.ctl.attempt # NoAttempt /\ Head(u) \in Asked(b.ctl.attempt)
           => Holds(ms, Answers(b.ctl.attempt))
  PROVE  AttemptTrue(b, v, d \o ms)
  <1>1. Holds(d, Answers(b.ctl.attempt)) \/ Holds(ms, Answers(b.ctl.attempt)) => Holds(d \o ms, Answers(b.ctl.attempt))
    BY HoldsConcat
  <1>2. b.ctl.attempt # NoAttempt /\ Outstanding(b, u, d) => Outstanding(b, v, d \o ms)
    BY <1>1, ServedKeeps DEF Outstanding
  <1> QED BY <1>2 DEF AttemptTrue

-----------------------------------------------------------------------------
(* The steps of the gateway                                                *)

LEMMA BrowserIs ==
  ASSUME NEW b \in Browser
  PROVE  /\ b.ctl \in Session /\ b.generation \in Nat /\ b.ctl.lease \in Lease /\ b.ctl.attempt \in Attempt
         /\ b.ctl.lease.revision \in Int /\ b.ctl.lease.revision >= Unknown
         /\ b.ctl.attempt.revision \in Int /\ b.ctl.attempt.generation \in Nat
         /\ Pends(b) => b.ctl.pending \in Status /\ b.ctl.pending.revision \in Nat
  <1>1. b.ctl \in Session /\ b.generation \in Generations
    BY DEF Browser
  <1>2. b.ctl.lease \in Lease /\ b.ctl.attempt \in Attempt /\ b.ctl.pending \in Status \cup {NoStatus}
    BY <1>1 DEF Session
  <1> QED BY <1>1, <1>2 DEF Generations, Pends, Lease, Attempt, Status, Unknown

LEMMA FramesShift ==
  ASSUME NEW d \in Seq(ToBrowser), NEW g \in Nat, NEW o, NEW r \in Nat, NEW o2, NEW r2 \in Nat,
         FramesTrue(d, g, o, r), r < r2
  PROVE  FramesTrue(d, g, o2, r2)
  <1>1. ASSUME NEW i \in 1..Len(d), IsLease(g, d[i]) PROVE Agrees(d[i], o2, r2)
    <2>1. d[i].revision \in Nat
      BY <1>1, FrameIs DEF IsLease, Status
    <2> QED BY <1>1, <2>1 DEF FramesTrue, Agrees
  <1> QED BY <1>1 DEF FramesTrue

LEMMA LeaseShift ==
  ASSUME NEW d \in Seq(ToBrowser), NEW g \in Nat, NEW o, NEW r \in Nat, NEW o2, NEW r2 \in Nat,
         NEW b \in Browser, LeaseTrue(b, d, g, o, r), r < r2
  PROVE  LeaseTrue(b, d, g, o2, r2)
  BY BrowserIs DEF LeaseTrue, Agrees

LEMMA GatewayTells ==
  ASSUME NEW d \in Seq(ToBrowser), NEW ms \in Seq(ToBrowser), NEW u \in Seq(ToGateway), NEW v, NEW b,
         NEW g \in Nat, NEW o, NEW r \in Nat, NEW o2, NEW r2 \in Nat, NEW jn, NEW jn2,
         ControlParts(b, u, d, g, o, r, jn), Served(u, v), (o2 = o /\ r2 = r) \/ r < r2,
         FramesTrue(ms, g, o2, r2), Present(ms, g, r2), AttachedTrue(b, v, d \o ms, g, o2, r2, jn2),
         u # <<>> /\ v = Tail(u) /\ b.ctl.attempt # NoAttempt /\ Head(u) \in Asked(b.ctl.attempt)
           => Holds(ms, Answers(b.ctl.attempt)),
         OfflineTrue(b, v, d \o ms, jn2)
  PROVE  ControlParts(b, v, d \o ms, g, o2, r2, jn2)
  <1>1. /\ b \in Browser /\ FramesTrue(d, g, o, r) /\ PhasesFit(b) /\ LeaseTrue(b, d, g, o, r)
        /\ AttemptTrue(b, u, d)
    BY DEF ControlParts, BrowserParts
  <1>2. FramesTrue(d, g, o2, r2) /\ LeaseTrue(b, d, g, o2, r2)
    BY <1>1, FramesShift, LeaseShift
  <1>3. FramesTrue(d \o ms, g, o2, r2)
    BY <1>2, FramesGrow
  <1>4. LeaseTrue(b, d \o ms, g, o2, r2)
    BY <1>2, LeaseGrow
  <1>5. AttemptTrue(b, v, d \o ms)
    BY <1>1, AttemptMore
  <1> QED BY <1>1, <1>3, <1>4, <1>5 DEF ControlParts, BrowserParts

\* A status of the present, and what is told of it.
LEMMA StatusIs ==
  ASSUME NEW g \in Nat, g > 0, NEW r \in Nat, NEW o \in {"free", "us", "other"}, NEW t \in Transition
  PROVE  LET m == LeaseStatus(g, r, o, t)
         IN  /\ m \in Status /\ m \in ToBrowser /\ IsLease(g, m) /\ Agrees(m, o, r) /\ m.revision = r
             /\ m.type = "lease_status" /\ m.generation = g
  BY DEF LeaseStatus, Status, ToBrowser, IsLease, Agrees

LEMMA OneTold ==
  ASSUME NEW g \in Nat, g > 0, NEW r \in Nat, NEW o \in {"free", "us", "other"}, NEW t \in Transition
  PROVE  LET ms == <<LeaseStatus(g, r, o, t)>>
         IN  /\ ms \in Seq(ToBrowser) /\ FramesTrue(ms, g, o, r) /\ Present(ms, g, r)
             /\ CurrentAfter(ms, g, r, 0)
  <1> DEFINE m == LeaseStatus(g, r, o, t)
  <1>1. /\ m \in ToBrowser /\ IsLease(g, m) /\ Agrees(m, o, r) /\ m.revision = r
        /\ m.type = "lease_status" /\ m.generation = g
    BY StatusIs
  <1> HIDE DEF m
  <1>2. <<m>> \in Seq(ToBrowser) /\ Len(<<m>>) = 1 /\ <<m>>[1] = m /\ \A i \in 1..Len(<<m>>) : i = 1
    BY <1>1
  <1>3. Ordered(<<m>>, g)
    BY <1>1, <1>2 DEF Ordered
  <1>4. FramesTrue(<<m>>, g, o, r)
    BY <1>1, <1>2, <1>3 DEF FramesTrue
  <1>5. Present(<<m>>, g, r) /\ CurrentAfter(<<m>>, g, r, 0)
    <2>1. 1 \in 1..Len(<<m>>) /\ 0 < 1
      BY <1>2
    <2> QED BY <1>1, <1>2, <2>1 DEF Present, CurrentAfter
  <1> QED BY <1>2, <1>4, <1>5 DEF m

\* One frame that is no status.
LEMMA OtherTold ==
  ASSUME NEW g \in Nat, g > 0, NEW r \in Nat, NEW o, NEW m \in ToBrowser,
         m.type \in {"session_error", "runtime_state"}, m.type = "runtime_state" => m.generation \in 1..g
  PROVE  /\ <<m>> \in Seq(ToBrowser) /\ FramesTrue(<<m>>, g, o, r) /\ Present(<<m>>, g, r)
         /\ \A h : Silent(<<m>>, h)
  <1>1. <<m>> \in Seq(ToBrowser) /\ Len(<<m>>) = 1 /\ <<m>>[1] = m /\ \A i \in 1..Len(<<m>>) : i = 1
    OBVIOUS
  <1>2. \A h : ~IsLease(h, m)
    BY DEF IsLease
  <1>3. \A h : Silent(<<m>>, h)
    BY <1>1, <1>2, SilentIs
  <1>4. Ordered(<<m>>, g) /\ Present(<<m>>, g, r)
    BY <1>1, <1>2 DEF Ordered, Present
  <1>5. FramesTrue(<<m>>, g, o, r)
    BY <1>1, <1>2, <1>4 DEF FramesTrue
  <1> QED BY <1>1, <1>3, <1>4, <1>5

LEMMA NothingTold ==
  ASSUME NEW g, NEW r, NEW o, NEW d \in Seq(ToBrowser)
  PROVE  /\ <<>> \in Seq(ToBrowser) /\ FramesTrue(<<>>, g, o, r) /\ Present(<<>>, g, r)
         /\ \A h : Silent(<<>>, h)
         /\ d \o <<>> = d
  <1>1. <<>> \in Seq(ToBrowser) /\ d \o <<>> = d /\ \A i \in 1..Len(<<>>) : FALSE
    OBVIOUS
  <1>2. Ordered(<<>>, g) /\ Present(<<>>, g, r)
    BY <1>1 DEF Ordered, Present
  <1>3. FramesTrue(<<>>, g, o, r)
    BY <1>1, <1>2 DEF FramesTrue
  <1> QED BY <1>1, <1>2, <1>3, SilentIs

\* A change of the lease, told to the connection when it is joined.
LEMMA CommitParts ==
  ASSUME NEW d \in Seq(ToBrowser), NEW u \in Seq(ToGateway), NEW v, NEW b,
         NEW g \in Nat, g > 0, NEW o, NEW r \in Nat, NEW o2 \in {"free", "us", "other"}, NEW t \in Transition,
         NEW jn \in BOOLEAN, ControlParts(b, u, d, g, o, r, jn), Served(u, v),
         u # <<>> /\ v = Tail(u) =>
           \/ Head(u).type \in {"claim", "release"}
           \/ Head(u).type = "takeover" /\ jn /\ Head(u).generation = g /\ Head(u).revision = r
  PROVE  ControlParts(b, v, IF jn THEN d \o <<LeaseStatus(g, r + 1, o2, t)>> ELSE d, g, o2, r + 1, jn)
  <1> DEFINE ms == <<LeaseStatus(g, r + 1, o2, t)>>
  <1>1. AttachedTrue(b, u, d, g, o, r, jn) /\ OfflineTrue(b, u, d, jn) /\ b \in Browser
    BY DEF ControlParts, BrowserParts
  <1>2. Attached(b, v, jn) => Attached(b, u, jn)
    BY AttachServed
  <1>3. OfflineTrue(b, v, d, jn)
    BY <1>1 DEF OfflineTrue, Served
  <1>4. r + 1 \in Nat /\ r < r + 1
    OBVIOUS
  <1>5. CASE jn
    <2>1. ms \in Seq(ToBrowser) /\ FramesTrue(ms, g, o2, r + 1) /\ Present(ms, g, r + 1) /\ CurrentAfter(ms, g, r + 1, 0)
      BY <1>4, OneTold
    <2>2. LeaseStatus(g, r + 1, o2, t) \in ToBrowser /\ IsLease(g, LeaseStatus(g, r + 1, o2, t))
          /\ LeaseStatus(g, r + 1, o2, t).revision = r + 1
      BY <1>4, StatusIs
    <2>3. ASSUME b.ctl.attempt # NoAttempt, u # <<>>, v = Tail(u), Head(u) \in Asked(b.ctl.attempt)
          PROVE  Holds(ms, Answers(b.ctl.attempt))
      <3>1. b.ctl.attempt.revision = r /\ b.ctl.attempt.generation = g
        BY <1>5, <2>3 DEF Asked
      <3>2. LeaseStatus(g, r + 1, o2, t) \in Answers(b.ctl.attempt)
        BY <1>4, <2>2, <3>1 DEF Answers
      <3> QED BY <3>2, HoldsFew
    <2> HIDE DEF ms
    <2>4. AttachedTrue(b, v, d \o ms, g, o2, r + 1, jn)
      BY <1>1, <1>2, <2>1, AttachTold
    <2>5. OfflineTrue(b, v, d \o ms, jn)
      BY <1>1, <1>5 DEF OfflineTrue
    <2>6. ControlParts(b, v, d \o ms, g, o2, r + 1, jn)
      BY <1>4, <2>1, <2>3, <2>4, <2>5, GatewayTells
    <2> QED BY <1>5, <2>6 DEF ms
  <1>6. CASE ~jn
    <2>1. <<>> \in Seq(ToBrowser) /\ FramesTrue(<<>>, g, o2, r + 1) /\ Present(<<>>, g, r + 1) /\ d \o <<>> = d
      BY NothingTold
    <2>2. AttachedTrue(b, v, d \o <<>>, g, o2, r + 1, jn)
      BY <1>6 DEF AttachedTrue, Attached
    <2>3. ASSUME u # <<>>, v = Tail(u) PROVE Head(u) \notin Asked(b.ctl.attempt)
      BY <2>3, <1>6 DEF Asked
    <2>4. OfflineTrue(b, v, d \o <<>>, jn)
      BY <1>3, <2>1
    <2>5. ControlParts(b, v, d \o <<>>, g, o2, r + 1, jn)
      BY <1>4, <2>1, <2>2, <2>3, <2>4, GatewayTells
    <2> QED BY <1>6, <2>1, <2>5
  <1> QED BY <1>5, <1>6

\* A refusal, or a word that the runtime has crashed: no status.
LEMMA RefuseParts ==
  ASSUME NEW d \in Seq(ToBrowser), NEW u \in Seq(ToGateway), NEW v, NEW b,
         NEW g \in Nat, g > 0, NEW o, NEW r \in Nat, NEW jn, ControlParts(b, u, d, g, o, r, jn), Served(u, v),
         NEW m \in ToBrowser, m.type \in {"session_error", "runtime_state"},
         m.type = "runtime_state" => m.generation \in 1..g,
         u # <<>> /\ v = Tail(u) => /\ Head(u).type \in {"claim", "takeover", "restart"}
                                    /\ Head(u).type = "takeover" => m = Refusal("takeover"),
         v = u => jn
  PROVE  ControlParts(b, v, d \o <<m>>, g, o, r, jn)
  <1>1. AttachedTrue(b, u, d, g, o, r, jn) /\ OfflineTrue(b, u, d, jn)
    BY DEF ControlParts, BrowserParts
  <1>2. <<m>> \in Seq(ToBrowser) /\ FramesTrue(<<m>>, g, o, r) /\ Present(<<m>>, g, r) /\ Silent(<<m>>, g)
    BY OtherTold
  <1>3. Attached(b, v, jn) => Attached(b, u, jn)
    BY AttachServed
  <1>4. Sent("release", u) => Sent("release", v)
    BY ServedKeeps DEF Sent
  <1>5. ASSUME u # <<>>, v = Tail(u), Head(u) \in Asked(b.ctl.attempt)
        PROVE  Holds(<<m>>, Answers(b.ctl.attempt))
    <2>1. m \in Answers(b.ctl.attempt)
      BY <1>5 DEF Asked, Refusal, Answers
    <2> QED BY <2>1, HoldsFew
  <1>6. AttachedTrue(b, v, d \o <<m>>, g, o, r, jn)
    BY <1>1, <1>2, <1>3, <1>4, AttachQuiet
  <1>7. OfflineTrue(b, v, d \o <<m>>, jn)
    BY <1>1 DEF OfflineTrue, Served
  <1> QED BY <1>2, <1>5, <1>6, <1>7, GatewayTells

\* The present lease is told again.
LEMMA ViewParts ==
  ASSUME NEW d \in Seq(ToBrowser), NEW u \in Seq(ToGateway), NEW v, NEW b,
         NEW g \in Nat, g > 0, NEW o \in {"free", "us", "other"}, NEW r \in Nat, NEW jn,
         ControlParts(b, u, d, g, o, r, jn), u # <<>>, v = Tail(u), Head(u).type \in {"claim", "release"}
  PROVE  ControlParts(b, v, d \o <<LeaseStatus(g, r, o, "baseline")>>, g, o, r, jn)
  <1> DEFINE ms == <<LeaseStatus(g, r, o, "baseline")>>
  <1>1. AttachedTrue(b, u, d, g, o, r, jn) /\ OfflineTrue(b, u, d, jn)
    BY DEF ControlParts, BrowserParts
  <1>2. "baseline" \in Transition /\ Served(u, v)
    BY DEF Transition, Served
  <1>3. ms \in Seq(ToBrowser) /\ FramesTrue(ms, g, o, r) /\ Present(ms, g, r) /\ CurrentAfter(ms, g, r, 0)
    BY <1>2, OneTold
  <1> HIDE DEF ms
  <1>4. Attached(b, v, jn) => Attached(b, u, jn)
    BY <1>2, AttachServed
  <1>5. Head(u) \notin Asked(b.ctl.attempt)
    BY DEF Asked
  <1>6. AttachedTrue(b, v, d \o ms, g, o, r, jn)
    BY <1>1, <1>3, <1>4, AttachTold
  <1>7. OfflineTrue(b, v, d \o ms, jn)
    BY <1>1 DEF OfflineTrue
  <1>8. ControlParts(b, v, d \o ms, g, o, r, jn)
    BY <1>2, <1>3, <1>5, <1>6, <1>7, GatewayTells
  <1> QED BY <1>8 DEF ms

\* A new generation, told to the connection when it is joined.
LEMMA RenewParts ==
  ASSUME NEW d \in Seq(ToBrowser), NEW u \in Seq(ToGateway), NEW v, NEW b,
         NEW g \in Nat, g > 0, NEW o, NEW r \in Nat, NEW jn \in BOOLEAN, ControlParts(b, u, d, g, o, r, jn),
         Served(u, v), u # <<>> /\ v = Tail(u) => Head(u).type = "restart"
  PROVE  ControlParts(b, v, IF jn THEN d \o <<RuntimeState(g + 1, FALSE)>> ELSE d, g + 1, "free", 0, jn)
  <1>1. /\ b \in Browser /\ FramesTrue(d, g, o, r) /\ PhasesFit(b) /\ LeaseTrue(b, d, g, o, r)
        /\ AttemptTrue(b, u, d) /\ OfflineTrue(b, u, d, jn)
    BY DEF ControlParts, BrowserParts
  <1>2. PICK ms : ms = IF jn THEN <<RuntimeState(g + 1, FALSE)>> ELSE <<>>
    OBVIOUS
  <1>3. RuntimeState(g + 1, FALSE) \in ToBrowser /\ RuntimeState(g + 1, FALSE).type = "runtime_state"
        /\ RuntimeState(g + 1, FALSE).generation = g + 1 /\ g + 1 \in Nat /\ g + 1 > 0
    BY DEF RuntimeState, ToBrowser, Announcement
  <1>4. ms \in Seq(ToBrowser) /\ FramesTrue(ms, g + 1, "free", 0) /\ Present(ms, g + 1, 0) /\ Silent(ms, g + 1)
    <2>1. g + 1 \in 1..(g + 1) /\ 0 \in Nat
      BY <1>3
    <2>2. CASE jn
      BY <1>2, <1>3, <2>1, <2>2, OtherTold
    <2>3. CASE ~jn
      BY <1>2, <2>3, NothingTold
    <2> QED BY <2>2, <2>3
  <1>5. \A i \in 1..Len(d) : ~IsLease(g + 1, d[i])
    BY <1>1 DEF FramesTrue, IsLease
  <1>6. FramesTrue(d, g + 1, "free", 0) /\ LeaseTrue(b, d, g + 1, "free", 0) /\ Silent(d, g + 1)
    <2>1. Ordered(d, g + 1)
      BY <1>5 DEF Ordered
    <2>2. b.generation <= g /\ b.generation \in Nat
      BY <1>1, BrowserIs DEF LeaseTrue
    <2> QED BY <1>1, <1>5, <2>1, <2>2, SilentIs DEF FramesTrue, LeaseTrue
  <1>7. 0 \in Nat
    OBVIOUS
  <1>8. FramesTrue(d \o ms, g + 1, "free", 0) /\ LeaseTrue(b, d \o ms, g + 1, "free", 0) /\ Silent(d \o ms, g + 1)
    BY <1>3, <1>4, <1>6, <1>7, FramesGrow, LeaseGrow, SilentGrow
  <1>9. AttachedTrue(b, v, d \o ms, g + 1, "free", 0, jn)
    <2>1. CASE jn
      <3>1. Len(ms) = 1 /\ ms[1] = RuntimeState(g + 1, FALSE)
        BY <1>2, <2>1
      <3>2. Len(d) + 1 \in 1..Len(d \o ms) /\ Announces((d \o ms)[Len(d) + 1], g + 1)
        <4>1. 1 \in 1..Len(ms)
          BY <3>1
        <4>2. Len(d) + 1 \in 1..Len(d \o ms) /\ (d \o ms)[Len(d) + 1] = ms[1]
          BY <1>4, <4>1, GrowIs
        <4> QED BY <1>3, <3>1, <4>2 DEF Announces
      <3>3. b.generation # g + 1
        BY <1>1, BrowserIs DEF LeaseTrue
      <3> QED BY <1>8, <3>2, <3>3 DEF AttachedTrue, Known
    <2>2. CASE ~jn
      BY <2>2 DEF AttachedTrue, Attached
    <2> QED BY <2>1, <2>2
  <1>10. AttemptTrue(b, v, d \o ms)
    <2>1. u # <<>> /\ v = Tail(u) => Head(u) \notin Asked(b.ctl.attempt)
      BY DEF Asked
    <2> QED BY <1>1, <1>4, <2>1, AttemptMore
  <1>11. OfflineTrue(b, v, d \o ms, jn)
    <2>1. ~jn => d \o ms = d
      BY <1>2, NothingTold
    <2> QED BY <1>1, <2>1 DEF OfflineTrue, Served
  <1>12. ControlParts(b, v, d \o ms, g + 1, "free", 0, jn)
    BY <1>1, <1>8, <1>9, <1>10, <1>11 DEF ControlParts, BrowserParts
  <1>13. ~jn => d \o ms = d
    BY <1>2, NothingTold
  <1> QED BY <1>2, <1>12, <1>13

\* The answer to a subscription tells the generation and then its lease.
Introduces(ms, g, r) ==
  \E i \in 1..Len(ms) : i = 1 /\ Announces(ms[i], g) /\ CurrentAfter(ms, g, r, i)

LEMMA SubscribeParts ==
  ASSUME NEW d \in Seq(ToBrowser), NEW u \in Seq(ToGateway), NEW v, NEW b,
         NEW g \in Nat, g > 0, NEW o, NEW r \in Nat, NEW jn, ControlParts(b, u, d, g, o, r, jn),
         u # <<>>, v = Tail(u), Head(u).type = "subscribe",
         NEW ms \in Seq(ToBrowser), FramesTrue(ms, g, o, r), Present(ms, g, r), Introduces(ms, g, r)
  PROVE  ControlParts(b, v, d \o ms, g, o, r, TRUE)
  <1>1. OfflineTrue(b, u, d, jn)
    BY DEF ControlParts, BrowserParts
  <1>2. PICK i \in 1..Len(ms) : i = 1 /\ Announces(ms[i], g) /\ CurrentAfter(ms, g, r, i)
    BY DEF Introduces
  <1>3. CurrentAfter(ms, g, r, 0)
    <2>1. PICK k \in 1..Len(ms) : 1 < k /\ IsLease(g, ms[k]) /\ ms[k].revision = r
      BY <1>2 DEF CurrentAfter
    <2> QED BY <2>1 DEF CurrentAfter
  <1>4. ~Silent(d \o ms, g) /\ CurrentAfter(d \o ms, g, r, 0)
    <2>1. 0 \in Nat /\ 0 <= Len(d)
      OBVIOUS
    <2> QED BY <1>3, <2>1, CurrentGrow, CurrentSpeaks, SilentGrow
  <1>5. Len(d) + 1 \in 1..Len(d \o ms) /\ (d \o ms)[Len(d) + 1] = ms[1]
    BY <1>2, GrowIs
  <1>6. CurrentAfter(d \o ms, g, r, Len(d) + 1)
    <2>1. PICK k \in 1..Len(ms) : 1 < k /\ IsLease(g, ms[k]) /\ ms[k].revision = r
      BY <1>2 DEF CurrentAfter
    <2>2. Len(d) + k \in 1..Len(d \o ms) /\ (d \o ms)[Len(d) + k] = ms[k] /\ Len(d) + 1 < Len(d) + k
      BY <2>1, GrowIs
    <2> QED BY <2>1, <2>2 DEF CurrentAfter
  <1>7. AttachedTrue(b, v, d \o ms, g, o, r, TRUE)
    BY <1>2, <1>4, <1>5, <1>6 DEF AttachedTrue, Known
  <1>8. Head(u) \notin Asked(b.ctl.attempt) /\ Served(u, v)
    BY DEF Asked, Served
  <1>9. OfflineTrue(b, v, d \o ms, TRUE)
    BY <1>1 DEF OfflineTrue
  <1> QED BY <1>7, <1>8, <1>9, GatewayTells

LEMMA OneBefore ==
  ASSUME NEW x, NEW y, NEW z, NEW w
  PROVE  <<x>> \o <<y>> = <<x, y>> /\ <<x>> \o <<y, z, w>> = <<x, y, z, w>>
  <1>1. ASSUME NEW S, NEW p \in Seq(S), NEW q \in Seq(S)
        PROVE  /\ p \o q \in Seq(S) /\ Len(p \o q) = Len(p) + Len(q)
               /\ \A i \in 1..Len(p) : (p \o q)[i] = p[i]
               /\ \A i \in 1..Len(q) : (p \o q)[Len(p) + i] = q[i]
    OBVIOUS
  <1> DEFINE T == {x, y, z, w}
  <1>2. PICK p, q, t, q2, t2 :
          p = <<x>> /\ q = <<y, z, w>> /\ t = <<x, y, z, w>> /\ q2 = <<y>> /\ t2 = <<x, y>>
    OBVIOUS
  <1>3. /\ p \in Seq(T) /\ Len(p) = 1 /\ p[1] = x
        /\ q \in Seq(T) /\ Len(q) = 3 /\ q[1] = y /\ q[2] = z /\ q[3] = w
        /\ t \in Seq(T) /\ Len(t) = 4 /\ t[1] = x /\ t[2] = y /\ t[3] = z /\ t[4] = w
        /\ q2 \in Seq(T) /\ Len(q2) = 1 /\ q2[1] = y
        /\ t2 \in Seq(T) /\ Len(t2) = 2 /\ t2[1] = x /\ t2[2] = y
    BY <1>2
  <1> HIDE DEF T
  <1>4. p \o q = t
    <2>0. /\ p \o q \in Seq(T) /\ Len(p \o q) = Len(p) + Len(q)
          /\ \A i \in 1..Len(p) : (p \o q)[i] = p[i]
          /\ \A i \in 1..Len(q) : (p \o q)[Len(p) + i] = q[i]
      <3>1. p \in Seq(T) /\ q \in Seq(T)
        BY <1>3
      <3> QED BY <3>1, <1>1
    <2>1. /\ p \o q \in Seq(T) /\ Len(p \o q) = 1 + 3 /\ \A i \in 1..1 : (p \o q)[i] = p[i]
          /\ \A i \in 1..3 : (p \o q)[1 + i] = q[i]
      BY <1>3, <2>0
    <2>2. (p \o q)[1] = x /\ (p \o q)[1 + 1] = y /\ (p \o q)[1 + 2] = z /\ (p \o q)[1 + 3] = w
      BY <1>3, <2>1
    <2>3. \A i \in 1..Len(p \o q) : (p \o q)[i] = t[i]
      BY <1>3, <2>1, <2>2
    <2> QED BY <1>3, <2>1, <2>3, SeqEqual, SMTT(60)
  <1>5. p \o q2 = t2
    <2>0. /\ p \o q2 \in Seq(T) /\ Len(p \o q2) = Len(p) + Len(q2)
          /\ \A i \in 1..Len(p) : (p \o q2)[i] = p[i]
          /\ \A i \in 1..Len(q2) : (p \o q2)[Len(p) + i] = q2[i]
      <3>1. p \in Seq(T) /\ q2 \in Seq(T)
        BY <1>3
      <3> QED BY <3>1, <1>1
    <2>1. /\ p \o q2 \in Seq(T) /\ Len(p \o q2) = 1 + 1 /\ \A i \in 1..1 : (p \o q2)[i] = p[i]
          /\ \A i \in 1..1 : (p \o q2)[1 + i] = q2[i]
      BY <1>3, <2>0
    <2>2. (p \o q2)[1] = x /\ (p \o q2)[1 + 1] = y
      BY <1>3, <2>1
    <2>3. \A i \in 1..Len(p \o q2) : (p \o q2)[i] = t2[i]
      BY <1>3, <2>1, <2>2
    <2> QED BY <1>3, <2>1, <2>3, SeqEqual
  <1> QED BY <1>2, <1>4, <1>5

\* The three answers are so.
LEMMA AnswersTrue ==
  ASSUME NEW g \in Nat, g > 0, NEW o \in {"free", "us", "other"}, NEW r \in Nat, NEW over \in BOOLEAN,
         NEW ms,
         LET state == RuntimeState(g, over)
             resync == [type |-> "resync_required", generation |-> g, overflowed |-> over]
             snap == [type |-> "session_snapshot", generation |-> g]
             view == LeaseStatus(g, r, o, "baseline")
         IN  \/ ms = <<state>> \o <<view>>
             \/ ms = <<state>> \o <<resync, view, Refusal("subscribe")>>
             \/ ms = <<state>> \o <<resync, snap, view>>
  PROVE  ms \in Seq(ToBrowser) /\ FramesTrue(ms, g, o, r) /\ Present(ms, g, r) /\ Introduces(ms, g, r)
  <1>1. PICK view : view = LeaseStatus(g, r, o, "baseline")
    OBVIOUS
  <1>2. /\ view \in ToBrowser /\ IsLease(g, view) /\ Agrees(view, o, r) /\ view.revision = r
        /\ view.type = "lease_status" /\ view.generation = g
    <2>1. "baseline" \in Transition
      BY DEF Transition
    <2> QED BY <1>1, <2>1, StatusIs
  <1>3. PICK state, resync, snap, no :
          /\ state = RuntimeState(g, over) /\ no = Refusal("subscribe")
          /\ resync = [type |-> "resync_required", generation |-> g, overflowed |-> over]
          /\ snap = [type |-> "session_snapshot", generation |-> g]
    OBVIOUS
  <1>4. /\ state \in ToBrowser /\ state.type = "runtime_state" /\ state.generation = g
        /\ resync \in ToBrowser /\ resync.type = "resync_required" /\ resync.generation = g
    BY <1>3 DEF ToBrowser, Announcement, RuntimeState
  <1>5. /\ snap \in ToBrowser /\ snap.type = "session_snapshot" /\ snap.generation = g
        /\ no \in ToBrowser /\ no.type = "session_error"
    BY <1>3 DEF ToBrowser, SnapshotFrame, ErrorFrame, Refusal
  <1>6. g \in 1..g
    OBVIOUS
  <1>7. Announces(state, g) /\ ~IsLease(g, state) /\ ~IsLease(g, resync) /\ ~IsLease(g, snap) /\ ~IsLease(g, no)
    BY <1>4, <1>5 DEF Announces, IsLease
  <1>8. CASE ms = <<state, view>>
    <2>1. /\ ms \in Seq(ToBrowser) /\ ms[1] = state /\ ms[2] = view /\ Len(ms) = 2
          /\ 1 \in 1..Len(ms) /\ 2 \in 1..Len(ms) /\ \A i \in 1..Len(ms) : i = 1 \/ i = 2
      BY <1>2, <1>4, <1>8
    <2>2. Ordered(ms, g) /\ Present(ms, g, r)
      BY <1>2, <1>7, <2>1 DEF Ordered, Present
    <2>3. FramesTrue(ms, g, o, r)
      <3>1. ASSUME NEW i \in 1..Len(ms)
            PROVE  /\ ms[i].type # "session_error" => ms[i].generation \in 1..g
                   /\ IsLease(g, ms[i]) => Agrees(ms[i], o, r)
                   /\ ms[i].type \notin {"resync_required", "session_snapshot"}
        BY <1>2, <1>4, <1>6, <1>7, <2>1
      <3> QED BY <2>2, <3>1 DEF FramesTrue
    <2>4. Introduces(ms, g, r)
      BY <1>2, <1>7, <2>1 DEF Introduces, CurrentAfter
    <2> QED BY <2>1, <2>2, <2>3, <2>4
  <1>9. CASE ms = <<state, resync, view, no>>
    <2>1. /\ ms \in Seq(ToBrowser) /\ ms[1] = state /\ ms[2] = resync /\ ms[3] = view /\ ms[4] = no /\ Len(ms) = 4
          /\ 1 \in 1..Len(ms) /\ 3 \in 1..Len(ms) /\ \A i \in 1..Len(ms) : i = 1 \/ i = 2 \/ i = 3 \/ i = 4
      BY <1>2, <1>4, <1>5, <1>9
    <2>2. Ordered(ms, g) /\ Present(ms, g, r)
      BY <1>2, <1>7, <2>1 DEF Ordered, Present
    <2>3. FramesTrue(ms, g, o, r)
      <3>1. ASSUME NEW i \in 1..Len(ms)
            PROVE  /\ ms[i].type # "session_error" => ms[i].generation \in 1..g
                   /\ IsLease(g, ms[i]) => Agrees(ms[i], o, r)
                   /\ ms[i].type \in {"resync_required", "session_snapshot"} => i = 2 /\ ms[i].generation = g
        BY <1>2, <1>4, <1>5, <1>6, <1>7, <2>1
      <3>2. ASSUME NEW i \in 1..Len(ms), i = 2, ms[i].generation = g PROVE Answered(ms, i)
        BY <1>2, <2>1, <3>2 DEF Answered
      <3> QED BY <2>2, <3>1, <3>2 DEF FramesTrue
    <2>4. Introduces(ms, g, r)
      BY <1>2, <1>7, <2>1 DEF Introduces, CurrentAfter
    <2> QED BY <2>1, <2>2, <2>3, <2>4
  <1>10. CASE ms = <<state, resync, snap, view>>
    <2>1. /\ ms \in Seq(ToBrowser) /\ ms[1] = state /\ ms[2] = resync /\ ms[3] = snap /\ ms[4] = view /\ Len(ms) = 4
          /\ 1 \in 1..Len(ms) /\ 4 \in 1..Len(ms) /\ \A i \in 1..Len(ms) : i = 1 \/ i = 2 \/ i = 3 \/ i = 4
      BY <1>2, <1>4, <1>5, <1>10
    <2>2. Ordered(ms, g) /\ Present(ms, g, r)
      BY <1>2, <1>7, <2>1 DEF Ordered, Present
    <2>3. FramesTrue(ms, g, o, r)
      <3>1. ASSUME NEW i \in 1..Len(ms)
            PROVE  /\ ms[i].type # "session_error" => ms[i].generation \in 1..g
                   /\ IsLease(g, ms[i]) => Agrees(ms[i], o, r)
                   /\ ms[i].type \in {"resync_required", "session_snapshot"} => i < 4 /\ ms[i].generation = g
        BY <1>2, <1>4, <1>5, <1>6, <1>7, <2>1
      <3>2. ASSUME NEW i \in 1..Len(ms), i < 4, ms[i].generation = g PROVE Answered(ms, i)
        BY <1>2, <2>1, <3>2 DEF Answered
      <3> QED BY <2>2, <3>1, <3>2 DEF FramesTrue
    <2>4. Introduces(ms, g, r)
      BY <1>2, <1>7, <2>1 DEF Introduces, CurrentAfter
    <2> QED BY <2>1, <2>2, <2>3, <2>4
  <1>11. /\ <<state>> \o <<view>> = <<state, view>>
         /\ <<state>> \o <<resync, view, no>> = <<state, resync, view, no>>
         /\ <<state>> \o <<resync, snap, view>> = <<state, resync, snap, view>>
    BY OneBefore
  <1> QED BY <1>1, <1>3, <1>8, <1>9, <1>10, <1>11

\* The steps themselves.
LEMMA ShapeIs ==
  ASSUME ControlInv
  PROVE  /\ generation \in Nat /\ generation > 0 /\ revision \in Nat /\ owner \in {"free", "us", "other"}
         /\ joined \in BOOLEAN /\ up \in Seq(ToGateway) /\ down \in Seq(ToBrowser) /\ overflowed \in BOOLEAN
         /\ ControlParts(browser, up, down, generation, owner, revision, joined)
         /\ browser \in Browser /\ MaxGeneration \in Nat /\ MaxRevision \in Nat /\ MaxControl \in Nat
  BY ControlAssumption DEF ControlInv, GatewayShape, ControlParts, BrowserParts

LEMMA CommitStep ==
  ASSUME ControlInv, NEW o \in {"free", "us", "other"}, NEW t \in Transition, Commit(o, t), Served(up, up'),
         browser' = browser, requests' = requests,
         up # <<>> /\ up' = Tail(up) =>
           \/ Head(up).type \in {"claim", "release"}
           \/ Head(up).type = "takeover" /\ joined /\ Head(up).generation = generation /\ Head(up).revision = revision
  PROVE  ControlInv'
  <1>1. ControlParts(browser, up', IF joined THEN down \o <<LeaseStatus(generation, revision + 1, o, t)>> ELSE down,
                     generation, o, revision + 1, joined)
    <2>1. /\ generation \in Nat /\ generation > 0 /\ revision \in Nat /\ joined \in BOOLEAN
          /\ up \in Seq(ToGateway) /\ down \in Seq(ToBrowser)
          /\ ControlParts(browser, up, down, generation, owner, revision, joined)
      BY ShapeIs
    <2> QED BY <2>1, CommitParts, ZenonT(100)
  <1>2. down' = IF joined THEN down \o <<LeaseStatus(generation, revision + 1, o, t)>> ELSE down
    BY ShapeIs DEF Commit, Tell
  <1>3. ControlParts(browser', up', down', generation', owner', revision', joined')
    BY <1>1, <1>2 DEF Commit
  <1>4. down' \in Seq(ToBrowser) /\ up' \in Seq(ToGateway)
    <2>1. <<LeaseStatus(generation, revision + 1, o, t)>> \in Seq(ToBrowser)
      <3>1. generation \in Nat /\ generation > 0 /\ revision + 1 \in Nat
        BY ShapeIs
      <3> QED BY <3>1, OneTold
    <2> QED BY <1>2, <2>1, ShapeIs, GrowIs, ServedKeeps
  <1>5. GatewayShape'
    BY <1>4, ControlAssumption DEF ControlInv, GatewayShape, Commit
  <1> QED BY <1>3, <1>5 DEF ControlInv

LEMMA OtherActsStep ==
  ASSUME ControlInv, OtherActs
  PROVE  ControlInv'
  <1>1. PICK o \in {"free", "us", "other"}, t \in Transition : Commit(o, t)
    BY DEF OtherActs, Transition
  <1>2. Served(up, up') /\ browser' = browser /\ requests' = requests
    BY DEF OtherActs, Served
  <1>3. ~(up # <<>> /\ up' = Tail(up))
    <2>1. Len(Tail(up)) # Len(up) \/ up = <<>>
      BY ShapeIs
    <2> QED BY <2>1 DEF OtherActs
  <1> QED BY <1>1, <1>2, <1>3, CommitStep

LEMMA RenewStep ==
  ASSUME ControlInv, NewGeneration, generation < MaxGeneration, Served(up, up'), browser' = browser,
         requests' = requests, up # <<>> /\ up' = Tail(up) => Head(up).type = "restart"
  PROVE  ControlInv'
  <1>1. ControlParts(browser, up', IF joined THEN down \o <<RuntimeState(generation + 1, FALSE)>> ELSE down,
                     generation + 1, "free", 0, joined)
    BY ShapeIs, RenewParts
  <1>2. down' = IF joined THEN down \o <<RuntimeState(generation + 1, FALSE)>> ELSE down
    BY ShapeIs DEF NewGeneration, Tell
  <1>3. ControlParts(browser', up', down', generation', owner', revision', joined')
    BY <1>1, <1>2 DEF NewGeneration
  <1>4. down' \in Seq(ToBrowser) /\ up' \in Seq(ToGateway)
    <2>1. RuntimeState(generation + 1, FALSE) \in ToBrowser
      BY ShapeIs DEF RuntimeState, ToBrowser, Announcement
    <2>2. \A m \in ToBrowser : <<m>> \in Seq(ToBrowser)
      OBVIOUS
    <2> QED BY <1>2, <2>1, <2>2, ShapeIs, GrowIs, ServedKeeps
  <1>5. GatewayShape'
    <2>1. generation + 1 \in 1..MaxGeneration /\ 0 \in 0..MaxRevision /\ requests \in 0..MaxControl
      BY ShapeIs DEF ControlInv, GatewayShape
    <2>2. /\ generation' = generation + 1 /\ overflowed' = FALSE /\ owner' = "free" /\ revision' = 0
          /\ joined' = joined
      BY DEF NewGeneration
    <2> QED BY <1>4, <2>1, <2>2, ShapeIs DEF GatewayShape
  <1> QED BY <1>3, <1>5 DEF ControlInv

LEMMA NotServed ==
  ASSUME ControlInv, up' = up
  PROVE  Served(up, up') /\ ~(up # <<>> /\ up' = Tail(up))
  <1>1. Len(Tail(up)) # Len(up) \/ up = <<>>
    BY ShapeIs
  <1> QED BY <1>1 DEF Served

LEMMA RestartsStep ==
  ASSUME ControlInv, Restarts
  PROVE  ControlInv'
  <1>1. NewGeneration /\ generation < MaxGeneration /\ up' = up /\ browser' = browser /\ requests' = requests
    BY DEF Restarts
  <1> QED BY <1>1, NotServed, RenewStep

LEMMA OverflowsStep ==
  ASSUME ControlInv, Overflows
  PROVE  ControlInv'
  <1>1. /\ up' = up /\ browser' = browser /\ requests < MaxControl /\ requests' = requests + 1 /\ overflowed' = TRUE
        /\ generation' = generation /\ owner' = owner /\ revision' = revision /\ joined' = joined
        /\ down' = IF joined THEN down \o <<RuntimeState(generation, TRUE)>> ELSE down
    BY ShapeIs DEF Overflows, Tell
  <1> DEFINE m == RuntimeState(generation, TRUE)
  <1>2. m \in ToBrowser /\ m.type = "runtime_state" /\ m.generation \in 1..generation
    BY ShapeIs DEF RuntimeState, ToBrowser, Announcement
  <1> HIDE DEF m
  <1>3. joined => ControlParts(browser, up, down \o <<m>>, generation, owner, revision, joined)
    <2>1. Served(up, up) /\ ~(up # <<>> /\ up = Tail(up))
      BY <1>1, NotServed
    <2> QED BY <1>2, <2>1, ShapeIs, RefuseParts
  <1>4. ControlParts(browser', up', down', generation', owner', revision', joined')
    BY <1>1, <1>3, ShapeIs DEF m
  <1>5. down' \in Seq(ToBrowser) /\ requests' \in 0..MaxControl
    <2>1. <<m>> \in Seq(ToBrowser)
      BY <1>2
    <2>2. requests' \in 0..MaxControl
      BY <1>1, ControlAssumption DEF ControlInv, GatewayShape
    <2> QED BY <1>1, <2>1, <2>2, ShapeIs, GrowIs DEF m
  <1>6. GatewayShape'
    BY <1>1, <1>5 DEF ControlInv, GatewayShape
  <1> QED BY <1>4, <1>6 DEF ControlInv

\* The runtime is unchanged and frames are told.
LEMMA TellStep ==
  ASSUME ControlInv, NEW ms \in Seq(ToBrowser), down' = down \o ms, up' \in Seq(ToGateway),
         browser' = browser, requests' = requests, generation' = generation, overflowed' = overflowed,
         owner' = owner, revision' = revision, joined' \in BOOLEAN,
         ControlParts(browser, up', down \o ms, generation, owner, revision, joined')
  PROVE  ControlInv'
  <1>1. down' \in Seq(ToBrowser)
    BY ShapeIs, GrowIs
  <1>2. GatewayShape'
    BY <1>1 DEF ControlInv, GatewayShape
  <1> QED BY <1>2 DEF ControlInv

LEMMA SubscribeServed ==
  ASSUME ControlInv, up # <<>>, up' = Tail(up), Head(up).type = "subscribe", AnswerSubscribe(Head(up)),
         browser' = browser, requests' = requests
  PROVE  ControlInv'
  <1> DEFINE state == RuntimeState(generation, overflowed)
             resync == [type |-> "resync_required", generation |-> generation, overflowed |-> overflowed]
             snap == [type |-> "session_snapshot", generation |-> generation]
             view == LeaseStatus(generation, revision, owner, "baseline")
  <1>1. PICK ms : /\ down' = down \o ms
                  /\ \/ ms = <<state>> \o <<view>>
                     \/ ms = <<state>> \o <<resync, view, Refusal("subscribe")>>
                     \/ ms = <<state>> \o <<resync, snap, view>>
    BY DEF AnswerSubscribe, Tell, View
  <1>2. /\ ms \in Seq(ToBrowser) /\ FramesTrue(ms, generation, owner, revision)
        /\ Present(ms, generation, revision) /\ Introduces(ms, generation, revision)
    BY <1>1, ShapeIs, AnswersTrue
  <1>3. ControlParts(browser, up', down \o ms, generation, owner, revision, TRUE)
    BY <1>2, ShapeIs, SubscribeParts
  <1>4. up' \in Seq(ToGateway)
    BY ShapeIs, HoldsTail
  <1>5. /\ joined' = TRUE /\ generation' = generation /\ overflowed' = overflowed /\ owner' = owner
        /\ revision' = revision
    BY DEF AnswerSubscribe
  <1> QED BY <1>1, <1>2, <1>3, <1>4, <1>5, TellStep

LEMMA RefusalServed ==
  ASSUME ControlInv, up # <<>>, up' = Tail(up), NEW op \in {"claim", "takeover", "restart"}, Head(up).type = op,
         down' = down \o <<Refusal(op)>>, UNCHANGED <<gateway, browser, requests>>
  PROVE  ControlInv'
  <1> DEFINE m == Refusal(op)
  <1>1. m \in ToBrowser /\ m.type = "session_error" /\ (op = "takeover" => m = Refusal("takeover"))
    BY DEF Refusal, ToBrowser, ErrorFrame
  <1> HIDE DEF m
  <1>2. Served(up, up') /\ up' # up
    <2>1. Len(Tail(up)) # Len(up)
      BY ShapeIs
    <2> QED BY <2>1 DEF Served
  <1>3. ControlParts(browser, up', down \o <<m>>, generation, owner, revision, joined)
    <2>1. /\ generation \in Nat /\ generation > 0 /\ revision \in Nat
          /\ up \in Seq(ToGateway) /\ down \in Seq(ToBrowser)
          /\ ControlParts(browser, up, down, generation, owner, revision, joined)
      BY ShapeIs
    <2> QED BY <1>1, <1>2, <2>1, RefuseParts
  <1>4. <<m>> \in Seq(ToBrowser) /\ up' \in Seq(ToGateway)
    BY <1>1, ShapeIs, HoldsTail
  <1>5. down' = down \o <<m>>
    BY DEF m
  <1> QED BY <1>3, <1>4, <1>5, ShapeIs, TellStep DEF gateway

LEMMA ViewServed ==
  ASSUME ControlInv, up # <<>>, up' = Tail(up), Head(up).type \in {"claim", "release"},
         down' = down \o <<View("baseline")>>, UNCHANGED <<gateway, browser, requests>>
  PROVE  ControlInv'
  <1> DEFINE ms == <<LeaseStatus(generation, revision, owner, "baseline")>>
  <1>1. ms \in Seq(ToBrowser)
    <2>1. "baseline" \in Transition
      BY DEF Transition
    <2> QED BY <2>1, ShapeIs, OneTold
  <1>2. ControlParts(browser, up', down \o ms, generation, owner, revision, joined)
    BY ShapeIs, ViewParts
  <1>3. down' = down \o ms
    BY DEF View
  <1> HIDE DEF ms
  <1>4. up' \in Seq(ToGateway)
    BY ShapeIs, HoldsTail
  <1> QED BY <1>1, <1>2, <1>3, <1>4, ShapeIs, TellStep DEF gateway

LEMMA UnsubscribeServed ==
  ASSUME ControlInv, up # <<>>, up' = Tail(up), Head(up).type = "unsubscribe", revision < MaxRevision,
         Answer(Head(up)), UNCHANGED <<browser, requests>>
  PROVE  ControlInv'
  <1>1. /\ joined' = FALSE /\ generation' = generation /\ overflowed' = overflowed /\ down' = down
        /\ IF owner = "us" THEN owner' = "free" /\ revision' = revision + 1
           ELSE owner' = owner /\ revision' = revision
    BY DEF Answer
  <1>2. /\ owner' \in {"free", "us", "other"} /\ revision' \in Nat /\ revision' \in 0..MaxRevision
        /\ (owner' = owner /\ revision' = revision) \/ revision < revision'
    BY <1>1, ShapeIs
  <1>3. /\ <<>> \in Seq(ToBrowser) /\ FramesTrue(<<>>, generation, owner', revision')
        /\ Present(<<>>, generation, revision') /\ down \o <<>> = down
    BY ShapeIs, NothingTold
  <1>4. Served(up, up') /\ up' \in Seq(ToGateway) /\ Head(up) \notin Asked(browser.ctl.attempt)
    BY ShapeIs, HoldsTail DEF Served, Asked
  <1>5. AttachedTrue(browser, up', down \o <<>>, generation, owner', revision', FALSE)
    BY DEF AttachedTrue, Attached
  <1>6. OfflineTrue(browser, up', down \o <<>>, FALSE)
    BY <1>3, ShapeIs DEF ControlParts, BrowserParts, OfflineTrue
  <1>7. ControlParts(browser, up', down \o <<>>, generation, owner', revision', FALSE)
    <2>1. /\ generation \in Nat /\ revision \in Nat /\ up \in Seq(ToGateway) /\ down \in Seq(ToBrowser)
          /\ ControlParts(browser, up, down, generation, owner, revision, joined)
      BY ShapeIs
    <2> QED BY <1>2, <1>3, <1>4, <1>5, <1>6, <2>1, GatewayTells
  <1>8. GatewayShape'
    BY <1>1, <1>2, <1>4 DEF ControlInv, GatewayShape
  <1> QED BY <1>1, <1>3, <1>7, <1>8 DEF ControlInv

LEMMA ServeStep ==
  ASSUME ControlInv, Serve
  PROVE  ControlInv'
  <1>1. /\ up # <<>> /\ up' = Tail(up) /\ browser' = browser /\ requests' = requests
        /\ Head(up).type = "restart" => generation < MaxGeneration
        /\ Head(up).type = "unsubscribe" => revision < MaxRevision
        /\ Answer(Head(up))
    BY DEF Serve
  <1>2. Head(up).type \in {"claim", "release", "unsubscribe", "subscribe", "takeover", "restart"}
    <2>1. Head(up) \in ToGateway
      BY <1>1, ShapeIs, HoldsTail
    <2> QED BY <2>1 DEF ToGateway
  <1>3. Served(up, up')
    BY <1>1 DEF Served
  <1>4. CASE Head(up).type = "subscribe"
    <2>1. AnswerSubscribe(Head(up))
      BY <1>1, <1>4 DEF Answer
    <2> QED BY <1>1, <1>4, <2>1, SubscribeServed
  <1>5. CASE Head(up).type = "unsubscribe"
    BY <1>1, <1>5, UnsubscribeServed
  <1>6. CASE Head(up).type = "claim"
    <2>1. IF ~joined THEN Tell(<<Refusal("claim")>>) /\ UNCHANGED gateway
          ELSE IF owner = "free" THEN Commit("us", "claim")
          ELSE Tell(<<View("baseline")>>) /\ UNCHANGED gateway
      BY <1>1, <1>6 DEF Answer
    <2>2. CASE ~joined
      BY <1>1, <1>6, <2>1, <2>2, RefusalServed DEF Tell
    <2>3. CASE joined /\ owner = "free"
      <3>1. Commit("us", "claim") /\ "claim" \in Transition
        BY <2>1, <2>3 DEF Transition
      <3> QED BY <1>1, <1>3, <1>6, <3>1, CommitStep
    <2>4. CASE joined /\ owner # "free"
      BY <1>1, <1>6, <2>1, <2>4, ViewServed DEF Tell
    <2> QED BY <2>2, <2>3, <2>4
  <1>7. CASE Head(up).type = "release"
    <2>1. IF owner = "us" THEN Commit("free", "release")
          ELSE Tell(<<View("baseline")>>) /\ UNCHANGED gateway
      BY <1>1, <1>7 DEF Answer
    <2>2. CASE owner = "us"
      <3>1. Commit("free", "release") /\ "release" \in Transition
        BY <2>1, <2>2 DEF Transition
      <3> QED BY <1>1, <1>3, <1>7, <3>1, CommitStep
    <2>3. CASE owner # "us"
      BY <1>1, <1>7, <2>1, <2>3, ViewServed DEF Tell
    <2> QED BY <2>2, <2>3
  <1>8. CASE Head(up).type = "takeover"
    <2> DEFINE granted == /\ joined /\ Head(up).generation = generation /\ Head(up).revision = revision
                          /\ owner = "other" /\ ~overflowed
    <2>1. IF granted THEN Commit("us", "takeover") ELSE Tell(<<Refusal("takeover")>>) /\ UNCHANGED gateway
      BY <1>1, <1>8 DEF Answer
    <2>2. CASE granted
      <3>1. Commit("us", "takeover") /\ "takeover" \in Transition
        BY <2>1, <2>2 DEF Transition
      <3> QED BY <1>1, <1>3, <1>8, <2>2, <3>1, CommitStep
    <2>3. CASE ~granted
      BY <1>1, <1>8, <2>1, <2>3, RefusalServed DEF Tell
    <2> QED BY <2>2, <2>3
  <1>9. CASE Head(up).type = "restart"
    <2> DEFINE granted == /\ Head(up).generation = generation /\ overflowed /\ owner = "us"
                          /\ Head(up).revision = revision
    <2>1. IF granted THEN NewGeneration ELSE Tell(<<Refusal("restart")>>) /\ UNCHANGED gateway
      BY <1>1, <1>9 DEF Answer
    <2>2. CASE granted
      BY <1>1, <1>3, <1>9, <2>1, <2>2, RenewStep
    <2>3. CASE ~granted
      BY <1>1, <1>9, <2>1, <2>3, RefusalServed DEF Tell
    <2> QED BY <2>2, <2>3
  <1> QED BY <1>2, <1>4, <1>5, <1>6, <1>7, <1>8, <1>9

-----------------------------------------------------------------------------
(* What the browser does, by what it changes                               *)

\* What a handler returns, once it has sent what it had to send.
Done(b) == [b EXCEPT !.out = <<>>]

SameChannel(b, c) ==
  /\ c.online = b.online /\ c.generation = b.generation /\ c.ctl.subscribed = b.ctl.subscribed
  /\ c.baseline = b.baseline /\ c.resync = b.resync /\ c.waiter = b.waiter /\ c.degraded = b.degraded
SameControl(b, c) ==
  /\ c.ctl.lease = b.ctl.lease /\ c.ctl.pending = b.ctl.pending /\ c.ctl.attempt = b.ctl.attempt
  /\ c.ctl.fresh = b.ctl.fresh /\ c.offering = b.offering
  /\ c.ctl.released => b.ctl.released
Alike(b, c) == c \in Browser /\ SameChannel(b, c) /\ SameControl(b, c)

LEMMA AlikeParts ==
  ASSUME NEW b, NEW c, Alike(b, c), NEW u, NEW d, NEW g, NEW o, NEW r, NEW jn,
         BrowserParts(b, u, d, g, o, r, jn)
  PROVE  BrowserParts(c, u, d, g, o, r, jn)
  <1>1. /\ c.online = b.online /\ c.generation = b.generation /\ c.ctl.subscribed = b.ctl.subscribed
        /\ c.baseline = b.baseline /\ c.resync = b.resync /\ c.waiter = b.waiter /\ c.degraded = b.degraded
        /\ c.ctl.lease = b.ctl.lease /\ c.ctl.pending = b.ctl.pending /\ c.ctl.attempt = b.ctl.attempt
        /\ c.ctl.fresh = b.ctl.fresh /\ c.offering = b.offering /\ (c.ctl.released => b.ctl.released)
        /\ c \in Browser
    BY DEF Alike, SameChannel, SameControl
  <1>2. (Fresh(c) <=> Fresh(b)) /\ (Pends(c) <=> Pends(b)) /\ (Attached(c, u, jn) <=> Attached(b, u, jn))
    BY <1>1 DEF Fresh, Pends, Attached
  <1>3. PhasesFit(c)
    BY <1>1, <1>2 DEF BrowserParts, PhasesFit
  <1>4. LeaseTrue(c, d, g, o, r)
    BY <1>1, <1>2 DEF BrowserParts, LeaseTrue
  <1>5. AttachedTrue(c, u, d, g, o, r, jn)
    BY <1>1, <1>2 DEF BrowserParts, AttachedTrue, Known, Shown, Settled
  <1>6. AttemptTrue(c, u, d)
    BY <1>1, <1>2 DEF BrowserParts, AttemptTrue, Outstanding
  <1> QED BY <1>1, <1>3, <1>4, <1>5, <1>6 DEF BrowserParts, OfflineTrue

\* What is sent does no harm.
LEMMA SentMore ==
  ASSUME NEW u \in Seq(ToGateway), NEW p \in Seq(ToGateway)
  PROVE  /\ u \o p \in Seq(ToGateway)
         /\ \A S : Holds(u, S) \/ Holds(p, S) <=> Holds(u \o p, S)
         /\ \A t : Sent(t, u) \/ Sent(t, p) <=> Sent(t, u \o p)
         /\ \A b, jn : Attached(b, u \o p, jn) => Attached(b, u, jn)
  <1>1. u \o p \in Seq(ToGateway) /\ \A S : Holds(u, S) \/ Holds(p, S) <=> Holds(u \o p, S)
    BY HoldsConcat
  <1>2. \A t : Sent(t, u) \/ Sent(t, p) <=> Sent(t, u \o p)
    BY <1>1 DEF Sent
  <1> QED BY <1>1, <1>2 DEF Attached

LEMMA PostParts ==
  ASSUME NEW b, NEW u \in Seq(ToGateway), NEW p \in Seq(ToGateway), b.online \/ p = <<>>,
         NEW d, NEW g, NEW o, NEW r, NEW jn, BrowserParts(b, u, d, g, o, r, jn)
  PROVE  BrowserParts(b, u \o p, d, g, o, r, jn)
  <1>1. AttachedTrue(b, u \o p, d, g, o, r, jn)
    BY SentMore DEF BrowserParts, AttachedTrue
  <1>2. AttemptTrue(b, u \o p, d)
    BY SentMore DEF BrowserParts, AttemptTrue, Outstanding
  <1>3. OfflineTrue(b, u \o p, d, jn)
    BY SentMore DEF BrowserParts, OfflineTrue
  <1> QED BY <1>1, <1>2, <1>3 DEF BrowserParts

LEMMA DoneParts ==
  ASSUME NEW b, NEW u, NEW d, NEW g, NEW o, NEW r, NEW jn, BrowserParts(b, u, d, g, o, r, jn)
  PROVE  BrowserParts(Done(b), u, d, g, o, r, jn) /\ Done(b).out = <<>>
  <1>1. b \in Browser
    BY DEF BrowserParts
  <1>2. Alike(b, Done(b)) /\ Done(b).out = <<>>
    <2>1. <<>> \in Seq(ToGateway)
      OBVIOUS
    <2>2. Done(b) \in Browser /\ Done(b).ctl = b.ctl /\ Done(b).out = <<>> /\ Done(b).offering = b.offering
      BY <1>1, <2>1 DEF Done, Browser
    <2>3. SameChannel(b, Done(b))
      BY <1>1 DEF Done, Browser, SameChannel
    <2> QED BY <2>2, <2>3 DEF Alike, SameControl
  <1> QED BY <1>2, AlikeParts

\* A step of the browser: what it makes of its record, and of the queues.
LEMMA BrowserStep ==
  ASSUME ControlInv, NEW b, Becomes(b), UNCHANGED gateway, requests' \in 0..MaxControl,
         down' \in Seq(ToBrowser), FramesTrue(down', generation, owner, revision),
         b.out \in Seq(ToGateway), BrowserParts(b, up \o b.out, down', generation, owner, revision, joined)
  PROVE  ControlInv'
  <1>1. browser' = Done(b) /\ up' = up \o b.out
    BY DEF Becomes, Done
  <1>2. up' \in Seq(ToGateway)
    BY <1>1, ShapeIs, SentMore
  <1>3. BrowserParts(browser', up', down', generation', owner', revision', joined') /\ browser'.out = <<>>
    BY <1>1, DoneParts DEF gateway
  <1>4. FramesTrue(down', generation', owner', revision')
    BY DEF gateway
  <1>5. GatewayShape'
    BY <1>2 DEF ControlInv, GatewayShape, gateway
  <1> QED BY <1>3, <1>4, <1>5 DEF ControlInv, ControlParts

LEMMA PostIs ==
  ASSUME NEW b \in Browser, NEW m \in ToGateway
  PROVE  LET c == Post(b, m)
         IN  /\ Alike(b, c)
             /\ c.ctl = b.ctl /\ c.crashed = b.crashed /\ c.restart = b.restart
             /\ c.out = IF b.online THEN Append(b.out, m) ELSE b.out
  BY DEF Post, Browser, Alike, SameChannel, SameControl

LEMMA RequestIs ==
  /\ \A t \in {"claim", "release", "unsubscribe"} : Request(t) \in ToGateway /\ Request(t).type = t
  /\ \A k \in Nat : [type |-> "subscribe", cursor |-> k] \in ToGateway
  /\ \A t \in {"takeover", "restart"}, g \in Nat, r \in Int :
       [type |-> t, generation |-> g, revision |-> r] \in ToGateway
  BY DEF Request, ToGateway

\* The record says the same of the lease, but it is not held to be current, and
\* the gateway is asked for the rest anew or cannot be asked.
SameRecord(b, c) ==
  /\ c.online = b.online /\ c.generation = b.generation
  /\ c.ctl.lease = b.ctl.lease /\ c.ctl.pending = b.ctl.pending /\ c.ctl.attempt = b.ctl.attempt
  /\ c.ctl.released => b.ctl.released
  /\ b.ctl.subscribed => c.ctl.subscribed

LEMMA AwayParts ==
  ASSUME NEW b, NEW c \in Browser, NEW u \in Seq(ToGateway), NEW v, NEW d, NEW g, NEW o, NEW r, NEW jn,
         BrowserParts(b, u, d, g, o, r, jn), SameRecord(b, c), c.ctl.fresh = 0, PhasesFit(c),
         ~Attached(c, v, jn), v = u \/ (b.online /\ \E p \in Seq(ToGateway) : v = u \o p)
  PROVE  BrowserParts(c, v, d, g, o, r, jn)
  <1>1. /\ c.online = b.online /\ c.generation = b.generation
        /\ c.ctl.lease = b.ctl.lease /\ c.ctl.pending = b.ctl.pending /\ c.ctl.attempt = b.ctl.attempt
        /\ (c.ctl.released => b.ctl.released) /\ (b.ctl.subscribed => c.ctl.subscribed)
    BY DEF SameRecord
  <1>2. ~Fresh(c) /\ (Pends(c) <=> Pends(b))
    BY <1>1 DEF Fresh, Pends
  <1>3. \A S : Holds(u, S) => Holds(v, S)
    BY SentMore, ZenonT(100)
  <1>4. LeaseTrue(c, d, g, o, r)
    BY <1>1, <1>2 DEF BrowserParts, LeaseTrue
  <1>5. AttemptTrue(c, v, d)
    BY <1>1, <1>2, <1>3 DEF BrowserParts, AttemptTrue, Outstanding
  <1>6. OfflineTrue(c, v, d, jn)
    BY <1>1 DEF BrowserParts, OfflineTrue
  <1> QED BY <1>4, <1>5, <1>6 DEF BrowserParts, AttachedTrue

LEMMA SendIs ==
  ASSUME NEW b \in Browser, NEW k \in Nat
  PROVE  LET c == SendSubscription(b, k)
         IN  /\ c \in Browser /\ SameRecord(b, c) /\ c.ctl.fresh = 0
             /\ c.ctl.subscribed = b.ctl.subscribed /\ c.baseline = b.baseline /\ c.resync = b.resync
             /\ c.waiter = b.waiter /\ c.degraded = b.degraded
             /\ c.out = IF b.online THEN Append(b.out, [type |-> "subscribe", cursor |-> k]) ELSE b.out
  <1> DEFINE b1 == [b EXCEPT !.ctl.fresh = 0, !.ctl.baseline = IF b.online THEN b.generation ELSE Undefined]
             m == [type |-> "subscribe", cursor |-> k]
  <1>1. b.ctl \in Session /\ b.generation \in 0..MaxGeneration
    BY DEF Browser, Generations
  <1>2. PICK n : n = IF b.online THEN b.generation ELSE Undefined
    OBVIOUS
  <1>3. n \in -1..MaxGeneration /\ 0 \in Generations
    BY <1>1, <1>2, ControlAssumption DEF Undefined, Generations
  <1>4. PICK ctl : ctl = [b.ctl EXCEPT !.fresh = 0, !.baseline = n]
    OBVIOUS
  <1>5. /\ ctl \in Session /\ ctl.fresh = 0 /\ ctl.lease = b.ctl.lease /\ ctl.pending = b.ctl.pending
        /\ ctl.attempt = b.ctl.attempt /\ ctl.released = b.ctl.released /\ ctl.subscribed = b.ctl.subscribed
    BY <1>1, <1>3, <1>4 DEF Session
  <1>6. b1 = [b EXCEPT !.ctl = ctl]
    BY <1>1, <1>2, <1>4 DEF Browser
  <1> HIDE DEF b1
  <1>7. /\ b1 \in Browser /\ b1.ctl = ctl /\ b1.online = b.online /\ b1.generation = b.generation /\ b1.out = b.out
        /\ b1.baseline = b.baseline /\ b1.resync = b.resync /\ b1.waiter = b.waiter /\ b1.degraded = b.degraded
    BY <1>5, <1>6 DEF Browser
  <1>8. m \in ToGateway
    BY RequestIs
  <1>9. SendSubscription(b, k) = Post(b1, m)
    BY DEF SendSubscription, b1
  <1> HIDE DEF m
  <1>10. LET c == Post(b1, m)
         IN  /\ Alike(b1, c) /\ c.ctl = b1.ctl /\ c.out = IF b1.online THEN Append(b1.out, m) ELSE b1.out
    BY <1>7, <1>8, PostIs
  <1> QED BY <1>5, <1>7, <1>9, <1>10 DEF Alike, SameChannel, SameRecord, m

LEMMA OneSent ==
  ASSUME NEW m \in ToGateway
  PROVE  Sent(m.type, <<m>>) /\ <<m>> \in Seq(ToGateway)
  <1>1. <<m>> \in Seq(ToGateway) /\ Len(<<m>>) = 1 /\ <<m>>[1] = m /\ 1 \in 1..1
    OBVIOUS
  <1> QED BY <1>1 DEF Sent, Holds

LEMMA SubscribedAway ==
  ASSUME NEW b \in Browser, NEW k \in Nat, NEW u \in Seq(ToGateway), NEW jn,
         b.online \/ ~jn, b.out = <<>>
  PROVE  LET c == SendSubscription(b, k)
         IN  /\ ~Attached(c, u \o c.out, jn) /\ c.out \in Seq(ToGateway)
             /\ u \o c.out = u \/ (b.online /\ \E p \in Seq(ToGateway) : u \o c.out = u \o p)
  <1> DEFINE c == SendSubscription(b, k)
             m == [type |-> "subscribe", cursor |-> k]
  <1>1. c.online = b.online /\ c.out = IF b.online THEN Append(<<>>, m) ELSE <<>>
    <2>1. SameRecord(b, c) /\ c.out = IF b.online THEN Append(b.out, m) ELSE b.out
      BY SendIs
    <2> HIDE DEF c, m
    <2> QED BY <2>1 DEF SameRecord
  <1>2. m \in ToGateway /\ m.type = "subscribe"
    BY RequestIs
  <1> HIDE DEF m, c
  <1>3. CASE b.online
    <2>1. c.out = <<m>> /\ <<m>> \in Seq(ToGateway)
      BY <1>1, <1>2, <1>3
    <2>2. Sent("subscribe", <<m>>)
      BY <1>2, OneSent
    <2>3. Sent("subscribe", u \o <<m>>)
      BY <2>1, <2>2, SentMore
    <2> QED BY <1>3, <2>1, <2>3 DEF Attached, c
  <1>4. CASE ~b.online
    <2>1. c.out = <<>> /\ u \o <<>> = u /\ <<>> \in Seq(ToGateway)
      BY <1>1, <1>4
    <2> QED BY <1>4, <2>1 DEF Attached, c
  <1> QED BY <1>3, <1>4

ChannelFits(b) ==
  /\ b.baseline => ~Pends(b) /\ ~b.resync /\ ~b.degraded /\ b.waiter # "projecting"
  /\ b.waiter # "none" => ~b.degraded

LEMMA SendParts ==
  ASSUME NEW b, NEW b1 \in Browser, NEW k \in Nat, NEW u \in Seq(ToGateway), NEW d, NEW g, NEW o, NEW r,
         NEW jn, BrowserParts(b, u, d, g, o, r, jn), SameRecord(b, b1), b1.out = <<>>, ChannelFits(b1)
  PROVE  LET c == SendSubscription(b1, k)
         IN  BrowserParts(c, u \o c.out, d, g, o, r, jn) /\ c.out \in Seq(ToGateway)
  <1> DEFINE c == SendSubscription(b1, k)
  <1>1. /\ c \in Browser /\ SameRecord(b1, c) /\ c.ctl.fresh = 0
        /\ c.baseline = b1.baseline /\ c.resync = b1.resync /\ c.waiter = b1.waiter /\ c.degraded = b1.degraded
    BY SendIs
  <1>2. /\ ~Attached(c, u \o c.out, jn) /\ c.out \in Seq(ToGateway)
        /\ u \o c.out = u \/ (b1.online /\ \E p \in Seq(ToGateway) : u \o c.out = u \o p)
    <2>1. b1.online \/ ~jn
      BY DEF SameRecord, BrowserParts, OfflineTrue
    <2> QED BY <2>1, SubscribedAway
  <1> HIDE DEF c
  <1>3. SameRecord(b, c) /\ b1.online = b.online
    BY <1>1 DEF SameRecord
  <1>4. PhasesFit(c)
    <2>1. Pends(c) <=> Pends(b1)
      BY <1>1 DEF SameRecord, Pends
    <2>2. Pends(c) <=> Pends(b)
      BY <1>3 DEF SameRecord, Pends
    <2> QED BY <1>1, <1>3, <2>1, <2>2 DEF BrowserParts, PhasesFit, ChannelFits, SameRecord, Fresh
  <1>5. BrowserParts(c, u \o c.out, d, g, o, r, jn)
    BY <1>1, <1>2, <1>3, <1>4, AwayParts
  <1> QED BY <1>2, <1>5 DEF c

LEMMA ZeroIs ==
  /\ 0 \in Generations /\ Undefined \in -1..MaxGeneration /\ Generations \subseteq -1..MaxGeneration
  /\ NoAttempt \in Attempt /\ NoLease \in Lease /\ NoLease.revision = Unknown
  /\ ~NoLease.controller /\ ~NoLease.conflicted
  BY ControlAssumption
     DEF Generations, Undefined, NoAttempt, Attempt, NoLease, Lease, Unknown, Transition

\* What is known of the present record.
LEMMA NowIs ==
  ASSUME ControlInv
  PROVE  /\ browser \in Browser /\ browser.ctl \in Session /\ browser.out = <<>> /\ PhasesFit(browser)
         /\ ChannelFits(browser) /\ SameRecord(browser, browser)
         /\ FramesTrue(down, generation, owner, revision) /\ browser.generation \in Nat
         /\ BrowserParts(browser, up, down, generation, owner, revision, joined)
         /\ requests \in 0..MaxControl
  <1>1. FramesTrue(down, generation, owner, revision) /\ browser.out = <<>>
        /\ BrowserParts(browser, up, down, generation, owner, revision, joined) /\ requests \in 0..MaxControl
    BY DEF ControlInv, ControlParts, GatewayShape
  <1>2. browser \in Browser /\ PhasesFit(browser)
    BY <1>1 DEF BrowserParts
  <1> QED BY <1>1, <1>2, BrowserIs DEF PhasesFit, ChannelFits, SameRecord

LEMMA AsksIs ==
  ASSUME ControlInv, Asks
  PROVE  requests' \in 0..MaxControl
  BY NowIs, ControlAssumption DEF Asks

\* A step of the browser that takes no frame.
LEMMA LocalStep ==
  ASSUME ControlInv, NEW b, Becomes(b), UNCHANGED gateway, UNCHANGED down, requests' \in 0..MaxControl,
         b.out \in Seq(ToGateway), BrowserParts(b, up \o b.out, down, generation, owner, revision, joined)
  PROVE  ControlInv'
  BY ShapeIs, NowIs, BrowserStep

LEMMA CursorIs ==
  ASSUME NEW b \in Browser
  PROVE  ValidCursor(b) \in Nat
  BY DEF ValidCursor, Browser, Generations

LEMMA SubscribeStep ==
  ASSUME ControlInv, Subscribe
  PROVE  ControlInv'
  <1> DEFINE b == [browser EXCEPT !.ctl.subscribed = TRUE, !.ctl.fresh = 0]
  <1>1. PICK ctl : ctl = [browser.ctl EXCEPT !.subscribed = TRUE, !.fresh = 0]
    OBVIOUS
  <1>2. /\ ctl \in Session /\ ctl.fresh = 0 /\ ctl.lease = browser.ctl.lease /\ ctl.pending = browser.ctl.pending
        /\ ctl.attempt = browser.ctl.attempt /\ ctl.released = browser.ctl.released /\ ctl.subscribed = TRUE
    BY <1>1, NowIs, ZeroIs DEF Session
  <1>3. b = [browser EXCEPT !.ctl = ctl]
    BY <1>1, NowIs DEF Browser
  <1> HIDE DEF b
  <1>4. b \in Browser /\ SameRecord(browser, b) /\ b.out = <<>> /\ b.online = browser.online
        /\ b.baseline = browser.baseline /\ b.resync = browser.resync /\ b.waiter = browser.waiter
        /\ b.degraded = browser.degraded /\ b.ctl.fresh = 0
    BY <1>2, <1>3, NowIs DEF Browser, SameRecord
  <1>5. ChannelFits(b) /\ PhasesFit(b)
    BY <1>4, NowIs DEF ChannelFits, Pends, SameRecord, PhasesFit, Fresh
  <1>6. PICK c : Becomes(c) /\ c = IF b.online THEN SendSubscription(b, ValidCursor(b)) ELSE b
    BY DEF Subscribe, b
  <1>7. CASE b.online
    <2>1. ValidCursor(b) \in Nat
      BY <1>4, CursorIs
    <2>2. BrowserParts(c, up \o c.out, down, generation, owner, revision, joined) /\ c.out \in Seq(ToGateway)
      BY <1>4, <1>5, <1>6, <1>7, <2>1, NowIs, ShapeIs, SendParts
    <2> QED BY <1>6, <2>2, AsksIs, LocalStep DEF Subscribe
  <1>8. CASE ~b.online
    <2>1. ~joined
      BY <1>4, <1>8, NowIs DEF BrowserParts, OfflineTrue
    <2>2. BrowserParts(b, up, down, generation, owner, revision, joined)
      BY <1>4, <1>5, <2>1, NowIs, ShapeIs, AwayParts DEF Attached
    <2>3. c = b /\ c.out = <<>> /\ up \o c.out = up /\ <<>> \in Seq(ToGateway)
      BY <1>4, <1>6, <1>8, ShapeIs
    <2> QED BY <1>6, <2>2, <2>3, AsksIs, LocalStep DEF Subscribe
  <1> QED BY <1>7, <1>8

LEMMA ResubscribeStep ==
  ASSUME ControlInv, Resubscribe
  PROVE  ControlInv'
  <1> DEFINE c == SendSubscription(browser, ValidCursor(browser))
  <1>1. Becomes(c) /\ UNCHANGED gateway /\ UNCHANGED down /\ requests' = requests + 1 /\ requests < MaxControl
    BY DEF Resubscribe
  <1>2. ValidCursor(browser) \in Nat
    BY NowIs, CursorIs
  <1>3. BrowserParts(c, up \o c.out, down, generation, owner, revision, joined) /\ c.out \in Seq(ToGateway)
    BY <1>2, NowIs, ShapeIs, SendParts
  <1>4. requests' \in 0..MaxControl
    BY <1>1, NowIs, ControlAssumption
  <1> HIDE DEF c
  <1> QED BY <1>1, <1>3, <1>4, LocalStep

\* A resync begins again: the record says the same, and the gateway is asked.
LEMMA ResyncParts ==
  ASSUME NEW b, NEW b1 \in Browser, NEW u \in Seq(ToGateway), NEW d, NEW g, NEW o, NEW r,
         NEW jn, BrowserParts(b, u, d, g, o, r, jn), SameRecord(b, b1), b1.out = <<>>, ~b1.baseline
  PROVE  LET c == AttemptResync(b1)
         IN  BrowserParts(c, u \o c.out, d, g, o, r, jn) /\ c.out \in Seq(ToGateway)
  <1> DEFINE b2 == AwaitSnapshot(b1)
  <1>1. /\ b2 \in Browser /\ SameRecord(b1, b2) /\ b2.out = <<>> /\ ~b2.baseline /\ ~b2.degraded
    BY DEF AwaitSnapshot, Browser, SameRecord
  <1> HIDE DEF b2
  <1>2. SameRecord(b, b2) /\ ChannelFits(b2) /\ 0 \in Nat
    BY <1>1 DEF SameRecord, ChannelFits
  <1>3. LET c == SendSubscription(b2, 0)
        IN  BrowserParts(c, u \o c.out, d, g, o, r, jn) /\ c.out \in Seq(ToGateway)
    BY <1>1, <1>2, SendParts
  <1> QED BY <1>3 DEF AttemptResync, b2

\* The channel waits for nothing and has no baseline.
LEMMA IdleParts ==
  ASSUME NEW b, NEW c \in Browser, NEW u, NEW d, NEW g, NEW o, NEW r, NEW jn,
         BrowserParts(b, u, d, g, o, r, jn),
         c.online = b.online, c.generation = b.generation, c.ctl.subscribed = b.ctl.subscribed,
         c.ctl.lease = b.ctl.lease, c.ctl.fresh \in {0, b.ctl.fresh}, c.ctl.released = b.ctl.released,
         \/ c.ctl.pending = b.ctl.pending /\ c.ctl.attempt \in {b.ctl.attempt, NoAttempt}
         \/ c.ctl.pending = NoStatus /\ c.ctl.attempt = NoAttempt,
         ~c.baseline, c.waiter = "none"
  PROVE  BrowserParts(c, u, d, g, o, r, jn)
  <1>1. /\ Fresh(c) => Fresh(b)
        /\ Pends(c) => Pends(b) /\ c.ctl.pending = b.ctl.pending
        /\ c.ctl.attempt # NoAttempt => c.ctl.attempt = b.ctl.attempt /\ (Pends(c) <=> Pends(b)) /\ c.ctl.pending = b.ctl.pending
        /\ Attached(c, u, jn) <=> Attached(b, u, jn)
    BY DEF Fresh, Pends, Attached
  <1>2. PhasesFit(c)
    BY <1>1 DEF BrowserParts, PhasesFit
  <1>3. LeaseTrue(c, d, g, o, r)
    BY <1>1 DEF BrowserParts, LeaseTrue
  <1>4. AttachedTrue(c, u, d, g, o, r, jn)
    BY <1>1 DEF BrowserParts, AttachedTrue, Known, Shown, Settled
  <1>5. AttemptTrue(c, u, d)
    BY <1>1 DEF BrowserParts, AttemptTrue, Outstanding
  <1> QED BY <1>2, <1>3, <1>4, <1>5 DEF BrowserParts, OfflineTrue

\* An attempt at a resync fails: one of the two.
LEMMA FailsParts ==
  ASSUME NEW b, NEW b1 \in Browser, NEW u \in Seq(ToGateway), NEW d, NEW g, NEW o, NEW r,
         NEW jn, BrowserParts(b, u, d, g, o, r, jn), SameRecord(b, b1), b1.out = <<>>, ~b1.baseline,
         b1.ctl.subscribed = b.ctl.subscribed, b1.ctl.released = b.ctl.released,
         b1.ctl.fresh \in {0, b.ctl.fresh}, NEW c \in ResyncFails(b1)
  PROVE  BrowserParts(c, u \o c.out, d, g, o, r, jn) /\ c.out \in Seq(ToGateway)
  <1>1. CASE c = AttemptResync(b1)
    BY <1>1, ResyncParts
  <1>2. CASE c = [b1 EXCEPT !.waiter = "none", !.degraded = TRUE]
    <2>1. /\ c \in Browser /\ c.ctl = b1.ctl /\ c.online = b1.online /\ c.generation = b1.generation
          /\ c.out = <<>> /\ ~c.baseline /\ c.waiter = "none"
      BY <1>2 DEF Browser
    <2>2. BrowserParts(c, u, d, g, o, r, jn)
      BY <2>1, IdleParts DEF SameRecord
    <2>3. u \o c.out = u /\ c.out \in Seq(ToGateway)
      BY <2>1
    <2> QED BY <2>2, <2>3
  <1> QED BY <1>1, <1>2 DEF ResyncFails

LEMMA IntendIs ==
  ASSUME NEW b \in Browser
  PROVE  LET c == Intend(b)
         IN  Alike(b, c) /\ SameRecord(b, c) /\ c.out = b.out /\ c.crashed = b.crashed /\ c.restart = b.restart
  <1> DEFINE c == Intend(b)
  <1>1. CASE CanIntend(b)
    <2>1. PICK ctl : ctl = [b.ctl EXCEPT !.intent = TRUE, !.released = FALSE]
      OBVIOUS
    <2>2. b.ctl \in Session
      BY DEF Browser
    <2>3. /\ ctl \in Session /\ ctl.lease = b.ctl.lease /\ ctl.pending = b.ctl.pending /\ ctl.fresh = b.ctl.fresh
          /\ ctl.attempt = b.ctl.attempt /\ ctl.released = FALSE /\ ctl.subscribed = b.ctl.subscribed
      BY <2>1, <2>2 DEF Session
    <2>4. c = [b EXCEPT !.ctl = ctl]
      BY <1>1, <2>1 DEF Intend, Browser
    <2> HIDE DEF c
    <2>5. /\ c \in Browser /\ c.ctl = ctl /\ SameChannel(b, c) /\ c.offering = b.offering /\ c.out = b.out
          /\ c.crashed = b.crashed /\ c.restart = b.restart
      BY <2>3, <2>4 DEF Browser, SameChannel
    <2> QED BY <2>3, <2>5 DEF Alike, SameChannel, SameControl, SameRecord, c
  <1>2. CASE ~CanIntend(b)
    <2>1. c = b
      BY <1>2 DEF Intend
    <2> HIDE DEF c
    <2> QED BY <2>1 DEF Alike, SameChannel, SameControl, SameRecord, c
  <1> QED BY <1>1, <1>2

LEMMA ManualRetryStep ==
  ASSUME ControlInv, ManualRetry
  PROVE  ControlInv'
  <1>1. PICK b1 : /\ b1 = IF browser.crashed THEN [Intend(browser) EXCEPT !.restart = browser.generation] ELSE browser
                  /\ Becomes(AttemptResync(b1)) /\ browser.degraded
    BY DEF ManualRetry
  <1>2. b1 \in Browser /\ SameRecord(browser, b1) /\ b1.out = <<>> /\ b1.baseline = browser.baseline
    <2>1. CASE browser.crashed
      <3>1. PICK i : i = Intend(browser)
        OBVIOUS
      <3>2. i \in Browser /\ SameRecord(browser, i) /\ i.out = <<>> /\ i.baseline = browser.baseline
        BY <3>1, NowIs, IntendIs DEF Alike, SameChannel
      <3>3. browser.generation \in Generations
        BY NowIs DEF Browser
      <3> QED BY <1>1, <2>1, <3>1, <3>2, <3>3 DEF Browser, SameRecord
    <2>2. CASE ~browser.crashed
      BY <1>1, <2>2, NowIs
    <2> QED BY <2>1, <2>2
  <1>3. ~b1.baseline
    BY <1>1, <1>2, NowIs DEF ChannelFits
  <1>4. LET c == AttemptResync(b1)
        IN  BrowserParts(c, up \o c.out, down, generation, owner, revision, joined) /\ c.out \in Seq(ToGateway)
    BY <1>2, <1>3, NowIs, ShapeIs, ResyncParts
  <1> QED BY <1>1, <1>4, AsksIs, LocalStep DEF ManualRetry

LEMMA SuffixFailsStep ==
  ASSUME ControlInv, SuffixFails
  PROVE  ControlInv'
  <1>1. PICK c \in ResyncFails(browser) : Becomes(c)
    BY DEF SuffixFails
  <1>2. ~browser.baseline
    BY NowIs DEF ChannelFits, SuffixFails
  <1>3. BrowserParts(c, up \o c.out, down, generation, owner, revision, joined) /\ c.out \in Seq(ToGateway)
    BY <1>2, NowIs, ShapeIs, FailsParts
  <1> QED BY <1>1, <1>3, AsksIs, LocalStep DEF SuffixFails

LEMMA ProjectionFailsStep ==
  ASSUME ControlInv, ProjectionFails
  PROVE  ControlInv'
  <1> DEFINE b == FailProjection(browser)
  <1>1. PICK ctl : ctl = [browser.ctl EXCEPT !.fresh = 0, !.baseline = Undefined]
    OBVIOUS
  <1>2. /\ ctl \in Session /\ ctl.fresh = 0 /\ ctl.lease = browser.ctl.lease /\ ctl.pending = browser.ctl.pending
        /\ ctl.attempt = browser.ctl.attempt /\ ctl.released = browser.ctl.released
        /\ ctl.subscribed = browser.ctl.subscribed
    BY <1>1, NowIs, ZeroIs DEF Session
  <1>3. b = [browser EXCEPT !.ctl = ctl, !.baseline = FALSE, !.resync = TRUE]
    BY <1>1, NowIs DEF FailProjection, Browser
  <1> HIDE DEF b
  <1>4. /\ b \in Browser /\ b.ctl = ctl /\ b.online = browser.online /\ b.generation = browser.generation
        /\ b.out = <<>> /\ ~b.baseline
    BY <1>2, <1>3, NowIs DEF Browser
  <1>5. SameRecord(browser, b)
    BY <1>2, <1>4 DEF SameRecord
  <1>6. PICK c \in ResyncFails(b) : Becomes(c)
    BY DEF ProjectionFails, b
  <1>7. BrowserParts(c, up \o c.out, down, generation, owner, revision, joined) /\ c.out \in Seq(ToGateway)
    BY <1>2, <1>4, <1>5, NowIs, ShapeIs, FailsParts
  <1> QED BY <1>6, <1>7, AsksIs, LocalStep DEF ProjectionFails

\* A record that has forgotten the lease.
Blank(c) ==
  /\ c.ctl.fresh = 0 /\ c.ctl.lease.revision = Unknown /\ c.ctl.attempt = NoAttempt
  /\ c.ctl.pending = NoStatus

LEMMA BlankParts ==
  ASSUME NEW c \in Browser, Blank(c), ChannelFits(c), NEW u, NEW d, NEW g \in Nat, NEW o, NEW r \in Nat,
         NEW jn, c.generation <= g, AttachedTrue(c, u, d, g, o, r, jn), OfflineTrue(c, u, d, jn),
         \A i \in 1..Len(d) : IsLease(g, d[i]) => d[i].revision \in Nat
  PROVE  BrowserParts(c, u, d, g, o, r, jn)
  <1>1. ~Fresh(c) /\ ~Pends(c) /\ c.ctl.lease.revision = -1
    BY ZeroIs DEF Blank, Fresh, Pends, Unknown
  <1>2. PhasesFit(c)
    BY <1>1, ZeroIs DEF Blank, PhasesFit, ChannelFits
  <1>3. LeaseTrue(c, d, g, o, r)
    BY <1>1 DEF LeaseTrue
  <1>4. AttemptTrue(c, u, d)
    BY <1>1 DEF Blank, AttemptTrue
  <1> QED BY <1>2, <1>3, <1>4 DEF BrowserParts

LEMMA RevisionsIs ==
  ASSUME NEW d \in Seq(ToBrowser), NEW g, NEW i \in 1..Len(d), IsLease(g, d[i])
  PROVE  d[i].revision \in Nat
  <1>1. d[i] \in Status
    BY FrameIs DEF IsLease
  <1> QED BY <1>1 DEF Status

LEMMA UnsubscribeStep ==
  ASSUME ControlInv, Unsubscribe
  PROVE  ControlInv'
  <1> DEFINE b == [browser EXCEPT !.ctl = EmptySession, !.waiter = "none", !.degraded = FALSE,
                                  !.restart = 0, !.offering = FALSE]
             c == Post(b, Request("unsubscribe"))
  <1>1. EmptySession \in Session
    BY ZeroIs DEF EmptySession, Session
  <1>2. /\ b \in Browser /\ b.ctl = EmptySession /\ b.waiter = "none" /\ b.degraded = FALSE /\ b.out = <<>>
        /\ b.online = browser.online /\ b.generation = browser.generation /\ b.baseline = browser.baseline
        /\ b.resync = browser.resync
    BY <1>1, NowIs, ZeroIs DEF Browser
  <1>3. Becomes(c) /\ UNCHANGED gateway /\ UNCHANGED down
    BY DEF Unsubscribe
  <1>4. Request("unsubscribe") \in ToGateway
    BY RequestIs
  <1> HIDE DEF b
  <1>5. Alike(b, c) /\ c.ctl = b.ctl /\ c.out = IF b.online THEN Append(b.out, Request("unsubscribe")) ELSE b.out
    BY <1>2, <1>4, PostIs
  <1> HIDE DEF c
  <1>6. c.ctl.subscribed = FALSE /\ Blank(c) /\ c \in Browser
    BY <1>2, <1>5, ZeroIs DEF EmptySession, Blank, Alike
  <1>7. ChannelFits(c)
    BY <1>2, <1>5, <1>6, NowIs DEF ChannelFits, Blank, Alike, SameChannel, Pends
  <1>8. c.out \in Seq(ToGateway) /\ (~browser.online => c.out = <<>>)
    BY <1>2, <1>4, <1>5
  <1>9. OfflineTrue(c, up \o c.out, down, joined)
    <2>1. c.online = browser.online /\ up \o <<>> = up
      BY <1>2, <1>5, ShapeIs DEF Alike, SameChannel
    <2> QED BY <1>8, <2>1, NowIs DEF BrowserParts, OfflineTrue
  <1>10. AttachedTrue(c, up \o c.out, down, generation, owner, revision, joined)
    BY <1>6 DEF AttachedTrue, Attached
  <1>11. c.generation <= generation
    BY <1>2, <1>5, NowIs DEF Alike, SameChannel, BrowserParts, LeaseTrue
  <1>12. BrowserParts(c, up \o c.out, down, generation, owner, revision, joined)
    BY <1>6, <1>7, <1>9, <1>10, <1>11, ShapeIs, RevisionsIs, BlankParts
  <1> QED BY <1>3, <1>8, <1>12, AsksIs, LocalStep DEF Unsubscribe

LEMMA ClaimIfReadyIs ==
  ASSUME NEW b \in Browser, b.out = <<>>
  PROVE  LET c == ClaimIfReady(b)
         IN  Alike(b, c) /\ c.out \in Seq(ToGateway) /\ (b.online \/ c.out = <<>>)
  <1> DEFINE c == ClaimIfReady(b)
  <1>1. CASE c = b
    <2> HIDE DEF c
    <2>1. c.out = <<>> /\ <<>> \in Seq(ToGateway)
      BY <1>1
    <2> QED BY <1>1, <2>1 DEF Alike, SameChannel, SameControl, c
  <1>2. CASE c # b
    <2>1. c = Post([b EXCEPT !.ctl.claimPending = TRUE], Request("claim")) /\ b.online
      BY <1>2 DEF ClaimIfReady
    <2>2. PICK ctl : ctl = [b.ctl EXCEPT !.claimPending = TRUE]
      OBVIOUS
    <2>3. b.ctl \in Session
      BY DEF Browser
    <2>4. /\ ctl \in Session /\ ctl.lease = b.ctl.lease /\ ctl.pending = b.ctl.pending /\ ctl.fresh = b.ctl.fresh
          /\ ctl.attempt = b.ctl.attempt /\ ctl.released = b.ctl.released /\ ctl.subscribed = b.ctl.subscribed
      BY <2>2, <2>3 DEF Session
    <2>5. PICK b1 : b1 = [b EXCEPT !.ctl.claimPending = TRUE]
      OBVIOUS
    <2>6. b1 = [b EXCEPT !.ctl = ctl]
      BY <2>2, <2>5 DEF Browser
    <2>7. /\ b1 \in Browser /\ b1.ctl = ctl /\ SameChannel(b, b1) /\ b1.offering = b.offering /\ b1.out = <<>>
          /\ b1.online = b.online
      BY <2>4, <2>6 DEF Browser, SameChannel
    <2>8. Request("claim") \in ToGateway
      BY RequestIs
    <2>9. PICK e : e = Post(b1, Request("claim"))
      OBVIOUS
    <2>10. Alike(b1, e) /\ e.out = Append(<<>>, Request("claim"))
      BY <2>1, <2>7, <2>8, <2>9, PostIs
    <2>11. Alike(b, e)
      BY <2>4, <2>7, <2>10 DEF Alike, SameChannel, SameControl
    <2>12. e.out \in Seq(ToGateway)
      BY <2>8, <2>10
    <2> QED BY <2>1, <2>5, <2>9, <2>11, <2>12
  <1> QED BY <1>1, <1>2

\* What is alike and sends something of its own.
LEMMA AlikePosts ==
  ASSUME NEW b, NEW c, Alike(b, c), c.out \in Seq(ToGateway), b.online \/ c.out = <<>>,
         NEW u \in Seq(ToGateway), NEW d, NEW g, NEW o, NEW r, NEW jn, BrowserParts(b, u, d, g, o, r, jn)
  PROVE  BrowserParts(c, u \o c.out, d, g, o, r, jn)
  <1>1. BrowserParts(c, u, d, g, o, r, jn) /\ c.online = b.online
    BY AlikeParts DEF Alike, SameChannel
  <1> QED BY <1>1, PostParts

LEMMA ClaimStep ==
  ASSUME ControlInv, Claim
  PROVE  ControlInv'
  <1>1. PICK i : i = Intend(browser)
    OBVIOUS
  <1>2. PICK c : c = ClaimIfReady(i) /\ Becomes(c)
    BY <1>1 DEF Claim
  <1>3. Alike(browser, i) /\ i.out = <<>> /\ i \in Browser
    BY <1>1, NowIs, IntendIs DEF Alike
  <1>4. Alike(i, c) /\ c.out \in Seq(ToGateway) /\ (i.online \/ c.out = <<>>)
    BY <1>2, <1>3, ClaimIfReadyIs
  <1>5. BrowserParts(i, up, down, generation, owner, revision, joined)
    BY <1>3, NowIs, AlikeParts
  <1>6. BrowserParts(c, up \o c.out, down, generation, owner, revision, joined)
    BY <1>4, <1>5, ShapeIs, AlikePosts
  <1> QED BY <1>2, <1>4, <1>6, AsksIs, LocalStep DEF Claim

LEMMA FenceIs ==
  ASSUME NEW l \in Lease
  PROVE  /\ ClearFence(l) \in Lease /\ ClearFence(l).revision = l.revision /\ ClearFence(l).held = l.held
         /\ ~ClearFence(l).controller /\ ~ClearFence(l).conflicted
         /\ ~l.controller /\ ~l.conflicted => ClearFence(l) = l
  <1>1. PICK f : f = ClearFence(l)
    OBVIOUS
  <1>2. /\ f \in Lease /\ f.revision = l.revision /\ f.held = l.held /\ f.transition = l.transition
        /\ f.controller = FALSE /\ f.conflicted = FALSE
    BY <1>1 DEF ClearFence, Lease
  <1>3. l.controller \in BOOLEAN /\ l.conflicted \in BOOLEAN
    BY DEF Lease
  <1>4. ASSUME ~l.controller, ~l.conflicted PROVE f = l
    <2>1. l.controller = FALSE /\ l.conflicted = FALSE
      BY <1>3, <1>4
    <2> QED BY <1>1, <2>1 DEF ClearFence, Lease
  <1> QED BY <1>1, <1>2, <1>4

LEMMA ReleaseStep ==
  ASSUME ControlInv, Release
  PROVE  ControlInv'
  <1> DEFINE old == browser.ctl
             ctl == [old EXCEPT !.intent = FALSE, !.fresh = 0, !.lease = ClearFence(old.lease),
                                !.claimPending = FALSE, !.attempt = NoAttempt, !.released = TRUE]
             b == [browser EXCEPT !.restart = 0, !.ctl = ctl]
             c == Post(b, Request("release"))
  <1>2. browser.ctl.lease \in Lease
    BY NowIs DEF Session
  <1>3. /\ ctl \in Session /\ ctl.fresh = 0 /\ ctl.lease = ClearFence(browser.ctl.lease)
        /\ ctl.pending = browser.ctl.pending /\ ctl.attempt = NoAttempt /\ ctl.subscribed = browser.ctl.subscribed
    BY <1>2, NowIs, FenceIs, ZeroIs DEF Session
  <1> HIDE DEF ctl
  <1>4. b = [browser EXCEPT !.restart = 0, !.ctl = ctl]
    OBVIOUS
  <1>5. Becomes(c) /\ UNCHANGED gateway /\ UNCHANGED down
    BY DEF Release, ctl
  <1> HIDE DEF b
  <1>6. b \in Browser /\ b.ctl = ctl /\ b.out = <<>> /\ b.offering = browser.offering
    BY <1>3, <1>4, NowIs, ZeroIs DEF Browser
  <1>7. SameChannel(browser, b)
    BY <1>3, <1>4, NowIs DEF Browser, SameChannel
  <1>8. Request("release") \in ToGateway /\ Request("release").type = "release"
    BY RequestIs
  <1>9. Alike(b, c) /\ c.ctl = b.ctl /\ c.out = IF b.online THEN Append(b.out, Request("release")) ELSE b.out
    BY <1>6, <1>8, PostIs
  <1> HIDE DEF c
  <1>10. c \in Browser /\ SameChannel(browser, c) /\ c.ctl = ctl
    BY <1>6, <1>7, <1>9 DEF Alike, SameChannel
  <1>11. c.out = IF browser.online THEN <<Request("release")>> ELSE <<>>
    BY <1>6, <1>7, <1>9 DEF SameChannel
  <1>12. c.out \in Seq(ToGateway) /\ (browser.online => Sent("release", c.out))
    BY <1>8, <1>11, OneSent
  <1>13. PICK u : u = up \o c.out
    OBVIOUS
  <1>14. /\ Attached(c, u, joined) => Attached(browser, up, joined) /\ browser.online /\ Sent("release", u)
         /\ ~Fresh(c) /\ (Pends(c) <=> Pends(browser)) /\ c.generation = browser.generation
    BY <1>3, <1>10, <1>12, <1>13, ShapeIs, SentMore DEF Attached, SameChannel, Fresh, Pends
  <1>15. c.ctl.lease.revision = browser.ctl.lease.revision /\ c.ctl.lease.held = browser.ctl.lease.held
         /\ ~c.ctl.lease.controller
    BY <1>2, <1>3, <1>10, FenceIs
  <1>16. PhasesFit(c)
    BY <1>3, <1>10, <1>14, <1>15, NowIs DEF PhasesFit, SameChannel
  <1>17. LeaseTrue(c, down, generation, owner, revision)
    BY <1>3, <1>10, <1>14, <1>15, NowIs DEF BrowserParts, LeaseTrue
  <1>18. AttachedTrue(c, u, down, generation, owner, revision, joined)
    BY <1>14, NowIs DEF BrowserParts, AttachedTrue, Known
  <1>19. AttemptTrue(c, u, down)
    BY <1>3, <1>10, <1>14 DEF AttemptTrue
  <1>20. OfflineTrue(c, u, down, joined)
    <2>1. up \o <<>> = up
      BY ShapeIs
    <2> QED BY <1>10, <1>11, <1>13, <2>1, NowIs DEF BrowserParts, OfflineTrue, SameChannel
  <1>21. BrowserParts(c, u, down, generation, owner, revision, joined)
    BY <1>10, <1>16, <1>17, <1>18, <1>19, <1>20 DEF BrowserParts
  <1> QED BY <1>5, <1>12, <1>13, <1>21, AsksIs, LocalStep DEF Release

LEMMA TakeoverStep ==
  ASSUME ControlInv, Takeover
  PROVE  ControlInv'
  <1> DEFINE a == [generation |-> browser.generation, revision |-> browser.ctl.lease.revision]
             m == [type |-> "takeover", generation |-> a.generation, revision |-> a.revision]
             b == [browser EXCEPT !.ctl.attempt = a, !.offering = TRUE]
             c == Post(b, m)
  <1>1. Becomes(c) /\ UNCHANGED gateway /\ UNCHANGED down
    BY DEF Takeover
  <1>2. /\ browser.online /\ browser.ctl.subscribed /\ Fresh(browser) /\ ~browser.ctl.lease.controller
        /\ ~browser.ctl.lease.conflicted
    BY DEF Takeover, Offered
  <1>3. a \in Attempt /\ a.generation = browser.generation /\ a.revision = browser.ctl.lease.revision
    BY NowIs, BrowserIs DEF Attempt
  <1>4. m \in ToGateway /\ m.type = "takeover" /\ m.generation = a.generation /\ m.revision = a.revision
    <2>1. a.generation \in Nat /\ a.revision \in Int
      BY <1>3 DEF Attempt
    <2> QED BY <2>1, RequestIs
  <1> HIDE DEF a
  <1>5. PICK ctl : ctl = [browser.ctl EXCEPT !.attempt = a]
    OBVIOUS
  <1>6. /\ ctl \in Session /\ ctl.lease = browser.ctl.lease /\ ctl.pending = browser.ctl.pending
        /\ ctl.fresh = browser.ctl.fresh /\ ctl.attempt = a /\ ctl.released = browser.ctl.released
        /\ ctl.subscribed = browser.ctl.subscribed
    BY <1>3, <1>5, NowIs DEF Session
  <1>7. b = [browser EXCEPT !.ctl = ctl, !.offering = TRUE]
    BY <1>5, NowIs DEF Browser
  <1> HIDE DEF b, m
  <1>8. b \in Browser /\ b.ctl = ctl /\ SameChannel(browser, b) /\ b.out = <<>>
    BY <1>6, <1>7, NowIs DEF Browser, SameChannel
  <1>9. Alike(b, c) /\ c.ctl = b.ctl /\ c.out = IF b.online THEN Append(b.out, m) ELSE b.out
    BY <1>4, <1>8, PostIs
  <1> HIDE DEF c
  <1>10. c \in Browser /\ SameChannel(browser, c) /\ c.ctl = ctl /\ c.out = <<m>>
    BY <1>2, <1>8, <1>9 DEF Alike, SameChannel
  <1>11. c.out \in Seq(ToGateway)
    BY <1>4, <1>10
  <1>12. PICK u : u = up \o c.out
    OBVIOUS
  <1>13. Holds(u, Asked(c.ctl.attempt))
    <2>1. m \in Asked(a)
      BY <1>4 DEF Asked
    <2>2. Holds(<<m>>, Asked(a))
      BY <2>1, HoldsFew
    <2>3. Holds(c.out, Asked(a)) /\ c.ctl.attempt = a /\ up \in Seq(ToGateway)
      BY <1>6, <1>10, <2>2, ShapeIs
    <2>4. Holds(up \o c.out, Asked(a))
      BY <1>11, <2>3, SentMore
    <2> QED BY <1>12, <2>3, <2>4
  <1>14. /\ Attached(c, u, joined) => Attached(browser, up, joined)
         /\ Sent("release", up) => Sent("release", u)
         /\ (Fresh(c) <=> Fresh(browser)) /\ (Pends(c) <=> Pends(browser)) /\ c.generation = browser.generation
    BY <1>6, <1>10, <1>11, <1>12, ShapeIs, SentMore DEF Attached, SameChannel, Fresh, Pends
  <1>15. PhasesFit(c) /\ LeaseTrue(c, down, generation, owner, revision)
    BY <1>6, <1>10, <1>14, NowIs DEF PhasesFit, SameChannel, BrowserParts, LeaseTrue
  <1>16. AttachedTrue(c, u, down, generation, owner, revision, joined)
    BY <1>6, <1>10, <1>14, NowIs DEF BrowserParts, AttachedTrue, Known, Shown, Settled, SameChannel
  <1>17. NoAttempt # c.ctl.attempt
    <2>1. c.ctl.attempt.generation # 0
      BY <1>2, <1>3, <1>6, <1>10 DEF Fresh
    <2> QED BY <2>1 DEF NoAttempt
  <1>18. AttemptTrue(c, u, down)
    <2>1. ~browser.ctl.released
      BY <1>2, NowIs DEF PhasesFit
    <2> QED BY <1>2, <1>3, <1>6, <1>10, <1>13, <1>17, <2>1 DEF AttemptTrue, Outstanding, SameChannel
  <1>19. BrowserParts(c, u, down, generation, owner, revision, joined)
    BY <1>2, <1>10, <1>15, <1>16, <1>18 DEF BrowserParts, OfflineTrue, SameChannel
  <1> QED BY <1>1, <1>11, <1>12, <1>19, AsksIs, LocalStep DEF Takeover

LEMMA ForgetIs ==
  ASSUME NEW c \in Session
  PROVE  LET f == ForgetLease(c)
         IN  /\ f \in Session /\ f.fresh = 0 /\ f.lease = NoLease /\ f.attempt = NoAttempt
             /\ f.pending = NoStatus /\ f.subscribed = c.subscribed /\ f.released = c.released
  BY ZeroIs DEF ForgetLease, Session

LEMMA DisconnectStep ==
  ASSUME ControlInv, Disconnect
  PROVE  ControlInv'
  <1> DEFINE f == ForgetLease(browser.ctl)
             ctl == [f EXCEPT !.released = FALSE]
             b == [browser EXCEPT !.online = FALSE, !.ctl = ctl, !.waiter = "none", !.restart = 0]
  <1>1. /\ browser' = b /\ up' = <<>> /\ down' = <<>> /\ joined' = FALSE
        /\ generation' = generation /\ overflowed' = overflowed
        /\ IF owner = "us" THEN revision < MaxRevision /\ owner' = "free" /\ revision' = revision + 1
           ELSE owner' = owner /\ revision' = revision
    BY DEF Disconnect
  <1>2. /\ f \in Session /\ f.fresh = 0 /\ f.lease = NoLease /\ f.attempt = NoAttempt /\ f.pending = NoStatus
    BY NowIs, ForgetIs
  <1> HIDE DEF f
  <1>3. /\ ctl \in Session /\ ctl.fresh = 0 /\ ctl.lease = NoLease /\ ctl.attempt = NoAttempt /\ ctl.pending = NoStatus
    BY <1>2 DEF Session
  <1> HIDE DEF ctl
  <1>4. /\ b \in Browser /\ b.ctl = ctl /\ b.online = FALSE /\ b.generation = browser.generation
        /\ b.out = <<>> /\ b.baseline = browser.baseline /\ b.resync = browser.resync /\ b.waiter = "none"
        /\ b.degraded = browser.degraded
    BY <1>3, NowIs, ZeroIs DEF Browser
  <1> HIDE DEF b
  <1>5. Blank(b) /\ ChannelFits(b)
    BY <1>3, <1>4, NowIs, ZeroIs DEF Blank, ChannelFits, Pends
  <1>6. owner' \in {"free", "us", "other"} /\ revision' \in 0..MaxRevision /\ revision' \in Nat
    BY <1>1, ShapeIs DEF ControlInv, GatewayShape
  <1>7. /\ <<>> \in Seq(ToBrowser) /\ FramesTrue(<<>>, generation, owner', revision') /\ <<>> \in Seq(ToGateway)
        /\ \A i \in 1..Len(<<>>) : FALSE
    BY ShapeIs, NothingTold
  <1>8. AttachedTrue(b, <<>>, <<>>, generation, owner', revision', FALSE)
        /\ OfflineTrue(b, <<>>, <<>>, FALSE)
    BY DEF AttachedTrue, Attached, OfflineTrue
  <1>9. b.generation <= generation
    BY <1>4, NowIs DEF BrowserParts, LeaseTrue
  <1>10. BrowserParts(b, <<>>, <<>>, generation, owner', revision', FALSE)
    BY <1>4, <1>5, <1>6, <1>7, <1>8, <1>9, ShapeIs, BlankParts
  <1>11. ControlParts(browser', up', down', generation', owner', revision', joined')
    BY <1>1, <1>4, <1>7, <1>10 DEF ControlParts
  <1>12. requests' \in 0..MaxControl
    BY AsksIs DEF Disconnect
  <1>13. GatewayShape'
    BY <1>1, <1>6, <1>7, <1>12 DEF ControlInv, GatewayShape
  <1> QED BY <1>11, <1>13 DEF ControlInv

LEMMA RejoinStep ==
  ASSUME ControlInv, Rejoin
  PROVE  ControlInv'
  <1> DEFINE b == [browser EXCEPT !.online = TRUE]
  <1>1. PICK c : /\ Becomes(c)
                 /\ c = IF ~b.ctl.subscribed \/ b.degraded THEN b
                        ELSE IF b.resync THEN AttemptResync(b)
                        ELSE SendSubscription(b, ValidCursor(b))
    BY DEF Rejoin
  <1>2. ~browser.online /\ UNCHANGED gateway /\ down' = down /\ requests' = requests
    BY DEF Rejoin
  <1>3. /\ b \in Browser /\ b.ctl = browser.ctl /\ b.online = TRUE /\ b.generation = browser.generation
        /\ b.out = <<>> /\ b.baseline = browser.baseline /\ b.resync = browser.resync
        /\ b.waiter = browser.waiter /\ b.degraded = browser.degraded /\ b.offering = browser.offering
    BY NowIs DEF Browser
  <1> HIDE DEF b
  <1>4. ~joined
    BY <1>2, NowIs DEF BrowserParts, OfflineTrue
  <1>5. (Fresh(b) <=> Fresh(browser)) /\ (Pends(b) <=> Pends(browser)) /\ browser.ctl.attempt = NoAttempt
    BY <1>2, <1>3, NowIs DEF Fresh, Pends, BrowserParts, AttemptTrue
  <1>6. BrowserParts(b, up, down, generation, owner, revision, joined)
    <2>1. PhasesFit(b) /\ LeaseTrue(b, down, generation, owner, revision)
      BY <1>3, <1>5, NowIs DEF PhasesFit, BrowserParts, LeaseTrue
    <2>2. AttachedTrue(b, up, down, generation, owner, revision, joined)
      BY <1>4 DEF AttachedTrue, Attached
    <2>3. AttemptTrue(b, up, down)
      BY <1>3, <1>5, NowIs DEF BrowserParts, AttemptTrue
    <2> QED BY <1>3, <2>1, <2>2, <2>3 DEF BrowserParts, OfflineTrue
  <1>7. ChannelFits(b) /\ SameRecord(b, b) /\ ValidCursor(b) \in Nat
    BY <1>3, <1>5, NowIs, CursorIs DEF ChannelFits, SameRecord
  <1>8. BrowserParts(c, up \o c.out, down, generation, owner, revision, joined) /\ c.out \in Seq(ToGateway)
    <2>1. CASE c = b
      <3>1. up \o <<>> = up /\ <<>> \in Seq(ToGateway)
        BY ShapeIs
      <3> QED BY <1>3, <1>6, <2>1, <3>1
    <2>2. CASE c = AttemptResync(b) /\ b.resync
      <3>1. ~b.baseline
        BY <1>7, <2>2 DEF ChannelFits
      <3> QED BY <1>3, <1>6, <1>7, <2>2, <3>1, ShapeIs, ResyncParts
    <2>3. CASE c = SendSubscription(b, ValidCursor(b))
      BY <1>3, <1>6, <1>7, <2>3, ShapeIs, SendParts
    <2> QED BY <1>1, <2>1, <2>2, <2>3
  <1> QED BY <1>1, <1>2, <1>8, NowIs, LocalStep

-----------------------------------------------------------------------------
(* A status of the lease is heard                                          *)

\* What is known of a status m of the browser's generation when it is judged,
\* with the frames e still to come.
Heard(b, m, u, e, g, o, r, jn) ==
  /\ m \in Status /\ m.generation = b.generation /\ b.generation # 0
  /\ b.generation = g =>
       /\ Agrees(m, o, r) /\ b.ctl.lease.revision <= m.revision
       /\ \A i \in 1..Len(e) : IsLease(g, e[i]) => m.revision <= e[i].revision
  /\ Attached(b, u, jn) =>
       /\ Known(b, e, g, r)
       /\ Silent(e, g) /\ b.generation # g => o # "us"
       /\ Silent(e, g) /\ b.generation = g /\ ~Sent("release", u) => m.revision = r

\* The attempt at a takeover, if the status itself may be its answer.
AttemptHeard(b, m, u, e) ==
  /\ b.ctl.attempt # NoAttempt =>
       /\ ~b.ctl.released /\ ~b.ctl.lease.controller /\ ~b.ctl.lease.conflicted
       /\ b.ctl.attempt.generation = b.generation
       /\ b.ctl.attempt.revision = b.ctl.lease.revision
       /\ m.revision > b.ctl.attempt.revision \/ Outstanding(b, u, e)
  /\ b.offering /\ Fresh(b) => b.ctl.attempt # NoAttempt \/ (~b.baseline /\ b.waiter = "none")

Ready(b, m, u, e, g, o, r, jn) ==
  /\ b \in Browser /\ b.out = <<>> /\ b.online /\ b.ctl.subscribed
  /\ PhasesFit(b) /\ LeaseTrue(b, e, g, o, r)
  /\ Heard(b, m, u, e, g, o, r, jn) /\ AttemptHeard(b, m, u, e)

\* It is ignored: the record holds what it says, or holds something newer.
LEMMA IgnoredParts ==
  ASSUME NEW b, NEW m, NEW u, NEW e, NEW g \in Nat, NEW o \in {"free", "us", "other"}, NEW r \in Nat, NEW jn,
         Ready(b, m, u, e, g, o, r, jn),
         \/ m.revision < b.ctl.lease.revision
         \/ m.revision = b.ctl.lease.revision /\ SameLease(m, b.ctl.lease)
         \/ Pends(b) /\ m.revision <= b.ctl.pending.revision /\ ~b.baseline
  PROVE  BrowserParts(b, u, e, g, o, r, jn)
  <1>1. /\ b \in Browser /\ PhasesFit(b) /\ LeaseTrue(b, e, g, o, r) /\ b.online /\ b.ctl.subscribed
        /\ Heard(b, m, u, e, g, o, r, jn) /\ AttemptHeard(b, m, u, e) /\ m \in Status /\ m.revision \in Nat
        /\ b.ctl.lease.revision \in Int /\ b.ctl.attempt.revision \in Int
        /\ (Pends(b) => b.ctl.pending.revision \in Nat)
    BY BrowserIs DEF Ready, Heard, Status
  <1>2. AttemptTrue(b, u, e)
    <2>1. ASSUME b.ctl.attempt # NoAttempt, m.revision > b.ctl.attempt.revision PROVE Outstanding(b, u, e)
      BY <1>1, <2>1 DEF AttemptHeard, Outstanding
    <2> QED BY <1>1, <2>1 DEF AttemptTrue, AttemptHeard
  <1>3. ASSUME Attached(b, u, jn), Silent(e, g), b.generation = g, ~Sent("release", u)
        PROVE  Shown(b, o, r)
    <2>1. m.revision = r /\ Agrees(m, o, r) /\ b.ctl.lease.revision <= m.revision
      BY <1>1, <1>3 DEF Heard
    <2>2. CASE m.revision = b.ctl.lease.revision /\ SameLease(m, b.ctl.lease)
      <3>1. b.ctl.lease.controller = m.controller
        BY <2>2 DEF SameLease, LeaseFrom
      <3>2. Pends(b) => b.ctl.pending.revision = r
        BY <1>1, <1>3, <2>1, <2>2 DEF LeaseTrue, Agrees
      <3> QED BY <2>1, <2>2, <3>1, <3>2 DEF Agrees, Shown
    <2>3. CASE Pends(b) /\ m.revision <= b.ctl.pending.revision /\ ~b.baseline
      <3>1. b.ctl.pending.revision = r
        BY <1>1, <1>3, <2>1, <2>3 DEF LeaseTrue, Agrees
      <3> QED BY <2>3, <3>1 DEF Shown, Settled
    <2> QED BY <1>1, <2>1, <2>2, <2>3
  <1>4. AttachedTrue(b, u, e, g, o, r, jn)
    BY <1>1, <1>3 DEF Heard, AttachedTrue
  <1> QED BY <1>1, <1>2, <1>4 DEF BrowserParts, OfflineTrue

\* It is answered with a release: the user no longer wants the lease.
LEMMA ReleasedParts ==
  ASSUME NEW b, NEW m, NEW u \in Seq(ToGateway), NEW e, NEW g \in Nat, NEW o, NEW r \in Nat, NEW jn,
         Ready(b, m, u, e, g, o, r, jn), b.ctl.released
  PROVE  LET c == Post(b, Request("release"))
         IN  BrowserParts(c, u \o c.out, e, g, o, r, jn) /\ c.out \in Seq(ToGateway)
  <1> DEFINE c == Post(b, Request("release"))
  <1>1. /\ b \in Browser /\ PhasesFit(b) /\ LeaseTrue(b, e, g, o, r) /\ b.online /\ b.ctl.subscribed /\ b.out = <<>>
        /\ Heard(b, m, u, e, g, o, r, jn) /\ AttemptHeard(b, m, u, e)
    BY DEF Ready
  <1>2. Request("release") \in ToGateway /\ Request("release").type = "release"
    BY RequestIs
  <1>3. Alike(b, c) /\ c.out = IF b.online THEN Append(b.out, Request("release")) ELSE b.out
    BY <1>1, <1>2, PostIs
  <1> HIDE DEF c
  <1>4. c.out \in Seq(ToGateway) /\ Sent("release", c.out)
    BY <1>1, <1>2, <1>3, OneSent
  <1>5. PICK v : v = u \o c.out
    OBVIOUS
  <1>6. Sent("release", v) /\ (Attached(b, v, jn) => Attached(b, u, jn))
    BY <1>4, <1>5, SentMore
  <1>7. AttachedTrue(b, v, e, g, o, r, jn)
    BY <1>1, <1>6 DEF Heard, AttachedTrue
  <1>8. AttemptTrue(b, v, e)
    BY <1>1 DEF AttemptTrue, AttemptHeard
  <1>9. BrowserParts(b, v, e, g, o, r, jn)
    BY <1>1, <1>7, <1>8 DEF BrowserParts, OfflineTrue
  <1>10. BrowserParts(c, v, e, g, o, r, jn)
    BY <1>3, <1>9, AlikeParts
  <1> QED BY <1>4, <1>5, <1>10 DEF c

LEMMA LeaseFromIs ==
  ASSUME NEW m \in Status
  PROVE  /\ LeaseFrom(m) \in Lease /\ FailClosed(m) \in Lease
         /\ LeaseFrom(m).revision = m.revision /\ LeaseFrom(m).held = m.held
         /\ LeaseFrom(m).controller = m.controller /\ LeaseFrom(m).conflicted = FALSE
         /\ FailClosed(m).revision = m.revision /\ FailClosed(m).held = m.held
         /\ FailClosed(m).controller = FALSE /\ FailClosed(m).conflicted = TRUE
         /\ m.revision \in Nat /\ m.revision # Unknown
  <1>1. /\ m.held \in BOOLEAN /\ m.controller \in BOOLEAN /\ m.revision \in Nat /\ m.transition \in Transition
    BY DEF Status
  <1>2. PICK l : l = LeaseFrom(m)
    OBVIOUS
  <1>3. /\ l \in Lease /\ l.revision = m.revision /\ l.held = m.held
        /\ l.controller = m.controller /\ l.conflicted = FALSE
    BY <1>1, <1>2 DEF LeaseFrom, Lease
  <1>4. PICK f : f = [l EXCEPT !.controller = FALSE, !.conflicted = TRUE]
    OBVIOUS
  <1>5. /\ f \in Lease /\ f.revision = l.revision /\ f.held = l.held
        /\ f.controller = FALSE /\ f.conflicted = TRUE
    BY <1>3, <1>4 DEF Lease
  <1>6. FailClosed(m) = f
    BY <1>2, <1>4 DEF FailClosed
  <1>7. m.revision # Unknown
    BY <1>1 DEF Unknown
  <1> QED BY <1>1, <1>2, <1>3, <1>5, <1>6, <1>7

\* A record that differs from b in its control only.
OnlyControl(b, c) ==
  /\ c \in Browser /\ SameChannel(b, c) /\ c.out = b.out /\ c.crashed = b.crashed /\ c.restart = b.restart

LEMMA UpdateIs ==
  ASSUME NEW b \in Browser, NEW ctl \in Session, ctl.subscribed = b.ctl.subscribed
  PROVE  OnlyControl(b, Update(b, ctl)) /\ Update(b, ctl).ctl = ctl /\ Update(b, ctl).offering = b.offering
  BY DEF Update, Browser, OnlyControl, SameChannel

\* What the accepted status makes of the record.
Accepts(b, m, c) ==
  /\ OnlyControl(b, c) /\ c.ctl.fresh = b.generation /\ c.ctl.attempt = NoAttempt /\ c.ctl.pending = NoStatus
  /\ c.ctl.released = (IF m.controller THEN b.ctl.released ELSE FALSE) /\ ~c.offering
  /\ c.ctl.lease.revision = m.revision /\ c.ctl.lease.held = m.held /\ c.ctl.lease.controller = m.controller
  /\ c.ctl.lease.conflicted = FALSE

LEMMA AcceptIs ==
  ASSUME NEW b \in Browser, NEW m \in Status, NEW keeps \in BOOLEAN, keeps => SameSemantics(m, b.ctl.lease)
  PROVE  /\ Accepts(b, m, Accept(b, m, keeps).b)
         /\ Accept(b, m, keeps).accepted = TRUE /\ Accept(b, m, keeps).conflict = FALSE
  <1> DEFINE c == b.ctl
             next == [c EXCEPT !.fresh = b.generation, !.attempt = NoAttempt, !.pending = NoStatus,
                        !.released = IF m.controller THEN @ ELSE FALSE,
                        !.baseline = IF @ \in {AnyBaseline, b.generation} THEN Undefined ELSE @,
                        !.lease = IF keeps THEN @ ELSE LeaseFrom(m)]
             d == [Update(b, next) EXCEPT !.offering = FALSE]
  <1>1. Accept(b, m, keeps).b = d /\ Accept(b, m, keeps).accepted = TRUE /\ Accept(b, m, keeps).conflict = FALSE
    BY DEF Accept, Outcome
  <1>2. c \in Session /\ b.generation \in Generations /\ c.lease \in Lease
    BY DEF Browser, Session
  <1>3. /\ next \in Session /\ next.fresh = b.generation /\ next.attempt = NoAttempt /\ next.pending = NoStatus
        /\ next.released = (IF m.controller THEN c.released ELSE FALSE)
        /\ next.lease = (IF keeps THEN c.lease ELSE LeaseFrom(m)) /\ next.subscribed = c.subscribed
    <2>1. PICK n : n = IF c.baseline \in {AnyBaseline, b.generation} THEN Undefined ELSE c.baseline
      OBVIOUS
    <2>2. n \in -1..MaxGeneration
      BY <1>2, <2>1, ZeroIs DEF Session
    <2>3. PICK x : x = IF m.controller THEN c.released ELSE FALSE
      OBVIOUS
    <2>4. x \in BOOLEAN
      BY <1>2, <2>3 DEF Session
    <2>5. PICK l : l = IF keeps THEN c.lease ELSE LeaseFrom(m)
      OBVIOUS
    <2>6. l \in Lease
      BY <1>2, <2>5, LeaseFromIs
    <2>7. next = [c EXCEPT !.fresh = b.generation, !.attempt = NoAttempt, !.pending = NoStatus,
                           !.released = x, !.baseline = n, !.lease = l]
      BY <1>2, <2>1, <2>3, <2>5 DEF Session
    <2> HIDE DEF next
    <2>8. /\ next \in Session /\ next.fresh = b.generation /\ next.attempt = NoAttempt
          /\ next.pending = NoStatus /\ next.released = x /\ next.lease = l /\ next.subscribed = c.subscribed
      BY <1>2, <2>2, <2>4, <2>6, <2>7, ZeroIs DEF Session
    <2> QED BY <2>3, <2>5, <2>8
  <1> HIDE DEF next
  <1>4. PICK up1 : up1 = Update(b, next)
    OBVIOUS
  <1>5. OnlyControl(b, up1) /\ up1.ctl = next /\ up1 \in Browser
    BY <1>2, <1>3, <1>4, UpdateIs DEF OnlyControl
  <1>6. d = [up1 EXCEPT !.offering = FALSE]
    BY <1>4
  <1> HIDE DEF d
  <1>7. /\ d \in Browser /\ d.ctl = next /\ d.offering = FALSE /\ SameChannel(up1, d) /\ d.out = up1.out
        /\ d.crashed = up1.crashed /\ d.restart = up1.restart
    BY <1>5, <1>6 DEF Browser, SameChannel
  <1>8. OnlyControl(b, d)
    BY <1>5, <1>7 DEF OnlyControl, SameChannel
  <1>9. /\ next.lease.revision = m.revision /\ next.lease.held = m.held /\ next.lease.controller = m.controller
        /\ next.lease.conflicted = FALSE
    <2>1. CASE ~keeps
      BY <1>3, <2>1, LeaseFromIs
    <2>2. CASE keeps
      <3>1. PICK l : l = [c.lease EXCEPT !.transition = m.transition]
        OBVIOUS
      <3>2. LeaseFrom(m) = l
        BY <2>2, <3>1 DEF SameSemantics
      <3>3. /\ l.revision = c.lease.revision /\ l.held = c.lease.held /\ l.controller = c.lease.controller
            /\ l.conflicted = c.lease.conflicted
        BY <1>2, <3>1 DEF Lease
      <3> QED BY <1>3, <2>2, <3>2, <3>3, LeaseFromIs
    <2> QED BY <2>1, <2>2
  <1> QED BY <1>1, <1>3, <1>7, <1>8, <1>9 DEF Accepts

LEMMA AcceptParts ==
  ASSUME NEW b, NEW m, NEW u, NEW e, NEW g \in Nat, NEW o \in {"free", "us", "other"}, NEW r \in Nat, NEW jn,
         Ready(b, m, u, e, g, o, r, jn), ~(m.controller /\ b.ctl.released), NEW c, Accepts(b, m, c)
  PROVE  BrowserParts(c, u, e, g, o, r, jn)
  <1>1. /\ b \in Browser /\ PhasesFit(b) /\ LeaseTrue(b, e, g, o, r) /\ b.online /\ b.ctl.subscribed
        /\ Heard(b, m, u, e, g, o, r, jn) /\ m \in Status /\ m.revision \in Nat
        /\ m.generation = b.generation /\ b.generation # 0
    BY DEF Ready, Heard, Status
  <1>2. /\ c \in Browser /\ c.online /\ c.generation = b.generation /\ c.ctl.subscribed = b.ctl.subscribed
        /\ c.baseline = b.baseline /\ c.resync = b.resync /\ c.waiter = b.waiter /\ c.degraded = b.degraded
        /\ c.ctl.fresh = b.generation /\ c.ctl.attempt = NoAttempt /\ ~Pends(c) /\ ~c.ctl.released /\ ~c.offering
        /\ c.ctl.lease.revision = m.revision /\ c.ctl.lease.held = m.held /\ c.ctl.lease.controller = m.controller
        /\ (Attached(c, u, jn) <=> Attached(b, u, jn))
    <2>1. c.online = b.online /\ c \in Browser /\ (Attached(c, u, jn) <=> Attached(b, u, jn))
      BY DEF Accepts, OnlyControl, SameChannel, Attached
    <2> QED BY <1>1, <2>1 DEF Accepts, OnlyControl, SameChannel, Pends
  <1>3. PhasesFit(c)
    BY <1>1, <1>2 DEF PhasesFit
  <1>4. LeaseTrue(c, e, g, o, r)
    BY <1>1, <1>2 DEF LeaseTrue, Heard, Agrees
  <1>5. ASSUME Attached(c, u, jn), Silent(e, g), c.generation = g, ~Sent("release", u)
        PROVE  Shown(c, o, r)
    <2>1. m.revision = r /\ Agrees(m, o, r)
      BY <1>1, <1>2, <1>5 DEF Heard
    <2> QED BY <1>2, <2>1 DEF Shown, Agrees
  <1>6. AttachedTrue(c, u, e, g, o, r, jn)
    BY <1>1, <1>2, <1>5 DEF AttachedTrue, Heard, Known
  <1>7. AttemptTrue(c, u, e) /\ OfflineTrue(c, u, e, jn)
    BY <1>2 DEF AttemptTrue, OfflineTrue
  <1> QED BY <1>2, <1>3, <1>4, <1>6, <1>7 DEF BrowserParts

\* Two statuses of one revision disagree: the browser believes neither.
Conflicts(b, m, c) ==
  /\ OnlyControl(b, c) /\ c.ctl.fresh = 0 /\ c.ctl.attempt = NoAttempt
  /\ c.ctl.pending \in {b.ctl.pending, NoStatus} /\ c.ctl.released = b.ctl.released
  /\ c.ctl.lease.revision = m.revision /\ c.ctl.lease.held = m.held /\ c.ctl.lease.controller = FALSE
  /\ c.ctl.lease.conflicted = TRUE

LEMMA ConflictIs ==
  ASSUME NEW b \in Browser, NEW m \in Status
  PROVE  /\ Conflicts(b, m, Update(b, Conflict(b.ctl, m)))
         /\ Update(b, Conflict(b.ctl, m)).ctl.pending = b.ctl.pending
         /\ Conflicts(b, m, Update(b, [Conflict(b.ctl, m) EXCEPT !.pending = NoStatus]))
  <1>1. b.ctl \in Session /\ FailClosed(m) \in Lease
    BY LeaseFromIs DEF Browser
  <1>2. PICK c : c = Conflict(b.ctl, m)
    OBVIOUS
  <1>3. c = [b.ctl EXCEPT !.fresh = 0, !.claimPending = FALSE, !.attempt = NoAttempt, !.lease = FailClosed(m)]
    BY <1>2 DEF Conflict
  <1>4. /\ c \in Session /\ c.fresh = 0 /\ c.attempt = NoAttempt /\ c.lease = FailClosed(m)
        /\ c.pending = b.ctl.pending /\ c.released = b.ctl.released /\ c.subscribed = b.ctl.subscribed
    BY <1>1, <1>3, ZeroIs DEF Session
  <1>5. PICK e : e = [c EXCEPT !.pending = NoStatus]
    OBVIOUS
  <1>6. /\ e \in Session /\ e.fresh = 0 /\ e.attempt = NoAttempt /\ e.lease = FailClosed(m)
        /\ e.pending = NoStatus /\ e.released = b.ctl.released /\ e.subscribed = b.ctl.subscribed
    BY <1>4, <1>5 DEF Session
  <1>7. OnlyControl(b, Update(b, c)) /\ Update(b, c).ctl = c
    BY <1>4, UpdateIs
  <1>8. OnlyControl(b, Update(b, e)) /\ Update(b, e).ctl = e
    BY <1>6, UpdateIs
  <1>9. /\ FailClosed(m).revision = m.revision /\ FailClosed(m).held = m.held
        /\ FailClosed(m).controller = FALSE /\ FailClosed(m).conflicted = TRUE
    BY LeaseFromIs
  <1>10. Conflicts(b, m, Update(b, c)) /\ Update(b, c).ctl.pending = b.ctl.pending
    <2>1. PICK x : x = Update(b, c)
      OBVIOUS
    <2>2. OnlyControl(b, x) /\ x.ctl = c
      BY <1>7, <2>1
    <2>3. Conflicts(b, m, x) /\ x.ctl.pending = b.ctl.pending
      BY <1>4, <1>9, <2>2 DEF Conflicts
    <2> QED BY <2>1, <2>3
  <1>11. Conflicts(b, m, Update(b, e))
    <2>1. PICK x : x = Update(b, e)
      OBVIOUS
    <2>2. OnlyControl(b, x) /\ x.ctl = e
      BY <1>8, <2>1
    <2>3. Conflicts(b, m, x)
      BY <1>6, <1>9, <2>2 DEF Conflicts
    <2> QED BY <2>1, <2>3
  <1> QED BY <1>2, <1>5, <1>10, <1>11

LEMMA ConflictParts ==
  ASSUME NEW b, NEW m, NEW u, NEW e, NEW g \in Nat, NEW o \in {"free", "us", "other"}, NEW r \in Nat, NEW jn,
         Ready(b, m, u, e, g, o, r, jn), NEW c, Conflicts(b, m, c),
         c.ctl.pending = NoStatus \/ m.revision = b.ctl.lease.revision
  PROVE  BrowserParts(c, u, e, g, o, r, jn)
  <1>1. /\ b \in Browser /\ PhasesFit(b) /\ LeaseTrue(b, e, g, o, r) /\ b.online /\ b.ctl.subscribed
        /\ Heard(b, m, u, e, g, o, r, jn) /\ m \in Status /\ m.revision \in Nat
        /\ m.generation = b.generation /\ b.generation # 0
    BY DEF Ready, Heard, Status
  <1>2. /\ c \in Browser /\ c.online /\ c.generation = b.generation /\ c.ctl.subscribed = b.ctl.subscribed
        /\ c.baseline = b.baseline /\ c.resync = b.resync /\ c.waiter = b.waiter /\ c.degraded = b.degraded
        /\ c.ctl.fresh = 0 /\ c.ctl.attempt = NoAttempt /\ c.ctl.pending \in {b.ctl.pending, NoStatus} /\ ~Fresh(c)
        /\ c.ctl.lease.revision = m.revision /\ c.ctl.lease.held = m.held
        /\ c.ctl.lease.controller = FALSE /\ c.ctl.lease.conflicted = TRUE
        /\ (Attached(c, u, jn) <=> Attached(b, u, jn))
    <2>1. c.online = b.online /\ c \in Browser /\ (Attached(c, u, jn) <=> Attached(b, u, jn))
      BY DEF Conflicts, OnlyControl, SameChannel, Attached
    <2> QED BY <1>1, <2>1 DEF Conflicts, OnlyControl, SameChannel, Fresh
  <1>3. /\ Pends(c) => Pends(b) /\ c.ctl.pending = b.ctl.pending /\ m.revision = b.ctl.lease.revision
    BY <1>2 DEF Pends
  <1>4. PhasesFit(c)
    BY <1>1, <1>2, <1>3 DEF PhasesFit
  <1>5. LeaseTrue(c, e, g, o, r)
    BY <1>1, <1>2, <1>3 DEF LeaseTrue, Heard, Agrees
  <1>6. ASSUME Attached(c, u, jn), Silent(e, g), c.generation = g, ~Sent("release", u)
        PROVE  Shown(c, o, r)
    <2>1. m.revision = r
      BY <1>1, <1>2, <1>6 DEF Heard
    <2>2. Pends(c) => c.ctl.pending.revision = r
      <3>1. ASSUME Pends(c) PROVE c.ctl.pending.revision = r
        <4>1. c.ctl.pending.revision \in Nat
          BY <1>1, <1>3, <3>1, BrowserIs
        <4>2. b.ctl.pending.revision <= r /\ b.ctl.lease.revision <= b.ctl.pending.revision
          BY <1>1, <1>2, <1>3, <1>6, <3>1 DEF LeaseTrue, Agrees
        <4> QED BY <1>3, <2>1, <3>1, <4>1, <4>2
      <3> QED BY <3>1
    <2> QED BY <1>2, <2>1, <2>2 DEF Shown
  <1>7. AttachedTrue(c, u, e, g, o, r, jn)
    BY <1>1, <1>2, <1>6 DEF AttachedTrue, Heard, Known
  <1>8. AttemptTrue(c, u, e) /\ OfflineTrue(c, u, e, jn)
    BY <1>2 DEF AttemptTrue, OfflineTrue
  <1> QED BY <1>2, <1>4, <1>5, <1>7, <1>8 DEF BrowserParts

\* It may not be believed yet, and is kept.
Kept(b, m, c) ==
  /\ OnlyControl(b, c) /\ c.ctl.fresh = b.ctl.fresh /\ c.ctl.attempt = b.ctl.attempt
  /\ c.ctl.pending = m /\ c.ctl.released = b.ctl.released /\ c.ctl.lease = b.ctl.lease
  /\ c.offering = b.offering

LEMMA PendIs ==
  ASSUME NEW b \in Browser, NEW m \in Status, NEW x \in BOOLEAN
  PROVE  Kept(b, m, Update(b, [b.ctl EXCEPT !.pending = m, !.pendingExpected = x]))
  <1>1. b.ctl \in Session
    BY DEF Browser
  <1>2. PICK c : c = [b.ctl EXCEPT !.pending = m, !.pendingExpected = x]
    OBVIOUS
  <1>3. /\ c \in Session /\ c.fresh = b.ctl.fresh /\ c.attempt = b.ctl.attempt /\ c.pending = m
        /\ c.released = b.ctl.released /\ c.lease = b.ctl.lease /\ c.subscribed = b.ctl.subscribed
    BY <1>1, <1>2 DEF Session
  <1>4. OnlyControl(b, Update(b, c)) /\ Update(b, c).ctl = c /\ Update(b, c).offering = b.offering
    BY <1>3, UpdateIs
  <1>5. PICK n : n = Update(b, c)
    OBVIOUS
  <1>6. Kept(b, m, n)
    BY <1>3, <1>4, <1>5 DEF Kept
  <1> QED BY <1>2, <1>5, <1>6

LEMMA PendParts ==
  ASSUME NEW b, NEW m, NEW u, NEW e, NEW g \in Nat, NEW o \in {"free", "us", "other"}, NEW r \in Nat, NEW jn,
         Ready(b, m, u, e, g, o, r, jn), ~b.baseline,
         ~Pends(b) \/ m.revision > b.ctl.pending.revision, NEW c, Kept(b, m, c)
  PROVE  BrowserParts(c, u, e, g, o, r, jn)
  <1>1. /\ b \in Browser /\ PhasesFit(b) /\ LeaseTrue(b, e, g, o, r) /\ b.online /\ b.ctl.subscribed
        /\ Heard(b, m, u, e, g, o, r, jn) /\ m \in Status /\ m.revision \in Nat
        /\ m.generation = b.generation /\ b.generation # 0 /\ AttemptHeard(b, m, u, e)
        /\ b.ctl.lease.revision \in Int /\ b.ctl.attempt.revision \in Int
        /\ (Pends(b) => b.ctl.pending.revision \in Nat)
    BY BrowserIs DEF Ready, Heard, Status
  <1>3. /\ OnlyControl(b, c) /\ c.ctl.fresh = b.ctl.fresh /\ c.ctl.attempt = b.ctl.attempt
        /\ c.ctl.pending = m /\ c.ctl.released = b.ctl.released /\ c.ctl.lease = b.ctl.lease
        /\ c.offering = b.offering
    BY DEF Kept
  <1>4. /\ c \in Browser /\ c.online /\ c.generation = b.generation /\ c.ctl.subscribed = b.ctl.subscribed
        /\ c.baseline = b.baseline /\ c.resync = b.resync /\ c.waiter = b.waiter /\ c.degraded = b.degraded
        /\ (Attached(c, u, jn) <=> Attached(b, u, jn)) /\ (Fresh(c) <=> Fresh(b))
    BY <1>1, <1>3 DEF OnlyControl, SameChannel, Attached, Fresh
  <1>5. Pends(c)
    <2>1. m.type = "lease_status" /\ NoStatus.type = "none"
      BY <1>1 DEF Status, NoStatus
    <2> QED BY <1>3, <2>1 DEF Pends
  <1>6. PhasesFit(c)
    BY <1>1, <1>3, <1>4, <1>5 DEF PhasesFit
  <1>7. LeaseTrue(c, e, g, o, r)
    BY <1>1, <1>3, <1>4, <1>5 DEF LeaseTrue, Heard, Agrees
  <1>8. ASSUME Attached(c, u, jn), Silent(e, g), c.generation = g, ~Sent("release", u)
        PROVE  Shown(c, o, r)
    <2>1. m.revision = r
      BY <1>1, <1>4, <1>8 DEF Heard
    <2> QED BY <1>3, <1>5, <2>1 DEF Shown, Settled
  <1>9. AttachedTrue(c, u, e, g, o, r, jn)
    BY <1>1, <1>4, <1>8 DEF AttachedTrue, Heard, Known
  <1>10. ASSUME b.ctl.attempt # NoAttempt PROVE Outstanding(c, u, e)
    <2>1. m.revision > b.ctl.attempt.revision \/ Outstanding(b, u, e)
      BY <1>1, <1>10 DEF AttemptHeard
    <2>2. CASE Pends(b) /\ b.ctl.pending.revision > b.ctl.attempt.revision
      <3>1. m.revision > b.ctl.attempt.revision
        BY <1>1, <2>2
      <3> QED BY <1>3, <1>5, <3>1 DEF Outstanding
    <2> QED BY <1>3, <1>5, <2>1, <2>2 DEF Outstanding
  <1>11. AttemptTrue(c, u, e)
    BY <1>1, <1>3, <1>4, <1>10 DEF AttemptTrue, AttemptHeard
  <1> QED BY <1>4, <1>6, <1>7, <1>9, <1>11 DEF BrowserParts, OfflineTrue

-----------------------------------------------------------------------------
(* reduceLeaseStatus                                                       *)

\* What the handling of a status leaves behind, with the frames it sends.
Reduced(b, R, u, e, g, o, r, jn) ==
  /\ BrowserParts(R.b, u \o R.b.out, e, g, o, r, jn) /\ R.b.out \in Seq(ToGateway)
  /\ R.accepted => R.b.out = <<>>
  /\ R.b.online = b.online /\ R.b.generation = b.generation
  /\ R.accepted \in BOOLEAN /\ R.conflict \in BOOLEAN

LEMMA SilentReduced ==
  ASSUME NEW b, NEW c, NEW u \in Seq(ToGateway), NEW e, NEW g, NEW o, NEW r, NEW jn,
         BrowserParts(c, u, e, g, o, r, jn), c.out = <<>>, c.online = b.online, c.generation = b.generation,
         NEW R, R.b = c, R.accepted \in BOOLEAN, R.conflict \in BOOLEAN
  PROVE  Reduced(b, R, u, e, g, o, r, jn)
  <1>1. u \o <<>> = u /\ <<>> \in Seq(ToGateway)
    OBVIOUS
  <1> QED BY <1>1 DEF Reduced

LEMMA OutcomeReduced ==
  ASSUME NEW b, NEW c, NEW u \in Seq(ToGateway), NEW e, NEW g, NEW o, NEW r, NEW jn,
         BrowserParts(c, u, e, g, o, r, jn), c.out = <<>>, c.online = b.online, c.generation = b.generation,
         NEW y \in BOOLEAN
  PROVE  Reduced(b, Outcome(c, FALSE, y), u, e, g, o, r, jn)
  <1>1. PICK R : R = Outcome(c, FALSE, y)
    OBVIOUS
  <1>2. R.b = c /\ R.accepted \in BOOLEAN /\ R.conflict \in BOOLEAN
    BY <1>1 DEF Outcome
  <1> QED BY <1>1, <1>2, SilentReduced

LEMMA IgnoredReduced ==
  ASSUME NEW b, NEW u \in Seq(ToGateway), NEW e, NEW g, NEW o, NEW r, NEW jn,
         BrowserParts(b, u, e, g, o, r, jn), b.out = <<>>
  PROVE  Reduced(b, Ignored(b), u, e, g, o, r, jn)
  BY OutcomeReduced DEF Ignored

LEMMA AcceptReduced ==
  ASSUME NEW b, NEW m, NEW u \in Seq(ToGateway), NEW e, NEW g \in Nat, NEW o \in {"free", "us", "other"},
         NEW r \in Nat, NEW jn, Ready(b, m, u, e, g, o, r, jn), ~(m.controller /\ b.ctl.released),
         NEW keeps \in BOOLEAN, keeps => SameSemantics(m, b.ctl.lease)
  PROVE  Reduced(b, Accept(b, m, keeps), u, e, g, o, r, jn)
  <1>1. b \in Browser /\ m \in Status /\ b.out = <<>>
    BY DEF Ready, Heard
  <1>2. PICK R : R = Accept(b, m, keeps)
    OBVIOUS
  <1>3. Accepts(b, m, R.b) /\ R.accepted = TRUE /\ R.conflict = FALSE
    BY <1>1, <1>2, AcceptIs
  <1>4. BrowserParts(R.b, u, e, g, o, r, jn)
    BY <1>3, AcceptParts
  <1>5. R.b.out = <<>> /\ R.b.online = b.online /\ R.b.generation = b.generation
    BY <1>1, <1>3 DEF Accepts, OnlyControl, SameChannel
  <1>6. R.accepted \in BOOLEAN /\ R.conflict \in BOOLEAN
    BY <1>3
  <1> QED BY <1>2, <1>4, <1>5, <1>6, SilentReduced

LEMMA ConflictReduced ==
  ASSUME NEW b, NEW m, NEW u \in Seq(ToGateway), NEW e, NEW g \in Nat, NEW o \in {"free", "us", "other"},
         NEW r \in Nat, NEW jn, Ready(b, m, u, e, g, o, r, jn), NEW c, Conflicts(b, m, c),
         c.ctl.pending = NoStatus \/ m.revision = b.ctl.lease.revision
  PROVE  Reduced(b, Outcome(c, FALSE, TRUE), u, e, g, o, r, jn)
  <1>1. BrowserParts(c, u, e, g, o, r, jn)
    BY ConflictParts
  <1>2. c.out = <<>> /\ c.online = b.online /\ c.generation = b.generation
    BY DEF Conflicts, OnlyControl, SameChannel, Ready
  <1> QED BY <1>1, <1>2, OutcomeReduced

LEMMA CompareReduced ==
  ASSUME NEW b, NEW m, NEW u \in Seq(ToGateway), NEW e, NEW g \in Nat, NEW o \in {"free", "us", "other"},
         NEW r \in Nat, NEW jn, Ready(b, m, u, e, g, o, r, jn), ~(m.controller /\ b.ctl.released),
         m.revision = b.ctl.lease.revision, NEW controlled
  PROVE  Reduced(b, Compare(b, m, controlled), u, e, g, o, r, jn)
  <1>1. b \in Browser /\ m \in Status /\ b.out = <<>>
    BY DEF Ready, Heard
  <1>2. CASE SameLease(m, b.ctl.lease) /\ Fresh(b)
    <2>1. BrowserParts(b, u, e, g, o, r, jn)
      BY <1>2, IgnoredParts
    <2>2. Reduced(b, Ignored(b), u, e, g, o, r, jn)
      BY <1>1, <2>1, IgnoredReduced
    <2> QED BY <1>2, <2>2 DEF Compare
  <1>3. CASE SameLease(m, b.ctl.lease) /\ ~Fresh(b)
    <2>1. Reduced(b, Accept(b, m, FALSE), u, e, g, o, r, jn)
      BY AcceptReduced
    <2> QED BY <1>3, <2>1 DEF Compare
  <1>4. CASE ~SameLease(m, b.ctl.lease) /\ controlled /\ SameSemantics(m, b.ctl.lease)
    <2>1. Reduced(b, Accept(b, m, TRUE), u, e, g, o, r, jn)
      BY <1>4, AcceptReduced
    <2> QED BY <1>4, <2>1 DEF Compare
  <1>5. CASE ~SameLease(m, b.ctl.lease) /\ ~(controlled /\ SameSemantics(m, b.ctl.lease))
    <2>1. Conflicts(b, m, Update(b, Conflict(b.ctl, m)))
      BY <1>1, ConflictIs
    <2>2. Reduced(b, Outcome(Update(b, Conflict(b.ctl, m)), FALSE, TRUE), u, e, g, o, r, jn)
      BY <2>1, ConflictReduced
    <2> QED BY <1>5, <2>2 DEF Compare
  <1> QED BY <1>2, <1>3, <1>4, <1>5

LEMMA JudgeReduced ==
  ASSUME NEW b, NEW m, NEW u \in Seq(ToGateway), NEW e, NEW g \in Nat, NEW o \in {"free", "us", "other"},
         NEW r \in Nat, NEW jn, Ready(b, m, u, e, g, o, r, jn), NEW controlled
  PROVE  Reduced(b, Judge(b, m, controlled), u, e, g, o, r, jn)
  <1>1. b \in Browser /\ m \in Status /\ b.out = <<>> /\ m.revision \in Nat /\ b.ctl.lease.revision \in Int
    BY BrowserIs DEF Ready, Heard, Status
  <1>2. CASE m.controller /\ b.ctl.released
    <2>1. PICK c : c = Post(b, Request("release"))
      OBVIOUS
    <2>2. BrowserParts(c, u \o c.out, e, g, o, r, jn) /\ c.out \in Seq(ToGateway)
      BY <1>2, <2>1, ReleasedParts
    <2>3. c.online = b.online /\ c.generation = b.generation
      BY <1>1, <2>1, RequestIs, PostIs DEF Alike, SameChannel
    <2>4. Reduced(b, Ignored(c), u, e, g, o, r, jn)
      <3>1. PICK R : R = Outcome(c, FALSE, FALSE)
        OBVIOUS
      <3>2. R.b = c /\ ~R.accepted /\ R.accepted \in BOOLEAN /\ R.conflict \in BOOLEAN
        BY <3>1 DEF Outcome
      <3>3. Reduced(b, R, u, e, g, o, r, jn)
        BY <2>2, <2>3, <3>2 DEF Reduced
      <3> QED BY <3>1, <3>3 DEF Ignored
    <2> QED BY <1>2, <2>1, <2>4 DEF Judge
  <1>3. CASE ~(m.controller /\ b.ctl.released) /\ m.revision < b.ctl.lease.revision
    <2>1. BrowserParts(b, u, e, g, o, r, jn)
      BY <1>3, IgnoredParts
    <2>2. Reduced(b, Ignored(b), u, e, g, o, r, jn)
      BY <1>1, <2>1, IgnoredReduced
    <2> QED BY <1>3, <2>2 DEF Judge
  <1>4. CASE ~(m.controller /\ b.ctl.released) /\ m.revision = b.ctl.lease.revision
    <2>1. Reduced(b, Compare(b, m, controlled), u, e, g, o, r, jn)
      BY <1>4, CompareReduced
    <2>2. ~(m.revision < b.ctl.lease.revision)
      BY <1>1, <1>4
    <2> QED BY <1>4, <2>1, <2>2 DEF Judge
  <1>5. CASE ~(m.controller /\ b.ctl.released) /\ m.revision > b.ctl.lease.revision
    <2>1. Reduced(b, Accept(b, m, FALSE), u, e, g, o, r, jn)
      BY <1>5, AcceptReduced
    <2>2. ~(m.revision < b.ctl.lease.revision) /\ m.revision # b.ctl.lease.revision
      BY <1>1, <1>5
    <2> QED BY <1>5, <2>1, <2>2 DEF Judge
  <1> QED BY <1>1, <1>2, <1>3, <1>4, <1>5

LEMMA DeferReduced ==
  ASSUME NEW b, NEW m, NEW u \in Seq(ToGateway), NEW e, NEW g \in Nat, NEW o \in {"free", "us", "other"},
         NEW r \in Nat, NEW jn, Ready(b, m, u, e, g, o, r, jn), ~b.baseline, NEW x \in BOOLEAN
  PROVE  Reduced(b, Defer(b, m, x), u, e, g, o, r, jn)
  <1>1. /\ b \in Browser /\ m \in Status /\ b.out = <<>> /\ m.revision \in Nat
        /\ (Pends(b) => b.ctl.pending.revision \in Nat)
    BY BrowserIs DEF Ready, Heard, Status
  <1>2. CASE ~Pends(b) \/ m.revision > b.ctl.pending.revision
    <2>1. PICK c : c = Update(b, [b.ctl EXCEPT !.pending = m, !.pendingExpected = x])
      OBVIOUS
    <2>2. Kept(b, m, c)
      BY <1>1, <2>1, PendIs
    <2>3. BrowserParts(c, u, e, g, o, r, jn)
      BY <1>2, <2>2, PendParts
    <2>4. c.out = <<>> /\ c.online = b.online /\ c.generation = b.generation
      BY <1>1, <2>2 DEF Kept, OnlyControl, SameChannel
    <2>5. Reduced(b, Ignored(c), u, e, g, o, r, jn)
      BY <2>3, <2>4, OutcomeReduced DEF Ignored
    <2> QED BY <1>2, <2>1, <2>5 DEF Defer, Pends
  <1>3. CASE /\ Pends(b) /\ ~(m.revision > b.ctl.pending.revision)
             /\ m.revision = b.ctl.pending.revision /\ ~SameLease(m, LeaseFrom(b.ctl.pending))
    <2>1. PICK c : c = Update(b, [Conflict(b.ctl, m) EXCEPT !.pending = NoStatus])
      OBVIOUS
    <2>2. Conflicts(b, m, c)
      BY <1>1, <2>1, ConflictIs
    <2>3. c.ctl.pending = NoStatus
      <3>1. b.ctl \in Session /\ FailClosed(m) \in Lease
        BY <1>1, LeaseFromIs DEF Browser
      <3>2. PICK n : n = Conflict(b.ctl, m)
        OBVIOUS
      <3>3. n = [b.ctl EXCEPT !.fresh = 0, !.claimPending = FALSE, !.attempt = NoAttempt, !.lease = FailClosed(m)]
        BY <3>2 DEF Conflict
      <3>4. n \in Session
        BY <3>1, <3>3, ZeroIs DEF Session
      <3>5. c = [b EXCEPT !.ctl = [n EXCEPT !.pending = NoStatus]]
        BY <2>1, <3>2 DEF Update
      <3>6. c.ctl = [n EXCEPT !.pending = NoStatus]
        BY <1>1, <3>5 DEF Browser
      <3> QED BY <3>4, <3>6 DEF Session
    <2>4. Reduced(b, Outcome(c, FALSE, TRUE), u, e, g, o, r, jn)
      BY <2>2, <2>3, ConflictReduced
    <2> QED BY <1>3, <2>1, <2>4 DEF Defer, Pends
  <1>4. CASE /\ Pends(b) /\ ~(m.revision > b.ctl.pending.revision)
             /\ ~(m.revision = b.ctl.pending.revision /\ ~SameLease(m, LeaseFrom(b.ctl.pending)))
    <2>1. m.revision <= b.ctl.pending.revision
      BY <1>1, <1>4
    <2>2. BrowserParts(b, u, e, g, o, r, jn)
      BY <1>4, <2>1, IgnoredParts
    <2>3. Reduced(b, Ignored(b), u, e, g, o, r, jn)
      BY <1>1, <2>2, IgnoredReduced
    <2> QED BY <1>4, <2>3 DEF Defer, Pends
  <1> QED BY <1>2, <1>3, <1>4

LEMMA ReduceReduced ==
  ASSUME NEW b, NEW m, NEW u \in Seq(ToGateway), NEW e, NEW g \in Nat, NEW o \in {"free", "us", "other"},
         NEW r \in Nat, NEW jn, Ready(b, m, u, e, g, o, r, jn),
         NEW authoritative \in BOOLEAN, ~authoritative => ~b.baseline, NEW expected \in BOOLEAN
  PROVE  Reduced(b, ReduceLeaseStatus(b, m, authoritative, expected), u, e, g, o, r, jn)
  <1>1. PICK x : x = (\/ expected
                      \/ m.transition = "baseline" /\ b.ctl.baseline \in {AnyBaseline, b.generation})
    OBVIOUS
  <1>2. x \in BOOLEAN
    BY <1>1
  <1>3. b.ctl.subscribed /\ b.generation = m.generation
    BY DEF Ready, Heard
  <1>4. \/ ReduceLeaseStatus(b, m, authoritative, expected) = Judge(b, m, x)
        \/ ~authoritative /\ ReduceLeaseStatus(b, m, authoritative, expected) = Defer(b, m, x)
    BY <1>1, <1>3 DEF ReduceLeaseStatus
  <1>5. Reduced(b, Judge(b, m, x), u, e, g, o, r, jn)
    BY JudgeReduced
  <1>6. ~b.baseline => Reduced(b, Defer(b, m, x), u, e, g, o, r, jn)
    BY <1>2, DeferReduced
  <1> QED BY <1>4, <1>5, <1>6

-----------------------------------------------------------------------------
(* A frame is taken: what it says is passed on to the record               *)

\* What is known of the first frame, and of those behind it.
LEMMA HeadIs ==
  ASSUME NEW d \in Seq(ToBrowser), d # <<>>, NEW g \in Nat, NEW o, NEW r \in Nat, FramesTrue(d, g, o, r)
  PROVE  /\ Tail(d) \in Seq(ToBrowser) /\ FramesTrue(Tail(d), g, o, r) /\ Head(d) \in ToBrowser
         /\ Head(d).type # "session_error" => Head(d).generation \in 1..g
         /\ IsLease(g, Head(d)) => Agrees(Head(d), o, r)
         /\ IsLease(g, Head(d)) => \A i \in 1..Len(Tail(d)) : IsLease(g, Tail(d)[i]) => Head(d).revision <= Tail(d)[i].revision
         /\ Head(d).type \in {"resync_required", "session_snapshot"} /\ Head(d).generation = g => ~Silent(Tail(d), g)
         /\ \A S : Holds(d, S) <=> Head(d) \in S \/ Holds(Tail(d), S)
  <1>1. Tail(d) \in Seq(ToBrowser) /\ Head(d) = d[1] /\ 1 \in 1..Len(d) /\ Head(d) \in ToBrowser
    BY TailIs
  <1>2. FramesTrue(Tail(d), g, o, r) /\ \A S : Holds(d, S) <=> Head(d) \in S \/ Holds(Tail(d), S)
    BY FramesTail, HoldsTail
  <1>3. ASSUME IsLease(g, Head(d)), NEW i \in 1..Len(Tail(d)), IsLease(g, Tail(d)[i])
        PROVE  Head(d).revision <= Tail(d)[i].revision
    <2>1. i + 1 \in 1..Len(d) /\ Tail(d)[i] = d[i + 1] /\ 1 <= i + 1
      BY TailIs
    <2> QED BY <1>1, <1>3, <2>1 DEF FramesTrue, Ordered
  <1>4. ASSUME Head(d).type \in {"resync_required", "session_snapshot"}, Head(d).generation = g
        PROVE  ~Silent(Tail(d), g)
    <2>1. PICK j \in 1..Len(d) : 1 < j /\ d[j].type = "lease_status" /\ d[j].generation = g
      BY <1>1, <1>4 DEF FramesTrue, Answered
    <2>2. j - 1 \in 1..Len(Tail(d)) /\ Tail(d)[j - 1] = d[j]
      BY <2>1, TailIs
    <2>3. IsLease(g, Tail(d)[j - 1])
      BY <2>1, <2>2 DEF IsLease
    <2> QED BY <1>1, <2>2, <2>3, SilentIs
  <1> QED BY <1>1, <1>2, <1>3, <1>4 DEF FramesTrue

\* A status of the lease that is the last on its way is the present one.
LEMMA LastIsCurrent ==
  ASSUME NEW d \in Seq(ToBrowser), d # <<>>, NEW g \in Nat, NEW r \in Nat, NEW b, Known(b, d, g, r),
         IsLease(g, Head(d)), Silent(Tail(d), g)
  PROVE  Head(d).revision = r
  <1>1. ~Silent(d, g)
    BY SilentTail
  <1>2. PICK k \in 1..Len(d) : IsLease(g, d[k]) /\ d[k].revision = r
    BY <1>1 DEF Known, CurrentAfter
  <1>3. CASE k > 1
    <2>1. k - 1 \in 1..Len(Tail(d)) /\ Tail(d)[k - 1] = d[k] /\ Tail(d) \in Seq(ToBrowser)
      BY <1>3, TailIs
    <2> QED BY <1>2, <2>1, SilentIs
  <1> QED BY <1>2, <1>3, TailIs

\* The browser does not know the generation yet: the lease comes behind its announcement.
LEMMA UnknownSpeaks ==
  ASSUME NEW d \in Seq(ToBrowser), d # <<>>, NEW g \in Nat, NEW r \in Nat, NEW b, Known(b, d, g, r),
         b.generation # g, Silent(Tail(d), g)
  PROVE  Silent(d, g)
  <1>1. PICK i \in 1..Len(d) : Silent(d, g) \/ CurrentAfter(d, g, r, i)
    BY DEF Known
  <1>2. ASSUME CurrentAfter(d, g, r, i) PROVE FALSE
    <2>1. PICK k \in 1..Len(d) : i < k /\ IsLease(g, d[k])
      BY <1>2 DEF CurrentAfter
    <2>2. k - 1 \in 1..Len(Tail(d)) /\ Tail(d)[k - 1] = d[k] /\ Tail(d) \in Seq(ToBrowser)
      BY <2>1, TailIs
    <2> QED BY <2>1, <2>2, SilentIs
  <1> QED BY <1>1, <1>2

\* A frame that changes nothing of what the record says.
LEMMA PassParts ==
  ASSUME NEW d \in Seq(ToBrowser), d # <<>>, NEW g \in Nat, NEW o, NEW r \in Nat, FramesTrue(d, g, o, r),
         NEW b, NEW u, NEW jn, BrowserParts(b, u, d, g, o, r, jn),
         b.ctl.subscribed => /\ b.generation = g \/ ~Announces(Head(d), g)
                             /\ ~(IsLease(g, Head(d)) /\ b.generation = g)
                             /\ b.ctl.attempt # NoAttempt => Head(d) \notin Answers(b.ctl.attempt)
  PROVE  BrowserParts(b, u, Tail(d), g, o, r, jn)
  <1> DEFINE e == Tail(d)
  <1>1. b.online
    BY DEF BrowserParts, OfflineTrue
  <1>2. LeaseTrue(b, e, g, o, r)
    BY LeaseTail DEF BrowserParts
  <1>3. ASSUME Attached(b, u, jn)
        PROVE  /\ Known(b, e, g, r)
               /\ Silent(e, g) /\ b.generation # g => o # "us"
               /\ Silent(e, g) /\ b.generation = g /\ ~Sent("release", u) => Shown(b, o, r)
    <2>1. /\ Known(b, d, g, r) /\ b.ctl.subscribed
          /\ Silent(d, g) /\ b.generation # g => o # "us"
          /\ Silent(d, g) /\ b.generation = g /\ ~Sent("release", u) => Shown(b, o, r)
      BY <1>3 DEF BrowserParts, AttachedTrue, Attached
    <2>2. Known(b, e, g, r)
      BY <2>1, KnownTail
    <2>3. ASSUME Silent(e, g), b.generation # g PROVE Silent(d, g)
      BY <2>1, <2>3, UnknownSpeaks
    <2>4. ASSUME Silent(e, g), b.generation = g PROVE Silent(d, g)
      BY <2>1, <2>4, SilentTail
    <2> QED BY <2>1, <2>2, <2>3, <2>4
  <1>4. AttachedTrue(b, u, e, g, o, r, jn)
    BY <1>3 DEF AttachedTrue
  <1>5. ASSUME b.ctl.attempt # NoAttempt PROVE Outstanding(b, u, e)
    <2>1. Outstanding(b, u, d) /\ Head(d) \notin Answers(b.ctl.attempt)
      BY <1>5 DEF BrowserParts, AttemptTrue
    <2>2. Holds(d, Answers(b.ctl.attempt)) => Holds(e, Answers(b.ctl.attempt))
      BY <2>1, HeadIs
    <2> QED BY <2>1, <2>2 DEF Outstanding
  <1>6. AttemptTrue(b, u, e)
    BY <1>5 DEF BrowserParts, AttemptTrue
  <1> QED BY <1>1, <1>2, <1>4, <1>6 DEF BrowserParts, OfflineTrue

\* A new generation is announced, and the lease of the old one is forgotten.
LEMMA TurnParts ==
  ASSUME NEW d \in Seq(ToBrowser), d # <<>>, NEW g \in Nat, NEW o, NEW r \in Nat, FramesTrue(d, g, o, r),
         NEW b, NEW u, NEW jn, BrowserParts(b, u, d, g, o, r, jn),
         NEW c \in Browser, Blank(c), ChannelFits(c), c.online = b.online, c.ctl.subscribed = b.ctl.subscribed,
         c.generation = Head(d).generation, Head(d).type \in {"runtime_state", "resync_required"},
         c.generation > b.generation
  PROVE  BrowserParts(c, u, Tail(d), g, o, r, jn)
  <1> DEFINE e == Tail(d)
  <1>1. /\ b.online /\ b.generation \in Nat /\ c.generation \in 1..g /\ b.generation # g
        /\ e \in Seq(ToBrowser)
    <2>1. b.online /\ b \in Browser
      BY DEF BrowserParts, OfflineTrue
    <2>2. c.generation \in 1..g /\ e \in Seq(ToBrowser)
      BY HeadIs
    <2>3. b.generation \in Nat
      BY <2>1, BrowserIs
    <2> QED BY <2>1, <2>2, <2>3
  <1>2. ASSUME Attached(c, u, jn)
        PROVE  /\ Known(c, e, g, r)
               /\ Silent(e, g) /\ c.generation # g => o # "us"
               /\ Silent(e, g) /\ c.generation = g /\ ~Sent("release", u) => Shown(c, o, r)
    <2>1. Attached(b, u, jn)
      BY <1>2 DEF Attached
    <2>2. Known(b, d, g, r) /\ (Silent(d, g) => o # "us")
      BY <1>1, <2>1 DEF BrowserParts, AttachedTrue
    <2>3. Silent(e, g) => o # "us"
      BY <1>1, <2>2, UnknownSpeaks
    <2>4. Known(c, e, g, r)
      <3>1. CASE c.generation = g
        BY <2>2, <3>1, KnownTail
      <3>2. CASE c.generation # g
        <4>1. ~Announces(Head(d), g)
          BY <3>2 DEF Announces
        <4>2. Known(b, e, g, r)
          BY <2>2, <4>1, KnownTail
        <4> QED BY <1>1, <4>2 DEF Known
      <3> QED BY <3>1, <3>2
    <2>5. ~Fresh(c) /\ ~Pends(c)
      BY DEF Blank, Fresh, Pends
    <2> QED BY <2>3, <2>4, <2>5 DEF Shown
  <1>3. AttachedTrue(c, u, e, g, o, r, jn)
    BY <1>2 DEF AttachedTrue
  <1>4. c.generation <= g /\ OfflineTrue(c, u, e, jn)
    BY <1>1 DEF OfflineTrue
  <1> QED BY <1>1, <1>3, <1>4, RevisionsIs, BlankParts

\* The channel waits for a snapshot of the generation, and for a lease behind it.
LEMMA ReopenParts ==
  ASSUME NEW b, NEW c \in Browser, NEW u, NEW d, NEW g, NEW o, NEW r, NEW jn, BrowserParts(b, u, d, g, o, r, jn),
         SameRecord(b, c), c.ctl.subscribed = b.ctl.subscribed, c.ctl.fresh \in {0, b.ctl.fresh}, PhasesFit(c),
         c.offering => b.offering, Fresh(c) => b.waiter # "none",
         b.generation = g => ~Silent(d, g)
  PROVE  BrowserParts(c, u, d, g, o, r, jn)
  <1>1. /\ c.online = b.online /\ c.generation = b.generation
        /\ c.ctl.lease = b.ctl.lease /\ c.ctl.pending = b.ctl.pending /\ c.ctl.attempt = b.ctl.attempt
        /\ (c.ctl.released => b.ctl.released)
    BY DEF SameRecord
  <1>2. (Fresh(c) => Fresh(b)) /\ (Pends(c) <=> Pends(b)) /\ (Attached(c, u, jn) <=> Attached(b, u, jn))
    BY <1>1 DEF Fresh, Pends, Attached
  <1>3. LeaseTrue(c, d, g, o, r)
    BY <1>1, <1>2 DEF BrowserParts, LeaseTrue
  <1>4. AttachedTrue(c, u, d, g, o, r, jn)
    BY <1>1, <1>2 DEF BrowserParts, AttachedTrue, Known
  <1>5. AttemptTrue(c, u, d)
    BY <1>1, <1>2 DEF BrowserParts, AttemptTrue, Outstanding
  <1> QED BY <1>1, <1>3, <1>4, <1>5 DEF BrowserParts, OfflineTrue

\* The record says no more than it did; a takeover that is given up is not offered.
LEMMA LessParts ==
  ASSUME NEW b, NEW c \in Browser, NEW u, NEW d, NEW g, NEW o, NEW r, NEW jn, BrowserParts(b, u, d, g, o, r, jn),
         SameChannel(b, c), c.ctl.lease = b.ctl.lease, c.ctl.pending = b.ctl.pending,
         c.ctl.fresh \in {0, b.ctl.fresh}, c.ctl.released = b.ctl.released,
         c.ctl.attempt = NoAttempt, ~c.offering
  PROVE  BrowserParts(c, u, d, g, o, r, jn)
  <1>1. /\ c.online = b.online /\ c.generation = b.generation /\ c.ctl.subscribed = b.ctl.subscribed
        /\ c.baseline = b.baseline /\ c.resync = b.resync /\ c.waiter = b.waiter /\ c.degraded = b.degraded
    BY DEF SameChannel
  <1>2. (Fresh(c) => Fresh(b)) /\ (Pends(c) <=> Pends(b)) /\ (Attached(c, u, jn) <=> Attached(b, u, jn))
    BY <1>1 DEF Fresh, Pends, Attached
  <1>3. PhasesFit(c)
    BY <1>1, <1>2 DEF BrowserParts, PhasesFit
  <1>4. LeaseTrue(c, d, g, o, r)
    BY <1>1, <1>2 DEF BrowserParts, LeaseTrue
  <1>5. AttachedTrue(c, u, d, g, o, r, jn)
    BY <1>1, <1>2 DEF BrowserParts, AttachedTrue, Known, Shown, Settled
  <1>6. AttemptTrue(c, u, d)
    BY DEF AttemptTrue
  <1> QED BY <1>1, <1>3, <1>4, <1>5, <1>6 DEF BrowserParts, OfflineTrue

\* What a handler has to leave behind: c, and the frames it sends.
Leaves(c, u, e, g, o, r, jn) ==
  c.out \in Seq(ToGateway) /\ BrowserParts(c, u \o c.out, e, g, o, r, jn)

LEMMA QuietLeaves ==
  ASSUME NEW c, NEW u \in Seq(ToGateway), NEW e, NEW g, NEW o, NEW r, NEW jn,
         BrowserParts(c, u, e, g, o, r, jn), c.out = <<>>
  PROVE  Leaves(c, u, e, g, o, r, jn)
  <1>1. u \o <<>> = u /\ <<>> \in Seq(ToGateway)
    OBVIOUS
  <1> QED BY <1>1 DEF Leaves

LEMMA RuntimeStateParts ==
  ASSUME NEW d \in Seq(ToBrowser), d # <<>>, NEW g \in 0..MaxGeneration, NEW o, NEW r \in Nat, FramesTrue(d, g, o, r),
         NEW b, NEW u \in Seq(ToGateway), NEW jn, BrowserParts(b, u, d, g, o, r, jn), b.out = <<>>,
         Head(d).type = "runtime_state"
  PROVE  Leaves(HandleRuntimeState(b, Head(d)), u, Tail(d), g, o, r, jn)
  <1> DEFINE m == Head(d)
             e == Tail(d)
             c == HandleRuntimeState(b, m)
  <1>1. /\ b \in Browser /\ b.ctl \in Session /\ b.generation \in Nat /\ PhasesFit(b) /\ b.generation <= g /\ g \in Nat
        /\ b.ctl.fresh \in {0, b.generation}
    <2>1. b \in Browser /\ PhasesFit(b) /\ b.generation <= g
      BY DEF BrowserParts, LeaseTrue
    <2> QED BY <2>1, BrowserIs, ControlAssumption DEF PhasesFit
  <1>2. m \in Announcement /\ m.generation \in 1..g /\ m.generation \in Generations /\ m.overflowed \in BOOLEAN
    <2>1. m \in ToBrowser /\ m.generation \in 1..g
      BY HeadIs
    <2>2. m \in Announcement
      BY <2>1, FrameIs
    <2> QED BY <2>1, <2>2, ControlAssumption DEF Announcement, Generations
  <1>3. g \in Nat /\ ~IsLease(g, m) /\ \A a : m \notin Answers(a)
    BY <1>1 DEF IsLease, Answers
  <1>4. CASE ~b.ctl.subscribed \/ m.generation < b.generation
    <2>1. b.ctl.subscribed => ~Announces(m, g)
      BY <1>1, <1>2, <1>4 DEF Announces
    <2>2. BrowserParts(b, u, e, g, o, r, jn)
      BY <1>3, <2>1, PassParts
    <2>3. c = b
      BY <1>4 DEF HandleRuntimeState
    <2> QED BY <2>2, <2>3, QuietLeaves
  <1>5. CASE b.ctl.subscribed /\ m.generation = b.generation
    <2>1. BrowserParts(b, u, e, g, o, r, jn)
      BY <1>3, <1>5, PassParts DEF Announces
    <2>2. c = [b EXCEPT !.generation = m.generation, !.crashed = m.overflowed]
      BY <1>1, <1>5 DEF HandleRuntimeState
    <2>3. Alike(b, c) /\ c.out = <<>>
      BY <1>1, <1>2, <1>5, <2>2 DEF Alike, SameChannel, SameControl, Browser
    <2>4. BrowserParts(c, u, e, g, o, r, jn)
      BY <2>1, <2>3, AlikeParts
    <2> QED BY <2>3, <2>4, QuietLeaves
  <1>6. CASE b.ctl.subscribed /\ b.generation = 0
    <2>1. c = [b EXCEPT !.generation = m.generation, !.crashed = m.overflowed]
      BY <1>1, <1>2, <1>6 DEF HandleRuntimeState
    <2>2. /\ c \in Browser /\ c.ctl = b.ctl /\ c.online = b.online /\ c.generation = m.generation /\ c.out = <<>>
          /\ c.baseline = b.baseline /\ c.resync = b.resync /\ c.waiter = b.waiter /\ c.degraded = b.degraded
      BY <1>1, <1>2, <2>1 DEF Browser
    <2>3. b.ctl.lease.revision = Unknown /\ b.ctl.pending = NoStatus /\ b.ctl.fresh = 0
      BY <1>1, <1>6 DEF PhasesFit, Pends
    <2>4. b.ctl.attempt = NoAttempt
      <3>1. ASSUME b.ctl.attempt # NoAttempt PROVE FALSE
        <4>1. b.ctl.attempt.generation = 0 /\ b.ctl.attempt.revision = Unknown
          BY <1>6, <2>3, <3>1 DEF BrowserParts, AttemptTrue
        <4>2. b.ctl.attempt \in Attempt
          BY <1>1, BrowserIs
        <4> QED BY <3>1, <4>1, <4>2 DEF Attempt, NoAttempt
      <3> QED BY <3>1
    <2>5. Blank(c) /\ ChannelFits(c)
      BY <1>1, <2>2, <2>3, <2>4 DEF Blank, ChannelFits, PhasesFit, Pends
    <2>6. c.generation > b.generation
      BY <1>2, <1>6, <2>2
    <2>7. BrowserParts(c, u, e, g, o, r, jn)
      BY <1>3, <2>2, <2>5, <2>6, TurnParts
    <2> QED BY <2>2, <2>7, QuietLeaves
  <1>7. CASE b.ctl.subscribed /\ b.generation # 0 /\ m.generation > b.generation
    <2>1. PICK ctl : ctl = ForgetLease(b.ctl)
      OBVIOUS
    <2>2. c = [b EXCEPT !.ctl = ctl, !.generation = m.generation, !.crashed = m.overflowed,
                        !.baseline = FALSE, !.resync = FALSE, !.waiter = "none", !.degraded = FALSE,
                        !.restart = 0]
      <3>1. ~(m.generation < b.generation) /\ b.generation \notin {0, m.generation}
        BY <1>1, <1>2, <1>7
      <3> QED BY <1>7, <2>1, <3>1 DEF HandleRuntimeState
    <2> HIDE DEF c
    <2>3. /\ ctl \in Session /\ ctl.fresh = 0 /\ ctl.lease = NoLease /\ ctl.attempt = NoAttempt
          /\ ctl.pending = NoStatus /\ ctl.subscribed = b.ctl.subscribed
      BY <1>1, <2>1, ForgetIs
    <2>4. /\ c \in Browser /\ c.ctl = ctl /\ c.online = b.online /\ c.generation = m.generation /\ c.out = <<>>
          /\ ~c.baseline /\ c.waiter = "none"
      BY <1>1, <1>2, <2>2, <2>3, ZeroIs DEF Browser
    <2>5. Blank(c) /\ ChannelFits(c)
      BY <2>3, <2>4, ZeroIs DEF Blank, ChannelFits
    <2>6. BrowserParts(c, u, e, g, o, r, jn)
      BY <1>3, <1>7, <2>3, <2>4, <2>5, TurnParts
    <2> QED BY <2>4, <2>6, QuietLeaves DEF c
  <1> QED BY <1>1, <1>2, <1>4, <1>5, <1>6, <1>7

LEMMA ResyncRequiredParts ==
  ASSUME NEW d \in Seq(ToBrowser), d # <<>>, NEW g \in 0..MaxGeneration, NEW o, NEW r \in Nat, FramesTrue(d, g, o, r),
         NEW b, NEW u \in Seq(ToGateway), NEW jn, BrowserParts(b, u, d, g, o, r, jn), b.out = <<>>,
         Head(d).type = "resync_required"
  PROVE  Leaves(HandleResyncRequired(b, Head(d)), u, Tail(d), g, o, r, jn)
  <1> DEFINE m == Head(d)
             e == Tail(d)
             c == HandleResyncRequired(b, m)
  <1>1. /\ b \in Browser /\ b.ctl \in Session /\ b.generation \in Nat /\ PhasesFit(b) /\ b.generation <= g /\ g \in Nat
    <2>1. b \in Browser /\ PhasesFit(b) /\ b.generation <= g
      BY DEF BrowserParts, LeaseTrue
    <2> QED BY <2>1, BrowserIs, ControlAssumption
  <1>2. m \in Announcement /\ m.generation \in 1..g /\ m.generation \in Generations /\ m.overflowed \in BOOLEAN
    <2>1. m \in ToBrowser /\ m.generation \in 1..g
      BY HeadIs
    <2>2. m \in Announcement
      BY <2>1, FrameIs
    <2> QED BY <2>1, <2>2, ControlAssumption DEF Announcement, Generations
  <1>3. g \in Nat /\ ~IsLease(g, m) /\ \A a : m \notin Answers(a)
    BY <1>1 DEF IsLease, Answers
  <1>4. CASE ~b.ctl.subscribed \/ m.generation < b.generation
    <2>1. b.ctl.subscribed => ~Announces(m, g)
      BY <1>1, <1>2, <1>4 DEF Announces
    <2>2. BrowserParts(b, u, e, g, o, r, jn)
      BY <1>3, <2>1, PassParts
    <2>3. c = b
      BY <1>4 DEF HandleResyncRequired
    <2> QED BY <2>2, <2>3, QuietLeaves
  <1>5. CASE b.ctl.subscribed /\ m.generation >= b.generation
    <2> DEFINE same == b.generation = m.generation
    <2>1. PICK ctl : ctl = IF same THEN [b.ctl EXCEPT !.fresh = 0] ELSE ForgetLease(b.ctl)
      OBVIOUS
    <2>2. PICK reset : reset = [b EXCEPT !.ctl = ctl, !.generation = m.generation, !.crashed = m.overflowed,
                                         !.baseline = FALSE, !.resync = TRUE]
      OBVIOUS
    <2>3. c = IF same /\ (b.waiter # "none" \/ b.degraded) THEN reset ELSE AwaitSnapshot(reset)
      <3>1. ~(m.generation < b.generation)
        BY <1>1, <1>2, <1>5
      <3>2. reset = [b EXCEPT !.ctl = IF same THEN [@ EXCEPT !.fresh = 0] ELSE ForgetLease(@),
                              !.generation = m.generation, !.crashed = m.overflowed,
                              !.baseline = FALSE, !.resync = TRUE]
        BY <1>1, <2>1, <2>2 DEF Browser
      <3> QED BY <1>5, <3>1, <3>2 DEF HandleResyncRequired
    <2>4. ctl \in Session /\ ctl.fresh = 0 /\ ctl.subscribed = b.ctl.subscribed
      <3>1. CASE same
        BY <1>1, <2>1, <3>1, ZeroIs DEF Session
      <3>2. CASE ~same
        BY <1>1, <2>1, <3>2, ForgetIs
      <3> QED BY <3>1, <3>2
    <2>5. /\ reset \in Browser /\ reset.ctl = ctl /\ reset.online = b.online /\ reset.generation = m.generation
          /\ reset.out = <<>> /\ ~reset.baseline /\ reset.waiter = b.waiter /\ reset.degraded = b.degraded
          /\ reset.offering = b.offering
      BY <1>1, <1>2, <2>2, <2>4 DEF Browser
    <2>6. /\ c \in Browser /\ c.ctl = ctl /\ c.online = b.online /\ c.generation = m.generation
          /\ c.out = <<>> /\ ~c.baseline /\ c.offering = b.offering /\ (c.waiter # "none" => ~c.degraded)
      <3>1. CASE c = reset
        BY <1>1, <2>5, <3>1 DEF PhasesFit
      <3>2. CASE c = AwaitSnapshot(reset)
        <4> HIDE DEF c
        <4>1. c = [reset EXCEPT !.waiter = "waiting", !.degraded = FALSE]
          BY <3>2 DEF AwaitSnapshot
        <4> QED BY <2>5, <4>1 DEF Browser
      <3> QED BY <2>3, <3>1, <3>2
    <2> HIDE DEF c
    <2>7. CASE same
      <3>1. BrowserParts(b, u, e, g, o, r, jn)
        BY <1>3, <2>7, PassParts DEF Announces
      <3>2. /\ ctl.lease = b.ctl.lease /\ ctl.pending = b.ctl.pending /\ ctl.attempt = b.ctl.attempt
            /\ ctl.released = b.ctl.released
        BY <1>1, <2>1, <2>7 DEF Session
      <3>3. SameRecord(b, c) /\ ~Fresh(c) /\ (Pends(c) <=> Pends(b))
        BY <1>2, <2>4, <2>6, <2>7, <3>2 DEF SameRecord, Fresh, Pends
      <3>4. PhasesFit(c)
        BY <1>1, <2>4, <2>6, <2>7, <3>2, <3>3 DEF PhasesFit
      <3>5. b.generation = g => ~Silent(e, g)
        BY <2>7, <1>3, HeadIs
      <3>6. BrowserParts(c, u, e, g, o, r, jn)
        BY <2>4, <2>6, <3>1, <3>3, <3>4, <3>5, ReopenParts
      <3> QED BY <2>6, <3>6, QuietLeaves DEF c
    <2>8. CASE ~same
      <3>1. ctl.lease = NoLease /\ ctl.attempt = NoAttempt /\ ctl.pending = NoStatus
        BY <1>1, <2>1, <2>8, ForgetIs
      <3>2. Blank(c) /\ ChannelFits(c)
        BY <2>4, <2>6, <3>1, ZeroIs DEF Blank, ChannelFits
      <3>3. c.generation > b.generation
        BY <1>1, <1>2, <1>5, <2>6, <2>8
      <3>4. BrowserParts(c, u, e, g, o, r, jn)
        BY <1>3, <2>4, <2>6, <3>2, <3>3, TurnParts
      <3> QED BY <2>6, <3>4, QuietLeaves DEF c
    <2> QED BY <2>7, <2>8
  <1> QED BY <1>1, <1>2, <1>4, <1>5

LEMMA SnapshotParts ==
  ASSUME NEW d \in Seq(ToBrowser), d # <<>>, NEW g \in Nat, NEW o, NEW r \in Nat, FramesTrue(d, g, o, r),
         NEW b, NEW u \in Seq(ToGateway), NEW jn, BrowserParts(b, u, d, g, o, r, jn), b.out = <<>>,
         Head(d).type = "session_snapshot"
  PROVE  Leaves(HandleSnapshot(b, Head(d)), u, Tail(d), g, o, r, jn)
  <1> DEFINE m == Head(d)
             e == Tail(d)
             c == HandleSnapshot(b, m)
  <1>1. b \in Browser /\ PhasesFit(b)
    BY DEF BrowserParts
  <1>2. ~IsLease(g, m) /\ ~Announces(m, g) /\ \A a : m \notin Answers(a)
    BY DEF IsLease, Announces, Answers
  <1>3. BrowserParts(b, u, e, g, o, r, jn)
    BY <1>2, PassParts
  <1>4. CASE c = b
    BY <1>3, <1>4, QuietLeaves
  <1>5. CASE c # b
    <2>1. b.generation = m.generation /\ b.waiter = "waiting" /\ c = [b EXCEPT !.waiter = "projecting", !.baseline = FALSE]
      BY <1>5 DEF HandleSnapshot
    <2> HIDE DEF c
    <2>2. /\ c \in Browser /\ c.ctl = b.ctl /\ c.online = b.online /\ c.generation = b.generation /\ c.out = <<>>
          /\ c.baseline = FALSE /\ c.waiter = "projecting" /\ c.offering = b.offering /\ c.degraded = b.degraded
      BY <1>1, <2>1 DEF Browser
    <2>3. SameRecord(b, c) /\ (Pends(c) <=> Pends(b))
      BY <2>2 DEF SameRecord, Pends
    <2>4. PhasesFit(c)
      BY <1>1, <2>1, <2>2, <2>3 DEF PhasesFit, Fresh
    <2>5. b.generation = g => ~Silent(e, g)
      BY <2>1, HeadIs
    <2>6. BrowserParts(c, u, e, g, o, r, jn)
      BY <1>3, <2>1, <2>2, <2>3, <2>4, <2>5, ReopenParts
    <2> QED BY <2>2, <2>6, QuietLeaves DEF c
  <1> QED BY <1>4, <1>5

-----------------------------------------------------------------------------
(* handleSessionError                                                      *)

LEMMA SubscribeErrorParts ==
  ASSUME NEW b, NEW u \in Seq(ToGateway), NEW e \in Seq(ToBrowser), NEW g \in Nat, NEW o, NEW r \in Nat, NEW jn,
         BrowserParts(b, u, e, g, o, r, jn), b.out = <<>>, b.online, NEW c \in SubscribeError(b)
  PROVE  Leaves(c, u, e, g, o, r, jn)
  <1> DEFINE preserved == b.resync /\ b.generation # 0
  <1>1. b \in Browser /\ b.ctl \in Session /\ PhasesFit(b) /\ b.generation <= g
    <2>1. b \in Browser /\ PhasesFit(b) /\ b.generation <= g
      BY DEF BrowserParts, LeaseTrue
    <2> QED BY <2>1, BrowserIs
  <1>2. PICK k : k = [b.ctl EXCEPT !.claimPending = FALSE, !.attempt = NoAttempt, !.baseline = Undefined,
                                   !.pending = NoStatus]
    OBVIOUS
  <1>3. /\ k \in Session /\ k.attempt = NoAttempt /\ k.pending = NoStatus /\ k.lease = b.ctl.lease
        /\ k.fresh = b.ctl.fresh /\ k.released = b.ctl.released /\ k.subscribed = b.ctl.subscribed
    BY <1>1, <1>2, ZeroIs DEF Session
  <1>4. PICK b1 : b1 = Update(b, k)
    OBVIOUS
  <1>5. /\ b1 \in Browser /\ b1.ctl = k /\ b1.online = b.online /\ b1.generation = b.generation /\ b1.out = <<>>
        /\ b1.baseline = b.baseline /\ b1.resync = b.resync /\ b1.waiter = b.waiter /\ b1.degraded = b.degraded
    BY <1>1, <1>3, <1>4 DEF Update, Browser
  <1>6. CASE preserved
    <2>1. ~b1.baseline
      BY <1>1, <1>5, <1>6 DEF PhasesFit
    <2>2. CASE b.waiter = "none"
      <3>1. c = b1
        BY <1>2, <1>4, <1>6, <2>2 DEF SubscribeError
      <3>2. BrowserParts(b1, u, e, g, o, r, jn)
        BY <1>3, <1>5, <2>1, <2>2, IdleParts
      <3> QED BY <1>5, <3>1, <3>2, QuietLeaves
    <2>3. CASE b.waiter # "none"
      <3>1. c \in ResyncFails(b1)
        BY <1>2, <1>4, <1>6, <2>3 DEF SubscribeError
      <3>2. PICK w : w = [b1 EXCEPT !.waiter = "none"]
        OBVIOUS
      <3>3. /\ w \in Browser /\ w.ctl = k /\ w.online = b.online /\ w.generation = b.generation
            /\ ~w.baseline /\ w.waiter = "none"
        BY <1>5, <2>1, <3>2 DEF Browser
      <3>4. BrowserParts(w, u, e, g, o, r, jn)
        BY <1>3, <3>3, IdleParts
      <3>5. SameRecord(w, b1) /\ b1.ctl.subscribed = w.ctl.subscribed /\ b1.ctl.released = w.ctl.released
            /\ b1.ctl.fresh \in {0, w.ctl.fresh}
        BY <1>5, <3>3 DEF SameRecord
      <3> QED BY <1>5, <2>1, <3>1, <3>4, <3>5, FailsParts DEF Leaves
    <2> QED BY <2>2, <2>3
  <1>7. CASE ~preserved
    <2>1. PICK n : n = [k EXCEPT !.subscribed = FALSE, !.fresh = 0, !.lease = NoLease]
      OBVIOUS
    <2>2. /\ n \in Session /\ n.attempt = NoAttempt /\ n.pending = NoStatus /\ n.lease = NoLease
          /\ n.fresh = 0 /\ n.subscribed = FALSE
      BY <1>3, <2>1, ZeroIs DEF Session
    <2>3. PICK left : left = Update(b, n)
      OBVIOUS
    <2>4. /\ left \in Browser /\ left.ctl = n /\ left.online = b.online /\ left.generation = b.generation
          /\ left.out = <<>> /\ left.baseline = b.baseline /\ left.resync = b.resync /\ left.waiter = b.waiter
          /\ left.degraded = b.degraded
      BY <1>1, <2>2, <2>3 DEF Update, Browser
    <2>5. Blank(left) /\ ChannelFits(left)
      BY <1>1, <2>2, <2>4, ZeroIs DEF Blank, ChannelFits, PhasesFit, Pends
    <2>6. AttachedTrue(left, u, e, g, o, r, jn) /\ OfflineTrue(left, u, e, jn)
      BY <2>2, <2>4 DEF AttachedTrue, Attached, OfflineTrue
    <2>7. BrowserParts(left, u, e, g, o, r, jn)
      BY <1>1, <2>4, <2>5, <2>6, RevisionsIs, BlankParts
    <2>8. c \in {left, Post(left, Request("release"))}
      BY <1>2, <1>4, <1>7, <2>1, <2>3 DEF SubscribeError
    <2>9. CASE c = left
      BY <2>4, <2>7, <2>9, QuietLeaves
    <2>10. CASE c = Post(left, Request("release"))
      <3>1. Request("release") \in ToGateway
        BY RequestIs
      <3>2. Alike(left, c) /\ c.out = IF left.online THEN Append(left.out, Request("release")) ELSE left.out
        BY <2>4, <2>10, <3>1, PostIs
      <3>3. c.out \in Seq(ToGateway)
        BY <2>4, <3>1, <3>2
      <3>4. BrowserParts(c, u \o c.out, e, g, o, r, jn)
        BY <2>4, <2>7, <3>2, <3>3, AlikePosts
      <3> QED BY <3>3, <3>4 DEF Leaves
    <2> QED BY <2>8, <2>9, <2>10
  <1> QED BY <1>6, <1>7

LEMMA TakeoverErrorIs ==
  ASSUME NEW b, b \in Browser, NEW u, NEW d, NEW g, NEW o, NEW r, NEW jn, BrowserParts(b, u, d, g, o, r, jn)
  PROVE  LET c == TakeoverError(b)
         IN  /\ c \in Browser /\ SameChannel(b, c) /\ c.ctl.lease = b.ctl.lease /\ c.ctl.pending = b.ctl.pending
             /\ c.ctl.fresh \in {0, b.ctl.fresh} /\ c.ctl.released = b.ctl.released
             /\ c.ctl.attempt = NoAttempt /\ ~c.offering /\ c.out = b.out
  <1>1. b.ctl \in Session /\ b.ctl.lease \in Lease
    BY BrowserIs
  <1> DEFINE stale == \/ b.ctl.attempt = NoAttempt \/ b.ctl.attempt.generation # b.generation
                      \/ b.ctl.lease.revision > b.ctl.attempt.revision
  <1>2. PICK f : f = IF stale THEN b.ctl.fresh ELSE 0
    OBVIOUS
  <1>3. PICK l : l = IF stale THEN b.ctl.lease ELSE ClearFence(b.ctl.lease)
    OBVIOUS
  <1>4. l = b.ctl.lease
    <2>1. CASE stale
      BY <1>3, <2>1
    <2>2. CASE ~stale
      <3>1. ~b.ctl.lease.controller /\ ~b.ctl.lease.conflicted
        BY <2>2 DEF BrowserParts, AttemptTrue
      <3> QED BY <1>1, <1>3, <2>2, <3>1, FenceIs
    <2> QED BY <2>1, <2>2
  <1>5. PICK ctl : ctl = [b.ctl EXCEPT !.attempt = NoAttempt, !.fresh = f, !.lease = l]
    OBVIOUS
  <1>6. /\ ctl \in Session /\ ctl.attempt = NoAttempt /\ ctl.fresh = f /\ ctl.lease = b.ctl.lease
        /\ ctl.pending = b.ctl.pending /\ ctl.released = b.ctl.released /\ ctl.subscribed = b.ctl.subscribed
    <2>1. f \in Generations
      BY <1>1, <1>2, ZeroIs DEF Session
    <2> QED BY <1>1, <1>4, <1>5, <2>1, ZeroIs DEF Session
  <1>7. PICK c : c = TakeoverError(b)
    OBVIOUS
  <1>8. c = [b EXCEPT !.ctl = ctl, !.offering = FALSE]
    BY <1>1, <1>2, <1>3, <1>5, <1>7 DEF TakeoverError, Browser, Session
  <1>9. /\ c \in Browser /\ c.ctl = ctl /\ c.offering = FALSE /\ SameChannel(b, c) /\ c.out = b.out
    BY <1>6, <1>8 DEF Browser, SameChannel
  <1> QED BY <1>2, <1>6, <1>7, <1>9

LEMMA ErrorParts ==
  ASSUME NEW d \in Seq(ToBrowser), d # <<>>, NEW g \in Nat, NEW o, NEW r \in Nat, FramesTrue(d, g, o, r),
         NEW b, NEW u \in Seq(ToGateway), NEW jn, BrowserParts(b, u, d, g, o, r, jn), b.out = <<>>,
         Head(d).type = "session_error", NEW c \in HandleError(b, Head(d))
  PROVE  Leaves(c, u, Tail(d), g, o, r, jn)
  <1> DEFINE m == Head(d)
             e == Tail(d)
  <1>1. b \in Browser /\ b.ctl \in Session /\ b.online
    <2>1. b \in Browser /\ b.online
      BY DEF BrowserParts, OfflineTrue
    <2> QED BY <2>1, BrowserIs
  <1>2. m \in ErrorFrame /\ m.operation \in {"subscribe", "claim", "takeover", "restart"} /\ e \in Seq(ToBrowser)
    <2>1. m \in ToBrowser /\ e \in Seq(ToBrowser)
      BY HeadIs
    <2>2. m \in ErrorFrame
      BY <2>1, FrameIs
    <2> QED BY <2>1, <2>2 DEF ErrorFrame
  <1>3. ~IsLease(g, m) /\ ~Announces(m, g)
    BY DEF IsLease, Announces
  <1>4. ASSUME m.operation # "takeover" \/ ~b.ctl.subscribed PROVE BrowserParts(b, u, e, g, o, r, jn)
    <2>1. CASE ~b.ctl.subscribed
      BY <2>1, PassParts
    <2>2. CASE m.operation # "takeover"
      <3>1. \A a : m \notin Answers(a)
        BY <2>2 DEF Answers, IsLease
      <3> QED BY <1>3, <3>1, PassParts
    <2> QED BY <1>4, <2>1, <2>2
  <1>5. CASE ~b.ctl.subscribed
    <2>1. c = b
      BY <1>5 DEF HandleError
    <2> QED BY <1>4, <1>5, <2>1, QuietLeaves
  <1>6. CASE b.ctl.subscribed /\ m.operation = "subscribe"
    <2>1. c \in SubscribeError(b)
      BY <1>6 DEF HandleError
    <2> QED BY <1>1, <1>2, <1>4, <1>6, <2>1, SubscribeErrorParts
  <1>7. CASE b.ctl.subscribed /\ m.operation = "claim"
    <2>1. c = [b EXCEPT !.ctl.claimPending = FALSE, !.restart = 0]
      BY <1>7 DEF HandleError
    <2>2. PICK ctl : ctl = [b.ctl EXCEPT !.claimPending = FALSE]
      OBVIOUS
    <2>3. /\ ctl \in Session /\ ctl.lease = b.ctl.lease /\ ctl.pending = b.ctl.pending /\ ctl.attempt = b.ctl.attempt
          /\ ctl.fresh = b.ctl.fresh /\ ctl.released = b.ctl.released /\ ctl.subscribed = b.ctl.subscribed
      BY <1>1, <2>2 DEF Session
    <2>4. c = [b EXCEPT !.ctl = ctl, !.restart = 0]
      BY <1>1, <2>1, <2>2 DEF Browser
    <2>5. /\ c \in Browser /\ c.ctl = ctl /\ SameChannel(b, c) /\ c.offering = b.offering /\ c.out = <<>>
      BY <1>1, <2>3, <2>4, ZeroIs DEF Browser, SameChannel
    <2>6. Alike(b, c)
      BY <2>3, <2>5 DEF Alike, SameControl
    <2>7. BrowserParts(c, u, e, g, o, r, jn)
      BY <1>4, <1>7, <2>6, AlikeParts
    <2> QED BY <2>5, <2>7, QuietLeaves
  <1>8. CASE b.ctl.subscribed /\ m.operation = "takeover"
    <2>1. c = TakeoverError(b)
      BY <1>8 DEF HandleError
    <2>2. /\ c \in Browser /\ SameChannel(b, c) /\ c.ctl.lease = b.ctl.lease /\ c.ctl.pending = b.ctl.pending
          /\ c.ctl.fresh \in {0, b.ctl.fresh} /\ c.ctl.released = b.ctl.released
          /\ c.ctl.attempt = NoAttempt /\ ~c.offering /\ c.out = <<>>
      BY <1>1, <2>1, TakeoverErrorIs
    <2>3. BrowserParts(c, u, d, g, o, r, jn)
      BY <2>2, LessParts
    <2>4. BrowserParts(c, u, e, g, o, r, jn)
      BY <1>3, <2>2, <2>3, PassParts
    <2> QED BY <2>2, <2>4, QuietLeaves
  <1>9. CASE b.ctl.subscribed /\ m.operation = "restart"
    <2>1. c = b
      BY <1>9 DEF HandleError
    <2> QED BY <1>4, <1>9, <2>1, QuietLeaves
  <1> QED BY <1>2, <1>5, <1>6, <1>7, <1>8, <1>9

-----------------------------------------------------------------------------
(* handleLease and finishSnapshot                                          *)

LEMMA HeadReady ==
  ASSUME NEW d \in Seq(ToBrowser), d # <<>>, NEW g \in Nat, NEW o, NEW r \in Nat, FramesTrue(d, g, o, r),
         NEW b, NEW u, NEW jn, BrowserParts(b, u, d, g, o, r, jn), b.out = <<>>, b.ctl.subscribed,
         Head(d).type = "lease_status", Head(d).generation = b.generation
  PROVE  Ready(b, Head(d), u, Tail(d), g, o, r, jn)
  <1> DEFINE m == Head(d)
             e == Tail(d)
  <1>1. b \in Browser /\ b.online /\ PhasesFit(b) /\ LeaseTrue(b, e, g, o, r)
    BY LeaseTail DEF BrowserParts, OfflineTrue
  <1>2. m \in Status /\ b.generation \in 1..g /\ b.generation # 0
    <2>1. m \in ToBrowser /\ m.generation \in 1..g
      BY HeadIs
    <2> QED BY <2>1, FrameIs
  <1>3. ASSUME b.generation = g
        PROVE  /\ Agrees(m, o, r) /\ b.ctl.lease.revision <= m.revision
               /\ \A i \in 1..Len(e) : IsLease(g, e[i]) => m.revision <= e[i].revision
    <2>1. IsLease(g, m)
      BY <1>3 DEF IsLease
    <2>2. b.ctl.lease.revision <= m.revision
      <3>1. m = d[1] /\ 1 \in 1..Len(d)
        BY TailIs
      <3> QED BY <1>3, <2>1, <3>1 DEF BrowserParts, LeaseTrue
    <2> QED BY <2>1, <2>2, HeadIs
  <1>4. ASSUME Attached(b, u, jn)
        PROVE  /\ Known(b, e, g, r)
               /\ Silent(e, g) /\ b.generation # g => o # "us"
               /\ Silent(e, g) /\ b.generation = g => m.revision = r
    <2>1. Known(b, d, g, r) /\ (Silent(d, g) /\ b.generation # g => o # "us") /\ ~Announces(m, g)
      BY <1>4 DEF BrowserParts, AttachedTrue, Announces
    <2>2. Known(b, e, g, r)
      BY <2>1, KnownTail
    <2>3. ASSUME Silent(e, g), b.generation # g PROVE o # "us"
      BY <2>1, <2>3, UnknownSpeaks
    <2>4. ASSUME Silent(e, g), b.generation = g PROVE m.revision = r
      <3>1. IsLease(g, m)
        BY <2>4 DEF IsLease
      <3> QED BY <2>1, <2>4, <3>1, LastIsCurrent
    <2> QED BY <2>2, <2>3, <2>4
  <1>5. Heard(b, m, u, e, g, o, r, jn)
    BY <1>2, <1>3, <1>4 DEF Heard
  <1>6. ASSUME b.ctl.attempt # NoAttempt PROVE m.revision > b.ctl.attempt.revision \/ Outstanding(b, u, e)
    <2>1. Outstanding(b, u, d)
      BY <1>6 DEF BrowserParts, AttemptTrue
    <2>2. m \in Answers(b.ctl.attempt) => m.revision > b.ctl.attempt.revision
      BY DEF Answers
    <2>3. Holds(d, Answers(b.ctl.attempt)) => m \in Answers(b.ctl.attempt) \/ Holds(e, Answers(b.ctl.attempt))
      BY HeadIs
    <2> QED BY <2>1, <2>2, <2>3 DEF Outstanding
  <1>7. AttemptHeard(b, m, u, e)
    BY <1>6 DEF AttemptHeard, BrowserParts, AttemptTrue
  <1> QED BY <1>1, <1>5, <1>7 DEF Ready

\* claim_if_ready after a handler that may have sent something already.
LEMMA ClaimLeaves ==
  ASSUME NEW b, NEW u \in Seq(ToGateway), NEW e, NEW g, NEW o, NEW r, NEW jn, Leaves(b, u, e, g, o, r, jn)
  PROVE  Leaves(ClaimIfReady(b), u, e, g, o, r, jn)
  <1> DEFINE c == ClaimIfReady(b)
  <1>1. b \in Browser /\ b.out \in Seq(ToGateway) /\ BrowserParts(b, u \o b.out, e, g, o, r, jn)
    BY DEF Leaves, BrowserParts
  <1>2. CASE c = b
    BY <1>2
  <1>3. CASE c # b
    <2>1. c = Post([b EXCEPT !.ctl.claimPending = TRUE], Request("claim")) /\ b.online
      BY <1>3 DEF ClaimIfReady
    <2> HIDE DEF c
    <2>2. PICK ctl : ctl = [b.ctl EXCEPT !.claimPending = TRUE]
      OBVIOUS
    <2>3. /\ ctl \in Session /\ ctl.lease = b.ctl.lease /\ ctl.pending = b.ctl.pending /\ ctl.fresh = b.ctl.fresh
          /\ ctl.attempt = b.ctl.attempt /\ ctl.released = b.ctl.released /\ ctl.subscribed = b.ctl.subscribed
      <3>1. b.ctl \in Session
        BY <1>1 DEF Browser
      <3> QED BY <2>2, <3>1 DEF Session
    <2>4. PICK b1 : b1 = [b EXCEPT !.ctl.claimPending = TRUE]
      OBVIOUS
    <2>5. b1 = [b EXCEPT !.ctl = ctl]
      BY <1>1, <2>2, <2>4 DEF Browser
    <2>6. /\ b1 \in Browser /\ b1.ctl = ctl /\ SameChannel(b, b1) /\ b1.offering = b.offering /\ b1.out = b.out
          /\ b1.online = b.online
      BY <1>1, <2>3, <2>5 DEF Browser, SameChannel
    <2>7. Request("claim") \in ToGateway
      BY RequestIs
    <2>8. Alike(b1, c) /\ c.out = Append(b.out, Request("claim"))
      <3>1. c = Post(b1, Request("claim"))
        BY <2>1, <2>4
      <3> QED BY <2>1, <2>6, <2>7, <3>1, PostIs
    <2>9. Alike(b, c)
      BY <2>3, <2>6, <2>8 DEF Alike, SameChannel, SameControl
    <2>10. BrowserParts(c, u \o b.out, e, g, o, r, jn)
      BY <1>1, <2>9, AlikeParts
    <2>11. <<Request("claim")>> \in Seq(ToGateway) /\ u \o b.out \in Seq(ToGateway) /\ c.online
      <3>1. c.online
        BY <2>1, <2>9 DEF Alike, SameChannel
      <3>2. \A x \in ToGateway : <<x>> \in Seq(ToGateway)
        OBVIOUS
      <3>3. u \o b.out \in Seq(ToGateway)
        BY <1>1
      <3> QED BY <2>7, <3>1, <3>2, <3>3
    <2>12. BrowserParts(c, (u \o b.out) \o <<Request("claim")>>, e, g, o, r, jn)
      BY <2>10, <2>11, PostParts
    <2>13. c.out \in Seq(ToGateway) /\ u \o c.out = (u \o b.out) \o <<Request("claim")>>
      <3>1. \A x \in ToGateway : /\ Append(b.out, x) \in Seq(ToGateway)
                                 /\ u \o Append(b.out, x) = (u \o b.out) \o <<x>>
        BY <1>1
      <3> QED BY <2>7, <2>8, <3>1
    <2> QED BY <2>12, <2>13 DEF Leaves, c
  <1> QED BY <1>2, <1>3

LEMMA HandleLeaseParts ==
  ASSUME NEW d \in Seq(ToBrowser), d # <<>>, NEW g \in Nat, NEW o \in {"free", "us", "other"}, NEW r \in Nat,
         FramesTrue(d, g, o, r), NEW b, NEW u \in Seq(ToGateway), NEW jn, BrowserParts(b, u, d, g, o, r, jn),
         b.out = <<>>, Head(d).type = "lease_status"
  PROVE  Leaves(HandleLease(b, Head(d)), u, Tail(d), g, o, r, jn)
  <1> DEFINE m == Head(d)
             e == Tail(d)
             c == HandleLease(b, m)
  <1>1. b \in Browser /\ b.online /\ b.baseline \in BOOLEAN
    <2>1. b \in Browser /\ b.online
      BY DEF BrowserParts, OfflineTrue
    <2> QED BY <2>1 DEF Browser
  <1>2. CASE ~b.ctl.subscribed \/ b.generation # m.generation
    <2>1. ASSUME b.ctl.subscribed
          PROVE  /\ ~Announces(m, g) /\ ~(IsLease(g, m) /\ b.generation = g)
                 /\ b.ctl.attempt # NoAttempt => m \notin Answers(b.ctl.attempt)
      <3>1. b.ctl.attempt # NoAttempt => b.ctl.attempt.generation = b.generation
        BY DEF BrowserParts, AttemptTrue
      <3> QED BY <1>2, <2>1, <3>1 DEF Announces, IsLease, Answers
    <2>2. BrowserParts(b, u, e, g, o, r, jn)
      BY <2>1, PassParts
    <2>3. c = b
      BY <1>2 DEF HandleLease
    <2> QED BY <2>2, <2>3, QuietLeaves
  <1>3. CASE b.ctl.subscribed /\ b.generation = m.generation
    <2>1. Ready(b, m, u, e, g, o, r, jn)
      BY <1>3, HeadReady
    <2>2. PICK R : R = ReduceLeaseStatus(b, m, b.baseline, FALSE)
      OBVIOUS
    <2>3. Reduced(b, R, u, e, g, o, r, jn)
      BY <1>1, <2>1, <2>2, ReduceReduced
    <2>4. /\ BrowserParts(R.b, u \o R.b.out, e, g, o, r, jn) /\ R.b.out \in Seq(ToGateway) /\ R.b.online
          /\ R.b \in Browser /\ R.b.generation = b.generation /\ (R.accepted => R.b.out = <<>>)
      BY <1>1, <2>3 DEF Reduced, BrowserParts
    <2>5. PICK next : next = IF R.conflict THEN [R.b EXCEPT !.restart = 0] ELSE R.b
      OBVIOUS
    <2>6. Alike(R.b, next) /\ next.out = R.b.out
      <3>1. CASE R.conflict
        <4>1. next = [R.b EXCEPT !.restart = 0]
          BY <2>5, <3>1
        <4> QED BY <2>4, <4>1, ZeroIs DEF Browser, Alike, SameChannel, SameControl
      <3>2. CASE ~R.conflict
        BY <2>4, <2>5, <3>2 DEF Alike, SameChannel, SameControl
      <3> QED BY <3>1, <3>2
    <2>7. BrowserParts(next, u \o R.b.out, e, g, o, r, jn) /\ next \in Browser /\ next.online
          /\ next.generation = b.generation
      BY <2>4, <2>6, AlikeParts DEF Alike, SameChannel
    <2>8. Leaves(next, u, e, g, o, r, jn)
      BY <2>4, <2>6, <2>7 DEF Leaves
    <2>9. c = IF ~R.accepted THEN next
              ELSE IF ~m.controller THEN ClaimIfReady(next)
              ELSE IF next.crashed /\ next.restart = next.generation
              THEN Post([next EXCEPT !.ctl.claimPending = FALSE, !.restart = 0],
                        [type |-> "restart", generation |-> m.generation, revision |-> m.revision])
              ELSE next
      BY <1>3, <2>2, <2>5 DEF HandleLease
    <2> HIDE DEF c
    <2>10. Leaves(ClaimIfReady(next), u, e, g, o, r, jn)
      BY <2>8, ClaimLeaves
    <2>11. ASSUME R.accepted
           PROVE  Leaves(Post([next EXCEPT !.ctl.claimPending = FALSE, !.restart = 0],
                              [type |-> "restart", generation |-> m.generation, revision |-> m.revision]),
                         u, e, g, o, r, jn)
      <3>1. PICK ctl : ctl = [next.ctl EXCEPT !.claimPending = FALSE]
        OBVIOUS
      <3>2. next.ctl \in Session
        BY <2>7 DEF Browser
      <3>3. /\ ctl \in Session /\ ctl.lease = next.ctl.lease /\ ctl.pending = next.ctl.pending
            /\ ctl.fresh = next.ctl.fresh /\ ctl.attempt = next.ctl.attempt
            /\ ctl.released = next.ctl.released /\ ctl.subscribed = next.ctl.subscribed
        BY <3>1, <3>2 DEF Session
      <3>4. PICK n : n = [next EXCEPT !.ctl.claimPending = FALSE, !.restart = 0]
        OBVIOUS
      <3>5. n = [next EXCEPT !.ctl = ctl, !.restart = 0]
        BY <2>7, <3>1, <3>4 DEF Browser
      <3>6. /\ n \in Browser /\ n.ctl = ctl /\ SameChannel(next, n) /\ n.offering = next.offering /\ n.out = <<>>
            /\ n.online
        BY <2>4, <2>6, <2>7, <2>11, <3>3, <3>5, ZeroIs DEF Browser, SameChannel
      <3>7. PICK x : x = [type |-> "restart", generation |-> m.generation, revision |-> m.revision]
        OBVIOUS
      <3>8. x \in ToGateway
        <4>1. m \in Status
          BY <2>1 DEF Ready, Heard
        <4>2. m.generation \in Nat /\ m.revision \in Int
          BY <4>1 DEF Status
        <4> QED BY <3>7, <4>2, RequestIs
      <3>9. PICK p : p = Post(n, x)
        OBVIOUS
      <3>10. Alike(n, p) /\ p.out = Append(<<>>, x)
        BY <3>6, <3>8, <3>9, PostIs
      <3>11. Alike(next, p)
        BY <3>3, <3>6, <3>10 DEF Alike, SameChannel, SameControl
      <3>12. p.out \in Seq(ToGateway)
        BY <3>8, <3>10
      <3>13. BrowserParts(next, u, e, g, o, r, jn)
        <4>1. u \o <<>> = u
          OBVIOUS
        <4> QED BY <2>4, <2>7, <2>11, <4>1
      <3>14. BrowserParts(p, u \o p.out, e, g, o, r, jn)
        BY <2>7, <3>11, <3>12, <3>13, AlikePosts
      <3> QED BY <3>4, <3>7, <3>9, <3>12, <3>14 DEF Leaves
    <2> QED BY <2>8, <2>9, <2>10, <2>11 DEF c
  <1> QED BY <1>2, <1>3

\* What was kept until the snapshot is in is judged now.
LEMMA FinishParts ==
  ASSUME NEW b, NEW u \in Seq(ToGateway), NEW d, NEW g \in Nat, NEW o \in {"free", "us", "other"}, NEW r \in Nat,
         NEW jn, BrowserParts(b, u, d, g, o, r, jn), b.out = <<>>, b.waiter = "projecting"
  PROVE  Leaves(FinishSnapshot(b), u, d, g, o, r, jn)
  <1>1. /\ b \in Browser /\ b.ctl \in Session /\ PhasesFit(b) /\ LeaseTrue(b, d, g, o, r) /\ b.generation \in Nat
        /\ Pends(b) => b.ctl.pending \in Status /\ b.ctl.pending.revision \in Nat
    <2>1. b \in Browser /\ PhasesFit(b) /\ LeaseTrue(b, d, g, o, r)
      BY DEF BrowserParts
    <2> QED BY <2>1, BrowserIs
  <1>2. ~b.baseline /\ ~b.degraded
    BY <1>1 DEF PhasesFit
  <1>3. PICK done : done = [b EXCEPT !.baseline = TRUE, !.resync = FALSE, !.waiter = "none"]
    OBVIOUS
  <1>4. /\ done \in Browser /\ done.ctl = b.ctl /\ done.online = b.online /\ done.generation = b.generation
        /\ done.baseline = TRUE /\ done.resync = FALSE /\ done.waiter = "none" /\ done.degraded = b.degraded
        /\ done.offering = b.offering /\ done.out = <<>>
    BY <1>1, <1>3 DEF Browser
  <1>5. PICK m : m = b.ctl.pending
    OBVIOUS
  <1>6. PICK ctl : ctl = [b.ctl EXCEPT !.pending = NoStatus]
    OBVIOUS
  <1>7. /\ ctl \in Session /\ ctl.pending = NoStatus /\ ctl.lease = b.ctl.lease /\ ctl.fresh = b.ctl.fresh
        /\ ctl.attempt = b.ctl.attempt /\ ctl.released = b.ctl.released /\ ctl.subscribed = b.ctl.subscribed
    BY <1>1, <1>6 DEF Session
  <1>8. PICK cleared : cleared = [done EXCEPT !.ctl.pending = NoStatus]
    OBVIOUS
  <1>9. /\ cleared \in Browser /\ cleared.ctl = ctl /\ cleared.online = b.online /\ cleared.generation = b.generation
        /\ cleared.baseline = TRUE /\ cleared.resync = FALSE /\ cleared.waiter = "none"
        /\ cleared.degraded = b.degraded /\ cleared.offering = b.offering /\ cleared.out = <<>>
    <2>1. cleared = [done EXCEPT !.ctl = ctl]
      BY <1>4, <1>6, <1>8 DEF Browser
    <2> QED BY <1>4, <1>7, <2>1 DEF Browser
  <1>10. b.offering /\ Fresh(b) => b.ctl.attempt # NoAttempt
    BY DEF BrowserParts, AttemptTrue
  <1>11. PICK R : R = ReduceLeaseStatus(cleared, m, TRUE, b.ctl.pendingExpected)
    OBVIOUS
  <1>12. FinishSnapshot(b) = ClaimIfReady(IF m = NoStatus \/ m.generation # b.generation THEN done ELSE R.b)
    BY <1>3, <1>5, <1>8, <1>11 DEF FinishSnapshot
  <1>13. CASE ~Pends(b)
    <2>1. /\ ~Pends(done) /\ (Fresh(done) <=> Fresh(b)) /\ (Attached(done, u, jn) <=> Attached(b, u, jn))
      BY <1>4, <1>13 DEF Pends, Fresh, Attached
    <2>2. PhasesFit(done) /\ LeaseTrue(done, d, g, o, r)
      BY <1>1, <1>2, <1>4, <1>13, <2>1 DEF PhasesFit, LeaseTrue
    <2>3. AttachedTrue(done, u, d, g, o, r, jn)
      BY <1>2, <1>4, <1>13, <2>1 DEF BrowserParts, AttachedTrue, Known, Shown, Settled
    <2>4. AttemptTrue(done, u, d)
      BY <1>4, <1>10, <1>13, <2>1 DEF BrowserParts, AttemptTrue, Outstanding
    <2>5. BrowserParts(done, u, d, g, o, r, jn)
      BY <1>4, <2>2, <2>3, <2>4 DEF BrowserParts, OfflineTrue
    <2>6. Leaves(done, u, d, g, o, r, jn)
      BY <1>4, <2>5, QuietLeaves
    <2>7. m = NoStatus
      BY <1>5, <1>13 DEF Pends
    <2> QED BY <1>12, <2>6, <2>7, ClaimLeaves
  <1>14. CASE Pends(b)
    <2>1. /\ b.online /\ b.ctl.subscribed /\ m.generation = b.generation /\ b.generation # 0 /\ m \in Status
          /\ m # NoStatus /\ m.revision \in Nat
      BY <1>1, <1>5, <1>14 DEF PhasesFit, Pends
    <2>2. /\ ~Pends(cleared) /\ (Fresh(cleared) <=> Fresh(b)) /\ (Attached(cleared, u, jn) <=> Attached(b, u, jn))
      BY <1>7, <1>9 DEF Pends, Fresh, Attached
    <2>3. PhasesFit(cleared) /\ LeaseTrue(cleared, d, g, o, r)
      BY <1>1, <1>2, <1>7, <1>9, <2>2 DEF PhasesFit, LeaseTrue
    <2>4. Heard(cleared, m, u, d, g, o, r, jn)
      <3>1. ASSUME b.generation = g
            PROVE  /\ Agrees(m, o, r) /\ b.ctl.lease.revision <= m.revision
                   /\ \A i \in 1..Len(d) : IsLease(g, d[i]) => m.revision <= d[i].revision
        BY <1>1, <1>5, <1>14, <3>1 DEF LeaseTrue
      <3>2. ASSUME Attached(b, u, jn)
            PROVE  /\ Known(b, d, g, r)
                   /\ Silent(d, g) /\ b.generation # g => o # "us"
                   /\ Silent(d, g) /\ b.generation = g /\ ~Sent("release", u) => m.revision = r
        BY <1>5, <1>14, <3>2 DEF BrowserParts, AttachedTrue, Shown
      <3> QED BY <1>7, <1>9, <2>1, <2>2, <3>1, <3>2 DEF Heard, Known
    <2>5. AttemptHeard(cleared, m, u, d)
      <3>1. ASSUME b.ctl.attempt # NoAttempt PROVE m.revision > b.ctl.attempt.revision \/ Outstanding(cleared, u, d)
        BY <1>5, <1>7, <1>9, <3>1 DEF BrowserParts, AttemptTrue, Outstanding
      <3> QED BY <1>7, <1>9, <1>10, <2>2, <3>1 DEF AttemptHeard, BrowserParts, AttemptTrue
    <2>6. Ready(cleared, m, u, d, g, o, r, jn)
      BY <1>7, <1>9, <2>1, <2>3, <2>4, <2>5 DEF Ready
    <2>7. b.ctl.pendingExpected \in BOOLEAN
      BY <1>1 DEF Session
    <2>8. Reduced(cleared, R, u, d, g, o, r, jn)
      BY <1>11, <2>6, <2>7, ReduceReduced
    <2>9. Leaves(R.b, u, d, g, o, r, jn)
      BY <2>8 DEF Reduced, Leaves
    <2> QED BY <1>12, <2>1, <2>9, ClaimLeaves
  <1> QED BY <1>13, <1>14

-----------------------------------------------------------------------------
(* The steps that remain, and the theorem                                  *)

LEMMA ProjectStep ==
  ASSUME ControlInv, Project
  PROVE  ControlInv'
  <1>1. PICK c : c = FinishSnapshot(browser)
    OBVIOUS
  <1>2. Becomes(c) /\ UNCHANGED gateway /\ UNCHANGED down /\ requests' = requests /\ browser.waiter = "projecting"
    BY <1>1 DEF Project
  <1>3. Leaves(c, up, down, generation, owner, revision, joined)
    BY <1>1, <1>2, NowIs, ShapeIs, FinishParts
  <1> QED BY <1>2, <1>3, NowIs, LocalStep DEF Leaves

LEMMA ReceiveStep ==
  ASSUME ControlInv, Receive
  PROVE  ControlInv'
  <1>1. PICK c \in Handle(browser, Head(down)) : Becomes(c)
    BY DEF Receive
  <1>2. down # <<>> /\ down' = Tail(down) /\ UNCHANGED gateway /\ requests' = requests
    BY DEF Receive
  <1>3. /\ down \in Seq(ToBrowser) /\ up \in Seq(ToGateway) /\ generation \in 0..MaxGeneration /\ generation \in Nat
        /\ owner \in {"free", "us", "other"} /\ revision \in Nat
        /\ FramesTrue(down, generation, owner, revision) /\ browser.out = <<>>
        /\ BrowserParts(browser, up, down, generation, owner, revision, joined)
    <2>1. GatewayShape
      BY DEF ControlInv
    <2>2. generation \in 0..MaxGeneration /\ down \in Seq(ToBrowser)
      BY <2>1, ControlAssumption DEF GatewayShape
    <2> QED BY <2>1, <2>2, NowIs, ShapeIs DEF GatewayShape
  <1>4. Tail(down) \in Seq(ToBrowser) /\ FramesTrue(Tail(down), generation, owner, revision)
        /\ Head(down).type \in {"lease_status", "runtime_state", "resync_required", "session_snapshot", "session_error"}
    <2>1. Tail(down) \in Seq(ToBrowser) /\ FramesTrue(Tail(down), generation, owner, revision) /\ Head(down) \in ToBrowser
      BY <1>2, <1>3, HeadIs
    <2> QED BY <2>1, FrameIs
  <1>5. Leaves(c, up, Tail(down), generation, owner, revision, joined)
    <2>1. CASE Head(down).type = "runtime_state"
      <3>1. c = HandleRuntimeState(browser, Head(down))
        BY <2>1 DEF Handle
      <3> QED BY <1>2, <1>3, <2>1, <3>1, RuntimeStateParts
    <2>2. CASE Head(down).type = "resync_required"
      <3>1. c = HandleResyncRequired(browser, Head(down))
        BY <2>2 DEF Handle
      <3> QED BY <1>2, <1>3, <2>2, <3>1, ResyncRequiredParts
    <2>3. CASE Head(down).type = "session_snapshot"
      <3>1. c = HandleSnapshot(browser, Head(down))
        BY <2>3 DEF Handle
      <3> QED BY <1>2, <1>3, <2>3, <3>1, SnapshotParts
    <2>4. CASE Head(down).type = "lease_status"
      <3>1. c = HandleLease(browser, Head(down))
        BY <2>4 DEF Handle
      <3> QED BY <1>2, <1>3, <2>4, <3>1, HandleLeaseParts
    <2>5. CASE Head(down).type = "session_error"
      <3>1. c \in HandleError(browser, Head(down))
        BY <2>5 DEF Handle
      <3> QED BY <1>2, <1>3, <2>5, <3>1, ErrorParts
    <2> QED BY <1>4, <2>1, <2>2, <2>3, <2>4, <2>5
  <1> QED BY <1>1, <1>2, <1>4, <1>5, NowIs, BrowserStep DEF Leaves

LEMMA ControlStarts ==
  ASSUME ControlInit
  PROVE  ControlInv
  <1>1. /\ generation = 1 /\ overflowed = FALSE /\ owner = "free" /\ revision = 0 /\ joined = FALSE
        /\ up = <<>> /\ down = <<>> /\ browser = NewBrowser /\ requests = 0
    BY DEF ControlInit
  <1>2. <<>> \in Seq(ToGateway) /\ <<>> \in Seq(ToBrowser)
    OBVIOUS
  <1>3. GatewayShape
    <2>1. 1 \in 1..MaxGeneration /\ 0 \in 0..MaxRevision /\ 0 \in 0..MaxControl
      BY ControlAssumption
    <2>2. up \in Seq(ToGateway) /\ down \in Seq(ToBrowser)
      BY <1>1, <1>2
    <2>3. owner \in {"free", "us", "other"} /\ overflowed \in BOOLEAN /\ joined \in BOOLEAN
      BY <1>1
    <2> QED BY <1>1, <2>1, <2>2, <2>3 DEF GatewayShape
  <1>4. EmptySession \in Session
    BY ZeroIs DEF EmptySession, Session
  <1>5. /\ browser \in Browser /\ browser.ctl = EmptySession /\ browser.online = TRUE /\ browser.generation = 0
        /\ browser.out = <<>> /\ browser.baseline = FALSE /\ browser.resync = FALSE /\ browser.waiter = "none"
        /\ browser.degraded = FALSE
    BY <1>1, <1>2, <1>4, ZeroIs DEF NewBrowser, Browser
  <1>6. Blank(browser) /\ ChannelFits(browser) /\ ~browser.ctl.subscribed
    BY <1>5, ZeroIs DEF Blank, ChannelFits, EmptySession
  <1>7. FramesTrue(down, generation, owner, revision) /\ \A i \in 1..Len(down) : FALSE
    <2>1. FramesTrue(<<>>, generation, owner, revision)
      BY <1>2, NothingTold
    <2>2. \A i \in 1..Len(<<>>) : FALSE
      OBVIOUS
    <2> QED BY <1>1, <2>1, <2>2
  <1>8. AttachedTrue(browser, up, down, generation, owner, revision, joined)
        /\ OfflineTrue(browser, up, down, joined)
    BY <1>5, <1>6 DEF AttachedTrue, Attached, OfflineTrue
  <1>9. generation \in Nat /\ revision \in Nat /\ browser.generation <= generation
    BY <1>1, <1>5
  <1>10. BrowserParts(browser, up, down, generation, owner, revision, joined)
    BY <1>5, <1>6, <1>7, <1>8, <1>9, BlankParts
  <1> QED BY <1>3, <1>5, <1>7, <1>10 DEF ControlInv, ControlParts

LEMMA ControlMoves ==
  ASSUME ControlInv, [ControlNext]_controlVars
  PROVE  ControlInv'
  <1>1. CASE UNCHANGED controlVars
    BY <1>1 DEF controlVars, gateway, ControlInv, ControlParts, GatewayShape
  <1>2. CASE ControlNext
    BY <1>2, SubscribeStep, UnsubscribeStep, ResubscribeStep, ClaimStep, ReleaseStep, TakeoverStep, ManualRetryStep,
       SuffixFailsStep, ProjectStep, ProjectionFailsStep, ReceiveStep, OtherActsStep, RestartsStep, OverflowsStep,
       ServeStep, DisconnectStep, RejoinStep
    DEF ControlNext
  <1> QED BY <1>1, <1>2

LEMMA ControlShows ==
  ASSUME ControlInv
  PROVE  ControlExact
  <1>1. /\ GatewayShape /\ FramesTrue(down, generation, owner, revision) /\ browser \in Browser /\ browser.out = <<>>
        /\ BrowserParts(browser, up, down, generation, owner, revision, joined)
    BY NowIs DEF ControlInv
  <1>2. ControlShape
    BY <1>1, BrowserIs DEF ControlShape, GatewayShape, Browser, Session, Generations
  <1>3. ASSUME Quiet
        PROVE  /\ Known(browser, down, generation, revision)
               /\ Silent(down, generation) /\ browser.generation = generation
               /\ ~Settled(browser, revision)
               /\ Shown(browser, owner, revision)
               /\ ~Outstanding(browser, up, down)
    <2>1. /\ up = <<>> /\ down = <<>> /\ browser.online /\ browser.ctl.subscribed /\ joined
          /\ browser.baseline /\ browser.waiter = "none"
      BY <1>3 DEF Quiet
    <2>2. \A S : ~Holds(up, S) /\ ~Holds(down, S)
      BY <2>1, HoldsFew
    <2>3. Attached(browser, up, joined) /\ Silent(down, generation) /\ ~Sent("release", up)
      BY <2>1, <2>2 DEF Attached, Sent, Silent
    <2>4. Known(browser, down, generation, revision)
      BY <1>1, <2>3 DEF BrowserParts, AttachedTrue
    <2>5. browser.generation = generation
      <3>1. \A i \in 1..Len(down) : FALSE
        BY <2>1, NothingTold
      <3> QED BY <2>4, <3>1 DEF Known
    <2>6. Shown(browser, owner, revision)
      BY <1>1, <2>3, <2>5 DEF BrowserParts, AttachedTrue
    <2>7. ~Pends(browser)
      BY <1>1, <2>1 DEF BrowserParts, PhasesFit
    <2> QED BY <2>1, <2>2, <2>3, <2>4, <2>5, <2>6, <2>7 DEF Settled, Outstanding
  <1>4. LeaseShownExact
    <2>1. ASSUME Quiet, Fresh(browser)
          PROVE  /\ browser.generation = generation /\ browser.ctl.lease.revision = revision
                 /\ browser.ctl.lease.controller = (owner = "us") /\ browser.ctl.lease.held = (owner # "free")
      BY <1>1, <1>3, <2>1 DEF Shown, BrowserParts, LeaseTrue
    <2> QED BY <2>1 DEF LeaseShownExact
  <1>5. NothingHeldUnknown
    BY <1>3 DEF NothingHeldUnknown, Shown
  <1>6. AttemptsEnd
    <2>1. ASSUME Quiet, Fresh(browser)
          PROVE  browser.ctl.attempt = NoAttempt /\ ~browser.offering
      <3>1. browser.baseline
        BY <2>1 DEF Quiet
      <3> QED BY <1>1, <1>3, <2>1, <3>1 DEF BrowserParts, AttemptTrue
    <2> QED BY <2>1 DEF AttemptsEnd
  <1> QED BY <1>2, <1>4, <1>5, <1>6 DEF ControlExact

\* Once everything the gateway and the browser sent each other has arrived, the
\* lease the browser holds to be current is the gateway's, the gateway keeps no
\* lease for the browser that it does not know of, and no takeover is still under
\* way: the control machine (control-machine.ts) with the handlers of
\* session-transport.ts, over any run of snapshots, resyncs, crashes, restarts
\* and lost connections.
THEOREM ControlTheorem == ControlSpec => []ControlExact
  <1>1. ControlInit => ControlInv
    BY ControlStarts
  <1>2. ControlInv /\ [ControlNext]_controlVars => ControlInv'
    BY ControlMoves
  <1>3. ControlInv => ControlExact
    BY ControlShows
  <1> QED BY <1>1, <1>2, <1>3, PTL DEF ControlSpec
=============================================================================
