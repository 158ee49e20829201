-------------------------- MODULE ExtensionDialogs --------------------------
(***************************************************************************)
(* What a Pi extension shows the user: dialogs that block it (select,      *)
(* confirm, input, editor), sticky state (status, widget, title, editor    *)
(* text) and notifications.  session-runtime.ts keeps the open dialogs and *)
(* the sticky state within limits and publishes frames for them;           *)
(* extension-machine.ts and extension-ui.ts rebuild the same picture in    *)
(* the browser from frames, results and snapshots.                         *)
(*                                                                         *)
(* Frames are held back while the runtime starts and while its identity    *)
(* changes, dialogs expire, are answered or replaced meanwhile, and the    *)
(* browser buffers frames while it waits for a snapshot.                   *)
(*                                                                         *)
(* A request is told apart by its number; every entry weighs one item.     *)
(* One browser is connected throughout and is in control; its messages     *)
(* arrive in order.                                                        *)
(***************************************************************************)
EXTENDS Integers, Sequences

CONSTANTS
  Dialog,        \* request ids of dialogs: used again only while the dialog is open
  Key,           \* sticky keys
  PendingLimit,  \* pendingDialogLimit
  MaxItems,      \* extensionStateMaxItems
  MaxRequests,   \* bound: requests of the extension
  MaxDown,       \* bound: messages on their way to the browser
  MaxResyncs,    \* bound: resyncs
  None

VARIABLES
  runtime,       \* SessionRuntime: its dialogs, sticky state and frames held back
  down,          \* messages on their way to the browser
  browser,       \* the browser's picture
  up,            \* responses on their way to the server
  told           \* what Pi was told of its dialogs, what was notified (history)

vars == <<runtime, down, browser, up, told>>

Init ==
  /\ runtime = [phase |-> "startup", pending |-> <<>>, sticky |-> <<>>, held |-> <<>>, seq |-> 0,
                asked |-> 0, used |-> {}, resyncs |-> 0]
  /\ down = <<>>
  /\ browser = [seq |-> 0, pending |-> <<>>, barrier |-> None, snapshot |-> None, buffer |-> <<>>, acknowledged |-> {},
                delivered |-> {}, responding |-> {}]
  /\ up = <<>>
  /\ told = [answers |-> <<>>, notified |-> <<>>]

Request(kind, id, clear, n) == [type |-> "request", kind |-> kind, id |-> id, clear |-> clear, n |-> n]
Closed(id) == [Request("dialog", id, FALSE, 0) EXCEPT !.type = "closed"]
Cleared(x) == [x EXCEPT !.clear = TRUE]

\* The members of a sequence, and what is left of it with these members only.
Among(s) == {s[i] : i \in DOMAIN s}
Left(s, T) ==
  LET From[i \in 0..Len(s)] ==
        IF i = 0 THEN <<>> ELSE IF s[i] \in T THEN Append(From[i - 1], s[i]) ELSE From[i - 1]
  IN From
Only(s, T) == Left(s, T)[Len(s)]

\* The insertion order of a Map, whose keys are the kind and the id.
SameKey(x, y) == x.kind = y.kind /\ x.id = y.id
Without(s, x) == Only(s, {y \in Among(s) : ~SameKey(x, y)})
Holds(s, x) == \E y \in Among(s) : SameKey(x, y)
Set(s, x) == Append(Without(s, x), x)
Contains(s, x) == x \in Among(s)

-----------------------------------------------------------------------------
(* The runtime.                                                             *)

Fits(pending, sticky) == Len(pending) <= PendingLimit /\ Len(pending) + Len(sticky) <= MaxItems

\* planExtensionRequestSemanticMutation: what request x makes of the dialogs,
\* the sticky state and the frames of p.  A sticky request evicts the oldest
\* ones until it fits, and itself if it never does.
Evicting(p, x) ==
  LET others == Without(p.sticky, x)
      fitting == {k \in 0..Len(others) : Len(p.pending) + Len(others) - k < MaxItems}
      k == IF fitting = {} THEN Len(others) ELSE CHOOSE i \in fitting : \A j \in fitting : i <= j
      kept == SubSeq(others, k + 1, Len(others))
      gone == [i \in 1..k |-> Cleared(others[i])]
  IN IF fitting # {}
     THEN [p EXCEPT !.sticky = Append(kept, x), !.frames = @ \o gone \o <<x>>]
     ELSE [p EXCEPT !.sticky = kept, !.frames = @ \o gone \o <<Cleared(x)>>]

Plan(p, x, close) ==
  CASE x.kind = "dialog" ->
         [p EXCEPT !.pending = Set(@, x),
                   !.frames = @ \o (IF close /\ Holds(p.pending, x) THEN <<Closed(x.id), x>> ELSE <<x>>)]
    [] x.kind = "sticky" /\ ~x.clear -> Evicting(p, x)
    [] x.kind = "sticky" /\ x.clear -> [p EXCEPT !.sticky = Without(@, x), !.frames = Append(@, x)]
    [] OTHER -> [p EXCEPT !.frames = Append(@, x)]

State(r) == [pending |-> r.pending, sticky |-> r.sticky, frames |-> <<>>]
With(r, p) == [r EXCEPT !.pending = p.pending, !.sticky = p.sticky]

\* emitFrame: the next sequence numbers, and out to the browser.
Emitted(r, frames) == [r EXCEPT !.seq = @ + Len(frames)]
Numbered(f, n) == [type |-> f.type, kind |-> f.kind, id |-> f.id, clear |-> f.clear, n |-> f.n, seq |-> n]
Wire(r, frames) == [i \in DOMAIN frames |-> Numbered(frames[i], r.seq + i)]
Emits(r, frames) == runtime' = Emitted(r, frames) /\ down' = down \o Wire(r, frames)

\* Requests an extension may make: a new dialog, one more with the id of an
\* open one, a sticky state set or cleared, a notification.
Asked(n) ==
  [type : {"request"}, kind : {"dialog"}, id : (Dialog \ runtime.used) \cup {x.id : x \in Among(runtime.pending)},
   clear : {FALSE}, n : {n}]
  \cup [type : {"request"}, kind : {"sticky"}, id : Key, clear : BOOLEAN, n : {n}]
  \cup [type : {"request"}, kind : {"notify"}, id : {None}, clear : {FALSE}, n : {n}]

\* handleExtensionRequest, prepareDecodedExtensionRequest.  A request that
\* does not fit fails the process (not continued here).
ExtensionRequest ==
  \E x \in Asked(runtime.asked + 1) :
    LET r == [runtime EXCEPT !.asked = @ + 1, !.used = IF x.kind = "dialog" THEN @ \cup {x.id} ELSE @]
        p == Plan(State(r), x, r.phase # "startup")
        tracked == [r EXCEPT !.pending = Set(@, x)]
        close == IF Holds(r.pending, x) THEN <<Closed(x.id)>> ELSE <<>> IN
    /\ runtime.asked < MaxRequests
    /\ Len(down) < MaxDown
    /\ x.kind = "dialog" => Fits(p.pending, p.sticky)
    /\ UNCHANGED <<browser, up, told>>
    /\ CASE r.phase = "startup" ->
              \* the frame of the dialog it replaces is taken back
              /\ runtime' = [With(r, p) EXCEPT !.held =
                   (IF x.kind = "dialog" THEN Only(@, {f \in Among(@) : ~Contains(r.pending, f) \/ ~SameKey(x, f)})
                    ELSE @) \o p.frames]
              /\ UNCHANGED down
         [] r.phase = "ready" -> Emits(With(r, p), p.frames)
         [] r.phase = "awaiting" /\ x.kind = "dialog" -> Emits(tracked, close \o <<x>>)
         [] r.phase = "verifying" /\ x.kind = "dialog" -> Emits([tracked EXCEPT !.held = Append(@, x)], close)
         [] OTHER -> runtime' = [r EXCEPT !.held = Append(@, x)] /\ UNCHANGED down

\* Fault: whatever was held back is published.
AuthoritativeAll(r) == r.held

\* A frame held back for a dialog is published only if that dialog is open.
Authoritative(r) == Only(r.held, {f \in Among(r.held) : f.kind # "dialog" \/ Contains(r.pending, f)})

\* start: the frames of the startup follow the baseline.
Ready ==
  /\ runtime.phase = "startup"
  /\ Emits([runtime EXCEPT !.phase = "ready", !.held = <<>>], Authoritative(runtime))
  /\ UNCHANGED <<browser, up, told>>

\* An identity command is sent, and its response starts being verified.
TransitionStarts ==
  /\ runtime.phase = "ready"
  /\ runtime' = [runtime EXCEPT !.phase = "awaiting"]
  /\ UNCHANGED <<down, browser, up, told>>
Verifies ==
  /\ runtime.phase = "awaiting"
  /\ runtime' = [runtime EXCEPT !.phase = "verifying"]
  /\ UNCHANGED <<down, browser, up, told>>

\* commitParentConfirmedTransition, commitTransitionFrames: the process stays
\* with its Session; the staged frames become state and frames in order.
Expanding(r) ==
  LET Step[i \in 0..Len(r.held)] ==
        IF i = 0 THEN State(r)
        ELSE LET f == r.held[i]
                 p == Step[i - 1] IN
             IF f.kind # "dialog" THEN Plan(p, f, TRUE)
             ELSE IF Contains(r.pending, f) THEN [p EXCEPT !.frames = Append(@, f)] ELSE p
  IN Step
Expanded(r) == Expanding(r)[Len(r.held)]

TransitionCommits ==
  /\ runtime.phase \in {"awaiting", "verifying"}
  /\ Emits([With(runtime, Expanded(runtime)) EXCEPT !.phase = "ready", !.held = <<>>], Expanded(runtime).frames)
  /\ UNCHANGED <<browser, up, told>>

\* closeDialog: nothing is published before the runtime is ready.
Close(id) == [runtime EXCEPT !.pending = Without(@, Closed(id))]
ClosedFrames(id) == IF runtime.phase = "startup" THEN <<>> ELSE <<Closed(id)>>
PendingOf(id) == Only(runtime.pending, {y \in Among(runtime.pending) : y.id = id})

\* expireDialog: the timer of the very dialog that is open.
Expires(id) ==
  /\ PendingOf(id) # <<>>
  /\ Emits(Close(id), ClosedFrames(id))
  /\ told' = [told EXCEPT !.answers = Append(@, PendingOf(id)[1].n)]
  /\ UNCHANGED <<browser, up>>

\* sendExtensionUiResponse, and the result the gateway sends back.
HandleResponse ==
  LET id == up[1]
      open == PendingOf(id)
      frames == IF open = <<>> THEN <<>> ELSE ClosedFrames(id) IN
  /\ up # <<>>
  /\ up' = Tail(up)
  /\ runtime' = Emitted(IF open = <<>> THEN runtime ELSE Close(id), frames)
  /\ down' = down \o Wire(runtime, frames) \o <<[type |-> "result", id |-> id]>>
  /\ told' = [told EXCEPT !.answers = IF open = <<>> THEN @ ELSE Append(@, open[1].n)]
  /\ UNCHANGED browser

\* A subscription that cannot be replayed: the gateway says so and sends the
\* snapshot it read, in one turn.
ResyncRequired ==
  /\ runtime.resyncs < MaxResyncs /\ runtime.phase # "startup"
  /\ Len(down) < MaxDown
  /\ runtime' = [runtime EXCEPT !.resyncs = @ + 1]
  /\ down' = Append(down, [type |-> "resync", seq |-> runtime.seq, requests |-> runtime.pending \o runtime.sticky])
  /\ UNCHANGED <<browser, up, told>>

-----------------------------------------------------------------------------
(* The browser.                                                             *)

\* reduceSessionExtensionMachine "replay": a clear stays as the last request
\* of its key and shows nothing.
Replayed(pending, f) ==
  IF f.type = "closed" THEN Without(pending, f) ELSE Set(pending, Request(f.kind, f.id, f.clear, f.n))
Applied(b, f) ==
  IF f.kind = "notify" THEN [b EXCEPT !.delivered = @ \cup {f.seq}]
  ELSE [b EXCEPT !.pending = Replayed(@, f), !.responding = @ \ {f.n}]

\* A frame while a snapshot is awaited: kept for later, shown already, its
\* notification not.
Buffered(b, f) ==
  IF f.seq <= b.barrier THEN b
  ELSE [(IF f.kind = "notify" THEN b ELSE [b EXCEPT !.pending = Replayed(@, f)])
          EXCEPT !.buffer = Append(@, f), !.seq = f.seq]

ReceiveFrame(f) ==
  LET b == browser
      fresh == f.seq > b.seq \/ (f.kind = "notify" /\ f.seq \notin b.delivered) IN
  IF b.barrier # None THEN browser' = Buffered(b, f) /\ UNCHANGED told
  ELSE /\ browser' = IF fresh THEN [Applied(b, f) EXCEPT !.seq = f.seq] ELSE b
       /\ told' = IF fresh /\ f.kind = "notify" THEN [told EXCEPT !.notified = Append(@, f.n)] ELSE told

\* handleExtensionResult: the dialog goes, and a snapshot must not bring it back.
ReceiveResult(m) ==
  /\ browser' = [browser EXCEPT
       !.pending = Without(@, Closed(m.id)),
       !.acknowledged = IF browser.barrier = None THEN @ ELSE @ \cup {m.id}]
  /\ UNCHANGED told

ReceiveResync(m) ==
  /\ browser' = [browser EXCEPT !.barrier = m.seq, !.snapshot = m, !.buffer = <<>>, !.acknowledged = {}]
  /\ UNCHANGED told

\* commitSessionSnapshot, once the parts of the snapshot are there and its
\* contents read: the snapshot, then the frames after it, both without
\* the dialogs the user has answered meanwhile.
Kept(b, x) == x.kind = "dialog" => x.id \notin b.acknowledged
Suffix(b) == Only(b.buffer, {f \in Among(b.buffer) : f.seq > b.snapshot.seq})
Committing(b) ==
  LET Step[i \in 0..Len(Suffix(b))] ==
        IF i = 0
        THEN [b EXCEPT !.pending = Only(b.snapshot.requests, {x \in Among(b.snapshot.requests) : Kept(b, x)}),
                       !.seq = b.snapshot.seq, !.responding = {},
                       !.barrier = None, !.snapshot = None, !.buffer = <<>>, !.acknowledged = {}]
        ELSE LET f == Suffix(b)[i] IN
             [(IF f.type = "closed" \/ Kept(b, f) THEN Applied(Step[i - 1], f) ELSE Step[i - 1]) EXCEPT !.seq = f.seq]
  IN Step
Notified(b) == Only(Suffix(b), {f \in Among(Suffix(b)) : f.kind = "notify"})

CommitSnapshot ==
  /\ browser.barrier # None
  /\ UNCHANGED <<runtime, down, up>>
  /\ browser' = Committing(browser)[Len(Suffix(browser))]
  /\ told' = [told EXCEPT !.notified = @ \o [i \in DOMAIN Notified(browser) |-> Notified(browser)[i].n]]

Receive ==
  LET m == down[1] IN
  /\ down # <<>>
  /\ down' = Tail(down)
  /\ UNCHANGED <<runtime, up>>
  /\ CASE m.type = "resync" -> ReceiveResync(m)
       [] m.type = "result" -> ReceiveResult(m)
       [] OTHER -> ReceiveFrame(m)

\* respond: an open dialog, once.
Respond ==
  \E i \in DOMAIN browser.pending :
    LET x == browser.pending[i] IN
    /\ x.kind = "dialog" /\ x.n \notin browser.responding
    /\ browser.barrier = None
    /\ up' = Append(up, x.id)
    /\ browser' = [browser EXCEPT !.responding = @ \cup {x.n}]
    /\ UNCHANGED <<runtime, down, told>>

Next ==
  \/ ExtensionRequest \/ Ready \/ TransitionStarts \/ Verifies \/ TransitionCommits
  \/ \E id \in Dialog : Expires(id)
  \/ HandleResponse \/ ResyncRequired
  \/ Receive \/ CommitSnapshot \/ Respond

Spec == Init /\ [][Next]_vars

-----------------------------------------------------------------------------
(* What must hold.                                                          *)

CaughtUp ==
  /\ down = <<>> /\ browser.barrier = None
  /\ runtime.phase = "ready"

Shown(kind) == {[id |-> x.id, n |-> x.n] :
                  x \in {y \in Among(browser.pending) : y.kind = kind /\ ~y.clear}}
Open(s) == {[id |-> x.id, n |-> x.n] : x \in Among(s)}

\* A browser that has received everything shows exactly the dialogs Pi still
\* waits for and the sticky state the runtime keeps, whatever was answered,
\* expired, replaced, evicted or held back in between, and Pi hears of a
\* dialog at most once, the user of a notification at most once.
DialogsAgree ==
  /\ CaughtUp => Shown("dialog") = Open(runtime.pending) /\ Shown("sticky") = Open(runtime.sticky)
  /\ \A i, j \in DOMAIN told.answers : told.answers[i] = told.answers[j] => i = j
  /\ \A i, j \in DOMAIN told.notified : told.notified[i] = told.notified[j] => i = j
=============================================================================
