--------------------------- MODULE LiveProjection ---------------------------
(***************************************************************************)
(* SessionLiveProjection: the settled messages of a Session and the events    *)
(* that came after them, from which a browser that joins rebuilds what one that   *)
(* followed every event shows.  Pi runs turns and writes its events and answers    *)
(* to one pipe; the runtime commits them one by one, hands them to the follower,  *)
(* and when it is idle replaces the base by what Pi answers to get_messages.       *)
(* The follower holds back the deltas of a frame (SessionEventScheduler).           *)
(***************************************************************************)
EXTENDS Transcript, FiniteSets

CONSTANTS
    MaxSuffix,  \* how many events the suffix holds; a turn is given half of them
    MaxRuns,    \* bound: agent runs
    MaxSteps,   \* bound: assistant messages
    MaxDeltas,  \* bound: deltas of a message
    MaxExtras,  \* bound: runs nobody asked for, touches, dialogs and lost connections
    MaxPipe,    \* bound: events in the pipe when Pi writes
    MaxLag,     \* bound: frames on their way to the follower
    Stops       \* how a message ends

VARIABLES
    messages,   \* Pi's context
    pi,         \* what Pi is at: [at, steps, text, tool, runs, next]
    commands,   \* commands on their way to Pi
    out,        \* events and answers in Pi's pipe
    proj,       \* [base, baseSeq, suffix, asOfSeq, queue, pending, phase, revision]
    compaction, \* [state, revision, asOfSeq, messages]
    turns,      \* [reserved, next, cutoff, spent]: turns accepted and not begun, those
                \* a queue took, and the events of the turn in progress
    up,         \* the process runs
    link,       \* frames on their way to the follower
    page,       \* what the follower shows: [view, runs, ident, queue]
    extras      \* of what MaxExtras bounds, how much has happened

vars == <<messages, pi, commands, out, proj, compaction, turns, up, link, page, extras>>
server == <<proj, compaction, turns, up>>

Idle == [state |-> "none", revision |-> 0, asOfSeq |-> 0, messages |-> <<>>]
Init ==
    /\ messages = <<>>
    /\ pi = [at |-> "idle", steps |-> 0, text |-> 0, tool |-> NoTool, runs |-> 0, next |-> 1]
    /\ commands = <<>> /\ out = <<>> /\ link = <<>>
    /\ proj = [base |-> <<>>, baseSeq |-> 0, suffix |-> <<>>, asOfSeq |-> 0, queue |-> 0,
               pending |-> FALSE, phase |-> "idle", revision |-> 0]
    /\ compaction = Idle
    /\ turns = [reserved |-> {}, next |-> 1, cutoff |-> 0, spent |-> 0]
    /\ up = TRUE /\ extras = 0
    /\ page = [view |-> EmptyProjection, runs |-> <<>>, ident |-> 0, queue |-> 0]

(***************************************************************************)
(* Pi.                                                                        *)
(***************************************************************************)
Writes(es) == Len(out) <= MaxPipe /\ out' = out \o es
Says(types) == [i \in DOMAIN types |-> [type |-> types[i]]]
User == [type |-> "user", id |-> pi.next]

\* A run begins with the message of a prompt, or with one of an extension.
PiBegins ==
    /\ pi.at = "idle" /\ pi.runs < MaxRuns /\ pi.steps < MaxSteps
    /\ Writes(Says(<<"agent_start", "turn_start">>) \o <<User>>)
    /\ messages' = Append(messages, User)
    /\ pi' = [pi EXCEPT !.at = "turn", !.runs = @ + 1, !.next = @ + 1]
PiIsPrompted == Len(commands) > 0 /\ Head(commands) = "prompt" /\ PiBegins /\ commands' = Tail(commands) /\ UNCHANGED extras
PiIsNotPrompted == extras < MaxExtras /\ extras' = extras + 1 /\ PiBegins /\ UNCHANGED commands
\* A prompt that finds Pi at work is queued, and steers it at its next turn.
PiIsSteered ==
    /\ Len(commands) > 0 /\ Head(commands) = "prompt" /\ pi.at = "next"
    /\ commands' = Tail(commands)
    /\ Writes(<<[type |-> "queue_update", n |-> 1], [type |-> "turn_start"], [type |-> "queue_update", n |-> 0], User>>)
    /\ messages' = Append(messages, User)
    /\ pi' = [pi EXCEPT !.at = "turn", !.next = @ + 1]
    /\ UNCHANGED extras
PiAnswers ==
    /\ Len(commands) > 0 /\ Head(commands) = "get_messages"
    /\ commands' = Tail(commands)
    /\ Writes(<<[type |-> "messages", list |-> messages]>>)
    /\ UNCHANGED <<messages, pi, extras>>
PiGoesOn ==
    /\ pi.at = "next" /\ Writes(Says(<<"turn_start">>)) /\ pi' = [pi EXCEPT !.at = "turn"]
    /\ UNCHANGED <<messages, commands, extras>>
PiStreams ==
    /\ \/ pi.at = "turn" /\ pi.steps < MaxSteps /\ Writes(Says(<<"assistant">>))
          /\ pi' = [pi EXCEPT !.at = "message", !.steps = @ + 1, !.text = 0, !.tool = NoTool]
       \/ pi.at = "message" /\ pi.text < MaxDeltas /\ pi.tool = NoTool
          /\ Writes(<<[type |-> "delta", n |-> 1]>>) /\ pi' = [pi EXCEPT !.text = @ + 1]
       \/ pi.at = "message" /\ pi.tool = NoTool
          /\ Writes(<<[type |-> "toolcall_end", tool |-> pi.next]>>)
          /\ pi' = [pi EXCEPT !.tool = pi.next, !.next = @ + 1]
    /\ UNCHANGED <<messages, commands, extras>>
PiEndsMessage(stop) ==
    /\ pi.at = "message"
    /\ stop = "toolUse" => pi.tool # NoTool /\ pi.steps < MaxSteps
    /\ stop = "stop" => pi.tool = NoTool
    /\ LET m == [type |-> "message_end", text |-> pi.text, tool |-> pi.tool, stop |-> stop]
       IN  /\ Writes(<<m>> \o Says(IF stop = "toolUse" THEN <<>> ELSE <<"turn_end", "agent_settled">>))
           /\ messages' = Append(messages, m)
    /\ pi' = [pi EXCEPT !.at = IF stop = "toolUse" THEN "call" ELSE "idle"]
    /\ UNCHANGED <<commands, extras>>
PiRunsTool(error) ==
    /\ \/ pi.at = "call" /\ Writes(<<[type |-> "tool_start", tool |-> pi.tool]>>)
          /\ pi' = [pi EXCEPT !.at = "running"] /\ UNCHANGED messages
       \/ LET m == [type |-> "result", tool |-> pi.tool, error |-> error]
          IN  /\ pi.at = "running"
              /\ Writes(<<[m EXCEPT !.type = "tool_end"], m, [type |-> "turn_end"]>>)
              /\ messages' = Append(messages, m)
              /\ pi' = [pi EXCEPT !.at = "next"]
    /\ UNCHANGED <<commands, extras>>
PiAsks ==
    /\ extras < MaxExtras /\ extras' = extras + 1
    /\ \/ pi.at = "message" /\ Writes(Says(<<"ask">>))
       \/ proj.pending /\ Writes(Says(<<"closed">>))
    /\ UNCHANGED <<messages, pi, commands>>
PiNext ==
    /\ up
    /\ \/ PiIsPrompted \/ PiIsNotPrompted \/ PiIsSteered \/ PiAnswers \/ PiGoesOn \/ PiStreams \/ PiAsks
       \/ \E stop \in Stops : PiEndsMessage(stop)
       \/ \E error \in BOOLEAN : PiRunsTool(error)
    /\ UNCHANGED <<server, link, page>>

(***************************************************************************)
(* The runtime and its projection.                                            *)
(***************************************************************************)
Phase == IF proj.pending THEN "waiting_ui" ELSE proj.phase
ActiveTurnBudget == MaxSuffix \div 2
HasActiveTurnReservationCapacity ==
    Len(proj.suffix) + (Cardinality(turns.reserved) + 1) * ActiveTurnBudget
      + (IF proj.phase = "running" THEN ActiveTurnBudget - turns.spent ELSE 0) <= MaxSuffix

\* An event joins the delta before it only when nothing lies between the two.
MergeCompatibleDelta(e) ==
    /\ e.type = "delta" /\ proj.suffix # <<>>
    /\ Last(proj.suffix).seq = proj.asOfSeq /\ Last(proj.suffix).event.type = "delta"
ReduceCandidate(e) ==
    LET seq == proj.asOfSeq + 1
        merges == MergeCompatibleDelta(e)
        kept == IF merges THEN Front(proj.suffix) ELSE proj.suffix
        event == IF merges THEN [e EXCEPT !.n = @ + Last(proj.suffix).event.n] ELSE e
        common == [proj EXCEPT !.asOfSeq = seq, !.revision = @ + 1,
                       !.phase = CASE e.type = "agent_start" -> "running"
                                   [] e.type = "agent_settled" -> "idle"
                                   [] OTHER -> @]
    IN  IF e.type \in {"ask", "closed"} THEN [common EXCEPT !.pending = e.type = "ask"]
        ELSE [common EXCEPT !.suffix = Append(kept, [seq |-> seq, event |-> event]),
                            !.queue = IF e.type = "queue_update" THEN e.n ELSE @]

\* Every event of a turn is counted, one that is merged too.
Spent(e) == (IF e.type = "agent_start" /\ proj.phase # "running" THEN 0 ELSE turns.spent) + 1
Fits(e) == Spent(e) <= ActiveTurnBudget /\ Len(ReduceCandidate(e).suffix) <= MaxSuffix

\* A turn that begins takes the oldest reservation; the end of a run with an empty
\* queue releases those the queue had taken.
ApplyEventState(e) ==
    LET r == turns.reserved
        oldest == {i \in r : \A j \in r : i <= j}
    IN  turns' = [turns EXCEPT
            !.spent = IF e.type = "agent_settled" THEN 0 ELSE Spent(e),
            !.reserved = CASE e.type = "agent_start" /\ proj.phase # "running" -> r \ oldest
                           [] e.type = "agent_settled" /\ proj.queue = 0 -> {i \in r : i > turns.cutoff}
                           [] OTHER -> r,
            !.cutoff = CASE e.type = "queue_update" /\ e.n > 0 -> turns.next - 1
                         [] e.type = "agent_settled" /\ proj.queue = 0 -> 0
                         [] OTHER -> @]

Crash ==
    /\ up' = FALSE
    /\ link' = Append(link, [type |-> "crashed"])
    /\ UNCHANGED <<proj, compaction, turns>>
Decode ==
    /\ up /\ out # <<>> /\ Head(out).type # "messages" /\ Len(link) < MaxLag
    /\ out' = Tail(out)
    /\ LET e == Head(out)
       IN  \/ /\ Fits(e)
              /\ proj' = ReduceCandidate(e) /\ link' = Append(link, e) /\ ApplyEventState(e)
              /\ UNCHANGED <<compaction, up>>
           \/ ~Fits(e) /\ Crash
    /\ UNCHANGED <<messages, pi, commands, page, extras>>
ProcessEnds ==
    /\ up /\ extras < MaxExtras /\ extras' = extras + 1
    /\ Crash
    /\ UNCHANGED <<messages, pi, commands, out, page>>
\* A change of the runtime's state that no event reports: it counts as a revision.
SetRuntimePhase ==
    /\ up /\ extras < MaxExtras /\ extras' = extras + 1
    /\ compaction.state # "none"
    /\ proj' = [proj EXCEPT !.revision = @ + 1]
    /\ UNCHANGED <<messages, pi, commands, out, compaction, turns, up, link, page>>

\* Work is accepted when its whole turn fits, however the turn in progress ends.
Send ==
    /\ up /\ compaction.state = "none"
    /\ turns.next <= MaxRuns /\ HasActiveTurnReservationCapacity
    /\ turns' = [turns EXCEPT !.reserved = @ \cup {turns.next}, !.next = @ + 1]
    /\ commands' = Append(commands, "prompt")
    /\ UNCHANGED <<messages, pi, out, proj, compaction, up, link, page, extras>>

MaybeCompactIdleProjectionBase ==
    /\ up /\ compaction.state = "none" /\ Phase = "idle" /\ turns.reserved = {}
    /\ Len(proj.suffix) >= ActiveTurnBudget
    /\ compaction' = [Idle EXCEPT !.state = "asked", !.revision = proj.revision, !.asOfSeq = proj.asOfSeq]
    /\ commands' = Append(commands, "get_messages")
    /\ UNCHANGED <<messages, pi, out, proj, turns, up, link, page, extras>>
StillEligible == proj.revision = compaction.revision /\ proj.asOfSeq = compaction.asOfSeq /\ Phase = "idle"
PrepareIdleBaseCompaction ==
    /\ up /\ out # <<>> /\ Head(out).type = "messages"
    /\ out' = Tail(out)
    /\ compaction' = IF StillEligible THEN [compaction EXCEPT !.state = "prepared", !.messages = Head(out).list] ELSE Idle
    /\ UNCHANGED <<messages, pi, commands, proj, turns, up, link, page, extras>>
CommitPreparedIdleBaseCompaction ==
    /\ up /\ compaction.state = "prepared"
    /\ compaction' = Idle
    /\ proj' = IF proj.revision # compaction.revision \/ compaction.asOfSeq # proj.asOfSeq THEN proj
               ELSE [proj EXCEPT !.base = compaction.messages, !.baseSeq = proj.asOfSeq,
                                 !.suffix = <<>>, !.revision = @ + 1]
    /\ UNCHANGED <<messages, pi, commands, out, turns, up, link, page, extras>>

(***************************************************************************)
(* The follower.                                                              *)
(***************************************************************************)
Snapshot == [type |-> "session_snapshot", base |-> proj.base, queue |-> proj.queue,
             events |-> [i \in DOMAIN proj.suffix |-> proj.suffix[i].event]]
Show(s) == [view |-> ApplyAuthoritativeSnapshot(s.base, s.events), runs |-> <<>>, ident |-> 0, queue |-> s.queue]

Flushed(g) == [g EXCEPT !.view = ApplyEvents(@, [i \in DOMAIN g.runs |-> [type |-> "delta", n |-> g.runs[i].n]]),
                        !.runs = <<>>]
\* A delta is held back, in the run of its message when that is the last.
Enqueue(g, e) ==
    IF g.runs # <<>> /\ Last(g.runs).ident = g.ident
    THEN [g EXCEPT !.runs[Len(g.runs)].n = @ + e.n]
    ELSE [g EXCEPT !.runs = Append(@, [ident |-> g.ident, n |-> e.n])]
\* A fault: what is held back stays so when another event comes.
NotFlushed(g, e) ==
    IF e.type = "delta" THEN Enqueue(g, e)
    ELSE IF e.type = "queue_update" THEN [g EXCEPT !.queue = e.n]
    ELSE [g EXCEPT !.view = ReduceProjection(@, e), !.ident = IF e.type = "assistant" THEN @ + 1 ELSE @]

RouteEvent(g, e) ==
    LET f == Flushed(g)
    IN  CASE e.type = "delta" -> Enqueue(g, e)
          [] e.type \in {"ask", "closed"} -> f
          [] e.type = "queue_update" -> [f EXCEPT !.queue = e.n]
          [] e.type \notin {"delta", "queue_update", "ask", "closed"} ->
                [f EXCEPT !.view = ReduceProjection(@, e),
                          !.ident = CASE e.type = "assistant" -> @ + 1
                                      [] e.type \in {"message_end", "turn_end", "agent_settled"} -> 0
                                      [] OTHER -> @]
RouteSessionFrame ==
    /\ link # <<>> /\ link' = Tail(link)
    /\ LET m == Head(link)
       IN  page' = CASE m.type = "session_snapshot" -> Show(m)
                     [] m.type = "crashed" -> [Flushed(page) EXCEPT !.view = MarkRuntimeFailure(@)]
                     [] OTHER -> RouteEvent(page, m)
    /\ UNCHANGED <<messages, pi, commands, out, server, extras>>
FlushSession ==
    /\ page.runs # <<>> /\ page' = Flushed(page)
    /\ UNCHANGED <<messages, pi, commands, out, server, link, extras>>
\* The connection is lost with all that was on it, and what is held back with it.
Resubscribe ==
    /\ up /\ extras < MaxExtras /\ extras' = extras + 1
    /\ link' = <<Snapshot>> /\ page' = [page EXCEPT !.runs = <<>>, !.ident = 0]
    /\ UNCHANGED <<messages, pi, commands, out, server>>

Next ==
    \/ PiNext \/ Decode \/ ProcessEnds \/ SetRuntimePhase \/ Send
    \/ MaybeCompactIdleProjectionBase \/ PrepareIdleBaseCompaction \/ CommitPreparedIdleBaseCompaction
    \/ RouteSessionFrame \/ FlushSession \/ Resubscribe
Spec == Init /\ [][Next]_vars

Joined == Show(Snapshot)
\* What a browser shows does not depend on when it came: one that followed every
\* event, holding deltas back and losing its connection, and one that is given the
\* snapshot of this moment show the same conversation and the same queue.  No turn
\* runs on in a browser that saw the process end.
FollowersAgree ==
    link = <<>> =>
        /\ up => /\ Conversation(Flushed(page).view) = Conversation(Joined.view)
                 /\ page.queue = Joined.queue
        /\ ~up => ~page.view.active
\* When Pi has come to rest and all was delivered, the conversation is Pi's own:
\* no turn is running, and every message and every result is there once.
SettledTruthful ==
    up /\ link = <<>> /\ out = <<>> /\ pi.at = "idle" =>
        Conversation(Flushed(page).view) = Conversation(RebuildProjectionFromMessages(messages))
\* A turn that was accepted fits: the suffix never holds more than its limit, and
\* the sequence numbers of what it holds rise from the base to the last event.
SuffixExact ==
    LET s == proj.suffix
    IN  /\ Len(s) <= MaxSuffix
        /\ \A i \in DOMAIN s : s[i].seq > (IF i = 1 THEN proj.baseSeq ELSE s[i - 1].seq) /\ s[i].seq <= proj.asOfSeq
TranscriptExact == FollowersAgree /\ SettledTruthful /\ SuffixExact
=============================================================================
