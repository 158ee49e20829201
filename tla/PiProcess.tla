------------------------------ MODULE PiProcess ------------------------------
(***************************************************************************)
(* The wrapper of one `pi --mode rpc` child process: requests written to   *)
(* its stdin one after the other, lines read from its stdout one at a      *)
(* time, and the ways it ends.  A wrapper is spawned once.                 *)
(*                                                                         *)
(* A line is decoded asynchronously, with a deadline and an abort signal.  *)
(* What is decoded may carry a lease on payloads, which the consumer takes *)
(* over in two steps (the plan, then its commit) or which is released.  A  *)
(* decoder that is given up on goes on and hands in its lease late.        *)
(*                                                                         *)
(* A step runs the code between two awaits; the exit of the leader, the    *)
(* end of its process group and stdin are the operating system's.          *)
(***************************************************************************)
EXTENDS Naturals, Sequences, FiniteSets

CONSTANTS
    Query,        \* requests, each sent once
    Probe,          \* the get_state request that start() sends
    MaxLine         \* bound: lines read

VARIABLES
    leader,         \* the process that was spawned
    current,        \* spawnIdentity and child are set
    attached,       \* the reader of stdout is attached
    stopped,        \* stopped
    finalization,   \* unexpectedFinalization
    arbitrating,    \* the exit waits for the line being handled
    starting,       \* doStart()
    stopping,       \* the calls of stop(), by who made them
    request,        \* what became of each request
    writes,         \* writeTail
    received,       \* requests Pi has read and not answered
    lines,          \* lines read so far
    line,           \* the line being handled (activeLine)
    late,           \* decoders nobody waits for
    lease,          \* the lease of each line
    exits           \* calls of onExit

processVars == <<leader, current, attached, stopped, finalization, arbitrating>>
callVars == <<starting, stopping>>
requestVars == <<request, writes, received>>
lineVars == <<lines, line, late, lease>>
vars == <<processVars, callVars, requestVars, lineVars, exits>>

-----------------------------------------------------------------------------
(* Data. *)

All == Query \union {Probe}
Line == 1..MaxLine
Event == "event"
Stopper == {"start", "owner"}
Settled == {"resolved", "rejected"}

NoLine == [pc |-> "none", of |-> Event]

Pending == {r \in All : request[r] = "pending"}

\* ownsSpawn: what a line brings is still wanted
Owns == ~stopped /\ leader = "up" /\ current /\ finalization = "none"
\* isCurrent of a response, or of an event
Current == Owns /\ (line.of \in All => request[line.of] = "pending")

-----------------------------------------------------------------------------
(* Parts of handlers. *)

RejectAll == [r \in All |-> IF request[r] = "pending" THEN "rejected" ELSE request[r]]
Reject(r) == [request EXCEPT ![r] = IF @ = "pending" THEN "rejected" ELSE @]

Init ==
    /\ leader = "up" /\ current = TRUE /\ attached = TRUE /\ stopped = FALSE
    /\ finalization = "none" /\ arbitrating = FALSE
    /\ starting = "probing" /\ stopping = [s \in Stopper |-> "none"]
    /\ request = [r \in All |-> IF r = Probe THEN "pending" ELSE "none"]
    /\ writes = <<Probe>> /\ received = {}
    /\ lines = 0 /\ line = NoLine /\ late = {} /\ lease = [l \in Line |-> "none"]
    /\ exits = 0

\* beginUnexpectedFinalization, once for a spawn, and the synchronous start of
\* finalizeUnexpectedExit
Finalize ==
    IF current /\ finalization = "none" THEN
        /\ finalization' = "cleaning"
        /\ request' = RejectAll
        /\ attached' = FALSE
    ELSE UNCHANGED <<finalization, request, attached>>

\* handleProtocolFailure
ProtocolFailure ==
    IF stopped THEN UNCHANGED <<finalization, request, attached>> ELSE Finalize

\* The line is done, and with it what an exit waited for.
LineEnds == line' = NoLine /\ arbitrating' = FALSE

\* The fault of a line's end that forgets the exit.
UnarbitratedEnd(req) == request' = req /\ UNCHANGED <<finalization, attached>>

\* What happens next when a line ends well, or its failure concerns a request.
Arbitrated(req) ==
    IF arbitrating /\ current /\ finalization = "none" THEN
        /\ finalization' = "cleaning"
        /\ attached' = FALSE
        /\ request' = [r \in All |-> IF req[r] = "pending" THEN "rejected" ELSE req[r]]
    ELSE request' = req /\ UNCHANGED <<finalization, attached>>

Ends(req) == LineEnds /\ Arbitrated(req)

\* A line fails the protocol; an exit that waited for it finds the spawn
\* finalizing, or finalizes it now.
LineBreaks ==
    /\ LineEnds
    /\ IF arbitrating THEN Finalize ELSE ProtocolFailure

\* release() of an outcome's lease
Released(l) == [lease EXCEPT ![l] = IF @ = "held" THEN "released" ELSE @]

-----------------------------------------------------------------------------
(* Requests. *)

\* The fault of sending while the spawn is being finalized.
SendWhileAlive(r) ==
    /\ request[r] = "none"
    /\ IF leader = "up" /\ current THEN
           /\ request' = [request EXCEPT ![r] = "pending"]
           /\ writes' = Append(writes, r)
       ELSE request' = [request EXCEPT ![r] = "rejected"] /\ UNCHANGED writes
    /\ UNCHANGED <<processVars, callVars, received, lineVars, exits>>

\* sendRaw, sendDecodedRaw.  A process that is being stopped still takes them.
Send(r) ==
    /\ request[r] = "none"
    /\ IF leader = "up" /\ current /\ finalization = "none" THEN
           /\ request' = [request EXCEPT ![r] = "pending"]
           /\ writes' = Append(writes, r)
       ELSE request' = [request EXCEPT ![r] = "rejected"] /\ UNCHANGED writes
    /\ UNCHANGED <<processVars, callVars, received, lineVars, exits>>

\* writeNow: a request whose caller gave up is written all the same.
Write ==
    /\ writes # <<>>
    /\ writes' = Tail(writes)
    /\ \/ /\ leader = "up" /\ current
          /\ received' = received \union {Head(writes)}
          /\ UNCHANGED request
       \/ request' = Reject(Head(writes)) /\ UNCHANGED received
    /\ UNCHANGED <<processVars, callVars, lineVars, exits>>

TimeOut(r) ==
    /\ request[r] = "pending"
    /\ request' = Reject(r)
    /\ UNCHANGED <<processVars, callVars, writes, received, lineVars, exits>>

-----------------------------------------------------------------------------
(* Lines. *)

\* handleLine, up to the decoder.  Output the leader left in the pipe is read
\* after its exit.
Read ==
    /\ attached /\ line = NoLine /\ lines < MaxLine
    /\ \E of \in received \union {Event} :
          /\ line' = [pc |-> "decoding", of |-> of]
          /\ received' = received \ {of}
    /\ lines' = lines + 1
    /\ UNCHANGED <<processVars, callVars, request, writes, late, lease, exits>>

\* A line that is too long or no frame.
ReadsGarbage ==
    /\ attached /\ line = NoLine
    /\ ProtocolFailure
    /\ UNCHANGED <<leader, current, stopped, arbitrating, callVars, writes, received,
                   lineVars, exits>>

\* The decoder succeeds.  A response to nobody, or one no longer wanted, is
\* dropped; a raw one settles its request; others are planned with the consumer.
Decoded ==
    /\ line.pc = "decoding" /\ Owns
    /\ \/ /\ line.of # Probe /\ Current
          /\ \E l \in {"none", "held"} : lease' = [lease EXCEPT ![lines] = l]
          /\ line' = [line EXCEPT !.pc = "transfer"]
          /\ UNCHANGED <<request, finalization, attached, arbitrating>>
       \/ /\ line.of = Probe /\ Current
          /\ Ends([request EXCEPT ![Probe] = "resolved"])
          /\ UNCHANGED lease
       \/ /\ ~Current \/ line.of = Event
          /\ Ends(request)
          /\ \E l \in {"none", "released"} : lease' = [lease EXCEPT ![lines] = l]
    /\ UNCHANGED <<leader, current, stopped, callVars, writes, received, lines, late, exits>>

\* The same for a spawn whose leader has exited meanwhile.
DecodedTooLate ==
    /\ line.pc = "decoding" /\ ~Owns /\ ~stopped /\ finalization = "none"
    /\ Ends(request)
    /\ \E l \in {"none", "released"} : lease' = [lease EXCEPT ![lines] = l]
    /\ UNCHANGED <<leader, current, stopped, callVars, writes, received, lines, late, exits>>

\* The consumer or the decoder rejects what the line holds.
DecodeBreaks ==
    /\ line.pc = "decoding"
    /\ LineBreaks
    /\ UNCHANGED <<leader, current, stopped, callVars, writes, received, lines, late, lease,
                   exits>>

\* The deadline, or an error of storing payloads: it concerns one request.  A
\* decoder that missed its deadline goes on.
DecodeFails ==
    /\ line.pc = "decoding" /\ line.of # Event
    /\ late' \in {late, late \union {lines}}
    /\ Ends(IF Owns THEN Reject(line.of) ELSE request)
    /\ UNCHANGED <<leader, current, stopped, callVars, writes, received, lines, lease, exits>>

\* The deadline of an event breaks the protocol; the abort signal of a stop or
\* of a finalization ends any line.
DecodeAborted ==
    /\ line.pc = "decoding"
    /\ line.of = Event \/ stopped \/ finalization # "none" \/ ~current
    /\ late' = late \union {lines}
    /\ LineBreaks
    /\ UNCHANGED <<leader, current, stopped, callVars, writes, received, lines, lease, exits>>

\* The fault of dropping what a late decoder hands in.
DecodedLateDropped(l) ==
    /\ l \in late
    /\ late' = late \ {l}
    /\ \E held \in {"none", "held"} : lease' = [lease EXCEPT ![l] = held]
    /\ UNCHANGED <<processVars, callVars, requestVars, lines, line, exits>>

\* observeDiscardedOutcome, of a decoder nobody waited for
DecodedLate(l) ==
    /\ l \in late
    /\ late' = late \ {l}
    /\ \E held \in {"none", "held"} :
          lease' = [lease EXCEPT ![l] = IF held = "held" THEN "released" ELSE "none"]
    /\ UNCHANGED <<processVars, callVars, requestVars, lines, line, exits>>

\* The fault of committing what was planned, whatever happened since.
CommitPlanned ==
    /\ line.pc = "transfer"
    /\ \/ /\ lease' = [lease EXCEPT ![lines] = IF @ = "held" THEN "adopted" ELSE @]
          /\ Ends(IF line.of \in All THEN [request EXCEPT ![line.of] = "resolved"] ELSE request)
       \/ /\ lease' = Released(lines)
          /\ LineBreaks
    /\ UNCHANGED <<leader, current, stopped, callVars, writes, received, lines, late, exits>>

\* consumeDecodedOutcome after the transfer: committed, refused by the
\* consumer, or no longer wanted and released.
Commit ==
    /\ line.pc = "transfer"
    /\ \/ /\ Current
          /\ lease' = [lease EXCEPT ![lines] = IF @ = "held" THEN "adopted" ELSE @]
          /\ Ends(IF line.of \in All THEN [request EXCEPT ![line.of] = "resolved"] ELSE request)
       \/ /\ Current
          /\ lease' = Released(lines)
          /\ LineBreaks
       \/ /\ ~Current
          /\ lease' = Released(lines)
          /\ Ends(request)
    /\ UNCHANGED <<leader, current, stopped, callVars, writes, received, lines, late, exits>>

-----------------------------------------------------------------------------
(* The end. *)

\* The exit event.  A stopped spawn is cleared at once.
LeaderExits ==
    /\ leader = "up"
    /\ leader' = "exited"
    /\ IF stopped THEN
           /\ request' = RejectAll
           /\ current' = FALSE
           /\ attached' = FALSE
           /\ UNCHANGED <<finalization, arbitrating>>
       ELSE
           /\ UNCHANGED current
           /\ IF line = NoLine THEN Finalize /\ UNCHANGED arbitrating
              ELSE /\ arbitrating' = (current /\ finalization = "none")
                   /\ UNCHANGED <<finalization, request, attached>>
    /\ UNCHANGED <<stopped, callVars, writes, received, lineVars, exits>>

\* The group is gone, or was given 350 ms to go.
Finalized ==
    /\ finalization = "cleaning"
    /\ finalization' = "done"
    /\ current' = FALSE
    /\ attached' = (attached /\ ~current)
    /\ exits' = IF current /\ ~stopped THEN exits + 1 ELSE exits
    /\ UNCHANGED <<leader, stopped, arbitrating, callVars, requestVars, lineVars>>

\* stop()
Stop(s) ==
    /\ stopping[s] = "none"
    /\ s = "start" => starting = "failed"
    /\ stopped' = TRUE
    /\ IF current THEN
           /\ attached' = FALSE
           /\ stopping' = [stopping EXCEPT ![s] = IF finalization = "none" THEN "group"
                                                  ELSE "finalization"]
       ELSE stopping' = [stopping EXCEPT ![s] = "done"] /\ UNCHANGED attached
    /\ UNCHANGED <<leader, current, finalization, arbitrating, starting, requestVars,
                   lineVars, exits>>

\* The group has ended or resists, or the finalization has ended.
StopEnds(s) ==
    /\ \/ stopping[s] = "group"
       \/ stopping[s] = "finalization" /\ finalization = "done"
    /\ current' = FALSE
    /\ request' = RejectAll
    /\ stopping' = [stopping EXCEPT ![s] = "done"]
    /\ UNCHANGED <<leader, attached, stopped, finalization, arbitrating, starting, writes,
                   received, lineVars, exits>>

\* The probe's end: ready, or an error, after which the spawn is stopped unless
\* it is being finalized.
Probed ==
    /\ starting = "probing" /\ request[Probe] \in Settled
    /\ \/ request[Probe] = "resolved" /\ starting' = "ready"
       \/ starting' = IF finalization = "none" THEN "failed" ELSE "exited"
    /\ UNCHANGED <<processVars, stopping, requestVars, lineVars, exits>>

DecodeStep ==
    Decoded \/ DecodedTooLate \/ DecodeBreaks \/ DecodeFails \/ DecodeAborted

Next ==
    \/ \E r \in Query : Send(r)
    \/ Write
    \/ \E r \in All : TimeOut(r)
    \/ Read \/ ReadsGarbage \/ DecodeStep \/ Commit
    \/ \E l \in Line : DecodedLate(l)
    \/ LeaderExits \/ Finalized
    \/ \E s \in Stopper : Stop(s) \/ StopEnds(s)
    \/ Probed

\* Requests time out, decoders have deadlines, groups are waited for a bounded
\* time, and a failed start stops what it spawned.
Fairness ==
    /\ \A r \in All : WF_vars(TimeOut(r))
    /\ WF_vars(DecodeStep) /\ WF_vars(Commit) /\ WF_vars(Finalized) /\ WF_vars(Probed)
    /\ \A s \in Stopper : WF_vars(StopEnds(s))
    /\ WF_vars(Stop("start"))

Spec == Init /\ [][Next]_vars /\ Fairness

-----------------------------------------------------------------------------
(* Properties. *)

\* Every variable holds what the code can put there.
TypeOK ==
    /\ leader \in {"up", "exited"} /\ current \in BOOLEAN /\ attached \in BOOLEAN
    /\ stopped \in BOOLEAN /\ finalization \in {"none", "cleaning", "done"}
    /\ arbitrating \in BOOLEAN
    /\ starting \in {"probing", "ready", "failed", "exited"}
    /\ stopping \in [Stopper -> {"none", "group", "finalization", "done"}]
    /\ request \in [All -> {"none", "pending"} \union Settled]
    /\ writes \in Seq(All) /\ received \subseteq All
    /\ lines \in 0..MaxLine
    /\ line \in [pc : {"none", "decoding", "transfer"}, of : All \union {Event}]
    /\ late \subseteq Line
    /\ lease \in [Line -> {"none", "held", "released", "adopted"}]
    /\ exits \in Nat

\* An exit is reported at most once, and whoever ends the spawn, nobody waits
\* for an answer afterwards.
ExitReportedOnce ==
    /\ exits <= 1
    /\ exits = 1 \/ ~current => Pending = {}

\* Payloads a line brought are held by nobody once the line is done: the
\* consumer has adopted them, or they are released.
NoLeaseLeft == \A l \in Line : lease[l] = "held" => l = lines /\ line.pc = "transfer"

\* Why they hold: nothing is pending from the moment a spawn is being finalized
\* on, and the spawn is no longer current when its exit has been reported.
EndedInOrder ==
    /\ finalization # "none" \/ ~current => Pending = {}
    /\ exits <= 1 /\ (exits = 1 => ~current)
    /\ line.pc # "none" => lines # 0

ProcessInv == TypeOK /\ EndedInOrder /\ NoLeaseLeft

\* Nothing is committed to the consumer of a spawn that is stopped, exited or
\* being finalized, or for a request that was settled meanwhile.
CommitsCurrent ==
    [][\A l \in Line : lease[l] # "adopted" /\ lease'[l] = "adopted" => Current]_vars

\* An exit is reported, or overtaken by a stop; a stop ends.
EndIsReported ==
    []<>(/\ leader = "exited" => exits = 1 \/ stopped
         /\ \A s \in Stopper : stopping[s] \in {"none", "done"})

=============================================================================
