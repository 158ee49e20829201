----------------------------- MODULE Transcript -----------------------------
(***************************************************************************)
(* The conversation of a Session as the browser shows it: reduceProjection  *)
(* folds Pi's events into turns and steps, rebuildProjectionFromMessages     *)
(* segments a list of settled messages into the same shape.  A step holds one      *)
(* text block, whose text is a number of chunks, and at most one tool call.            *)
(***************************************************************************)
EXTENDS Integers, Sequences, SequencesExt

NoTool == 0
EmptyStep == [text |-> 0, tool |-> NoTool, call |-> "none", result |-> "none", settled |-> FALSE]
EmptyTurn == [users |-> <<>>, steps |-> <<>>, status |-> "running"]

\* The turn in progress, when there is one, is the last.
EmptyProjection == [turns |-> <<>>, active |-> FALSE]

(* Turns and steps. *)
EnsureTurn(p) == IF p.active THEN p ELSE [turns |-> Append(p.turns, EmptyTurn), active |-> TRUE]
WithTurn(p, F(_)) == LET q == EnsureTurn(p) IN [q EXCEPT !.turns[Len(q.turns)] = F(@)]
WithLastStep(t, F(_)) == [t EXCEPT !.steps[Len(t.steps)] = F(@)]
EnsureStep(t) == [t EXCEPT !.steps = Append(@, EmptyStep)]
EnsureOpenStep(t) == IF t.steps # <<>> /\ ~Last(t.steps).settled THEN t ELSE EnsureStep(t)

\* A call that will not run any more: nothing came back for it.
ConvergeHangingToolCalls(t) ==
    [t EXCEPT !.steps = [i \in DOMAIN @ |->
        IF @[i].call \in {"preparing", "running"} /\ @[i].result = "none"
        THEN [@[i] EXCEPT !.call = "interrupted"] ELSE @[i]]]

\* The first step that holds the call.
UpdateToolBlock(t, c, status) ==
    LET holds == {i \in DOMAIN t.steps : t.steps[i].tool = c}
    IN  IF holds = {} THEN t
        ELSE LET i == CHOOSE j \in holds : \A k \in holds : j <= k
             IN  [t EXCEPT !.steps[i].call = IF @ = "skipped" THEN @ ELSE status]

UpsertToolResult(s, c, error) ==
    [s EXCEPT !.result = IF error \/ @ = "error" THEN "error" ELSE "ok",
              !.call = IF error /\ s.tool = c THEN "error" ELSE @]

(* Events of a message. *)
HandleMessageUpdate(p, e) ==
    LET Grow(s) == IF e.type = "delta" THEN [s EXCEPT !.text = @ + e.n]
                   ELSE [s EXCEPT !.tool = e.tool, !.call = "preparing"]
    IN  WithTurn(p, LAMBDA t : WithLastStep(EnsureOpenStep(t), Grow))

HandleMessageStart(p, e) ==
    CASE e.type = "user" -> WithTurn(p, LAMBDA t : [t EXCEPT !.users = Append(@, e.id)])
      [] e.type = "assistant" -> WithTurn(p, EnsureOpenStep)
      [] e.type = "result" ->
            IF EnsureTurn(p).turns[Len(EnsureTurn(p).turns)].steps = <<>> THEN p
            ELSE WithTurn(p, LAMBDA t : WithLastStep(t, LAMBDA s : UpsertToolResult(s, e.tool, e.error)))

\* The message as it ended replaces what was streamed; the calls keep their status.
HandleMessageEnd(p, e) ==
    LET Call(s) == IF e.tool = NoTool THEN "none"
                   ELSE IF s.tool = e.tool /\ s.result = "error" THEN "error"
                   ELSE IF s.call = "none" THEN "preparing"
                   ELSE IF e.stop = "length" /\ s.call = "preparing" THEN "skipped"
                   ELSE s.call
        Swap(s) == [s EXCEPT !.text = e.text, !.tool = e.tool, !.call = Call(s), !.settled = TRUE]
        End(t) == IF e.stop \in {"error", "aborted"}
                  THEN ConvergeHangingToolCalls([WithLastStep(t, Swap) EXCEPT !.status = e.stop])
                  ELSE WithLastStep(t, Swap)
    IN  IF EnsureTurn(p).turns[Len(EnsureTurn(p).turns)].steps = <<>> THEN p ELSE WithTurn(p, End)

Settle(p, failed) ==
    [turns |-> [p.turns EXCEPT ![Len(p.turns)] =
                   [ConvergeHangingToolCalls(@) EXCEPT !.status =
                       IF failed THEN "error" ELSE IF @ \in {"error", "aborted"} THEN @ ELSE "settled"]],
     active |-> FALSE]

ReduceProjection(p, e) ==
    CASE e.type = "agent_start" ->
            EnsureTurn(IF p.active /\ Last(p.turns).status = "running" THEN Settle(p, FALSE)
                       ELSE [p EXCEPT !.active = FALSE])
      [] e.type = "turn_start" -> WithTurn(p, EnsureStep)
      [] e.type \in {"delta", "toolcall_end"} -> HandleMessageUpdate(p, e)
      [] e.type \in {"user", "assistant", "result"} -> HandleMessageStart(p, e)
      [] e.type = "message_end" -> HandleMessageEnd(p, e)
      [] e.type = "tool_start" -> WithTurn(p, LAMBDA t : UpdateToolBlock(t, e.tool, "running"))
      [] e.type = "tool_end" ->
            WithTurn(p, LAMBDA t : UpdateToolBlock(t, e.tool, IF e.error THEN "error" ELSE "done"))
      [] e.type = "turn_end" ->
            WithTurn(p, LAMBDA t : IF t.steps = <<>> THEN t
                                   ELSE WithLastStep(t, LAMBDA s : [s EXCEPT !.settled = TRUE]))
      [] e.type = "agent_settled" -> IF p.active THEN Settle(p, FALSE) ELSE p
      [] OTHER -> p

ApplyEvents(p, es) == FoldLeft(ReduceProjection, p, es)
MarkRuntimeFailure(p) == IF p.active THEN Settle(p, TRUE) ELSE p

(* A list of settled messages. *)
ApplyMessage(turns, m) ==
    LET n == Len(turns)
        step == [EmptyStep EXCEPT !.text = m.text, !.tool = m.tool, !.settled = TRUE,
                                  !.call = IF m.tool = NoTool THEN "none" ELSE "preparing"]
    IN  CASE m.type = "user" ->
                Append(turns, [EmptyTurn EXCEPT !.users = <<m.id>>, !.status = "settled"])
          [] m.type # "user" /\ n = 0 -> turns
          [] m.type = "message_end" /\ n > 0 ->
                [turns EXCEPT ![n].steps = Append(@, step),
                              ![n].status = IF m.stop \in {"error", "aborted"} THEN m.stop ELSE @]
          [] m.type = "result" /\ n > 0 ->
                IF turns[n].steps = <<>> THEN turns
                ELSE [turns EXCEPT ![n] = WithLastStep(@, LAMBDA s : UpsertToolResult(s, m.tool, m.error))]

\* Whatever was said of a call before, its recorded result decides.
RebuildProjectionFromMessages(messages) ==
    LET Recorded(s) == CASE s.tool = NoTool -> "none"
                         [] s.tool # NoTool /\ s.result = "none" -> "interrupted"
                         [] s.tool # NoTool /\ s.result = "error" -> "error"
                         [] s.tool # NoTool /\ s.result = "ok" -> "done"
        turns == FoldLeft(ApplyMessage, <<>>, messages)
    IN  [turns |-> [i \in DOMAIN turns |-> [turns[i] EXCEPT !.steps =
                       [k \in DOMAIN @ |-> LET s == @[k] IN [s EXCEPT !.call = Recorded(s)]]]],
         active |-> FALSE]

\* What a snapshot shows: its settled messages, then the events that came after them.
ApplyAuthoritativeSnapshot(messages, events) == ApplyEvents(RebuildProjectionFromMessages(messages), events)

(***************************************************************************)
(* What the reader sees of a projection: the user messages, the steps, and  *)
(* whether and how the last turn ended.  A list of messages opens a turn at      *)
(* every user message and calls a skipped call interrupted; the reader cannot     *)
(* tell from the conversation, so both are left out.                                  *)
(***************************************************************************)
Conversation(p) ==
    LET Shown(s) == IF s.call = "skipped" THEN [s EXCEPT !.call = "interrupted"] ELSE s
    IN  [users |-> FlattenSeq([i \in DOMAIN p.turns |-> p.turns[i].users]),
         steps |-> FlattenSeq([i \in DOMAIN p.turns |-> [k \in DOMAIN p.turns[i].steps |-> Shown(p.turns[i].steps[k])]]),
         last |-> IF p.turns = <<>> THEN "settled" ELSE Last(p.turns).status,
         running |-> p.active]
=============================================================================
