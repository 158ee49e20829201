------------------------- MODULE RuntimeOperations -------------------------
(***************************************************************************)
(* What one SessionRuntime is busy with: the commands it sent to its Pi    *)
(* process, the turns it keeps for work that Pi accepted, the agent's run, *)
(* the compactions and the dialogs extensions opened, and the state it     *)
(* publishes about them.                                                   *)
(*                                                                         *)
(* Commands pass one at a time through commandTail ("admitting"), where a  *)
(* command that may start work can wait for a compaction of the idle       *)
(* projection; it is dispatched to the process that is current when the    *)
(* wait ends.  A step runs the code between two awaits.  How processes     *)
(* start, stop and hold content is the subject of RuntimeLifecycle; here a *)
(* process is up, lost (its commands are rejected before the exit is       *)
(* handled), stopping, or down.                                            *)
(***************************************************************************)
EXTENDS Naturals, FiniteSets

CONSTANTS
    Command,        \* commands, each sent once
    Dialog,         \* requests of extensions that wait for the user
    Nobody,         \* no command
    MaxPending,     \* maxPendingCommands
    MaxQueue,       \* bound: Pi's queue of steering and follow-up messages
    MaxGeneration   \* bound: processes

VARIABLES
    generation,     \* generation
    process,        \* the Pi process
    command,        \* the state of each command
    admitting,      \* who holds commandTail
    controlled,     \* the sender still holds the lease that admit() asks for
    inFlight,       \* inFlight
    turns,          \* pendingTurnReservations; an armed one has its timer
    nextTurn,       \* nextTurnReservationId
    cutoff,         \* queueReservationReleaseCutoff
    agentBusy, compactionBusy, idleBaseCompactionBusy,
    queueDepth,     \* activeQueueDepth
    dialogs,        \* pendingDialogs
    state,          \* state
    told            \* history: the last runtime_state published

busyVars == <<agentBusy, compactionBusy, idleBaseCompactionBusy, queueDepth>>
turnVars == <<turns, nextTurn, cutoff>>
vars == <<generation, process, command, admitting, controlled, inFlight, turnVars,
          busyVars, dialogs, state, told>>

-----------------------------------------------------------------------------
(* Data. *)

Generation == 1..MaxGeneration
\* "work" may start the agent, "abort" releases queued work, "plain" does neither.
Kind == {"work", "abort", "plain"}
PC == {"idle", "queued", "headroom", "sent", "answered", "refused", "done"}
CommandState == [pc : PC, kind : Kind, expected : 0..MaxGeneration,
                 turn : 0..Cardinality(Command), cutoff : 0..Cardinality(Command)]
Unsent == [pc |-> "idle", kind |-> "plain", expected |-> 0, turn |-> 0, cutoff |-> 0]

Process == {"up", "lost", "stopping", "down"}
State == {"idle", "running", "waiting_ui", "crashed", "dormant"}

\* startupReady and running
Operational == process # "down"

Reasons ==
    {r \in {"command", "agent", "compaction", "queue", "dialog", "turn_reservation"} :
        \/ r = "command" /\ inFlight > 0
        \/ r = "agent" /\ agentBusy
        \/ r = "compaction" /\ (compactionBusy \/ idleBaseCompactionBusy)
        \/ r = "queue" /\ queueDepth > 0
        \/ r = "dialog" /\ dialogs # {}
        \/ r = "turn_reservation" /\ turns # {}}

RuntimePhase ==
    CASE state \in {"crashed", "dormant"} -> state
      [] state = "waiting_ui" \/ dialogs # {} -> "waiting_ui"
      [] state = "running" \/ Reasons # {} -> "busy"
      [] OTHER -> "ready"

OperationCount ==
    inFlight + queueDepth + Cardinality(dialogs) + Cardinality(turns)
    + (IF agentBusy THEN 1 ELSE 0)
    + (IF compactionBusy \/ idleBaseCompactionBusy THEN 1 ELSE 0)

\* operationalStateKey, with the state
Key == <<state, RuntimePhase, OperationCount, Reasons>>

\* The commands the process has, or whose end the runtime has not handled yet.
Outstanding == {c \in Command : command[c].pc \in {"sent", "answered", "refused"}}

\* identityTransitionBlocker() === null
Unblocked ==
    /\ Operational /\ state = "idle" /\ ~agentBusy /\ ~compactionBusy
    /\ ~idleBaseCompactionBusy /\ queueDepth = 0 /\ inFlight = 0
    /\ dialogs = {} /\ turns = {}

-----------------------------------------------------------------------------
(* Parts of handlers. *)

\* The fault of a refresh that forgets the turns.
RefreshedWithoutTurns ==
    IF ~Operational THEN state
    ELSE IF dialogs' # {} THEN "waiting_ui"
    ELSE IF agentBusy' \/ compactionBusy' \/ idleBaseCompactionBusy' THEN "running"
    ELSE "idle"

\* The state refreshOperationalState sets, from what is busy in the next state.
Refreshed ==
    IF ~Operational THEN state
    ELSE IF dialogs' # {} THEN "waiting_ui"
    ELSE IF agentBusy' \/ compactionBusy' \/ idleBaseCompactionBusy' \/ turns' # {}
         THEN "running"
    ELSE "idle"

\* refreshOperationalStateAndPublish: published when the state or its key moved.
RefreshAndPublish ==
    /\ state' = Refreshed
    /\ told' = IF Operational THEN Key' ELSE told

\* The fault of publishing only a change of the state.
PublishIfState == told' = IF Operational /\ state' # state THEN Key' ELSE told

\* publishOperationalState of a change the state does not show
Publish == told' = IF Operational THEN Key' ELSE told

Release(ids) == turns' = {t \in turns : t.id \notin ids}
Through(n) == {t.id : t \in {u \in turns : u.id <= n}}
First == {t.id : t \in {u \in turns : \A v \in turns : u.id <= v.id}}

\* The fault of an in-flight count that a rejection does not lower.
Minus1IfBusy(n) == IF agentBusy \/ n = 0 THEN n ELSE n - 1

Minus1(n) == IF n = 0 THEN 0 ELSE n - 1
End(c) == command' = [command EXCEPT ![c] = [@ EXCEPT !.pc = "done"]]

-----------------------------------------------------------------------------
(* Commands. *)

Init ==
    /\ generation = 1 /\ process = "up"
    /\ command = [c \in Command |-> Unsent] /\ admitting = Nobody /\ controlled = TRUE
    /\ inFlight = 0 /\ turns = {} /\ nextTurn = 0 /\ cutoff = 0
    /\ agentBusy = FALSE /\ compactionBusy = FALSE /\ idleBaseCompactionBusy = FALSE
    /\ queueDepth = 0 /\ dialogs = {} /\ state = "idle" /\ told = Key

\* A browser sends a command for the generation it shows.
Request(c) ==
    /\ command[c].pc = "idle" /\ process = "up" /\ controlled
    /\ \E k \in Kind :
          command' = [command EXCEPT ![c] = [@ EXCEPT !.pc = "queued", !.kind = k,
                                                       !.expected = generation]]
    /\ UNCHANGED <<generation, process, admitting, controlled, inFlight, turnVars,
                   busyVars, dialogs, state, told>>

\* assertGeneration and admit()
Admissible(c) == command[c].expected = generation /\ controlled

\* A command refused before it was sent leaves no trace.
Reject(c) ==
    /\ End(c)
    /\ admitting' = Nobody
    /\ UNCHANGED <<generation, process, controlled, inFlight, turnVars, busyVars,
                   dialogs, state, told>>

\* The command goes to Pi, or is rejected at once by a process that is lost.
\* PiProcess.running still holds for a lost process.
Dispatch(c, turn) ==
    /\ process \in {"up", "lost"}
    /\ inFlight' = inFlight + 1
    /\ command' = [command EXCEPT ![c] = [@ EXCEPT
                      !.pc = IF process = "up" THEN "sent" ELSE "refused",
                      !.turn = turn, !.cutoff = nextTurn]]
    /\ state' = IF turn # 0 THEN "running" ELSE state
    /\ admitting' = Nobody
    /\ UNCHANGED <<generation, process, controlled, cutoff, busyVars, dialogs>>

\* send(), inside commandTail, up to the dispatch or to the wait for headroom
Admit(c) ==
    /\ command[c].pc = "queued" /\ admitting = Nobody
    /\ \/ /\ ~Admissible(c) \/ inFlight >= MaxPending
          /\ Reject(c)
       \/ /\ Admissible(c) /\ inFlight < MaxPending /\ command[c].kind = "work"
          /\ command' = [command EXCEPT ![c] = [@ EXCEPT !.pc = "headroom"]]
          /\ admitting' = c
          /\ UNCHANGED <<generation, process, controlled, inFlight, turnVars, busyVars,
                         dialogs, state, told>>
       \/ /\ Admissible(c) /\ inFlight < MaxPending /\ command[c].kind # "work"
          /\ \/ process \notin {"up", "lost"} /\ Reject(c)
             \/ Dispatch(c, 0) /\ UNCHANGED <<turns, nextTurn>> /\ Publish

\* The fault of not checking again after the wait.
HeadroomUnchecked(c) ==
    /\ command[c].pc = "headroom" /\ ~idleBaseCompactionBusy
    /\ \/ Reject(c)
       \/ /\ Dispatch(c, nextTurn + 1)
          /\ nextTurn' = nextTurn + 1
          /\ turns' = turns \union {[id |-> nextTurn + 1, armed |-> FALSE]}
          /\ Publish

\* The wait for headroom is over: the command is checked again, a turn is
\* reserved for the work it may start, and it is sent.
Headroom(c) ==
    /\ command[c].pc = "headroom" /\ ~idleBaseCompactionBusy
    /\ \/ Reject(c)
       \/ /\ Admissible(c)
          /\ Dispatch(c, nextTurn + 1)
          /\ nextTurn' = nextTurn + 1
          /\ turns' = turns \union {[id |-> nextTurn + 1, armed |-> FALSE]}
          /\ Publish

\* Pi answers; the command times out, or its response cannot be decoded.
Respond(c) ==
    /\ command[c].pc = "sent"
    /\ \E pc \in IF process = "up" THEN {"answered", "refused"} ELSE {"refused"} :
          command' = [command EXCEPT ![c] = [@ EXCEPT !.pc = pc]]
    /\ UNCHANGED <<generation, process, admitting, controlled, inFlight, turnVars,
                   busyVars, dialogs, state, told>>

\* The fault of accepted work that keeps its turn without a timer.
FinishUnarmed(c) ==
    /\ command[c].pc \in {"answered", "refused"}
    /\ turns' =
          IF command[c].pc = "refused" THEN {t \in turns : t.id # command[c].turn}
          ELSE IF command[c].kind = "abort" THEN {t \in turns : t.id > command[c].cutoff}
          ELSE turns
    /\ inFlight' = Minus1(inFlight)
    /\ End(c)
    /\ UNCHANGED <<generation, process, admitting, controlled, nextTurn, cutoff, busyVars,
                   dialogs>>
    /\ RefreshAndPublish

\* What send() does with the response: a turn of accepted work gets its timer,
\* an abort releases the turns reserved before it.
Finish(c) ==
    /\ command[c].pc \in {"answered", "refused"}
    /\ turns' =
          IF command[c].pc = "refused" THEN {t \in turns : t.id # command[c].turn}
          ELSE IF command[c].kind = "abort" THEN {t \in turns : t.id > command[c].cutoff}
          ELSE {IF t.id = command[c].turn THEN [t EXCEPT !.armed = TRUE] ELSE t : t \in turns}
    /\ inFlight' = Minus1(inFlight)
    /\ End(c)
    /\ UNCHANGED <<generation, process, admitting, controlled, nextTurn, cutoff, busyVars,
                   dialogs>>
    /\ RefreshAndPublish

\* The timer of a turn: 500 ms, again and again while Pi has work.
TurnExpires(t) ==
    /\ t \in turns /\ t.armed /\ Operational /\ ~agentBusy /\ queueDepth = 0
    /\ Release({t.id})
    /\ UNCHANGED <<generation, process, command, admitting, controlled, inFlight, nextTurn,
                   cutoff, busyVars, dialogs>>
    /\ RefreshAndPublish

\* Somebody else takes the lease over, or the sender takes it again.
LeaseMoves ==
    /\ controlled' = ~controlled
    /\ UNCHANGED <<generation, process, command, admitting, inFlight, turnVars, busyVars,
                   dialogs, state, told>>

-----------------------------------------------------------------------------
(* Events of Pi: applyEventState. *)

Event ==
    /\ process = "up"
    /\ UNCHANGED <<generation, process, command, admitting, controlled, inFlight>>

AgentStarts ==
    /\ Event
    /\ agentBusy' = TRUE
    /\ IF agentBusy THEN UNCHANGED turns ELSE Release(First)
    /\ state' = "running"
    /\ UNCHANGED <<nextTurn, cutoff, compactionBusy, idleBaseCompactionBusy, queueDepth, dialogs>>
    /\ Publish

\* A settled agent with nothing queued gives up the turns the queue stood for.
AgentSettles ==
    /\ Event
    /\ agentBusy' = FALSE
    /\ IF queueDepth = 0 /\ cutoff > 0
         THEN Release(Through(cutoff)) /\ cutoff' = 0
         ELSE UNCHANGED <<turns, cutoff>>
    /\ UNCHANGED <<nextTurn, compactionBusy, idleBaseCompactionBusy, queueDepth, dialogs>>
    /\ RefreshAndPublish

\* The turns of queued messages are released when the queue is empty again.
QueueUpdate ==
    /\ Event
    /\ \E n \in 0..MaxQueue :
          /\ queueDepth' = n
          /\ IF queueDepth > 0 /\ n = 0 /\ ~agentBusy THEN
                 Release(Through(cutoff)) /\ cutoff' = 0
             ELSE
                 /\ cutoff' = IF n > 0 /\ nextTurn > cutoff THEN nextTurn ELSE cutoff
                 /\ UNCHANGED turns
          /\ UNCHANGED <<nextTurn, agentBusy, compactionBusy, idleBaseCompactionBusy, dialogs>>
          /\ state' = IF queueDepth > 0 /\ n = 0 /\ ~agentBusy THEN Refreshed ELSE state
          /\ Publish

CompactionStarts ==
    /\ Event
    /\ compactionBusy' = TRUE
    /\ state' = "running"
    /\ UNCHANGED <<turnVars, agentBusy, idleBaseCompactionBusy, queueDepth, dialogs>>
    /\ Publish

CompactionEnds ==
    /\ Event
    /\ compactionBusy' = FALSE
    /\ \E willRetry \in BOOLEAN : agentBusy' = (agentBusy \/ willRetry)
    /\ UNCHANGED <<turnVars, idleBaseCompactionBusy, queueDepth, dialogs>>
    /\ RefreshAndPublish

\* An extension asks the user; the same id replaces an open dialog.
DialogOpens(d) ==
    /\ Event
    /\ dialogs' = dialogs \union {d}
    /\ state' = "waiting_ui"
    /\ UNCHANGED <<turnVars, busyVars>>
    /\ Publish

\* The user answers, or the dialog's timer expires.
DialogCloses(d) ==
    /\ d \in dialogs
    /\ dialogs' = dialogs \ {d}
    /\ UNCHANGED <<generation, process, command, admitting, controlled, inFlight, turnVars,
                   busyVars>>
    /\ RefreshAndPublish

\* maybeCompactIdleProjectionBase
IdleCompactionBegins ==
    /\ Unblocked /\ process = "up"
    /\ idleBaseCompactionBusy' = TRUE
    /\ UNCHANGED <<generation, process, command, admitting, controlled, inFlight, turnVars,
                   agentBusy, compactionBusy, queueDepth, dialogs, state>>
    /\ Publish

IdleCompactionEnds ==
    /\ idleBaseCompactionBusy
    /\ idleBaseCompactionBusy' = FALSE
    /\ UNCHANGED <<generation, process, command, admitting, controlled, inFlight, turnVars,
                   agentBusy, compactionBusy, queueDepth, dialogs>>
    /\ RefreshAndPublish

-----------------------------------------------------------------------------
(* The process. *)

\* clearOwnedOperationalState
Cleared ==
    /\ inFlight' = 0 /\ turns' = {} /\ cutoff' = 0
    /\ agentBusy' = FALSE /\ compactionBusy' = FALSE /\ idleBaseCompactionBusy' = FALSE
    /\ queueDepth' = 0 /\ dialogs' = {}

\* The process is lost: its commands are rejected first.
Lose ==
    /\ process = "up"
    /\ process' = "lost"
    /\ UNCHANGED <<generation, command, admitting, controlled, inFlight, turnVars, busyVars,
                   dialogs, state, told>>

\* onExit: handleFailure
Crash ==
    /\ process = "lost" /\ Outstanding = {}
    /\ process' = "down"
    /\ Cleared
    /\ state' = "crashed"
    /\ told' = Key'
    /\ UNCHANGED <<generation, command, admitting, controlled, nextTurn>>

\* stop(): what is owned is forgotten at once, the process goes later.
Stop ==
    /\ process \in {"up", "lost"}
    /\ process' = "stopping"
    /\ Cleared
    /\ UNCHANGED <<generation, command, admitting, controlled, nextTurn, state, told>>

Stopped ==
    /\ process = "stopping" /\ Outstanding = {}
    /\ process' = "down"
    /\ state' = "dormant"
    /\ UNCHANGED <<generation, command, admitting, controlled, inFlight, turnVars, busyVars,
                   dialogs>>
    /\ told' = Key'

Restart ==
    /\ process = "down" /\ generation < MaxGeneration
    /\ process' = "up"
    /\ generation' = generation + 1
    /\ state' = "idle"
    /\ UNCHANGED <<command, admitting, controlled, inFlight, turnVars, busyVars, dialogs>>
    /\ told' = Key'

Next ==
    \/ \E c \in Command : Request(c) \/ Admit(c) \/ Headroom(c) \/ Respond(c) \/ Finish(c)
    \/ \E t \in turns : TurnExpires(t)
    \/ LeaseMoves
    \/ AgentStarts \/ AgentSettles \/ QueueUpdate \/ CompactionStarts \/ CompactionEnds
    \/ \E d \in Dialog : DialogOpens(d) \/ DialogCloses(d)
    \/ IdleCompactionBegins \/ IdleCompactionEnds
    \/ Lose \/ Crash \/ Stop \/ Stopped \/ Restart

Spec == Init /\ [][Next]_vars

\* Responses arrive or time out, promises resume, timers fire, a compaction of
\* the idle projection ends by its own timeout.
Fairness ==
    /\ \A c \in Command : WF_vars(Respond(c)) /\ WF_vars(Finish(c))
    /\ WF_vars(\E t \in turns : TurnExpires(t))
    /\ WF_vars(Crash) /\ WF_vars(Stopped) /\ WF_vars(IdleCompactionEnds)

FairSpec == Spec /\ Fairness

-----------------------------------------------------------------------------
(* Properties. *)

\* Every variable holds what the code can put there.
TypeOK ==
    /\ generation \in Generation /\ process \in Process
    /\ command \in [Command -> CommandState] /\ admitting \in Command \union {Nobody}
    /\ controlled \in BOOLEAN /\ inFlight \in 0..Cardinality(Command)
    /\ turns \subseteq [id : 1..Cardinality(Command), armed : BOOLEAN]
    /\ nextTurn \in 0..Cardinality(Command) /\ cutoff \in 0..Cardinality(Command)
    /\ agentBusy \in BOOLEAN /\ compactionBusy \in BOOLEAN
    /\ idleBaseCompactionBusy \in BOOLEAN /\ queueDepth \in 0..MaxQueue
    /\ dialogs \subseteq Dialog /\ state \in State

\* A running process counts exactly the commands it has been given, whatever
\* crashes, stops and late rejections came before.
InFlightExact == process = "up" => inFlight = Cardinality(Outstanding)

\* A runtime that looks idle has no run, compaction, dialog or turn, and one that
\* looks busy or waiting has something that will make it idle again.
IdleExact ==
    process = "up" =>
        /\ state = "idle" => ~agentBusy /\ ~compactionBusy /\ dialogs = {} /\ turns = {}
        /\ state = "running" => \/ agentBusy \/ compactionBusy \/ idleBaseCompactionBusy
                                \/ turns # {} \/ dialogs # {}
        /\ state = "waiting_ui" => dialogs # {}

\* What the browsers were last told is what the runtime is.
ToldExact == process = "up" => told = Key

-----------------------------------------------------------------------------
\* Why they hold: what is true of a process that is lost, stopped or gone too.

\* Turns are numbered by the commands that were dispatched with one.
Numbered == {c \in Command : command[c].turn # 0}
TurnsNumbered ==
    /\ nextTurn = Cardinality(Numbered)
    /\ \A c \in Command :
          command[c].pc \in {"idle", "queued", "headroom"} => command[c].turn = 0

\* A process that is lost still counts what it was given; one that was stopped
\* has nothing left, though late rejections may follow, and none follow its end.
ForgottenAtOnce ==
    /\ process = "lost" => inFlight = Cardinality(Outstanding)
    /\ process \in {"stopping", "down"} =>
          /\ inFlight = 0 /\ turns = {} /\ dialogs = {} /\ queueDepth = 0
          /\ ~agentBusy /\ ~compactionBusy /\ ~idleBaseCompactionBusy
    /\ process = "down" => Outstanding = {}

OperationsInv ==
    /\ TypeOK /\ InFlightExact /\ IdleExact /\ ToldExact
    /\ TurnsNumbered /\ ForgottenAtOnce

-----------------------------------------------------------------------------
\* A command reaches Pi in the generation it was meant for, and while its
\* sender holds the lease, though it waited in between.
DispatchCurrent ==
    [][\A c \in Command :
          command[c].pc # "sent" /\ command'[c].pc = "sent" =>
              command[c].expected = generation /\ controlled]_vars

\* A turn kept for accepted work is given up, unless Pi has work to do.
TurnsReleased == []<>(agentBusy \/ queueDepth > 0 \/ turns = {})

=============================================================================
