----------------------------- MODULE MCRuntime -----------------------------
(***************************************************************************)
(* The life of a runtime, the operations it is busy with and the process   *)
(* that answers them: each module on an instance of its own, side by side  *)
(* in one run.  `part` says which one moves, and the others stay where     *)
(* they began.                                                             *)
(***************************************************************************)
EXTENDS RuntimeLifecycle

CONSTANTS Command, Dialog, Nobody, MaxPending, MaxQueue, MaxGeneration, Query, Probe, MaxLine

VARIABLES
    generation, process, command, admitting, controlled, inFlight, turns, nextTurn, cutoff,
    agentBusy, compactionBusy, idleBaseCompactionBusy, queueDepth, dialogs, o_state, told,
    p_leader, current, attached, stopped, finalization, arbitrating, starting, stopping,
    request, writes, received, lines, line, late, lease, exits,
    part

Operations == INSTANCE RuntimeOperations WITH state <- o_state
Pi == INSTANCE PiProcess WITH leader <- p_leader

operations ==
    <<generation, process, command, admitting, controlled, inFlight, turns, nextTurn, cutoff,
      agentBusy, compactionBusy, idleBaseCompactionBusy, queueDepth, dialogs, o_state, told>>
child ==
    <<p_leader, current, attached, stopped, finalization, arbitrating, starting, stopping,
      request, writes, received, lines, line, late, lease, exits>>
all == <<vars, operations, child, part>>

MCInit ==
    Init /\ Operations!Init /\ Pi!Init /\ part \in {"lifecycle", "operations", "process"}

Lives(A) == part = "lifecycle" /\ A /\ UNCHANGED <<operations, child, part>>
Operates(A) == part = "operations" /\ A /\ UNCHANGED <<vars, child, part>>
Processes(A) == part = "process" /\ A /\ UNCHANGED <<vars, operations, part>>
MCNext == Lives(Next) \/ Operates(Operations!Next) \/ Processes(Pi!Next)

\* The steps each module is fair to, taken together: one of them is taken
\* whenever there is one to take.
LifecycleOwn ==
    \/ \E p \in Proc : (leader[p] # "up" \/ spawn.proc = p) /\ ProcessStep(p)
    \/ \E i \in Item : ItemSettles(i)
    \/ EndingSettles \/ StartAgain
    \/ SpawnReady \/ SpawnDone \/ SpawnFails \/ SpawnStopped \/ SpawnEnds
    \/ ForkDone \/ ForkFails \/ ForkStopped \/ CompactionEnds \/ CompactionDiscards
OperationsOwn ==
    \/ \E c \in Command : Operations!Respond(c) \/ Operations!Finish(c)
    \/ \E t \in turns : Operations!TurnExpires(t)
    \/ Operations!Crash \/ Operations!Stopped \/ Operations!IdleCompactionEnds
ProcessOwn ==
    \/ \E r \in Query \union {Probe} : Pi!TimeOut(r)
    \/ Pi!DecodeStep \/ Pi!Commit \/ Pi!Finalized \/ Pi!Probed \/ Pi!Stop("start")
    \/ \E s \in Pi!Stopper : Pi!StopEnds(s)

MCSpec ==
    /\ MCInit /\ [][MCNext]_all
    /\ WF_all(Lives(LifecycleOwn))
    /\ WF_all(Operates(OperationsOwn)) /\ WF_all(Processes(ProcessOwn))

\* The bounds are numbers, and the commands of an instance are finitely many.
ASSUME RuntimeBounds ==
    /\ IsFiniteSet(Command)
    /\ MaxPending \in Nat /\ MaxQueue \in Nat /\ MaxLine \in Nat
    /\ MaxGeneration \in Nat \ {0}

\* What a runtime counts, says and publishes of its work agrees at every moment
\* (RuntimeOperations).
OperationsExact ==
    /\ Operations!TypeOK /\ Operations!InFlightExact /\ Operations!IdleExact
    /\ Operations!ToldExact

\* The owner of a process hears of its exit once, and a process that is gone
\* keeps no content of the lines it sent (PiProcess).
ProcessExact == Pi!TypeOK /\ Pi!ExitReportedOnce /\ Pi!NoLeaseLeft

\* Those of RuntimeOperations: a command reaches the process it was meant for,
\* under its sender's lease; a turn kept for accepted work is given up.
DispatchCurrent == Operations!DispatchCurrent
TurnsReleased == Operations!TurnsReleased

\* Those of PiProcess: what is committed was decoded for the current spawn; an
\* exit is reported, or overtaken by a stop, and a stop ends.
CommitsCurrent == Pi!CommitsCurrent
EndIsReported == Pi!EndIsReported
=============================================================================
