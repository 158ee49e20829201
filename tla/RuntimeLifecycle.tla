-------------------------- MODULE RuntimeLifecycle --------------------------
(***************************************************************************)
(* The life of one SessionRuntime: its Pi process, the content it keeps    *)
(* for the browsers, and the promises that tie their ends together.        *)
(*                                                                         *)
(* A process is named by its number, which stands for the processToken it  *)
(* was spawned under.  stop(), a content failure and a projection that no  *)
(* longer fits take a token that no process has, here 0, so that whatever  *)
(* the old process still calls back is ignored.                            *)
(*                                                                         *)
(* Content is held in items: the owner of a generation, the candidate      *)
(* owner of a fork, the ledger of what arrives during a fork, and a        *)
(* transfer that an idle compaction throws away.  An item is released      *)
(* asynchronously, and the release can fail; stopPromise, here "ending",   *)
(* stands for everything that must end before a new process may start.     *)
(*                                                                         *)
(* The coroutines that outlive a step are the spawn, a fork ("fork"), an   *)
(* idle compaction ("compaction") and one caller of start().  A step runs  *)
(* the code between two of their awaits.  Commands, turns and dialogs are  *)
(* the subject of RuntimeOperations; here they are the flag "working".     *)
(***************************************************************************)
EXTENDS Naturals, FiniteSets

CONSTANTS
    MaxStarts,      \* bound: processes spawned
    MaxItem,        \* bound: content items made
    Recoverable     \* the Session has a verified file

ASSUME LifecycleBounds == MaxStarts \in Nat \ {0} /\ MaxItem \in Nat \ {0}
ASSUME RecoverableAssumption == Recoverable \in BOOLEAN

VARIABLES
    starts,         \* processes spawned so far
    token,          \* processToken
    state,          \* the state the runtime is in
    ready,          \* startupReady
    leader,         \* what is left of each process
    reason,         \* why a process is being finalized
    proc,           \* proc; 0 is null
    spawn,          \* the spawn in flight (startPromise)
    ending,         \* stopPromise
    starter,        \* what a caller of start() awaits
    finalizing,     \* processFinalization: somebody awaits the exit of proc
    failed,         \* failedProcessToken
    owner,          \* generationContentOwner; 0 is null
    retained,       \* retainedCrashedContentOwner is set
    retired,        \* retiredGenerationContentCleanup
    discarded,      \* discardedCompactionTransferCleanup
    item,           \* what became of each content item
    refused,        \* why start() is refused for good
    fork,           \* sendIdentityTransition in flight
    staged,         \* transitionStage is set
    compaction,     \* the idle compaction in flight
    working         \* agent, dialogs, compaction by Pi, reserved turns

processVars == <<starts, token, leader, reason, proc, failed>>
startVars == <<spawn, starter, finalizing>>
contentVars == <<owner, retained, retired, discarded, item>>
coroutineVars == <<fork, staged, compaction>>
vars == <<processVars, startVars, contentVars, coroutineVars, state, ready,
          ending, refused, working>>

-----------------------------------------------------------------------------
(* Data. *)

Proc == 1..MaxStarts
Item == 1..MaxItem
State == {"dormant", "starting", "idle", "running", "crashed"}

\* "exited": the leader is gone, its last line is still being delivered.
\* "finalizing": its group is being cleaned up before the exit is reported.
Leader == {"none", "up", "exited", "finalizing", "stopping", "gone"}
Reason == {"none", "exit", "fault", "incompatible"}
Custody == {"none", "held", "sealed", "releasing", "released", "lost"}
Refusal == {"cleanup", "identity", "overflow", "incompatible"}

NoSpawn == [pc |-> "none", proc |-> 0]
SpawnPC == {"none", "ready", "base", "stopping", "fence", "fenced"}
NoEnding == [kind |-> "none", proc |-> 0, items |-> {}, spawn |-> FALSE, lost |-> FALSE]
NoFork == [pc |-> "none", proc |-> 0, parent |-> 0, candidate |-> 0, ledger |-> 0]
ForkPC == {"none", "response", "verify", "load", "retire", "stopping", "stopped"}
NoCompaction == [from |-> "none", proc |-> 0, owner |-> 0]

Up(p) == p # 0 /\ leader[p] = "up"
\* PiProcess.running: the leader, or its finalization unless it was stopped
Alive(p) == p # 0 /\ leader[p] \in {"up", "finalizing"}
\* get running
Running == ending # NoEnding \/ Alive(proc)

Unmade == {i \in Item : item[i] = "none"}
NextItem == CHOOSE i \in Unmade : \A j \in Unmade : i <= j

\* The fault of releasing what a stage does not hold yet.
StageItemsWithNull(stage) ==
    IF staged THEN {stage.candidate, stage.ledger} \ {owner} ELSE {}

\* The payloads of a transition that nobody but its stage holds.
StageItems(stage) ==
    IF staged THEN {stage.candidate, stage.ledger} \ {0, owner} ELSE {}

\* The fault of a generation's end that forgets the content a fork retired.
RemainsWithoutRetired == ({owner, discarded} \ {0}) \union StageItems(fork)

\* What is still to be released when the current generation ends.
Remains == ({owner, retired, discarded} \ {0}) \union StageItems(fork)

\* release() of every item in is, called once each.
Releasing(is) ==
    [i \in Item |-> IF i \in is /\ item[i] \in {"held", "sealed"} THEN "releasing"
                    ELSE item[i]]

Stopped(p) == IF p = 0 \/ leader[p] = "gone" THEN leader
              ELSE [leader EXCEPT ![p] = "stopping"]

Ending(kind, p, is, withSpawn) ==
    [kind |-> kind, proc |-> p, items |-> is, spawn |-> withSpawn, lost |-> FALSE]

-----------------------------------------------------------------------------
(* State shared by the handlers. *)

\* clearOwnedOperationalState
ClearOwned == staged' = FALSE /\ working' = FALSE

\* setState of refreshOperationalState, when it applies
Refreshed ==
    IF ready /\ Running THEN IF working THEN "running" ELSE "idle" ELSE state

\* isCurrentGenerationContentOwner
CurrentOwner(p, o) == token = p /\ proc = p /\ owner = o
\* isCurrentPayloadTransition
CurrentFork ==
    /\ staged /\ fork.pc \in {"response", "verify", "load"}
    /\ CurrentOwner(fork.proc, fork.parent) /\ Alive(fork.proc)

\* stop().  A stop or cleanup in progress is joined, whatever started it.
StopNow ==
    IF ending # NoEnding THEN
        UNCHANGED <<token, leader, proc, owner, retained, retired, item, ending, staged, working>>
    ELSE
        /\ token' = 0
        /\ leader' = Stopped(proc)
        /\ proc' = 0
        /\ owner' = 0
        /\ retained' = FALSE
        /\ retired' = 0
        /\ item' = Releasing(Remains)
        /\ ending' = Ending("stop", proc, Remains, spawn # NoSpawn)
        /\ ClearOwned

\* stop() of the process and release of what it holds, after an error that
\* leaves the runtime crashed.  A stop in progress is not replaced.
EndGeneration(kind, withSpawn) ==
    /\ token' = 0
    /\ leader' = Stopped(proc)
    /\ proc' = 0
    /\ owner' = 0
    /\ retained' = FALSE
    /\ retired' = 0
    /\ item' = Releasing(Remains)
    /\ ending' = IF ending # NoEnding THEN ending
                 ELSE IF proc = 0 /\ Remains = {} THEN NoEnding
                 ELSE Ending(kind, proc, Remains, withSpawn)
    /\ ready' = FALSE
    /\ state' = "crashed"
    /\ ClearOwned

\* terminalizeProjection
TerminalizeProjection == EndGeneration("projection", spawn # NoSpawn) /\ UNCHANGED failed

\* terminalizeGenerationContentFailure, of the current owner
TerminalizeContent == EndGeneration("terminal", FALSE) /\ failed' = token

-----------------------------------------------------------------------------
(* Starting. *)

Init ==
    /\ starts = 0 /\ token = 0 /\ proc = 0 /\ failed = 0
    /\ leader = [p \in Proc |-> "none"] /\ reason = [p \in Proc |-> "none"]
    /\ state = "dormant" /\ ready = FALSE
    /\ spawn = NoSpawn /\ ending = NoEnding /\ starter = "none" /\ finalizing = FALSE
    /\ owner = 0 /\ retained = FALSE /\ retired = 0 /\ discarded = 0
    /\ item = [i \in Item |-> "none"]
    /\ refused = {}
    /\ fork = NoFork /\ staged = FALSE /\ compaction = NoCompaction /\ working = FALSE

Refused == retained \/ refused # {}

\* spawn(), up to the process being asked for its state
Spawn ==
    /\ starts < MaxStarts /\ Unmade # {}
    /\ starts' = starts + 1
    /\ token' = starts + 1
    /\ proc' = starts + 1
    /\ leader' = [leader EXCEPT ![starts + 1] = "up"]
    /\ failed' = 0
    /\ owner' = NextItem
    /\ item' = [item EXCEPT ![NextItem] = "held"]
    /\ ready' = FALSE
    /\ state' = "starting"
    /\ finalizing' = FALSE
    /\ spawn' = [pc |-> "ready", proc |-> starts + 1]
    /\ starter' = "spawn"
    /\ UNCHANGED <<reason, ending, retained, retired, discarded, refused,
                   coroutineVars, working>>

\* start(), when it only waits or returns
Wait(for, exit) ==
    /\ starter' = for
    /\ finalizing' = exit
    /\ UNCHANGED <<processVars, contentVars, coroutineVars, spawn, state, ready,
                   ending, refused, working>>

\* The fault of a start that does not wait for a stop in progress.
StartAtOnce ==
    \/ Refused /\ Wait("none", finalizing)
    \/ ~Refused /\ spawn # NoSpawn /\ Wait("spawn", finalizing)
    \/ ~Refused /\ spawn = NoSpawn /\ Alive(proc) /\ Wait("none", finalizing)
    \/ ~Refused /\ spawn = NoSpawn /\ ~Alive(proc) /\ proc # 0 /\ Wait("exit", TRUE)
    \/ ~Refused /\ spawn = NoSpawn /\ proc = 0 /\ Spawn

\* start()
Start ==
    \/ Refused /\ Wait("none", finalizing)
    \/ /\ ~Refused
       /\ \/ ending # NoEnding /\ Wait("ending", finalizing)
          \/ ending = NoEnding /\ spawn # NoSpawn /\ Wait("spawn", finalizing)
          \/ ending = NoEnding /\ spawn = NoSpawn /\ Running /\ Wait("none", finalizing)
          \/ ending = NoEnding /\ spawn = NoSpawn /\ ~Running /\ proc # 0 /\ Wait("exit", TRUE)
          \/ ending = NoEnding /\ spawn = NoSpawn /\ ~Running /\ proc = 0 /\ Spawn

\* Somebody opens the Session, or its crash-restart timer fires.
Open == starter = "none" /\ Start

\* The end that start() waited for has come; a failed cleanup rejects it.
StartAgain ==
    \/ /\ starter = "ending" /\ ending = NoEnding
       /\ IF "cleanup" \in refused THEN Wait("none", finalizing) ELSE Start
    \/ starter = "exit" /\ ~finalizing /\ Start
    \/ starter = "spawn" /\ spawn = NoSpawn /\ Wait("none", finalizing)

\* The process answered; the base of its projection is read next.
SpawnReady ==
    /\ spawn.pc = "ready" /\ Up(spawn.proc)
    /\ spawn' = [spawn EXCEPT !.pc = "base"]
    /\ UNCHANGED <<processVars, starter, finalizing, contentVars, coroutineVars,
                   state, ready, ending, refused, working>>

SpawnDone ==
    /\ spawn.pc = "base" /\ Up(spawn.proc) /\ CurrentOwner(spawn.proc, owner) /\ owner # 0
    /\ spawn' = NoSpawn
    /\ ready' = TRUE
    /\ state' = IF working THEN "running" ELSE "idle"
    /\ UNCHANGED <<processVars, starter, finalizing, contentVars, coroutineVars,
                   ending, refused, working>>

\* handleFailure(p).  The content of a process that crashed by itself, after
\* it was ready, is kept for reading when the Session has no file.
Retains(p) ==
    /\ owner # 0 /\ reason[p] = "exit" /\ ~Recoverable /\ ready
    /\ ~staged /\ retired = 0 /\ discarded = 0

Fail(p) ==
    IF token # p \/ failed = p THEN
        UNCHANGED <<token, proc, failed, owner, retained, retired, item, ending,
                    finalizing, state, refused, staged, working>>
    ELSE
        /\ failed' = p
        /\ proc' = 0
        /\ retired' = 0
        /\ finalizing' = FALSE
        /\ ClearOwned
        /\ state' = "crashed"
        /\ refused' = IF reason[p] = "incompatible"
                        THEN refused \union {"incompatible"}
                        ELSE refused \ {"incompatible"}
        /\ UNCHANGED token
        /\ IF Retains(p) THEN
               /\ retained' = TRUE
               /\ item' = [item EXCEPT ![owner] = "sealed"]
               /\ UNCHANGED <<owner, ending>>
           ELSE
               /\ owner' = 0
               /\ item' = Releasing(Remains)
               /\ ending' = IF ending # NoEnding \/ Remains = {} THEN ending
                            ELSE Ending("terminal", 0, Remains, FALSE)
               /\ UNCHANGED retained

\* The spawn's error path: a process that still runs is stopped first.
SpawnFails ==
    /\ \/ spawn.pc \in {"ready", "base"} /\ ~Up(spawn.proc)
       \/ spawn.pc = "base"
    /\ IF spawn.pc = "ready" /\ leader[spawn.proc] # "gone" THEN FALSE
       ELSE leader' = IF Alive(spawn.proc) THEN Stopped(spawn.proc) ELSE leader
    /\ spawn' = [spawn EXCEPT !.pc = "stopping"]
    \* a base that does not fit is remembered and ends the runtime here
    /\ \E why \in {{}, {"overflow"}} :
          refused' = IF spawn.pc = "base" /\ token = spawn.proc THEN refused \union why ELSE refused
    /\ UNCHANGED <<starts, token, reason, proc, failed, starter, finalizing, contentVars,
                   coroutineVars, state, ready, ending, working>>

\* The fault of awaiting a cleanup that awaits this spawn.
SpawnStoppedAwaiting ==
    /\ spawn.pc = "stopping" /\ leader[spawn.proc] \notin {"stopping", "finalizing"}
    /\ Fail(spawn.proc)
    /\ spawn' = IF ending' # NoEnding THEN [spawn EXCEPT !.pc = "fence"] ELSE NoSpawn
    /\ UNCHANGED <<starts, leader, reason, starter, discarded, fork, compaction, ready>>

SpawnStopped ==
    /\ spawn.pc = "stopping" /\ leader[spawn.proc] \notin {"stopping", "finalizing"}
    /\ Fail(spawn.proc)
    /\ spawn' = IF token' = spawn.proc /\ ending' # NoEnding
                  THEN [spawn EXCEPT !.pc = "fence"] ELSE NoSpawn
    /\ UNCHANGED <<starts, leader, reason, starter, discarded, fork, compaction, ready>>

SpawnEnds ==
    /\ spawn.pc = "fenced"
    /\ spawn' = NoSpawn
    /\ UNCHANGED <<processVars, starter, finalizing, contentVars, coroutineVars,
                   state, ready, ending, refused, working>>

-----------------------------------------------------------------------------
(* The process, as PiProcess reports it. *)

\* The leader exits by itself; its last line is still to be delivered.
LeaderExits(p) ==
    /\ leader[p] = "up"
    /\ leader' = [leader EXCEPT ![p] = "exited"]
    /\ UNCHANGED <<starts, token, reason, proc, failed, startVars, contentVars, coroutineVars,
                   state, ready, ending, refused, working>>

\* The exit is arbitrated, or the process broke the protocol: its commands are
\* rejected and its group is cleaned up.
Finalize(p) ==
    /\ leader[p] \in {"up", "exited"}
    /\ leader' = [leader EXCEPT ![p] = "finalizing"]
    /\ \E why \in IF leader[p] = "exited" THEN {"exit"} ELSE {"fault", "incompatible"} :
          reason' = [reason EXCEPT ![p] = why]
    /\ UNCHANGED <<starts, token, proc, failed, startVars, contentVars, coroutineVars,
                   state, ready, ending, refused, working>>

\* onExit, after the commands of the process were rejected and handled
ReportExit(p) ==
    /\ leader[p] = "finalizing"
    /\ ~(fork.proc = p /\ fork.pc \in {"response", "verify"})
    /\ ~(compaction.from = "process" /\ compaction.proc = p)
    /\ leader' = [leader EXCEPT ![p] = "gone"]
    /\ Fail(p)
    /\ UNCHANGED <<starts, reason, spawn, starter, discarded, fork, compaction, ready>>

\* proc.stop() has ended the whole group; nothing is reported.
ProcessStopped(p) ==
    /\ leader[p] = "stopping"
    /\ ~(fork.proc = p /\ fork.pc \in {"response", "verify"})
    /\ ~(compaction.from = "process" /\ compaction.proc = p)
    /\ leader' = [leader EXCEPT ![p] = "gone"]
    /\ UNCHANGED <<starts, token, reason, proc, failed, startVars, contentVars, coroutineVars,
                   state, ready, ending, refused, working>>

\* An agent run, a dialog or a turn begins or ends.
Work ==
    /\ ready /\ Up(proc)
    /\ working' = ~working
    /\ state' = IF working' THEN "running" ELSE "idle"
    /\ UNCHANGED <<processVars, startVars, contentVars, coroutineVars, ready, ending, refused>>

-----------------------------------------------------------------------------
(* Stopping and failing. *)

\* Evicted, deleted, abandoned or shut down by the supervisor.
Stop ==
    /\ ending = NoEnding /\ (proc # 0 \/ spawn # NoSpawn \/ owner # 0)
    /\ StopNow
    /\ UNCHANGED <<starts, reason, failed, startVars, discarded, fork, compaction,
                   state, ready, refused>>

\* The events of a running process no longer fit the projection, or its
\* native history is another file's.
Untrusted ==
    /\ ready /\ Up(proc) /\ ending = NoEnding
    /\ \E why \in {"overflow", "identity"} : refused' = refused \union {why}
    /\ TerminalizeProjection
    /\ UNCHANGED <<starts, reason, startVars, discarded, fork, compaction>>

\* A hold of the current owner could not be released, or a prepared event
\* could not be committed.
ContentFails ==
    /\ owner # 0 /\ ~retained /\ CurrentOwner(token, owner) /\ token # 0
    /\ TerminalizeContent
    /\ UNCHANGED <<starts, reason, startVars, discarded, fork, compaction, refused>>

\* The same, of the content kept of a crashed process: the failure itself is
\* one of the things its cleanup awaits.
RetainedFails ==
    /\ retained
    /\ retained' = FALSE
    /\ owner' = 0
    /\ item' = Releasing({owner})
    /\ ending' = [Ending("terminal", 0, {owner}, FALSE) EXCEPT !.lost = TRUE]
    /\ ClearOwned
    /\ UNCHANGED <<processVars, startVars, retired, discarded, fork, compaction, state,
                   ready, refused>>

\* A release settles.  Outside of a stop, its failure ends the generation.
ItemSettles(i) ==
    /\ item[i] = "releasing"
    /\ \E result \in {"released", "lost"} :
          \/ /\ i \notin {retired, discarded} \/ result = "released" \/ owner = 0 \/ proc = 0
             /\ item' = [item EXCEPT ![i] = result]
             /\ retired' = IF i = retired THEN 0 ELSE retired
             /\ discarded' = IF i = discarded THEN 0 ELSE discarded
             /\ ending' = IF i \in ending.items /\ result = "lost"
                            THEN [ending EXCEPT !.lost = TRUE] ELSE ending
             /\ UNCHANGED <<token, leader, proc, owner, retained, ready, state, failed,
                            staged, working>>
          \/ /\ i \in {retired, discarded} /\ result = "lost" /\ owner # 0 /\ proc # 0
             /\ token' = 0 /\ failed' = token
             /\ leader' = Stopped(proc)
             /\ proc' = 0 /\ owner' = 0 /\ retained' = FALSE /\ retired' = 0
             /\ discarded' = 0
             /\ item' = [Releasing(Remains) EXCEPT ![i] = "lost"]
             /\ ending' = [Ending("terminal", proc, Remains \ {i}, FALSE) EXCEPT !.lost = TRUE]
             /\ ready' = FALSE /\ state' = "crashed"
             /\ ClearOwned
    /\ UNCHANGED <<starts, reason, startVars, fork, compaction, refused>>

\* stopPromise settles once all it awaits has: only then may a start go on.
EndingSettles ==
    /\ ending # NoEnding
    /\ ending.proc \in {0} \union {p \in Proc : leader[p] = "gone"}
    /\ \A i \in ending.items : item[i] \notin {"held", "sealed", "releasing"}
    /\ ending.spawn => spawn = NoSpawn
    /\ ending' = NoEnding
    /\ refused' = IF ending.lost THEN refused \union {"cleanup"} ELSE refused
    /\ state' = IF ending.kind = "stop" THEN IF ending.lost THEN "crashed" ELSE "dormant"
                ELSE state
    /\ finalizing' = IF ending.lost \/ ending.kind = "terminal" THEN finalizing ELSE FALSE
    /\ spawn' = IF spawn.pc = "fence" THEN [spawn EXCEPT !.pc = "fenced"] ELSE spawn
    /\ fork' = IF fork.pc = "stopping" THEN [fork EXCEPT !.pc = "stopped"] ELSE fork
    /\ UNCHANGED <<processVars, starter, contentVars, staged, compaction, ready, working>>

-----------------------------------------------------------------------------
(* Fork, clone, switch and new Session, inside the process. *)

ForkBegins ==
    /\ fork = NoFork /\ ready /\ Up(proc) /\ ending = NoEnding
    /\ state = "idle" /\ ~working /\ compaction = NoCompaction
    /\ CurrentOwner(token, owner) /\ owner # 0
    /\ fork' = [NoFork EXCEPT !.pc = "response", !.proc = proc, !.parent = owner]
    /\ staged' = TRUE
    /\ UNCHANGED <<processVars, startVars, contentVars, compaction, state, ready,
                   ending, refused, working>>

\* A frame or a response with a payload arrives while the fork is staged.
ForkPayload ==
    /\ CurrentFork /\ Up(fork.proc) /\ fork.ledger = 0 /\ Unmade # {}
    /\ fork' = [fork EXCEPT !.ledger = NextItem]
    /\ item' = [item EXCEPT ![NextItem] = "held"]
    /\ UNCHANGED <<processVars, startVars, owner, retained, retired, discarded, staged,
                   compaction, state, ready, ending, refused, working>>

\* The ledger's payloads are handed to the owner of the generation they name.
Drained == IF fork.ledger = 0 THEN item ELSE [item EXCEPT ![fork.ledger] = "released"]

\* Pi refused, or stayed where it was: what was staged is the parent's.
ForkRefused ==
    /\ fork.pc \in {"response", "verify"} /\ CurrentFork /\ Up(fork.proc)
    /\ item' = Drained
    /\ fork' = NoFork /\ staged' = FALSE
    /\ state' = Refreshed
    /\ UNCHANGED <<processVars, startVars, owner, retained, retired, discarded,
                   compaction, ready, ending, refused, working>>

ForkVerify ==
    /\ fork.pc = "response" /\ CurrentFork /\ Up(fork.proc)
    /\ fork' = [fork EXCEPT !.pc = "verify"]
    /\ UNCHANGED <<processVars, startVars, contentVars, staged, compaction, state, ready,
                   ending, refused, working>>

\* The child is known: an owner for its generation, and its base to read.
ForkChild ==
    /\ fork.pc = "verify" /\ CurrentFork /\ Up(fork.proc) /\ Unmade # {}
    /\ fork' = [fork EXCEPT !.pc = "load", !.candidate = NextItem]
    /\ item' = [item EXCEPT ![NextItem] = "held"]
    /\ UNCHANGED <<processVars, startVars, owner, retained, retired, discarded, staged,
                   compaction, state, ready, ending, refused, working>>

\* apply: the child takes over, the parent's content is retired.
ForkApplied ==
    /\ fork.pc = "load" /\ CurrentFork
    /\ retired = 0
    /\ owner' = fork.candidate
    /\ retired' = fork.parent
    /\ item' = [Drained EXCEPT ![fork.parent] = "releasing"]
    /\ fork' = [fork EXCEPT !.pc = "retire", !.ledger = 0]
    /\ state' = "idle"
    /\ UNCHANGED <<processVars, startVars, retained, discarded, staged, compaction, ready,
                   ending, refused, working>>

ForkDone ==
    /\ fork.pc = "retire" /\ item[fork.parent] = "released" /\ ending = NoEnding
    /\ fork' = NoFork /\ staged' = FALSE
    /\ state' = Refreshed
    /\ UNCHANGED <<processVars, startVars, contentVars, compaction, ready, ending,
                   refused, working>>

\* A response is lost or malformed, the base cannot be read, the process or
\* the parent's content is gone: Pi may already be the child, so it is stopped.
ForkFails ==
    /\ \/ fork.pc \in {"response", "verify", "load"}
       \/ fork.pc = "retire" /\ item[fork.parent] = "lost"
    /\ StopNow
    /\ fork' = [fork EXCEPT !.pc = "stopping"]
    /\ UNCHANGED <<starts, reason, failed, startVars, discarded, compaction, state,
                   ready, refused>>

ForkStopped ==
    /\ fork.pc = "stopped"
    /\ fork' = NoFork /\ staged' = FALSE
    /\ state' = Refreshed
    /\ UNCHANGED <<processVars, startVars, contentVars, compaction, ready, ending,
                   refused, working>>

-----------------------------------------------------------------------------
(* Compaction of the projection's base while the runtime is idle. *)

CompactionBegins ==
    /\ compaction = NoCompaction /\ discarded = 0 /\ fork = NoFork
    /\ ready /\ Up(proc) /\ ending = NoEnding /\ state = "idle" /\ ~working
    /\ \E from \in {"file", "process"} :
          compaction' = [from |-> from, proc |-> proc, owner |-> owner]
    /\ UNCHANGED <<processVars, startVars, contentVars, fork, staged, state, ready,
                   ending, refused, working>>

\* The base is taken, or not, and what it carried is adopted by the owner.
CompactionEnds ==
    /\ compaction # NoCompaction
    /\ compaction' = NoCompaction
    /\ state' = Refreshed
    /\ UNCHANGED <<processVars, startVars, contentVars, fork, staged, ready, ending,
                   refused, working>>

\* The base came too late: the payloads Pi sent with it are released.
CompactionDiscards ==
    /\ compaction.from = "process" /\ Up(compaction.proc) /\ discarded = 0 /\ Unmade # {}
    /\ discarded' = NextItem
    /\ item' = [item EXCEPT ![NextItem] = "releasing"]
    /\ compaction' = NoCompaction
    /\ state' = Refreshed
    /\ UNCHANGED <<processVars, startVars, owner, retained, retired, fork, staged, ready,
                   ending, refused, working>>

ProcessStep(p) ==
    LeaderExits(p) \/ Finalize(p) \/ ReportExit(p) \/ ProcessStopped(p)

Next ==
    \/ Open \/ StartAgain
    \/ SpawnReady \/ SpawnDone \/ SpawnFails \/ SpawnStopped \/ SpawnEnds
    \/ \E p \in Proc : ProcessStep(p)
    \/ Work \/ Stop \/ Untrusted \/ ContentFails \/ RetainedFails
    \/ \E i \in Item : ItemSettles(i)
    \/ EndingSettles
    \/ ForkBegins \/ ForkPayload \/ ForkRefused \/ ForkVerify \/ ForkChild
    \/ ForkApplied \/ ForkDone \/ ForkFails \/ ForkStopped
    \/ CompactionBegins \/ CompactionEnds \/ CompactionDiscards

Spec == Init /\ [][Next]_vars

\* What ends by itself: finalizations and stops of a group escalate to kill
\* on a timer, releases settle, awaited promises resume, timed commands fail.
Fairness ==
    /\ \A p \in Proc : WF_vars(leader[p] # "up" /\ ProcessStep(p))
    /\ \A i \in Item : WF_vars(ItemSettles(i))
    /\ WF_vars(EndingSettles)
    /\ WF_vars(StartAgain)
    /\ WF_vars(SpawnDone \/ SpawnFails)
    /\ WF_vars(SpawnStopped) /\ WF_vars(SpawnEnds)
    /\ WF_vars(SpawnReady \/ SpawnFails \/ \E p \in Proc : spawn.proc = p /\ ProcessStep(p))
    /\ WF_vars(ForkDone) /\ WF_vars(ForkFails) /\ WF_vars(ForkStopped)
    /\ WF_vars(CompactionEnds \/ CompactionDiscards)

FairSpec == Spec /\ Fairness

-----------------------------------------------------------------------------
(* Properties. *)

\* Every variable holds what the code can put there.
TypeOK ==
    /\ starts \in 0..MaxStarts /\ token \in 0..MaxStarts
    /\ proc \in 0..MaxStarts /\ failed \in 0..MaxStarts
    /\ leader \in [Proc -> Leader] /\ reason \in [Proc -> Reason]
    /\ state \in State /\ ready \in BOOLEAN
    /\ spawn \in [pc : SpawnPC, proc : 0..MaxStarts]
    /\ ending \in [kind : {"none", "stop", "terminal", "projection"}, proc : 0..MaxStarts,
                   items : SUBSET Item, spawn : BOOLEAN, lost : BOOLEAN]
    /\ starter \in {"none", "ending", "exit", "spawn"} /\ finalizing \in BOOLEAN
    /\ owner \in 0..MaxItem /\ retained \in BOOLEAN
    /\ retired \in 0..MaxItem /\ discarded \in 0..MaxItem
    /\ item \in [Item -> Custody]
    /\ refused \subseteq Refusal
    /\ fork \in [pc : ForkPC, proc : 0..MaxStarts, parent : 0..MaxItem,
                 candidate : 0..MaxItem, ledger : 0..MaxItem]
    /\ staged \in BOOLEAN /\ working \in BOOLEAN
    /\ compaction \in [from : {"none", "file", "process"}, proc : 0..MaxStarts,
                       owner : 0..MaxItem]

\* Nothing is kept that nobody would release: content held is the current
\* owner's or a staged fork's, and every release under way is awaited.
Custodian ==
    \A i \in Item :
       /\ item[i] \in {"held", "sealed"} => i = owner \/ i \in StageItems(fork)
       /\ item[i] = "releasing" => i \in {retired, discarded} \/ i \in ending.items

\* The two together: what a crash, a stop, a fork or a compaction does to the
\* leaders and to the content of their generations.
KeepingExact == TypeOK /\ Custodian

\* A new process starts with no content of an earlier generation left to be
\* released.
CleanStart ==
    spawn.pc \in {"ready", "base"} /\ token = spawn.proc /\ owner # 0 =>
        \A i \in Item \ {owner} : item[i] \in {"none", "released", "lost"}

\* Why they hold.  A generation that ends loses its process, its token and its
\* content in one step; what it leaves behind is awaited by the ending.
OneGeneration ==
    /\ proc # 0 => token = proc /\ failed # proc
    /\ token # 0 /\ failed # token => proc = token
    /\ \A p \in Proc : leader[p] = "up" => p = proc
    /\ proc <= starts /\ fork.proc <= starts /\ compaction.proc <= starts
EndedWhole ==
    /\ ending # NoEnding => proc = 0 /\ owner = 0
    /\ proc # 0 => owner # 0
    /\ retained => owner # 0 /\ proc = 0 /\ discarded = 0
    /\ proc = 0 => /\ retired = 0 /\ ~staged
                   /\ owner # 0 => retained
                   /\ discarded # 0 => discarded \in ending.items

\* Content named by the runtime is content that is held or being released.
ContentNamed ==
    /\ owner # 0 => item[owner] \in {"held", "sealed"}
    /\ retired # 0 => item[retired] = "releasing"
    /\ discarded # 0 => item[discarded] = "releasing"

\* What is staged belongs to the fork of the current process.
StagedWhole ==
    staged =>
       /\ fork.proc = proc /\ fork.pc \in {"response", "verify", "load", "retire"}
       /\ fork.pc \in {"response", "verify"} => fork.candidate = 0 /\ owner = fork.parent
       /\ fork.pc = "load" => /\ fork.candidate \notin {0, owner} /\ owner = fork.parent
                              /\ item[fork.candidate] = "held"
       /\ fork.pc = "retire" => fork.candidate = owner /\ fork.ledger = 0
       /\ fork.ledger # 0 => /\ item[fork.ledger] = "held"
                             /\ fork.ledger \notin {owner, fork.candidate}

\* A spawn in flight is of a process that no fork or compaction has seen.
SpawnAlone ==
    spawn.pc # "none" =>
       /\ spawn.proc \in 1..starts /\ ~ready
       /\ spawn.proc # fork.proc /\ spawn.proc # compaction.proc
       /\ spawn.pc \in {"stopping", "fence", "fenced"} => leader[spawn.proc] # "up"

LifecycleInv ==
    /\ TypeOK /\ Custodian /\ CleanStart /\ OneGeneration /\ EndedWhole /\ ContentNamed
    /\ StagedWhole /\ SpawnAlone

\* Every stop and cleanup ends, though it may await the start it interrupted,
\* and that start the cleanup.
StopEnds == []<>(ending = NoEnding)

=============================================================================
