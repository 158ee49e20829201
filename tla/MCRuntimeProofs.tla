--------------------------- MODULE MCRuntimeProofs ---------------------------
(***************************************************************************)
(* Proofs about the parts of a SessionRuntime that MCRuntime puts side by  *)
(* side, for any sets of commands, dialogs and requests and any bounds.    *)
(***************************************************************************)
EXTENDS MCRuntime, Sequences, FiniteSetTheorems, WellFoundedInduction, TLAPS

-----------------------------------------------------------------------------
(* Counting.                                                               *)

LEMMA OneMore ==
    ASSUME NEW S, IsFiniteSet(S), NEW x, x \notin S
    PROVE  Cardinality(S \union {x}) = Cardinality(S) + 1
  BY FS_AddElement

LEMMA OneLess ==
    ASSUME NEW S, IsFiniteSet(S), NEW x \in S
    PROVE  Cardinality(S \ {x}) = Cardinality(S) - 1 /\ Cardinality(S) \in Nat \ {0}
<1>1. Cardinality(S \ {x}) = Cardinality(S) - 1
  BY FS_RemoveElement
<1>2. Cardinality(S) \in Nat /\ Cardinality(S) # 0
  BY FS_CardinalityType, FS_EmptySet
<1> QED
  BY <1>1, <1>2

\* The count of RuntimeOperations is the count.
LEMMA SameCount == \A S : Operations!Cardinality(S) = Cardinality(S)
  BY DEF Operations!Cardinality, Cardinality

\* How many commands there are, and how many are of some kind.
LEMMA Counts ==
    /\ IsFiniteSet(Command) /\ Cardinality(Command) \in Nat
    /\ \A S \in SUBSET Command :
          IsFiniteSet(S) /\ Cardinality(S) \in Nat /\ Cardinality(S) <= Cardinality(Command)
<1>1. IsFiniteSet(Command)
  BY RuntimeBounds
<1> QED
  BY <1>1, FS_CardinalityType, FS_Subset

-----------------------------------------------------------------------------
(* What a runtime is busy with.                                            *)

\* What is said of a runtime does not depend on its commands.
LEMMA KeyKept ==
    ASSUME UNCHANGED <<inFlight, agentBusy, compactionBusy, idleBaseCompactionBusy, queueDepth,
                       dialogs, turns, o_state>>
    PROVE  Operations!Key' = Operations!Key
  BY DEF Operations!Key, Operations!RuntimePhase, Operations!OperationCount, Operations!Reasons

\* What refreshOperationalState leaves behind.
LEMMA RefreshExact ==
    ASSUME o_state' = Operations!Refreshed, UNCHANGED process
    PROVE  Operations!IdleExact'
  BY DEF Operations!IdleExact, Operations!Refreshed, Operations!Operational

LEMMA RefreshType ==
    ASSUME o_state \in Operations!State
    PROVE  Operations!Refreshed \in Operations!State
  BY DEF Operations!Refreshed, Operations!State

\* A step that moves a command and sends, answers or counts nothing.
LEMMA CommandMoves ==
    ASSUME Operations!OperationsInv, NEW c \in Command,
           UNCHANGED <<generation, process, inFlight, turns, nextTurn, cutoff, agentBusy,
                       compactionBusy, idleBaseCompactionBusy, queueDepth, dialogs, o_state, told>>,
           admitting' \in Command \union {Nobody}, controlled' \in BOOLEAN,
           command'[c] \in Operations!CommandState, command' = [command EXCEPT ![c] = command'[c]],
           command'[c].turn = command[c].turn,
           command'[c].pc \in {"idle", "queued", "headroom"} =>
              command[c].pc \in {"idle", "queued", "headroom"},
           command'[c].pc \in {"sent", "answered", "refused"} <=>
              command[c].pc \in {"sent", "answered", "refused"}
    PROVE  Operations!OperationsInv'
<1>0. /\ Operations!TypeOK /\ Operations!InFlightExact /\ Operations!IdleExact /\ Operations!ToldExact
      /\ Operations!TurnsNumbered /\ Operations!ForgottenAtOnce
  BY DEF Operations!OperationsInv
<1>1. /\ command \in [Command -> Operations!CommandState]
      /\ \A d \in Command \ {c} : command'[d] = command[d]
  BY <1>0 DEF Operations!TypeOK
<1>2. Operations!TypeOK'
  BY <1>0, <1>1 DEF Operations!TypeOK
<1>3. Operations!Outstanding' = Operations!Outstanding
  BY <1>0, <1>1 DEF Operations!Outstanding
<1>4. Operations!Numbered' = Operations!Numbered
  BY <1>0, <1>1 DEF Operations!Numbered
<1>5. Operations!TurnsNumbered'
  BY <1>0, <1>1, <1>4 DEF Operations!TurnsNumbered
<1>6. Operations!ToldExact'
  BY <1>0, KeyKept DEF Operations!ToldExact
<1> QED
  BY <1>0, <1>2, <1>3, <1>5, <1>6 DEF Operations!OperationsInv, Operations!InFlightExact, Operations!IdleExact, Operations!ForgottenAtOnce

\* A step of the agent, a timer or a dialog: no command moves, and what is said
\* is what is published.
LEMMA EventMoves ==
    ASSUME Operations!OperationsInv, process \in {"up", "lost"},
           UNCHANGED <<generation, process, command, admitting, controlled, inFlight, nextTurn>>,
           turns' \in SUBSET turns, cutoff' \in 0..Cardinality(Command),
           agentBusy' \in BOOLEAN, compactionBusy' \in BOOLEAN,
           idleBaseCompactionBusy' \in BOOLEAN, queueDepth' \in 0..MaxQueue,
           dialogs' \in SUBSET Dialog, o_state' \in Operations!State, Operations!IdleExact', Operations!Publish
    PROVE  Operations!OperationsInv'
<1>0. Operations!TypeOK /\ Operations!InFlightExact /\ Operations!TurnsNumbered /\ Operations!ForgottenAtOnce
  BY DEF Operations!OperationsInv
<1>1. Operations!Outstanding' = Operations!Outstanding
  BY DEF Operations!Outstanding
<1>2. Operations!Numbered' = Operations!Numbered
  BY DEF Operations!Numbered
<1>3. Operations!TypeOK'
  BY <1>0, SameCount DEF Operations!TypeOK
<1>4. Operations!ToldExact'
  BY DEF Operations!ToldExact, Operations!Publish, Operations!Operational
<1>5. Operations!InFlightExact' /\ Operations!TurnsNumbered' /\ Operations!ForgottenAtOnce'
  BY <1>0, <1>1, <1>2 DEF Operations!InFlightExact, Operations!TurnsNumbered, Operations!ForgottenAtOnce
<1> QED
  BY <1>3, <1>4, <1>5 DEF Operations!OperationsInv

\* The same, of a step that refreshes the state.
LEMMA EventRefreshes ==
    ASSUME Operations!OperationsInv, process \in {"up", "lost"},
           UNCHANGED <<generation, process, command, admitting, controlled, inFlight, nextTurn>>,
           turns' \in SUBSET turns, cutoff' \in 0..Cardinality(Command),
           agentBusy' \in BOOLEAN, compactionBusy' \in BOOLEAN,
           idleBaseCompactionBusy' \in BOOLEAN, queueDepth' \in 0..MaxQueue,
           dialogs' \in SUBSET Dialog, Operations!RefreshAndPublish
    PROVE  Operations!OperationsInv'
<1>1. o_state \in Operations!State
  BY DEF Operations!OperationsInv, Operations!TypeOK
<1>2. o_state' \in Operations!State /\ Operations!Publish
  BY <1>1, RefreshType DEF Operations!RefreshAndPublish, Operations!Publish
<1>3. Operations!IdleExact'
  BY RefreshExact DEF Operations!RefreshAndPublish
<1> QED
  BY <1>2, <1>3, EventMoves

\* The process stops or is gone: nothing is left of what it was busy with.
LEMMA ProcessEnds ==
    ASSUME Operations!OperationsInv, process' \in {"stopping", "down"},
           process' = "down" => Operations!Outstanding = {},
           UNCHANGED <<generation, command, admitting, controlled, nextTurn>>,
           Operations!Cleared, o_state' \in Operations!State
    PROVE  Operations!OperationsInv'
<1>0. Operations!TypeOK /\ Operations!TurnsNumbered
  BY DEF Operations!OperationsInv
<1>1. Operations!Outstanding' = Operations!Outstanding
  BY DEF Operations!Outstanding
<1>2. Operations!Numbered' = Operations!Numbered
  BY DEF Operations!Numbered
<1>3. Operations!TypeOK'
  <2>1. 0 \in 0..Cardinality(Command) /\ 0 \in 0..MaxQueue
    BY Counts, RuntimeBounds
  <2>2. inFlight' \in 0..Cardinality(Command) /\ turns' = {} /\ cutoff' \in 0..Cardinality(Command)
    BY <2>1 DEF Operations!Cleared
  <2>3. /\ agentBusy' \in BOOLEAN /\ compactionBusy' \in BOOLEAN
        /\ idleBaseCompactionBusy' \in BOOLEAN /\ queueDepth' \in 0..MaxQueue /\ dialogs' = {}
    BY <2>1 DEF Operations!Cleared
  <2> QED
    BY <1>0, <2>2, <2>3, SameCount DEF Operations!TypeOK, Operations!Process
<1>4. Operations!TurnsNumbered' /\ Operations!ForgottenAtOnce'
  BY <1>0, <1>1, <1>2 DEF Operations!TurnsNumbered, Operations!ForgottenAtOnce, Operations!Cleared
<1>5. Operations!InFlightExact' /\ Operations!IdleExact' /\ Operations!ToldExact'
  BY DEF Operations!InFlightExact, Operations!IdleExact, Operations!ToldExact
<1> QED
  BY <1>3, <1>4, <1>5 DEF Operations!OperationsInv

\* A command is given to the process: a turn it is given is a new one.
LEMMA DispatchStep ==
    ASSUME Operations!OperationsInv, NEW c \in Command, NEW turn, Operations!Dispatch(c, turn), Operations!Publish,
           command[c].pc \in {"queued", "headroom"},
           \/ turn = 0 /\ UNCHANGED <<turns, nextTurn>>
           \/ /\ turn = nextTurn + 1 /\ nextTurn' = nextTurn + 1
              /\ turns' = turns \union {[id |-> nextTurn + 1, armed |-> FALSE]}
    PROVE  Operations!OperationsInv'
<1>0. /\ Operations!TypeOK /\ Operations!InFlightExact /\ Operations!IdleExact /\ Operations!ToldExact
      /\ Operations!TurnsNumbered /\ Operations!ForgottenAtOnce
  BY DEF Operations!OperationsInv
<1>1. /\ command \in [Command -> Operations!CommandState] /\ command[c] \in Operations!CommandState
      /\ process \in {"up", "lost"} /\ UNCHANGED <<process, generation>>
      /\ UNCHANGED <<controlled, cutoff, agentBusy, compactionBusy, idleBaseCompactionBusy,
                     queueDepth, dialogs>>
      /\ admitting' = Nobody
  BY <1>0, SameCount DEF Operations!TypeOK, Operations!Dispatch, Operations!busyVars
<1>2. inFlight' = inFlight + 1 /\ inFlight = Cardinality(Operations!Outstanding)
  BY <1>0, SameCount DEF Operations!Dispatch, Operations!InFlightExact, Operations!ForgottenAtOnce
<1>3. /\ command'[c].pc \in {"sent", "refused"} /\ command'[c].turn = turn
      /\ command'[c].cutoff = nextTurn /\ command'[c].kind = command[c].kind
      /\ command'[c].expected = command[c].expected
      /\ \A d \in Command \ {c} : command'[d] = command[d]
      /\ command' = [command EXCEPT ![c] = command'[c]]
  BY <1>0, SameCount, <1>1 DEF Operations!Dispatch, Operations!CommandState
<1>4. command[c].turn = 0 /\ c \notin Operations!Outstanding /\ c \notin Operations!Numbered
  BY <1>0, SameCount, <1>1 DEF Operations!TurnsNumbered, Operations!Outstanding, Operations!Numbered
<1>5. /\ Operations!Outstanding' = Operations!Outstanding \union {c}
      /\ Operations!Outstanding \in SUBSET Command /\ Operations!Outstanding' \in SUBSET Command
  BY <1>0, SameCount, <1>1, <1>3 DEF Operations!Outstanding
<1>6. inFlight' = Cardinality(Operations!Outstanding') /\ inFlight' \in 0..Cardinality(Command)
  <2>1. Cardinality(Operations!Outstanding') = Cardinality(Operations!Outstanding) + 1
    BY <1>0, SameCount, <1>4, <1>5, Counts, OneMore
  <2> QED
    BY <1>0, SameCount, <1>2, <1>5, <2>1, Counts
<1>7. /\ nextTurn' = Cardinality(Operations!Numbered') /\ nextTurn' \in 0..Cardinality(Command)
      /\ turn \in 0..Cardinality(Command)
      /\ IF turn = 0 THEN turns' = turns ELSE turns' # {}
  <2>1. nextTurn = Cardinality(Operations!Numbered) /\ nextTurn \in Nat
    BY <1>0, SameCount, Counts DEF Operations!TurnsNumbered, Operations!TypeOK
  <2>2. Operations!Numbered \in SUBSET Command /\ Operations!Numbered' \in SUBSET Command
    BY <1>0, SameCount DEF Operations!Numbered
  <2>3. CASE turn = 0 /\ UNCHANGED <<turns, nextTurn>>
    <3>1. Operations!Numbered' = Operations!Numbered
      BY <1>0, SameCount, <1>3, <1>4, <2>3 DEF Operations!Numbered
    <3> QED
      BY <1>0, SameCount, <2>1, <2>2, <2>3, <3>1, Counts
  <2>4. CASE /\ turn = nextTurn + 1 /\ nextTurn' = nextTurn + 1
             /\ turns' = turns \union {[id |-> nextTurn + 1, armed |-> FALSE]}
    <3>1. Operations!Numbered' = Operations!Numbered \union {c}
      BY <1>0, SameCount, <1>3, <2>1, <2>4 DEF Operations!Numbered
    <3>2. Cardinality(Operations!Numbered') = nextTurn + 1
      BY <1>0, SameCount, <1>4, <2>1, <2>2, <3>1, Counts, OneMore
    <3>3. nextTurn' \in 0..Cardinality(Command)
      BY <1>0, SameCount, <2>1, <2>2, <2>4, <3>2, Counts
    <3>4. turn # 0
      BY <2>1, <2>4
    <3>5. [id |-> nextTurn + 1, armed |-> FALSE] \in turns'
      BY <2>4
    <3> QED
      BY <2>1, <2>4, <3>2, <3>3, <3>4, <3>5
  <2> QED
    BY <1>0, SameCount, <2>3, <2>4
<1>8. command' \in [Command -> Operations!CommandState]
  <2>1. nextTurn \in 0..Cardinality(Command)
    BY <1>0, SameCount DEF Operations!TypeOK
  <2>2. command'[c] = [pc |-> command'[c].pc, kind |-> command[c].kind,
                       expected |-> command[c].expected, turn |-> turn, cutoff |-> nextTurn]
    BY <1>0, SameCount, <1>1 DEF Operations!Dispatch, Operations!CommandState
  <2>3. command'[c] \in Operations!CommandState
    BY <1>0, SameCount, <1>1, <1>3, <1>7, <2>1, <2>2 DEF Operations!CommandState, Operations!PC
  <2> QED
    BY <1>0, SameCount, <1>1, <1>3, <2>3
<1>9. turns' \subseteq [id : 1..Cardinality(Command), armed : BOOLEAN]
  <2>1. CASE UNCHANGED turns
    BY <1>0, SameCount, <2>1 DEF Operations!TypeOK
  <2>2. CASE /\ nextTurn' = nextTurn + 1
             /\ turns' = turns \union {[id |-> nextTurn + 1, armed |-> FALSE]}
    <3>1. nextTurn + 1 \in 1..Cardinality(Command)
      BY <1>0, SameCount, <1>7, <2>2, Counts DEF Operations!TypeOK
    <3>2. [id |-> nextTurn + 1, armed |-> FALSE] \in [id : 1..Cardinality(Command), armed : BOOLEAN]
      BY <3>1
    <3> QED
      BY <1>0, SameCount, <2>2, <3>2 DEF Operations!TypeOK
  <2> QED
    BY <1>0, SameCount, <2>1, <2>2
<1>10. Operations!TypeOK'
  <2>1. cutoff' \in 0..Cardinality(Command) /\ o_state' \in Operations!State
    BY <1>0, SameCount, <1>1 DEF Operations!TypeOK, Operations!Dispatch, Operations!State
  <2> QED
    BY <1>0, SameCount, <1>1, <1>6, <1>7, <1>8, <1>9, <2>1 DEF Operations!TypeOK
<1>11. Operations!TurnsNumbered'
  BY <1>0, SameCount, <1>3, <1>7 DEF Operations!TurnsNumbered
<1>12. Operations!IdleExact'
  BY <1>0, SameCount, <1>1, <1>7 DEF Operations!IdleExact, Operations!Dispatch
<1>13. Operations!ToldExact'
  BY <1>0, SameCount, <1>1 DEF Operations!ToldExact, Operations!Publish, Operations!Operational
<1>14. Operations!ForgottenAtOnce' /\ Operations!InFlightExact'
  BY <1>0, SameCount, <1>1, <1>6 DEF Operations!InFlightExact, Operations!ForgottenAtOnce
<1> QED
  BY <1>10, <1>11, <1>12, <1>13, <1>14 DEF Operations!OperationsInv

\* send() has the answer: the command is counted no more, its turn is armed or
\* given up.
LEMMA FinishStep ==
    ASSUME Operations!OperationsInv, NEW c \in Command, Operations!Finish(c)
    PROVE  Operations!OperationsInv'
<1>0. /\ Operations!TypeOK /\ Operations!InFlightExact /\ Operations!IdleExact /\ Operations!ToldExact
      /\ Operations!TurnsNumbered /\ Operations!ForgottenAtOnce
  BY DEF Operations!OperationsInv
<1>1. /\ command \in [Command -> Operations!CommandState] /\ command[c] \in Operations!CommandState
      /\ UNCHANGED <<generation, process, admitting, controlled, nextTurn, cutoff, agentBusy,
                     compactionBusy, idleBaseCompactionBusy, queueDepth, dialogs>>
  BY <1>0 DEF Operations!TypeOK, Operations!Finish, Operations!busyVars
<1>2. /\ command'[c] \in Operations!CommandState /\ command'[c].pc = "done"
      /\ command'[c].turn = command[c].turn
      /\ \A d \in Command \ {c} : command'[d] = command[d]
      /\ command' = [command EXCEPT ![c] = command'[c]]
  BY <1>1 DEF Operations!Finish, Operations!End, Operations!CommandState, Operations!PC
<1>3. Operations!Outstanding' = Operations!Outstanding \ {c} /\ c \in Operations!Outstanding
  BY <1>1, <1>2 DEF Operations!Outstanding, Operations!Finish
<1>4. Operations!Numbered' = Operations!Numbered
  BY <1>1, <1>2 DEF Operations!Numbered
<1>5. /\ inFlight \in 0..Cardinality(Command) /\ inFlight' = Operations!Minus1(inFlight)
      /\ inFlight' \in 0..Cardinality(Command)
  BY <1>0, SameCount, Counts DEF Operations!TypeOK, Operations!Finish, Operations!Minus1
<1>6. Operations!Outstanding \in SUBSET Command
  BY DEF Operations!Outstanding
<1>7. process \in {"up", "lost"} => inFlight' = Cardinality(Operations!Outstanding')
  <2>1. /\ Cardinality(Operations!Outstanding') = Cardinality(Operations!Outstanding) - 1
        /\ Cardinality(Operations!Outstanding) \in Nat \ {0}
    BY <1>3, <1>6, Counts, OneLess
  <2>2. process \in {"up", "lost"} => inFlight = Cardinality(Operations!Outstanding)
    BY <1>0, SameCount DEF Operations!InFlightExact, Operations!ForgottenAtOnce
  <2> QED
    BY <1>5, <2>1, <2>2 DEF Operations!Minus1
<1>8. /\ turns' \subseteq [id : 1..Cardinality(Command), armed : BOOLEAN]
      /\ turns = {} => turns' = {}
  <2>1. turns \subseteq [id : 1..Cardinality(Command), armed : BOOLEAN]
    BY <1>0, SameCount DEF Operations!TypeOK
  <2>2. CASE turns' \subseteq turns
    BY <2>1, <2>2
  <2>3. CASE turns' = {IF t.id = command[c].turn THEN [t EXCEPT !.armed = TRUE] ELSE t :
                         t \in turns}
    BY <2>1, <2>3
  <2> QED
    BY <2>2, <2>3 DEF Operations!Finish
<1>9. o_state' \in Operations!State
  BY <1>0, RefreshType DEF Operations!TypeOK, Operations!Finish, Operations!RefreshAndPublish
<1>10. Operations!TypeOK'
  BY <1>0, <1>1, <1>2, <1>5, <1>8, <1>9, SameCount DEF Operations!TypeOK
<1>11. Operations!TurnsNumbered'
  BY <1>0, <1>1, <1>2, <1>4 DEF Operations!TurnsNumbered
<1>12. Operations!IdleExact'
  BY <1>1, RefreshExact DEF Operations!Finish, Operations!RefreshAndPublish
<1>13. Operations!ToldExact'
  BY <1>1 DEF Operations!ToldExact, Operations!Finish, Operations!RefreshAndPublish, Operations!Operational
<1>14. Operations!InFlightExact' /\ Operations!ForgottenAtOnce'
  BY <1>0, <1>1, <1>3, <1>5, <1>7, <1>8, SameCount
     DEF Operations!InFlightExact, Operations!ForgottenAtOnce, Operations!Minus1
<1> QED
  BY <1>10, <1>11, <1>12, <1>13, <1>14 DEF Operations!OperationsInv

\* Every step of what a runtime is busy with keeps the account of it.
LEMMA OperationsStep ==
    ASSUME Operations!OperationsInv, Operations!Next
    PROVE  Operations!OperationsInv'
<1>0. /\ Operations!TypeOK /\ Operations!InFlightExact /\ Operations!IdleExact /\ Operations!ToldExact
      /\ Operations!TurnsNumbered /\ Operations!ForgottenAtOnce
  BY DEF Operations!OperationsInv
<1>1. /\ generation \in Operations!Generation /\ process \in Operations!Process
      /\ command \in [Command -> Operations!CommandState] /\ admitting \in Command \union {Nobody}
      /\ controlled \in BOOLEAN /\ cutoff \in 0..Cardinality(Command)
      /\ agentBusy \in BOOLEAN /\ compactionBusy \in BOOLEAN
      /\ idleBaseCompactionBusy \in BOOLEAN /\ queueDepth \in 0..MaxQueue
      /\ dialogs \in SUBSET Dialog /\ o_state \in Operations!State
      /\ nextTurn \in 0..Cardinality(Command)
  BY <1>0, SameCount DEF Operations!TypeOK
<1>2. /\ 0 \in 0..Cardinality(Command) /\ 0 \in 0..MaxQueue
      /\ \A S : turns \ S \in SUBSET turns /\ turns \in SUBSET turns
  BY Counts, RuntimeBounds
<1>3. ASSUME NEW ids, Operations!Release(ids) PROVE turns' \in SUBSET turns
  BY <1>3 DEF Operations!Release
<1>4. process \in {"stopping", "down"} =>
         turns = {} /\ dialogs = {} /\ ~idleBaseCompactionBusy
  BY <1>0 DEF Operations!ForgottenAtOnce
<1>10. ASSUME NEW c \in Command, Operations!Request(c) PROVE Operations!OperationsInv'
  <2>1. PICK k \in Operations!Kind :
           command' = [command EXCEPT ![c] = [@ EXCEPT !.pc = "queued", !.kind = k,
                                                        !.expected = generation]]
    BY <1>10 DEF Operations!Request
  <2>3. generation \in 0..MaxGeneration
    BY <1>1, RuntimeBounds DEF Operations!Generation
  <2>2. /\ command'[c] \in Operations!CommandState /\ command'[c].pc = "queued"
        /\ command'[c].turn = command[c].turn /\ command' = [command EXCEPT ![c] = command'[c]]
    BY <1>1, <2>1, <2>3 DEF Operations!CommandState, Operations!PC
  <2> QED
    BY <1>1, <1>10, <2>2, CommandMoves DEF Operations!Request, Operations!turnVars, Operations!busyVars
<1>11. ASSUME NEW c \in Command, Operations!Reject(c), command[c].pc \in {"queued", "headroom"}
       PROVE  Operations!OperationsInv'
  <2>1. /\ command'[c] \in Operations!CommandState /\ command'[c].pc = "done"
        /\ command'[c].turn = command[c].turn /\ command' = [command EXCEPT ![c] = command'[c]]
    BY <1>1, <1>11 DEF Operations!Reject, Operations!End, Operations!CommandState, Operations!PC
  <2> QED
    BY <1>1, <1>11, <2>1, CommandMoves DEF Operations!Reject, Operations!turnVars, Operations!busyVars
<1>12. ASSUME NEW c \in Command, Operations!Admit(c) PROVE Operations!OperationsInv'
  <2>1. CASE Operations!Reject(c)
    BY <1>11, <1>12, <2>1 DEF Operations!Admit
  <2>2. CASE /\ command' = [command EXCEPT ![c] = [@ EXCEPT !.pc = "headroom"]]
             /\ admitting' = c
             /\ UNCHANGED <<generation, process, controlled, inFlight, Operations!turnVars, Operations!busyVars,
                            dialogs, o_state, told>>
    <3>1. /\ command'[c] \in Operations!CommandState /\ command'[c].pc = "headroom"
          /\ command'[c].turn = command[c].turn /\ command' = [command EXCEPT ![c] = command'[c]]
      BY <1>1, <2>2 DEF Operations!CommandState, Operations!PC
    <3>2. command[c].pc = "queued"
      BY <1>12 DEF Operations!Admit
    <3> QED
      BY <1>1, <2>2, <3>1, <3>2, CommandMoves DEF Operations!turnVars, Operations!busyVars
  <2>3. CASE Operations!Dispatch(c, 0) /\ UNCHANGED <<turns, nextTurn>> /\ Operations!Publish
    BY <1>12, <2>3, DispatchStep DEF Operations!Admit
  <2> QED
    BY <1>12, <2>1, <2>2, <2>3 DEF Operations!Admit
<1>13. ASSUME NEW c \in Command, Operations!Headroom(c) PROVE Operations!OperationsInv'
  <2>1. CASE Operations!Reject(c)
    BY <1>11, <1>13, <2>1 DEF Operations!Headroom
  <2>2. CASE /\ Operations!Dispatch(c, nextTurn + 1) /\ nextTurn' = nextTurn + 1
             /\ turns' = turns \union {[id |-> nextTurn + 1, armed |-> FALSE]}
             /\ Operations!Publish
    BY <1>13, <2>2, DispatchStep DEF Operations!Headroom
  <2> QED
    BY <1>13, <2>1, <2>2 DEF Operations!Headroom
<1>14. ASSUME NEW c \in Command, Operations!Respond(c) PROVE Operations!OperationsInv'
  <2>1. PICK pc \in {"answered", "refused"} :
           command' = [command EXCEPT ![c] = [@ EXCEPT !.pc = pc]]
    BY <1>14 DEF Operations!Respond
  <2>2. /\ command'[c] \in Operations!CommandState /\ command'[c].pc = pc
        /\ command'[c].turn = command[c].turn /\ command' = [command EXCEPT ![c] = command'[c]]
    BY <1>1, <2>1 DEF Operations!CommandState, Operations!PC
  <2>3. command[c].pc = "sent" /\ command'[c].pc \in {"answered", "refused"}
    BY <1>14, <2>2 DEF Operations!Respond
  <2> QED
    BY <1>1, <1>14, <2>2, <2>3, CommandMoves DEF Operations!Respond, Operations!turnVars, Operations!busyVars
<1>15. ASSUME NEW t \in turns, Operations!TurnExpires(t) PROVE Operations!OperationsInv'
  BY <1>1, <1>3, <1>4, <1>15, EventRefreshes DEF Operations!TurnExpires, Operations!busyVars, Operations!Process
<1>16. ASSUME Operations!LeaseMoves PROVE Operations!OperationsInv'
  <2>1. Operations!TypeOK'
    BY <1>0, <1>1, <1>16 DEF Operations!TypeOK, Operations!LeaseMoves, Operations!turnVars, Operations!busyVars
  <2>2. Operations!Outstanding' = Operations!Outstanding /\ Operations!Numbered' = Operations!Numbered
    BY <1>16 DEF Operations!Outstanding, Operations!Numbered, Operations!LeaseMoves
  <2>3. Operations!Key' = Operations!Key
    BY <1>16, KeyKept DEF Operations!LeaseMoves, Operations!turnVars, Operations!busyVars
  <2> QED
    BY <1>0, <1>16, <2>1, <2>2, <2>3
       DEF Operations!OperationsInv, Operations!LeaseMoves, Operations!turnVars, Operations!busyVars, Operations!InFlightExact, Operations!IdleExact,
           Operations!ToldExact, Operations!TurnsNumbered, Operations!ForgottenAtOnce
<1>17. ASSUME Operations!AgentStarts PROVE Operations!OperationsInv'
  <2>1. o_state' \in Operations!State /\ Operations!IdleExact' /\ agentBusy' \in BOOLEAN
    BY <1>17 DEF Operations!AgentStarts, Operations!State, Operations!IdleExact
  <2>2. turns' \in SUBSET turns
    BY <1>3, <1>17 DEF Operations!AgentStarts
  <2> QED
    BY <1>1, <1>17, <2>1, <2>2, EventMoves DEF Operations!AgentStarts, Operations!Event
<1>18. ASSUME Operations!AgentSettles PROVE Operations!OperationsInv'
  <2>1. turns' \in SUBSET turns /\ cutoff' \in 0..Cardinality(Command)
    BY <1>1, <1>2, <1>3, <1>18 DEF Operations!AgentSettles
  <2> QED
    BY <1>1, <1>18, <2>1, EventRefreshes DEF Operations!AgentSettles, Operations!Event
<1>19. ASSUME Operations!QueueUpdate PROVE Operations!OperationsInv'
  <2>1. PICK n \in 0..MaxQueue :
           /\ queueDepth' = n
           /\ IF queueDepth > 0 /\ n = 0 /\ ~agentBusy THEN
                  Operations!Release(Operations!Through(cutoff)) /\ cutoff' = 0
              ELSE
                  /\ cutoff' = IF n > 0 /\ nextTurn > cutoff THEN nextTurn ELSE cutoff
                  /\ UNCHANGED turns
           /\ UNCHANGED <<nextTurn, agentBusy, compactionBusy, idleBaseCompactionBusy, dialogs>>
           /\ o_state' = IF queueDepth > 0 /\ n = 0 /\ ~agentBusy THEN Operations!Refreshed ELSE o_state
           /\ Operations!Publish
    BY <1>19 DEF Operations!QueueUpdate
  <2>2. turns' \in SUBSET turns /\ cutoff' \in 0..Cardinality(Command) /\ queueDepth' \in 0..MaxQueue
    BY <1>1, <1>2, <1>3, <2>1
  <2>3. o_state' \in Operations!State
    BY <1>1, <2>1, RefreshType
  <2>4. process = "up" /\ UNCHANGED <<generation, process, command, admitting, controlled, inFlight>>
    BY <1>19 DEF Operations!QueueUpdate, Operations!Event
  <2>5. Operations!IdleExact'
    <3>1. CASE queueDepth > 0 /\ n = 0 /\ ~agentBusy
      BY <2>1, <2>4, <3>1, RefreshExact
    <3>2. CASE ~(queueDepth > 0 /\ n = 0 /\ ~agentBusy)
      BY <1>0, <2>1, <2>4, <3>2 DEF Operations!IdleExact
    <3> QED
      BY <3>1, <3>2
  <2> QED
    BY <1>1, <2>1, <2>2, <2>3, <2>4, <2>5, EventMoves
<1>20. ASSUME Operations!CompactionStarts PROVE Operations!OperationsInv'
  <2>1. o_state' \in Operations!State /\ Operations!IdleExact' /\ compactionBusy' \in BOOLEAN
    BY <1>20 DEF Operations!CompactionStarts, Operations!State, Operations!IdleExact
  <2> QED
    BY <1>1, <1>2, <1>20, <2>1, EventMoves DEF Operations!CompactionStarts, Operations!Event, Operations!turnVars
<1>21. ASSUME Operations!CompactionEnds PROVE Operations!OperationsInv'
  <2>1. agentBusy' \in BOOLEAN /\ compactionBusy' \in BOOLEAN
    BY <1>21 DEF Operations!CompactionEnds
  <2> QED
    BY <1>1, <1>2, <1>21, <2>1, EventRefreshes DEF Operations!CompactionEnds, Operations!Event, Operations!turnVars
<1>22. ASSUME NEW d \in Dialog, Operations!DialogOpens(d) PROVE Operations!OperationsInv'
  <2>1. o_state' \in Operations!State /\ d \in dialogs' /\ dialogs' \in SUBSET Dialog
    BY <1>1, <1>22 DEF Operations!DialogOpens, Operations!State
  <2>2. Operations!IdleExact'
    BY <1>22, <2>1 DEF Operations!DialogOpens, Operations!IdleExact
  <2> QED
    BY <1>1, <1>2, <1>22, <2>1, <2>2, EventMoves DEF Operations!DialogOpens, Operations!Event, Operations!turnVars, Operations!busyVars
<1>23. ASSUME NEW d \in Dialog, Operations!DialogCloses(d) PROVE Operations!OperationsInv'
  <2>1. dialogs' \in SUBSET Dialog /\ process \in {"up", "lost"}
    BY <1>1, <1>4, <1>23 DEF Operations!DialogCloses, Operations!Process
  <2> QED
    BY <1>1, <1>2, <1>23, <2>1, EventRefreshes DEF Operations!DialogCloses, Operations!turnVars, Operations!busyVars
<1>24. ASSUME Operations!IdleCompactionBegins PROVE Operations!OperationsInv'
  <2>1. Operations!IdleExact' /\ idleBaseCompactionBusy' \in BOOLEAN
    BY <1>24 DEF Operations!IdleCompactionBegins, Operations!IdleExact, Operations!Unblocked, Operations!turnVars
  <2> QED
    BY <1>1, <1>2, <1>24, <2>1, EventMoves DEF Operations!IdleCompactionBegins, Operations!turnVars
<1>25. ASSUME Operations!IdleCompactionEnds PROVE Operations!OperationsInv'
  <2>1. process \in {"up", "lost"} /\ idleBaseCompactionBusy' \in BOOLEAN
    BY <1>1, <1>4, <1>25 DEF Operations!IdleCompactionEnds, Operations!Process
  <2> QED
    BY <1>1, <1>2, <1>25, <2>1, EventRefreshes DEF Operations!IdleCompactionEnds, Operations!turnVars
<1>26. ASSUME Operations!Lose PROVE Operations!OperationsInv'
  <2>1. Operations!TypeOK'
    BY <1>0, <1>26 DEF Operations!TypeOK, Operations!Lose, Operations!turnVars, Operations!busyVars, Operations!Process
  <2>2. Operations!Outstanding' = Operations!Outstanding /\ Operations!Numbered' = Operations!Numbered
    BY <1>26 DEF Operations!Outstanding, Operations!Numbered, Operations!Lose
  <2> QED
    BY <1>0, <1>26, <2>1, <2>2
       DEF Operations!OperationsInv, Operations!Lose, Operations!turnVars, Operations!busyVars, Operations!InFlightExact, Operations!IdleExact,
           Operations!ToldExact, Operations!TurnsNumbered, Operations!ForgottenAtOnce
<1>27. ASSUME Operations!Crash PROVE Operations!OperationsInv'
  <2>1. o_state' \in Operations!State
    BY <1>27 DEF Operations!Crash, Operations!State
  <2> QED
    BY <1>27, <2>1, ProcessEnds DEF Operations!Crash
<1>28. ASSUME Operations!Stop PROVE Operations!OperationsInv'
  BY <1>1, <1>28, ProcessEnds DEF Operations!Stop
<1>29. ASSUME Operations!Stopped PROVE Operations!OperationsInv'
  <2>1. o_state' \in Operations!State
    BY <1>29 DEF Operations!Stopped, Operations!State
  <2>2. Operations!TypeOK'
    BY <1>0, <1>29, <2>1 DEF Operations!TypeOK, Operations!Stopped, Operations!turnVars, Operations!busyVars, Operations!Process
  <2>3. Operations!Outstanding' = Operations!Outstanding /\ Operations!Numbered' = Operations!Numbered
    BY <1>29 DEF Operations!Outstanding, Operations!Numbered, Operations!Stopped
  <2> QED
    BY <1>0, <1>29, <2>2, <2>3
       DEF Operations!OperationsInv, Operations!Stopped, Operations!turnVars, Operations!busyVars, Operations!InFlightExact, Operations!IdleExact,
           Operations!ToldExact, Operations!TurnsNumbered, Operations!ForgottenAtOnce
<1>30. ASSUME Operations!Restart PROVE Operations!OperationsInv'
  <2>1. o_state' \in Operations!State /\ generation' \in Operations!Generation
    BY <1>1, <1>30, RuntimeBounds DEF Operations!Restart, Operations!State, Operations!Generation
  <2>2. Operations!TypeOK'
    BY <1>0, <1>30, <2>1 DEF Operations!TypeOK, Operations!Restart, Operations!turnVars, Operations!busyVars, Operations!Process
  <2>3. Operations!Outstanding' = Operations!Outstanding /\ Operations!Numbered' = Operations!Numbered
    BY <1>30 DEF Operations!Outstanding, Operations!Numbered, Operations!Restart
  <2>4. inFlight' = Cardinality(Operations!Outstanding')
    BY <1>0, <1>30, <2>3, FS_EmptySet DEF Operations!ForgottenAtOnce, Operations!Restart
  <2>5. Operations!IdleExact'
    BY <1>0, <1>30 DEF Operations!ForgottenAtOnce, Operations!Restart, Operations!IdleExact, Operations!turnVars, Operations!busyVars
  <2> QED
    BY <1>0, <1>30, <2>2, <2>3, <2>4, <2>5, SameCount
       DEF Operations!OperationsInv, Operations!Restart, Operations!InFlightExact, Operations!ToldExact, Operations!TurnsNumbered,
           Operations!ForgottenAtOnce, Operations!turnVars
<1> QED
  BY <1>10, <1>12, <1>13, <1>14, <1>15, <1>16, <1>17, <1>18, <1>19, <1>20, <1>21, <1>22, <1>23,
     <1>24, <1>25, <1>26, <1>27, <1>28, <1>29, <1>30, FinishStep DEF Operations!Next

LEMMA OperationsStart ==
    ASSUME Operations!Init
    PROVE  Operations!OperationsInv
<1>1. /\ 0 \in 0..Cardinality(Command) /\ 0 \in 0..MaxQueue /\ 0 \in 0..MaxGeneration
      /\ 1 \in 1..MaxGeneration
  BY Counts, RuntimeBounds
<1>2. Operations!Unsent \in Operations!CommandState
  BY <1>1, SameCount DEF Operations!Unsent, Operations!CommandState, Operations!PC, Operations!Kind
<1>3. Operations!TypeOK
  BY <1>1, <1>2, SameCount DEF Operations!Init, Operations!TypeOK, Operations!Process, Operations!State, Operations!Generation
<1>4. Operations!Outstanding = {} /\ Operations!Numbered = {}
  BY DEF Operations!Init, Operations!Outstanding, Operations!Numbered, Operations!Unsent
<1>5. Cardinality({}) = 0
  BY FS_EmptySet
<1>6. \A c \in Command : command[c].turn = 0
  BY DEF Operations!Init, Operations!Unsent
<1> QED
  BY <1>3, <1>4, <1>5, <1>6, SameCount
     DEF Operations!OperationsInv, Operations!Init, Operations!InFlightExact, Operations!IdleExact, Operations!ToldExact, Operations!TurnsNumbered,
         Operations!ForgottenAtOnce

LEMMA OperationsInvariant == MCSpec => []Operations!OperationsInv
<1>1. MCInit => Operations!OperationsInv
  BY OperationsStart DEF MCInit
<1>2. Operations!OperationsInv /\ [MCNext]_all => Operations!OperationsInv'
  <2> SUFFICES ASSUME Operations!OperationsInv, [MCNext]_all PROVE Operations!OperationsInv'
    OBVIOUS
  <2>1. CASE Operations!Next
    BY <2>1, OperationsStep
  <2>2. CASE UNCHANGED operations
    <3>1. Operations!Outstanding' = Operations!Outstanding /\ Operations!Numbered' = Operations!Numbered /\ Operations!Key' = Operations!Key
      BY <2>2, KeyKept DEF Operations!Outstanding, Operations!Numbered, operations
    <3> QED
      BY <2>2, <3>1 DEF Operations!OperationsInv, Operations!TypeOK, Operations!InFlightExact, Operations!IdleExact, Operations!ToldExact,
                        Operations!TurnsNumbered, Operations!ForgottenAtOnce, operations
  <2> QED
    BY <2>1, <2>2 DEF MCNext, Lives, Operates, Processes, all
<1> QED
  BY <1>1, <1>2, PTL DEF MCSpec

\* What a runtime counts, says and publishes of its commands, turns, dialogs and
\* compactions agrees at every moment: session-runtime.ts, send(),
\* refreshOperationalState, clearOwnedOperationalState.
THEOREM OperationsAgree == MCSpec => []OperationsExact
<1>1. Operations!OperationsInv => OperationsExact
  BY DEF Operations!OperationsInv, OperationsExact
<1> QED
  BY <1>1, OperationsInvariant, PTL

\* A command that waited for the commandTail or for headroom is given to Pi only
\* in the generation it was sent for, and while its sender holds the lease:
\* session-runtime.ts, assertGeneration and admit().
THEOREM DispatchesAreCurrent == MCSpec => DispatchCurrent
<1> DEFINE Current(c) ==
       command[c].pc # "sent" /\ command'[c].pc = "sent" =>
          command[c].expected = generation /\ controlled
<1>1. ASSUME Operations!OperationsInv, Operations!Next, NEW c \in Command PROVE Current(c)
  <2>0. command \in [Command -> Operations!CommandState]
    BY <1>1 DEF Operations!OperationsInv, Operations!TypeOK
  <2>1. ASSUME NEW d \in Command, NEW turn, Operations!Dispatch(d, turn), Operations!Admissible(d)
        PROVE  Current(c)
    BY <2>0, <2>1 DEF Operations!Dispatch, Operations!Admissible
  <2>2. ASSUME NEW d \in Command, NEW s, s.pc # "sent", command' = [command EXCEPT ![d] = s]
        PROVE  Current(c)
    BY <2>0, <2>2
  <2>3. ASSUME NEW d \in Command, Operations!End(d) PROVE Current(c)
    BY <2>0, <2>3 DEF Operations!End, Operations!CommandState
  <2>4. ASSUME NEW d \in Command,
               Operations!Request(d) \/ Operations!Admit(d) \/ Operations!Headroom(d) \/ Operations!Respond(d) \/ Operations!Finish(d)
        PROVE  Current(c)
    <3>1. CASE Operations!Request(d)
      BY <2>0, <3>1 DEF Operations!Request, Operations!CommandState
    <3>2. CASE Operations!Admit(d)
      <4>1. CASE command' = [command EXCEPT ![d] = [@ EXCEPT !.pc = "headroom"]]
        BY <2>0, <4>1 DEF Operations!CommandState
      <4> QED
        BY <2>1, <2>3, <3>2, <4>1 DEF Operations!Admit, Operations!Reject
    <3>3. CASE Operations!Headroom(d)
      BY <2>1, <2>3, <3>3 DEF Operations!Headroom, Operations!Reject
    <3>4. CASE Operations!Respond(d)
      BY <2>0, <3>4 DEF Operations!Respond, Operations!CommandState
    <3>5. CASE Operations!Finish(d)
      BY <2>3, <3>5 DEF Operations!Finish
    <3> QED
      BY <2>4, <3>1, <3>2, <3>3, <3>4, <3>5
  <2>5. CASE UNCHANGED command
    BY <2>5
  <2> QED
    BY <1>1, <2>4, <2>5
       DEF Operations!Next, Operations!TurnExpires, Operations!LeaseMoves, Operations!AgentStarts, Operations!AgentSettles, Operations!QueueUpdate,
           Operations!CompactionStarts, Operations!CompactionEnds, Operations!DialogOpens, Operations!DialogCloses,
           Operations!IdleCompactionBegins, Operations!IdleCompactionEnds, Operations!Lose, Operations!Crash, Operations!Stop, Operations!Stopped,
           Operations!Restart, Operations!Event
<1>2. Operations!OperationsInv /\ [MCNext]_all => [\A c \in Command : Current(c)]_Operations!vars
  <2> SUFFICES ASSUME Operations!OperationsInv, [MCNext]_all
               PROVE  [\A c \in Command : Current(c)]_Operations!vars
    OBVIOUS
  <2>1. CASE Operations!Next
    BY <1>1, <2>1
  <2>2. CASE UNCHANGED operations
    BY <2>2 DEF operations, Operations!vars, Operations!turnVars, Operations!busyVars
  <2> QED
    BY <2>1, <2>2 DEF MCNext, Lives, Operates, Processes, all
<1> QED
  BY <1>2, OperationsInvariant, PTL DEF MCSpec, DispatchCurrent, Operations!DispatchCurrent

-----------------------------------------------------------------------------
(* The wrapper of a Pi process.                                            *)

Requests == [Pi!All -> {"none", "pending"} \union Pi!Settled]
Leases == [Pi!Line -> {"none", "held", "released", "adopted"}]
LineState == [pc : {"none", "decoding", "transfer"}, of : Pi!All \union {Pi!Event}]

\* A step that settles requests, and may begin the finalization of the spawn.
Settling ==
    /\ finalization' \in {"none", "cleaning", "done"} /\ attached' \in BOOLEAN
    /\ request' \in Requests
    /\ finalization' # "none" \/ ~current => Pi!Pending' = {}

LEMMA RejectAllType ==
    ASSUME request \in Requests
    PROVE  Pi!RejectAll \in Requests /\ \A r \in Pi!All : Pi!RejectAll[r] # "pending"
  BY DEF Pi!RejectAll, Requests, Pi!Settled

LEMMA RejectType ==
    ASSUME request \in Requests, NEW r \in Pi!All
    PROVE  /\ Pi!Reject(r) \in Requests
           /\ \A s \in Pi!All : Pi!Reject(r)[s] = "pending" => request[s] = "pending"
  BY DEF Pi!Reject, Requests, Pi!Settled

\* The parts of the invariant, for a spawn that is being finalized or not.
LEMMA ProcessParts ==
    ASSUME Pi!ProcessInv
    PROVE  /\ finalization \in {"none", "cleaning", "done"} /\ attached \in BOOLEAN
           /\ p_leader \in {"up", "exited"} /\ current \in BOOLEAN /\ stopped \in BOOLEAN
           /\ arbitrating \in BOOLEAN /\ starting \in {"probing", "ready", "failed", "exited"}
           /\ stopping \in [Pi!Stopper -> {"none", "group", "finalization", "done"}]
           /\ request \in Requests /\ lease \in Leases /\ line \in LineState
           /\ writes \in Seq(Pi!All) /\ received \in SUBSET Pi!All
           /\ lines \in 0..MaxLine /\ late \in SUBSET Pi!Line /\ exits \in Nat
           /\ finalization # "none" \/ ~current => Pi!Pending = {}
           /\ exits <= 1 /\ (exits = 1 => ~current)
           /\ line.pc # "none" => lines \in Pi!Line
           /\ Pi!NoLeaseLeft
<1>1. Pi!TypeOK /\ Pi!EndedInOrder /\ Pi!NoLeaseLeft
  BY DEF Pi!ProcessInv
<1>2. lines \in 0..MaxLine /\ (line.pc # "none" => lines \in Pi!Line)
  BY <1>1, RuntimeBounds DEF Pi!TypeOK, Pi!EndedInOrder, Pi!Line
<1>3. request \in Requests /\ lease \in Leases /\ line \in LineState
  BY <1>1 DEF Pi!TypeOK, Requests, Leases, LineState
<1> QED
  BY <1>1, <1>2, <1>3 DEF Pi!TypeOK, Pi!EndedInOrder

\* beginUnexpectedFinalization rejects what is pending.
LEMMA FinalizeSettles ==
    ASSUME Pi!ProcessInv, UNCHANGED current, Pi!Finalize
    PROVE  Settling
<1>1. CASE current /\ finalization = "none"
  <2>1. request' \in Requests /\ \A r \in Pi!All : request'[r] # "pending"
    BY <1>1, RejectAllType, ProcessParts DEF Pi!Finalize
  <2> QED
    BY <1>1, <2>1 DEF Pi!Finalize, Settling, Pi!Pending
<1>2. CASE ~(current /\ finalization = "none")
  BY <1>2, ProcessParts DEF Pi!Finalize, Settling, Pi!Pending
<1> QED
  BY <1>1, <1>2

LEMMA ProtocolFailureSettles ==
    ASSUME Pi!ProcessInv, UNCHANGED current, Pi!ProtocolFailure
    PROVE  Settling
<1>1. CASE stopped
  BY <1>1, ProcessParts DEF Pi!ProtocolFailure, Settling, Pi!Pending
<1> QED
  BY <1>1, FinalizeSettles DEF Pi!ProtocolFailure

LEMMA LineBreaksSettles ==
    ASSUME Pi!ProcessInv, UNCHANGED current, Pi!LineBreaks
    PROVE  Settling
  BY FinalizeSettles, ProtocolFailureSettles DEF Pi!LineBreaks

\* The end of a line settles at most the request it answers, and begins the
\* finalization that waited for it.
LEMMA ArbitratedSettles ==
    ASSUME Pi!ProcessInv, UNCHANGED current, NEW req \in Requests, Pi!Arbitrated(req),
           \A r \in Pi!All : req[r] = "pending" => request[r] = "pending"
    PROVE  Settling
<1>1. CASE arbitrating /\ current /\ finalization = "none"
  <2>1. request' = [r \in Pi!All |-> IF req[r] = "pending" THEN "rejected" ELSE req[r]]
    BY <1>1 DEF Pi!Arbitrated
  <2>2. request' \in Requests /\ \A r \in Pi!All : request'[r] # "pending"
    BY <2>1 DEF Requests, Pi!Settled
  <2> QED
    BY <1>1, <2>2 DEF Pi!Arbitrated, Settling, Pi!Pending
<1>2. CASE ~(arbitrating /\ current /\ finalization = "none")
  <2>1. request' = req /\ UNCHANGED <<finalization, attached>>
    BY <1>2 DEF Pi!Arbitrated
  <2>2. Pi!Pending' \in SUBSET Pi!Pending
    BY <2>1 DEF Pi!Pending
  <2> QED
    BY <2>1, <2>2, ProcessParts DEF Settling
<1> QED
  BY <1>1, <1>2

\* A step of the line being handled.
LEMMA LineMoves ==
    ASSUME Pi!ProcessInv, line.pc # "none", Settling,
           UNCHANGED <<p_leader, current, stopped, starting, stopping, writes, received, lines,
                       exits>>,
           arbitrating' \in BOOLEAN, line' \in LineState, late' \in SUBSET Pi!Line,
           lease' \in Leases,
           \A l \in Pi!Line : lease'[l] = "held" => l = lines /\ line'.pc = "transfer"
    PROVE  Pi!ProcessInv'
<1>1. Pi!TypeOK'
  BY ProcessParts DEF Pi!TypeOK, Settling, Requests, Leases, LineState
<1>2. Pi!EndedInOrder'
  BY ProcessParts, RuntimeBounds DEF Pi!EndedInOrder, Settling, Pi!Line
<1>3. Pi!NoLeaseLeft'
  BY DEF Pi!NoLeaseLeft
<1> QED
  BY <1>1, <1>2, <1>3 DEF Pi!ProcessInv

\* The same of a line that ends: the payloads it holds are adopted or released.
LEMMA LineDone ==
    ASSUME Pi!ProcessInv, line.pc # "none", Settling, Pi!LineEnds,
           UNCHANGED <<p_leader, current, stopped, starting, stopping, writes, received, lines,
                       exits>>,
           late' \in SUBSET Pi!Line,
           \/ UNCHANGED lease /\ line.pc = "decoding"
           \/ \E l \in {"none", "released", "adopted"} : lease' = [lease EXCEPT ![lines] = l]
    PROVE  Pi!ProcessInv'
<1>1. lines \in Pi!Line /\ lease \in Leases
  BY ProcessParts
<1>2. \A l \in Pi!Line : lease[l] = "held" => l = lines /\ line.pc = "transfer"
  BY ProcessParts DEF Pi!NoLeaseLeft
<1>3. lease' \in Leases /\ \A l \in Pi!Line : lease'[l] # "held"
  BY <1>1, <1>2 DEF Leases
<1>4. line' \in LineState /\ arbitrating' \in BOOLEAN
  BY DEF Pi!LineEnds, Pi!NoLine, LineState
<1> QED
  BY <1>3, <1>4, LineMoves

\* A step that leaves the line, its payloads and the spawn's order alone.
LEMMA RequestMoves ==
    ASSUME Pi!ProcessInv, UNCHANGED <<p_leader, stopped, starting, lines, line, lease, exits>>,
           late' \in SUBSET Pi!Line, Settling, current' \in BOOLEAN,
           current' = current \/ (~current' /\ Pi!Pending' = {}),
           arbitrating' \in BOOLEAN, writes' \in Seq(Pi!All), received' \in SUBSET Pi!All,
           stopping' \in [Pi!Stopper -> {"none", "group", "finalization", "done"}]
    PROVE  Pi!ProcessInv'
<1>1. Pi!TypeOK'
  BY ProcessParts DEF Pi!TypeOK, Settling, Requests, Leases, LineState
<1>2. Pi!EndedInOrder'
  BY ProcessParts, RuntimeBounds DEF Pi!EndedInOrder, Settling, Pi!Line
<1>3. Pi!NoLeaseLeft'
  BY ProcessParts DEF Pi!NoLeaseLeft
<1> QED
  BY <1>1, <1>2, <1>3 DEF Pi!ProcessInv

LEMMA SettlingKept ==
    ASSUME Pi!ProcessInv, UNCHANGED <<current, finalization, attached, request>>
    PROVE  Settling
  BY ProcessParts DEF Settling, Pi!Pending

\* Every step of the wrapper keeps it in order.
LEMMA ProcessKept ==
    ASSUME Pi!ProcessInv, Pi!Next
    PROVE  Pi!ProcessInv'
<1>1. /\ finalization \in {"none", "cleaning", "done"} /\ attached \in BOOLEAN
      /\ p_leader \in {"up", "exited"} /\ current \in BOOLEAN /\ stopped \in BOOLEAN
      /\ arbitrating \in BOOLEAN /\ starting \in {"probing", "ready", "failed", "exited"}
      /\ stopping \in [Pi!Stopper -> {"none", "group", "finalization", "done"}]
      /\ request \in Requests /\ lease \in Leases /\ line \in LineState
      /\ writes \in Seq(Pi!All) /\ received \in SUBSET Pi!All
      /\ lines \in 0..MaxLine /\ late \in SUBSET Pi!Line /\ exits \in Nat
  BY ProcessParts
<1>2. /\ finalization # "none" \/ ~current => Pi!Pending = {}
      /\ exits <= 1 /\ (exits = 1 => ~current)
      /\ line.pc # "none" => lines \in Pi!Line
      /\ Pi!NoLeaseLeft
  BY ProcessParts
<1>3. line.pc = "decoding" => \A l \in {"none", "released", "held"} : [lease EXCEPT ![lines] = l] \in Leases
  BY <1>1 DEF Leases
<1>10. ASSUME NEW r \in Query, Pi!Send(r) PROVE Pi!ProcessInv'
  <2>1. r \in Pi!All
    BY DEF Pi!All
  <2>2. writes' \in Seq(Pi!All) /\ request' \in Requests
    <3>1. /\ writes' = Append(writes, r) \/ writes' = writes
          /\ \E v \in {"pending", "rejected"} : request' = [request EXCEPT ![r] = v]
      BY <1>10 DEF Pi!Send
    <3>2. writes' \in Seq(Pi!All)
      BY <3>1, <2>1, <1>1
    <3>3. request' \in Requests
      BY <3>1, <2>1, <1>1 DEF Requests, Pi!Settled
    <3> QED BY <3>2, <3>3
  <2>3. finalization # "none" \/ ~current => Pi!Pending' = {}
    BY <1>1, <1>2, <1>10, <2>1 DEF Pi!Send, Pi!Pending, Requests
  <2>4. Settling
    BY <1>1, <1>10, <2>2, <2>3 DEF Pi!Send, Pi!processVars, Settling
  <2> QED
    BY <1>1, <1>10, <2>2, <2>4, RequestMoves
       DEF Pi!Send, Pi!processVars, Pi!callVars, Pi!lineVars
<1>11. ASSUME Pi!Write PROVE Pi!ProcessInv'
  <2>1. /\ Head(writes) \in Pi!All /\ writes' \in Seq(Pi!All)
    BY <1>1, <1>11 DEF Pi!Write
  <2>2. received' \in SUBSET Pi!All
    BY <1>1, <1>11, <2>1 DEF Pi!Write
  <2>3. request' \in Requests /\ Pi!Pending' \in SUBSET Pi!Pending
    BY <1>1, <1>11, <2>1, RejectType DEF Pi!Write, Pi!Pending
  <2>4. Settling
    BY <1>1, <1>2, <1>11, <2>3 DEF Pi!Write, Pi!processVars, Settling
  <2> QED
    BY <1>1, <1>11, <2>1, <2>2, <2>4, RequestMoves
       DEF Pi!Write, Pi!processVars, Pi!callVars, Pi!lineVars
<1>12. ASSUME NEW r \in Pi!All, Pi!TimeOut(r) PROVE Pi!ProcessInv'
  <2>1. request' \in Requests /\ Pi!Pending' \in SUBSET Pi!Pending
    BY <1>1, <1>12, RejectType DEF Pi!TimeOut, Pi!Pending
  <2>2. Settling
    BY <1>1, <1>2, <1>12, <2>1 DEF Pi!TimeOut, Pi!processVars, Settling
  <2> QED
    BY <1>1, <1>12, <2>2, RequestMoves DEF Pi!TimeOut, Pi!processVars, Pi!callVars, Pi!lineVars
<1>13. ASSUME Pi!Read PROVE Pi!ProcessInv'
  <2>1. PICK of \in received \union {Pi!Event} :
           line' = [pc |-> "decoding", of |-> of] /\ received' = received \ {of}
    BY <1>13 DEF Pi!Read
  <2>2. line' \in LineState /\ received' \in SUBSET Pi!All
    BY <1>1, <2>1 DEF LineState
  <2>3. lines' \in 0..MaxLine /\ lines' # 0
    BY <1>1, <1>13, RuntimeBounds DEF Pi!Read
  <2>4. Pi!TypeOK'
    BY <1>1, <1>13, <2>2, <2>3
       DEF Pi!Read, Pi!TypeOK, Pi!processVars, Pi!callVars, Requests, Leases, LineState, Pi!Line
  <2>5. Pi!Pending' = Pi!Pending
    BY <1>13 DEF Pi!Read, Pi!Pending
  <2>6. Pi!EndedInOrder'
    BY <1>2, <1>13, <2>3, <2>5 DEF Pi!Read, Pi!EndedInOrder, Pi!processVars
  <2>7. Pi!NoLeaseLeft'
    BY <1>2, <1>13 DEF Pi!Read, Pi!NoLeaseLeft, Pi!NoLine, Pi!Line
  <2> QED
    BY <2>4, <2>6, <2>7 DEF Pi!ProcessInv
<1>14. ASSUME Pi!ReadsGarbage PROVE Pi!ProcessInv'
  <2>1. Settling
    BY <1>14, ProtocolFailureSettles DEF Pi!ReadsGarbage
  <2> QED
    BY <1>1, <1>14, <2>1, RequestMoves DEF Pi!ReadsGarbage, Pi!callVars, Pi!lineVars
<1>15. ASSUME Pi!Decoded PROVE Pi!ProcessInv'
  <2>0. line.pc = "decoding" /\ lines \in Pi!Line
    BY <1>2, <1>15 DEF Pi!Decoded
  <2>1. UNCHANGED <<p_leader, current, stopped, starting, stopping, writes, received, lines, late,
                    exits>>
    BY <1>15 DEF Pi!Decoded, Pi!callVars
  <2>2. CASE /\ \E l \in {"none", "held"} : lease' = [lease EXCEPT ![lines] = l]
             /\ line' = [line EXCEPT !.pc = "transfer"]
             /\ UNCHANGED <<request, finalization, attached, arbitrating>>
    <3>1. lease' \in Leases /\ line' \in LineState /\ line'.pc = "transfer"
      BY <1>1, <2>2 DEF Leases, LineState
    <3>2. \A l \in Pi!Line : lease'[l] = "held" => l = lines
      BY <1>1, <1>2, <2>0, <2>2 DEF Pi!NoLeaseLeft, Leases
    <3> QED
      BY <1>1, <2>0, <2>1, <2>2, <3>1, <3>2, LineMoves, SettlingKept
  <2>3. CASE /\ line.of = Probe
             /\ Pi!Ends([request EXCEPT ![Probe] = "resolved"])
             /\ UNCHANGED lease
    <3>1. /\ [request EXCEPT ![Probe] = "resolved"] \in Requests
          /\ \A r \in Pi!All :
                [request EXCEPT ![Probe] = "resolved"][r] = "pending" => request[r] = "pending"
      BY <1>1 DEF Requests, Pi!Settled
    <3>2. Settling
      BY <2>1, <2>3, <3>1, ArbitratedSettles DEF Pi!Ends
    <3> QED
      BY <1>1, <2>0, <2>1, <2>3, <3>2, LineDone DEF Pi!Ends
  <2>4. CASE /\ Pi!Ends(request)
             /\ \E l \in {"none", "released"} : lease' = [lease EXCEPT ![lines] = l]
    <3>1. Settling
      BY <1>1, <2>1, <2>4, ArbitratedSettles DEF Pi!Ends
    <3> QED
      BY <1>1, <2>0, <2>1, <2>4, <3>1, LineDone DEF Pi!Ends
  <2> QED
    BY <1>15, <2>2, <2>3, <2>4 DEF Pi!Decoded
<1>16. ASSUME Pi!DecodedTooLate PROVE Pi!ProcessInv'
  <2>1. Settling
    BY <1>1, <1>16, ArbitratedSettles DEF Pi!DecodedTooLate, Pi!Ends
  <2> QED
    BY <1>1, <1>16, <2>1, LineDone DEF Pi!DecodedTooLate, Pi!Ends, Pi!callVars
<1>17. ASSUME Pi!DecodeBreaks PROVE Pi!ProcessInv'
  <2>1. Settling
    BY <1>17, LineBreaksSettles DEF Pi!DecodeBreaks
  <2> QED
    BY <1>1, <1>17, <2>1, LineDone DEF Pi!DecodeBreaks, Pi!LineBreaks, Pi!callVars
<1>18. ASSUME Pi!DecodeFails PROVE Pi!ProcessInv'
  <2>1. line.of \in Pi!All /\ lines \in Pi!Line
    BY <1>1, <1>2, <1>18 DEF Pi!DecodeFails, LineState
  <2>2. late' \in SUBSET Pi!Line
    BY <1>1, <1>18, <2>1 DEF Pi!DecodeFails
  <2>3. Settling
    <3>1. CASE Pi!Owns
      BY <1>1, <1>18, <2>1, <3>1, RejectType, ArbitratedSettles DEF Pi!DecodeFails, Pi!Ends
    <3>2. CASE ~Pi!Owns
      BY <1>1, <1>18, <3>2, ArbitratedSettles DEF Pi!DecodeFails, Pi!Ends
    <3> QED
      BY <3>1, <3>2
  <2> QED
    BY <1>1, <1>18, <2>2, <2>3, LineDone DEF Pi!DecodeFails, Pi!Ends, Pi!callVars
<1>19. ASSUME Pi!DecodeAborted PROVE Pi!ProcessInv'
  <2>1. late' \in SUBSET Pi!Line
    BY <1>1, <1>2, <1>19 DEF Pi!DecodeAborted
  <2>2. Settling
    BY <1>19, LineBreaksSettles DEF Pi!DecodeAborted
  <2> QED
    BY <1>1, <1>19, <2>1, <2>2, LineDone DEF Pi!DecodeAborted, Pi!LineBreaks, Pi!callVars
<1>20. ASSUME Pi!Commit PROVE Pi!ProcessInv'
  <2>0. line.pc = "transfer" /\ lines \in Pi!Line
    BY <1>2, <1>20 DEF Pi!Commit
  <2>1. UNCHANGED <<p_leader, current, stopped, starting, stopping, writes, received, lines, late,
                    exits>>
    BY <1>20 DEF Pi!Commit, Pi!callVars
  <2>2. \/ lease' = [lease EXCEPT ![lines] = IF @ = "held" THEN "adopted" ELSE @]
        \/ lease' = Pi!Released(lines)
    BY <1>20 DEF Pi!Commit
  <2>3. \E l \in {"none", "released", "adopted"} : lease' = [lease EXCEPT ![lines] = l]
    <3>1. lease[lines] \in {"none", "held", "released", "adopted"}
      BY <1>1, <2>0 DEF Leases
    <3> QED
      BY <2>2, <3>1 DEF Pi!Released
  <2>4. CASE Pi!Ends(IF line.of \in Pi!All THEN [request EXCEPT ![line.of] = "resolved"] ELSE request)
    <3> DEFINE req == IF line.of \in Pi!All THEN [request EXCEPT ![line.of] = "resolved"]
                      ELSE request
    <3>1. req \in Requests /\ \A r \in Pi!All : req[r] = "pending" => request[r] = "pending"
      BY <1>1 DEF Requests, Pi!Settled
    <3>2. Pi!Arbitrated(req) /\ Pi!LineEnds
      BY <2>4 DEF Pi!Ends
    <3> HIDE DEF req
    <3>3. Settling
      BY <2>1, <3>1, <3>2, ArbitratedSettles
    <3> QED
      BY <1>1, <2>0, <2>1, <2>3, <3>2, <3>3, LineDone
  <2>5. CASE Pi!LineBreaks
    <3>1. Settling
      BY <2>1, <2>5, LineBreaksSettles
    <3> QED
      BY <1>1, <2>0, <2>1, <2>3, <2>5, <3>1, LineDone DEF Pi!LineBreaks
  <2>6. CASE Pi!Ends(request)
    <3>1. Settling
      BY <1>1, <2>1, <2>6, ArbitratedSettles DEF Pi!Ends
    <3> QED
      BY <1>1, <2>0, <2>1, <2>3, <2>6, <3>1, LineDone DEF Pi!Ends
  <2> QED
    BY <1>20, <2>4, <2>5, <2>6 DEF Pi!Commit
<1>21. ASSUME NEW l \in Pi!Line, Pi!DecodedLate(l) PROVE Pi!ProcessInv'
  <2>1. UNCHANGED <<p_leader, current, attached, stopped, finalization, arbitrating, starting,
                    stopping, request, writes, received, lines, line, exits>>
    BY <1>21 DEF Pi!DecodedLate, Pi!processVars, Pi!callVars, Pi!requestVars
  <2>2. late' \in SUBSET Pi!Line /\ lease' \in Leases
    BY <1>1, <1>21 DEF Pi!DecodedLate, Leases
  <2>3. Pi!NoLeaseLeft'
    BY <1>1, <1>2, <1>21, <2>1 DEF Pi!DecodedLate, Pi!NoLeaseLeft, Leases
  <2>4. Pi!TypeOK'
    BY <1>1, <2>1, <2>2 DEF Pi!TypeOK, Requests, Leases, LineState
  <2>5. Pi!EndedInOrder'
    <3>1. Pi!Pending' = Pi!Pending
      BY <2>1 DEF Pi!Pending
    <3>2. lines \in Pi!Line => lines # 0
      BY RuntimeBounds DEF Pi!Line
    <3> QED
      BY <1>2, <2>1, <3>1, <3>2 DEF Pi!EndedInOrder
  <2> QED
    BY <2>3, <2>4, <2>5 DEF Pi!ProcessInv
<1>22. ASSUME Pi!LeaderExits PROVE Pi!ProcessInv'
  <2>1. UNCHANGED <<stopped, starting, stopping, writes, received, lines, line, late, lease, exits>>
    BY <1>22 DEF Pi!LeaderExits, Pi!callVars, Pi!lineVars
  <2>2. p_leader' \in {"up", "exited"} /\ arbitrating' \in BOOLEAN /\ current' \in BOOLEAN
    BY <1>1, <1>22 DEF Pi!LeaderExits
  <2>3. Settling /\ (current' = current \/ (~current' /\ Pi!Pending' = {}))
    <3>1. CASE stopped
      <4>1. request' \in Requests /\ Pi!Pending' = {} /\ ~current'
        BY <1>1, <1>22, <3>1, RejectAllType DEF Pi!LeaderExits, Pi!Pending
      <4> QED
        BY <1>1, <1>22, <3>1, <4>1 DEF Pi!LeaderExits, Settling
    <3>2. CASE ~stopped /\ line = Pi!NoLine
      BY <1>22, <3>2, FinalizeSettles DEF Pi!LeaderExits
    <3>3. CASE ~stopped /\ line # Pi!NoLine
      BY <1>22, <3>3, SettlingKept DEF Pi!LeaderExits
    <3> QED
      BY <3>1, <3>2, <3>3
  <2>4. Pi!TypeOK'
    BY <1>1, <2>1, <2>2, <2>3 DEF Pi!TypeOK, Settling, Requests, Leases, LineState
  <2>5. Pi!EndedInOrder'
    <3>1. lines \in Pi!Line => lines # 0
      BY RuntimeBounds DEF Pi!Line
    <3> QED
      BY <1>1, <1>2, <2>1, <2>2, <2>3, <3>1 DEF Pi!EndedInOrder, Settling
  <2>6. Pi!NoLeaseLeft'
    BY <1>2, <2>1 DEF Pi!NoLeaseLeft
  <2> QED
    BY <2>4, <2>5, <2>6 DEF Pi!ProcessInv
<1>23. ASSUME Pi!Finalized PROVE Pi!ProcessInv'
  <2>1. UNCHANGED <<p_leader, stopped, arbitrating, starting, stopping, request, writes, received,
                    lines, line, late, lease>>
    BY <1>23 DEF Pi!Finalized, Pi!callVars, Pi!requestVars, Pi!lineVars
  <2>2. /\ finalization' = "done" /\ current' = FALSE /\ attached' \in BOOLEAN
        /\ Pi!Pending = {} /\ Pi!Pending' = Pi!Pending
    BY <1>1, <1>2, <1>23, <2>1 DEF Pi!Finalized, Pi!Pending
  <2>3. exits' \in Nat /\ exits' <= 1
    BY <1>1, <1>2, <1>23 DEF Pi!Finalized
  <2>4. Pi!TypeOK'
    BY <1>1, <2>1, <2>2, <2>3 DEF Pi!TypeOK, Requests, Leases, LineState
  <2>5. Pi!EndedInOrder'
    <3>1. lines \in Pi!Line => lines # 0
      BY RuntimeBounds DEF Pi!Line
    <3> QED
      BY <1>2, <2>1, <2>2, <2>3, <3>1 DEF Pi!EndedInOrder
  <2>6. Pi!NoLeaseLeft'
    BY <1>2, <2>1 DEF Pi!NoLeaseLeft
  <2> QED
    BY <2>4, <2>5, <2>6 DEF Pi!ProcessInv
<1>24. ASSUME NEW s \in Pi!Stopper, Pi!Stop(s) PROVE Pi!ProcessInv'
  <2>1. UNCHANGED <<p_leader, current, finalization, arbitrating, starting, request, writes,
                    received, lines, line, late, lease, exits>>
    BY <1>24 DEF Pi!Stop, Pi!requestVars, Pi!lineVars
  <2>2. /\ stopping' \in [Pi!Stopper -> {"none", "group", "finalization", "done"}]
        /\ attached' \in BOOLEAN /\ stopped' \in BOOLEAN
    BY <1>1, <1>24 DEF Pi!Stop
  <2>3. Pi!TypeOK'
    BY <1>1, <2>1, <2>2 DEF Pi!TypeOK, Requests, Leases, LineState
  <2>4. Pi!EndedInOrder'
    <3>1. Pi!Pending' = Pi!Pending
      BY <2>1 DEF Pi!Pending
    <3>2. lines \in Pi!Line => lines # 0
      BY RuntimeBounds DEF Pi!Line
    <3> QED
      BY <1>2, <2>1, <3>1, <3>2 DEF Pi!EndedInOrder
  <2>5. Pi!NoLeaseLeft'
    BY <1>2, <2>1 DEF Pi!NoLeaseLeft
  <2> QED
    BY <2>3, <2>4, <2>5 DEF Pi!ProcessInv
<1>25. ASSUME NEW s \in Pi!Stopper, Pi!StopEnds(s) PROVE Pi!ProcessInv'
  <2>1. request' \in Requests /\ Pi!Pending' = {} /\ current' = FALSE
    BY <1>1, <1>25, RejectAllType DEF Pi!StopEnds, Pi!Pending
  <2>2. stopping' \in [Pi!Stopper -> {"none", "group", "finalization", "done"}]
    BY <1>1, <1>25 DEF Pi!StopEnds
  <2>3. Settling
    BY <1>1, <1>25, <2>1 DEF Pi!StopEnds, Settling
  <2> QED
    BY <1>1, <1>25, <2>1, <2>2, <2>3, RequestMoves DEF Pi!StopEnds, Pi!lineVars
<1>26. ASSUME Pi!Probed PROVE Pi!ProcessInv'
  <2>1. UNCHANGED <<p_leader, current, attached, stopped, finalization, arbitrating, stopping,
                    request, writes, received, lines, line, late, lease, exits>>
    BY <1>26 DEF Pi!Probed, Pi!processVars, Pi!requestVars, Pi!lineVars
  <2>2. starting' \in {"probing", "ready", "failed", "exited"}
    BY <1>26 DEF Pi!Probed
  <2>3. Pi!TypeOK'
    BY <1>1, <2>1, <2>2 DEF Pi!TypeOK, Requests, Leases, LineState
  <2>4. Pi!EndedInOrder'
    <3>1. Pi!Pending' = Pi!Pending
      BY <2>1 DEF Pi!Pending
    <3>2. lines \in Pi!Line => lines # 0
      BY RuntimeBounds DEF Pi!Line
    <3> QED
      BY <1>2, <2>1, <3>1, <3>2 DEF Pi!EndedInOrder
  <2>5. Pi!NoLeaseLeft'
    BY <1>2, <2>1 DEF Pi!NoLeaseLeft
  <2> QED
    BY <2>3, <2>4, <2>5 DEF Pi!ProcessInv
<1> QED
  BY <1>10, <1>11, <1>12, <1>13, <1>14, <1>15, <1>16, <1>17, <1>18, <1>19, <1>20, <1>21, <1>22,
     <1>23, <1>24, <1>25, <1>26 DEF Pi!Next, Pi!DecodeStep

LEMMA ProcessStart ==
    ASSUME Pi!Init
    PROVE  Pi!ProcessInv
<1>1. writes \in Seq(Pi!All)
  BY DEF Pi!Init, Pi!All
<1>2. request \in Requests /\ lease \in Leases /\ line \in LineState
  BY DEF Pi!Init, Requests, Leases, LineState, Pi!Settled, Pi!NoLine
<1>3. lines \in 0..MaxLine /\ exits \in Nat
  BY RuntimeBounds DEF Pi!Init
<1>4. stopping \in [Pi!Stopper -> {"none", "group", "finalization", "done"}]
  BY DEF Pi!Init
<1>5. Pi!TypeOK
  BY <1>1, <1>2, <1>3, <1>4 DEF Pi!Init, Pi!TypeOK, Requests, Leases, LineState
<1> QED
  BY <1>5 DEF Pi!ProcessInv, Pi!Init, Pi!EndedInOrder, Pi!NoLeaseLeft, Pi!NoLine

LEMMA ProcessInvariant == MCSpec => []Pi!ProcessInv
<1>1. MCInit => Pi!ProcessInv
  BY ProcessStart DEF MCInit
<1>2. Pi!ProcessInv /\ [MCNext]_all => Pi!ProcessInv'
  <2> SUFFICES ASSUME Pi!ProcessInv, [MCNext]_all PROVE Pi!ProcessInv'
    OBVIOUS
  <2>1. CASE Pi!Next
    BY <2>1, ProcessKept
  <2>2. CASE UNCHANGED child
    <3>1. Pi!Pending' = Pi!Pending
      BY <2>2 DEF Pi!Pending, child
    <3> QED
      BY <2>2, <3>1 DEF Pi!ProcessInv, Pi!TypeOK, Pi!EndedInOrder, Pi!NoLeaseLeft, child
  <2> QED
    BY <2>1, <2>2 DEF MCNext, Lives, Operates, Processes, all
<1> QED
  BY <1>1, <1>2, PTL DEF MCSpec

\* Whoever ends a spawn, its owner hears of the exit at most once, nobody waits
\* for an answer afterwards, and a line that is done holds no payloads:
\* pi-process.ts, beginUnexpectedFinalization, stop() and handleLine.
THEOREM ProcessEndsCleanly == MCSpec => []ProcessExact
<1>1. Pi!ProcessInv => ProcessExact
  BY DEF Pi!ProcessInv, Pi!EndedInOrder, Pi!ExitReportedOnce, ProcessExact
<1> QED
  BY <1>1, ProcessInvariant, PTL

\* What a line brought is adopted only by the consumer of a spawn that is up and
\* not stopped, for a request that is still pending: pi-process.ts,
\* consumeDecodedOutcome.
THEOREM CommitsAreCurrent == MCSpec => CommitsCurrent
<1> DEFINE Adopts == \A l \in Pi!Line : lease[l] # "adopted" /\ lease'[l] = "adopted" => Pi!Current
<1>1. ASSUME Pi!ProcessInv, Pi!Next PROVE Adopts
  <2>1. lease \in Leases /\ (line.pc # "none" => lines \in Pi!Line)
    BY <1>1, ProcessParts
  <2>2. CASE UNCHANGED lease
    BY <2>2
  <2>3. ASSUME NEW l \in Pi!Line, NEW x, x # "adopted", lease' = [lease EXCEPT ![l] = x]
        PROVE  Adopts
    BY <2>1, <2>3 DEF Leases
  <2>4. CASE Pi!Decoded
    BY <2>1, <2>2, <2>3, <2>4 DEF Pi!Decoded
  <2>5. CASE Pi!DecodedTooLate
    BY <2>1, <2>3, <2>5 DEF Pi!DecodedTooLate
  <2>6. CASE Pi!Commit
    <3>1. CASE Pi!Current
      BY <3>1
    <3>2. CASE ~Pi!Current
      BY <2>1, <2>6, <3>2 DEF Pi!Commit, Pi!Released, Leases
    <3> QED
      BY <3>1, <3>2
  <2>7. ASSUME NEW l \in Pi!Line, Pi!DecodedLate(l) PROVE Adopts
    BY <2>3, <2>7 DEF Pi!DecodedLate
  <2> QED
    BY <1>1, <2>2, <2>4, <2>5, <2>6, <2>7
       DEF Pi!Next, Pi!DecodeStep, Pi!Send, Pi!Write, Pi!TimeOut, Pi!Read, Pi!ReadsGarbage,
           Pi!DecodeBreaks, Pi!DecodeFails, Pi!DecodeAborted, Pi!LeaderExits, Pi!Finalized, Pi!Stop,
           Pi!StopEnds, Pi!Probed, Pi!lineVars
<1>2. Pi!ProcessInv /\ [MCNext]_all => [Adopts]_Pi!vars
  <2> SUFFICES ASSUME Pi!ProcessInv, [MCNext]_all PROVE [Adopts]_Pi!vars
    OBVIOUS
  <2>1. CASE Pi!Next
    BY <1>1, <2>1
  <2>2. CASE UNCHANGED child
    BY <2>2 DEF child, Pi!vars, Pi!processVars, Pi!callVars, Pi!requestVars, Pi!lineVars
  <2> QED
    BY <2>1, <2>2 DEF MCNext, Lives, Operates, Processes, all
<1> QED
  BY <1>2, ProcessInvariant, PTL DEF MCSpec, CommitsCurrent, Pi!CommitsCurrent

-----------------------------------------------------------------------------
(* The life of a runtime.                                                  *)

\* The next content item is one that was not made yet.
LEMMA NextUnmade ==
    ASSUME Unmade # {}
    PROVE  NextItem \in Unmade
<1>1. Unmade \subseteq Nat
  BY LifecycleBounds DEF Unmade, Item
<1>2. PICK x \in Unmade : \A y \in Unmade : ~(<<y, x>> \in OpToRel(<, Nat))
  BY <1>1, NatLessThanWellFounded, WFMin, Zenon
<1>3. \A y \in Unmade : ~(y < x)
  BY <1>1, <1>2, Zenon DEF OpToRel
<1>4. \A y \in Unmade : x <= y
  BY <1>1, <1>3
<1> QED
  BY <1>4 DEF NextItem

\* The parts of the invariant, the types spelled out.
LEMMA LifecycleTypes ==
    ASSUME LifecycleInv
    PROVE  /\ starts \in 0..MaxStarts /\ token \in 0..MaxStarts
           /\ proc \in 0..MaxStarts /\ failed \in 0..MaxStarts
           /\ leader \in [Proc -> Leader] /\ reason \in [Proc -> Reason]
           /\ state \in State /\ ready \in BOOLEAN
           /\ spawn \in [pc : SpawnPC, proc : 0..MaxStarts]
           /\ ending \in [kind : {"none", "stop", "terminal", "projection"},
                          proc : 0..MaxStarts, items : SUBSET Item, spawn : BOOLEAN,
                          lost : BOOLEAN]
           /\ starter \in {"none", "ending", "exit", "spawn"} /\ finalizing \in BOOLEAN
           /\ owner \in 0..MaxItem /\ retained \in BOOLEAN
           /\ retired \in 0..MaxItem /\ discarded \in 0..MaxItem
           /\ item \in [Item -> Custody] /\ refused \in SUBSET Refusal
           /\ fork \in [pc : ForkPC, proc : 0..MaxStarts, parent : 0..MaxItem,
                        candidate : 0..MaxItem, ledger : 0..MaxItem]
           /\ staged \in BOOLEAN /\ working \in BOOLEAN
           /\ compaction \in [from : {"none", "file", "process"}, proc : 0..MaxStarts,
                              owner : 0..MaxItem]
  BY DEF LifecycleInv, TypeOK

LEMMA LifecycleParts ==
    ASSUME LifecycleInv
    PROVE  /\ TypeOK /\ Custodian /\ CleanStart /\ OneGeneration /\ EndedWhole
           /\ ContentNamed /\ StagedWhole /\ SpawnAlone
  BY DEF LifecycleInv

LEMMA Bounded ==
    /\ MaxStarts \in Nat \ {0} /\ MaxItem \in Nat \ {0}
    /\ \A p \in 0..MaxStarts : p # 0 <=> p \in Proc
    /\ \A i \in 0..MaxItem : i # 0 <=> i \in Item
  BY LifecycleBounds DEF Proc, Item

LEMMA Zeros == 0 \in 0..MaxStarts /\ 0 \in 0..MaxItem
  BY LifecycleBounds

\* A step that leaves the generation and its content alone.
LEMMA QuietStep ==
    ASSUME LifecycleInv, TypeOK',
           UNCHANGED <<starts, token, proc, failed, owner, retained, retired, discarded, item,
                       ending, staged>>,
           UNCHANGED fork \/ (~staged /\ fork'.proc \in {0, fork.proc}),
           \A p \in Proc : leader'[p] = "up" => leader[p] = "up",
           \/ UNCHANGED compaction
           \/ compaction'.proc = 0
           \/ compaction'.proc = proc /\ ready /\ UNCHANGED spawn,
           \/ spawn'.pc = "none"
           \/ /\ spawn'.proc = spawn.proc /\ spawn.pc # "none" /\ ready' = ready
              /\ spawn'.pc \in {"ready", "base"} => spawn.pc \in {"ready", "base"}
              /\ spawn'.pc \in {"stopping", "fence", "fenced"} => leader'[spawn.proc] # "up"
    PROVE  LifecycleInv'
<1>1. Custodian'
  BY LifecycleParts DEF Custodian, StageItems
<1>2. CleanStart'
  BY LifecycleParts DEF CleanStart
<1>3. OneGeneration'
  BY LifecycleParts, LifecycleTypes DEF OneGeneration
<1>4. EndedWhole' /\ ContentNamed' /\ StagedWhole'
  BY LifecycleParts DEF EndedWhole, ContentNamed, StagedWhole
<1>5. SpawnAlone'
  BY LifecycleParts, LifecycleTypes DEF SpawnAlone
<1> QED
  BY <1>1, <1>2, <1>3, <1>4, <1>5 DEF LifecycleInv

\* What is released when a generation ends is all that it holds.
LEMMA RemainsReleased ==
    ASSUME LifecycleInv
    PROVE  /\ Remains \in SUBSET Item
           /\ Releasing(Remains) \in [Item -> Custody]
           /\ \A i \in Item : Releasing(Remains)[i] \notin {"held", "sealed"}
           /\ \A i \in Item : Releasing(Remains)[i] = "releasing" =>
                 i \in Remains \/ i \in ending.items
           /\ discarded # 0 => /\ discarded \in Remains
                              /\ Releasing(Remains)[discarded] = "releasing"
<1>1. /\ item \in [Item -> Custody] /\ owner \in 0..MaxItem /\ retired \in 0..MaxItem
      /\ discarded \in 0..MaxItem /\ fork.candidate \in 0..MaxItem /\ fork.ledger \in 0..MaxItem
  BY LifecycleTypes
<1>2. Remains \in SUBSET Item
  BY <1>1, Bounded DEF Remains, StageItems
<1>3. Releasing(Remains) \in [Item -> Custody]
  BY <1>1 DEF Releasing, Custody
<1>4. \A i \in Item : item[i] \in {"held", "sealed"} => i \in Remains
  BY <1>1, Bounded, LifecycleParts DEF Custodian, Remains
<1>5. \A i \in Item : Releasing(Remains)[i] \notin {"held", "sealed"}
  BY <1>1, <1>4 DEF Releasing
<1>6. \A i \in Item : item[i] = "releasing" => i \in Remains \/ i \in ending.items
  BY <1>1, Bounded, LifecycleParts DEF Custodian, Remains
<1>7. \A i \in Item : Releasing(Remains)[i] = "releasing" => i \in Remains \/ i \in ending.items
  BY <1>6 DEF Releasing
<1>8. discarded # 0 => discarded \in Remains /\ Releasing(Remains)[discarded] = "releasing"
  BY <1>1, Bounded, LifecycleParts DEF ContentNamed, Remains, Releasing
<1> QED
  BY <1>2, <1>3, <1>5, <1>7, <1>8

\* A generation ends: its process is stopped or gone, and what it held is being
\* released and awaited.
LEMMA GenerationEnds ==
    ASSUME LifecycleInv, TypeOK', UNCHANGED starts,
           proc' = 0, owner' = 0, retained' = FALSE, retired' = 0, staged' = FALSE,
           token' = 0 \/ failed' = token',
           \A p \in Proc : leader'[p] # "up",
           \A i \in Item : /\ item'[i] \notin {"held", "sealed"}
                           /\ item'[i] = "releasing" => i \in ending'.items,
           discarded' # 0 => item'[discarded'] = "releasing" /\ discarded' \in ending'.items,
           fork'.proc = fork.proc, UNCHANGED compaction,
           spawn'.pc = "none" \/ (spawn.pc # "none" /\ spawn'.proc = spawn.proc),
           ready' => ready
    PROVE  LifecycleInv'
<1>1. Custodian' /\ CleanStart'
  BY DEF Custodian, CleanStart
<1>2. OneGeneration'
  BY LifecycleParts, LifecycleTypes DEF OneGeneration
<1>3. EndedWhole' /\ ContentNamed' /\ StagedWhole'
  BY DEF EndedWhole, ContentNamed, StagedWhole
<1>4. SpawnAlone'
  <2>1. spawn'.pc # "none" => spawn'.proc \in Proc
    BY LifecycleParts, LifecycleTypes, Bounded DEF SpawnAlone
  <2> QED
    BY <2>1, LifecycleParts DEF SpawnAlone
<1> QED
  BY <1>1, <1>2, <1>3, <1>4 DEF LifecycleInv

\* Stopping a process leaves none that is up but the one that is current.
LEMMA StoppedNotUp ==
    ASSUME LifecycleInv
    PROVE  /\ Stopped(proc) \in [Proc -> Leader]
           /\ \A p \in Proc : Stopped(proc)[p] # "up"
<1>1. leader \in [Proc -> Leader] /\ proc \in 0..MaxStarts
  BY LifecycleTypes
<1>2. \A p \in Proc : leader[p] = "up" => p = proc
  BY LifecycleParts DEF OneGeneration
<1>3. CASE proc = 0 \/ leader[proc] = "gone"
  BY <1>1, <1>2, <1>3, Bounded DEF Stopped
<1>4. CASE proc # 0 /\ leader[proc] # "gone"
  BY <1>1, <1>2, <1>4, Bounded DEF Stopped, Leader
<1> QED
  BY <1>3, <1>4

\* stop(), with a transition that fails or without one
LEMMA StopNowKeeps ==
    ASSUME LifecycleInv, StopNow,
           UNCHANGED <<starts, reason, failed, startVars, discarded, compaction, state, ready,
                       refused>>,
           fork' = fork \/ fork' = [fork EXCEPT !.pc = "stopping"]
    PROVE  LifecycleInv'
<1>1. /\ fork'.proc = fork.proc
      /\ fork' \in [pc : ForkPC, proc : 0..MaxStarts, parent : 0..MaxItem,
                    candidate : 0..MaxItem, ledger : 0..MaxItem]
  BY LifecycleTypes DEF ForkPC
<1>2. CASE ending # NoEnding
  <2>1. UNCHANGED <<token, leader, proc, owner, retained, retired, item, ending, staged, working>>
    BY <1>2 DEF StopNow
  <2>2. ~staged
    BY <1>2, LifecycleParts DEF EndedWhole
  <2>3. TypeOK'
    BY <1>1, <2>1, LifecycleTypes DEF TypeOK, startVars
  <2>4. spawn'.pc \in {"stopping", "fence", "fenced"} => leader'[spawn.proc] # "up"
    BY <2>1, LifecycleParts DEF SpawnAlone, startVars
  <2> QED
    BY <1>1, <2>1, <2>2, <2>3, <2>4, QuietStep DEF startVars
<1>3. CASE ending = NoEnding
  <2>1. /\ token' = 0 /\ leader' = Stopped(proc) /\ proc' = 0 /\ owner' = 0
        /\ retained' = FALSE /\ retired' = 0 /\ item' = Releasing(Remains)
        /\ ending' = Ending("stop", proc, Remains, spawn # NoSpawn)
        /\ staged' = FALSE /\ working' = FALSE
    BY <1>3 DEF StopNow, ClearOwned
  <2>2. ending'.items = Remains /\ ending.items = {}
    BY <1>3, <2>1 DEF Ending, NoEnding
  <2>3. ending' \in [kind : {"none", "stop", "terminal", "projection"}, proc : 0..MaxStarts,
                     items : SUBSET Item, spawn : BOOLEAN, lost : BOOLEAN]
    BY <2>1, LifecycleTypes, RemainsReleased DEF Ending
  <2>4. TypeOK'
    <3>1. item' \in [Item -> Custody] /\ leader' \in [Proc -> Leader]
      BY <2>1, RemainsReleased, StoppedNotUp
    <3> QED
      BY <1>1, <2>1, <2>3, <3>1, LifecycleTypes, Zeros DEF TypeOK, startVars
  <2> QED
    BY <1>1, <2>1, <2>2, <2>4, RemainsReleased, StoppedNotUp, GenerationEnds DEF startVars
<1> QED
  BY <1>2, <1>3

\* terminalizeProjection, terminalizeGenerationContentFailure
LEMMA EndGenerationKeeps ==
    ASSUME LifecycleInv, NEW kind \in {"terminal", "projection"}, NEW withSpawn \in BOOLEAN,
           EndGeneration(kind, withSpawn), proc # 0, failed' \in {failed, token},
           UNCHANGED <<starts, reason, startVars, discarded, fork, compaction>>,
           refused' \in SUBSET Refusal
    PROVE  LifecycleInv'
<1>1. ending = NoEnding
  BY LifecycleParts DEF EndedWhole
<1>2. /\ token' = 0 /\ leader' = Stopped(proc) /\ proc' = 0 /\ owner' = 0
      /\ retained' = FALSE /\ retired' = 0 /\ item' = Releasing(Remains)
      /\ ending' = Ending(kind, proc, Remains, withSpawn)
      /\ staged' = FALSE /\ working' = FALSE /\ ready' = FALSE /\ state' = "crashed"
  BY <1>1 DEF EndGeneration, ClearOwned
<1>3. ending'.items = Remains /\ ending.items = {}
  BY <1>1, <1>2 DEF Ending, NoEnding
<1>4. ending' \in [kind : {"none", "stop", "terminal", "projection"}, proc : 0..MaxStarts,
                   items : SUBSET Item, spawn : BOOLEAN, lost : BOOLEAN]
  BY <1>2, LifecycleTypes, RemainsReleased DEF Ending
<1>5. TypeOK'
  <2>1. item' \in [Item -> Custody] /\ leader' \in [Proc -> Leader]
    BY <1>2, RemainsReleased, StoppedNotUp
  <2>2. failed' \in 0..MaxStarts
    BY LifecycleTypes
  <2> QED
    BY <1>2, <1>4, <2>1, <2>2, LifecycleTypes, Zeros DEF TypeOK, startVars, State
<1> QED
  BY <1>2, <1>3, <1>5, RemainsReleased, StoppedNotUp, GenerationEnds DEF startVars

\* handleFailure: the content of a process that crashed is released, or kept for
\* reading.
LEMMA FailKeeps ==
    ASSUME LifecycleInv, NEW p \in Proc, Fail(p), leader' \in [Proc -> Leader],
           UNCHANGED <<starts, reason, starter, discarded, fork, compaction, ready>>,
           \A q \in Proc : leader'[q] = "up" => leader[q] = "up", leader'[p] # "up",
           spawn' \in [pc : SpawnPC, proc : 0..MaxStarts],
           \/ spawn'.pc = "none"
           \/ /\ spawn'.proc = spawn.proc /\ spawn.pc # "none"
              /\ spawn'.pc \in {"ready", "base"} => spawn.pc \in {"ready", "base"}
              /\ spawn'.pc \in {"stopping", "fence", "fenced"} => leader'[spawn.proc] # "up"
    PROVE  LifecycleInv'
<1>1. CASE token # p \/ failed = p
  <2>1. UNCHANGED <<token, proc, failed, owner, retained, retired, item, ending, finalizing,
                    state, refused, staged, working>>
    BY <1>1 DEF Fail
  <2>2. TypeOK'
    BY <2>1, LifecycleTypes DEF TypeOK
  <2> QED
    BY <2>1, <2>2, QuietStep
<1>2. CASE token = p /\ failed # p
  <2>1. proc = p /\ p # 0 /\ ending = NoEnding /\ ending.items = {}
    BY <1>2, LifecycleParts, Bounded DEF OneGeneration, EndedWhole, Proc, NoEnding
  <2>2. \A q \in Proc : leader'[q] # "up"
    BY <2>1, LifecycleParts DEF OneGeneration
  <2>3. /\ failed' = p /\ proc' = 0 /\ retired' = 0 /\ finalizing' = FALSE
        /\ staged' = FALSE /\ working' = FALSE /\ state' = "crashed" /\ token' = token
        /\ refused' \in SUBSET Refusal
    BY <1>2, LifecycleTypes DEF Fail, ClearOwned, Refusal
  <2>4. CASE Retains(p)
    <3>1. /\ retained' = TRUE /\ item' = [item EXCEPT ![owner] = "sealed"]
          /\ UNCHANGED <<owner, ending>>
      BY <1>2, <2>4 DEF Fail
    <3>2. /\ owner # 0 /\ owner \in Item /\ ready /\ ~staged /\ retired = 0 /\ discarded = 0
      BY <2>4, LifecycleTypes, Bounded DEF Retains
    <3>3. \A i \in Item \ {owner} : item'[i] = item[i] /\ item[i] \notin {"held", "sealed", "releasing"}
      BY <2>1, <3>1, <3>2, LifecycleParts, LifecycleTypes, Bounded DEF Custodian, StageItems
    <3>4. item'[owner] = "sealed" /\ item' \in [Item -> Custody]
      BY <3>1, <3>2, LifecycleTypes DEF Custody
    <3>5. TypeOK'
      <4>1. p \in 0..MaxStarts
        BY LifecycleBounds DEF Proc
      <4> QED
        BY <2>3, <3>1, <3>4, <4>1, LifecycleTypes, Zeros DEF TypeOK, State
    <3>6. Custodian' /\ ContentNamed' /\ StagedWhole'
      BY <2>3, <3>1, <3>2, <3>3, <3>4 DEF Custodian, ContentNamed, StagedWhole
    <3>7. spawn.pc = "none" /\ spawn'.pc = "none"
      BY <3>2, LifecycleParts DEF SpawnAlone
    <3>8. CleanStart' /\ SpawnAlone'
      BY <3>7 DEF CleanStart, SpawnAlone
    <3>9. OneGeneration'
      BY <1>2, <2>2, <2>3, LifecycleParts, LifecycleTypes DEF OneGeneration
    <3>10. EndedWhole'
      BY <2>1, <2>3, <3>1, <3>2 DEF EndedWhole
    <3> QED
      BY <3>5, <3>6, <3>8, <3>9, <3>10 DEF LifecycleInv
  <2>5. CASE ~Retains(p)
    <3>1. /\ owner' = 0 /\ item' = Releasing(Remains) /\ retained' = retained
          /\ ending' = IF Remains = {} THEN ending ELSE Ending("terminal", 0, Remains, FALSE)
      BY <1>2, <2>1, <2>5 DEF Fail
    <3>2. ending'.items = Remains
      BY <2>1, <3>1 DEF Ending
    <3>3. ending' \in [kind : {"none", "stop", "terminal", "projection"}, proc : 0..MaxStarts,
                       items : SUBSET Item, spawn : BOOLEAN, lost : BOOLEAN]
      BY <3>1, LifecycleTypes, RemainsReleased, Bounded DEF Ending
    <3>4. TypeOK'
      <4>1. p \in 0..MaxStarts /\ item' \in [Item -> Custody]
        BY <3>1, LifecycleBounds, RemainsReleased DEF Proc
      <4> QED
        BY <2>3, <3>1, <3>3, <4>1, LifecycleTypes, Zeros DEF TypeOK, State
    <3>5. retained' = FALSE
      BY <2>1, <3>1, LifecycleParts, LifecycleTypes DEF EndedWhole
    <3> QED
      BY <1>2, <2>1, <2>2, <2>3, <3>1, <3>2, <3>4, <3>5, RemainsReleased, GenerationEnds
  <2> QED
    BY <2>4, <2>5
<1> QED
  BY <1>1, <1>2

\* A spawn begins with no content left of an earlier generation.
LEMMA SpawnKeeps ==
    ASSUME LifecycleInv, Spawn, ~Refused, ending = NoEnding, spawn = NoSpawn, proc = 0
    PROVE  LifecycleInv'
<1>1. /\ owner = 0 /\ retained = FALSE /\ retired = 0 /\ discarded = 0 /\ ~staged
  BY LifecycleParts, LifecycleTypes DEF Refused, EndedWhole, NoEnding
<1>2. \A i \in Item : item[i] \notin {"held", "sealed", "releasing"}
  BY <1>1, Bounded, LifecycleParts DEF Custodian, StageItems, NoEnding, Item
<1>3. NextItem \in Item /\ NextItem # 0 /\ item[NextItem] = "none"
  BY NextUnmade, LifecycleBounds DEF Spawn, Unmade, Item
<1>4. /\ starts' = starts + 1 /\ token' = starts + 1 /\ proc' = starts + 1
      /\ starts \in 0..MaxStarts /\ starts + 1 \in Proc /\ starts + 1 # 0
      /\ starts + 1 \in 0..MaxStarts
  BY LifecycleTypes, LifecycleBounds DEF Spawn, Proc
<1>5. /\ leader' = [leader EXCEPT ![starts + 1] = "up"] /\ failed' = 0 /\ owner' = NextItem
      /\ item' = [item EXCEPT ![NextItem] = "held"] /\ ready' = FALSE /\ state' = "starting"
      /\ finalizing' = FALSE /\ spawn' = [pc |-> "ready", proc |-> starts + 1]
      /\ starter' = "spawn"
      /\ UNCHANGED <<reason, ending, retained, retired, discarded, refused, fork, staged,
                     compaction, working>>
  BY DEF Spawn, coroutineVars
<1>6. /\ item' \in [Item -> Custody] /\ item'[NextItem] = "held"
      /\ \A i \in Item \ {NextItem} : item'[i] = item[i]
  BY <1>3, <1>5, LifecycleTypes DEF Custody
<1>7. /\ leader' \in [Proc -> Leader]
      /\ \A p \in Proc : leader'[p] = "up" => p = starts + 1
  BY <1>4, <1>5, LifecycleTypes, LifecycleParts DEF Leader, OneGeneration, Proc
<1>8. TypeOK'
  <2>1. spawn' \in [pc : SpawnPC, proc : 0..MaxStarts]
    BY <1>4, <1>5 DEF SpawnPC
  <2>2. owner' \in 0..MaxItem
    BY <1>3, <1>5, LifecycleBounds DEF Item
  <2> QED
    BY <1>4, <1>5, <1>6, <1>7, <2>1, <2>2, LifecycleTypes, Zeros DEF TypeOK, State
<1>9. Custodian' /\ CleanStart'
  <2>1. \A i \in Item \ {NextItem} : item'[i] \in {"none", "released", "lost"}
    BY <1>2, <1>6, LifecycleTypes DEF Custody
  <2> QED
    BY <1>5, <1>6, <2>1 DEF Custodian, CleanStart
<1>10. OneGeneration'
  BY <1>4, <1>5, <1>7, LifecycleParts, LifecycleTypes DEF OneGeneration
<1>11. EndedWhole' /\ ContentNamed' /\ StagedWhole'
  BY <1>1, <1>3, <1>4, <1>5, <1>6 DEF EndedWhole, ContentNamed, StagedWhole
<1>12. SpawnAlone'
  BY <1>4, <1>5, LifecycleParts, LifecycleTypes DEF SpawnAlone, OneGeneration
<1> QED
  BY <1>8, <1>9, <1>10, <1>11, <1>12 DEF LifecycleInv

\* start(), and a caller of it that goes on
LEMMA WaitKeeps ==
    ASSUME LifecycleInv, NEW for \in {"none", "ending", "exit", "spawn"},
           NEW exit \in BOOLEAN, Wait(for, exit)
    PROVE  LifecycleInv'
<1>1. TypeOK'
  BY LifecycleTypes DEF Wait, TypeOK, processVars, contentVars, coroutineVars
<1>2. spawn.pc \in {"stopping", "fence", "fenced"} => leader[spawn.proc] # "up"
  BY LifecycleParts DEF SpawnAlone
<1> QED
  BY <1>1, <1>2, QuietStep DEF Wait, processVars, contentVars, coroutineVars

LEMMA StartKeeps ==
    ASSUME LifecycleInv, Start
    PROVE  LifecycleInv'
<1>1. finalizing \in BOOLEAN /\ TRUE \in BOOLEAN
  BY LifecycleTypes
<1>2. CASE \E for \in {"none", "ending", "exit", "spawn"}, exit \in BOOLEAN : Wait(for, exit)
  BY <1>2, WaitKeeps
<1>3. CASE Spawn /\ ~Refused /\ ending = NoEnding /\ spawn = NoSpawn /\ proc = 0
  BY <1>3, SpawnKeeps
<1> QED
  BY <1>1, <1>2, <1>3 DEF Start

\* A step of a fork in the current process: nothing moves but the fork and the
\* content it stages.
LEMMA ForkMoves ==
    ASSUME LifecycleInv, TypeOK',
           UNCHANGED <<starts, token, leader, reason, proc, failed, spawn, starter, finalizing,
                       retained, discarded, compaction, ready, ending, refused>>,
           proc # 0, owner' # 0, ending = NoEnding,
           fork'.proc \in {0, fork.proc} \/ (fork'.proc = proc /\ ready),
           Custodian', ContentNamed', StagedWhole',
           UNCHANGED <<owner, item>> \/ fork.proc = proc
    PROVE  LifecycleInv'
<1>1. CleanStart'
  BY LifecycleParts, LifecycleTypes DEF CleanStart, SpawnAlone, OneGeneration
<1>2. OneGeneration'
  BY LifecycleParts, LifecycleTypes DEF OneGeneration
<1>3. EndedWhole'
  BY LifecycleParts DEF EndedWhole
<1>4. SpawnAlone'
  BY LifecycleParts, LifecycleTypes DEF SpawnAlone
<1> QED
  BY <1>1, <1>2, <1>3, <1>4 DEF LifecycleInv

\* What is known of a fork whose stage is current.
LEMMA ForkIsStaged ==
    ASSUME LifecycleInv, staged
    PROVE  /\ proc # 0 /\ fork.proc = proc /\ ending = NoEnding /\ ending.items = {}
           /\ ~retained /\ owner # 0 /\ owner \in Item
<1>1. proc # 0 /\ fork.proc = proc /\ ending = NoEnding /\ ~retained
  BY LifecycleParts, LifecycleTypes DEF EndedWhole, StagedWhole, Custodian
<1>2. ending.items = {}
  BY <1>1 DEF NoEnding
<1>3. owner # 0
  BY <1>1, LifecycleParts DEF EndedWhole
<1> QED
  BY <1>1, <1>2, <1>3, LifecycleTypes, Bounded

LEMMA ForkKeeps ==
    ASSUME LifecycleInv,
           \/ ForkBegins \/ ForkPayload \/ ForkRefused \/ ForkVerify \/ ForkChild
           \/ ForkApplied \/ ForkDone \/ ForkFails \/ ForkStopped
    PROVE  LifecycleInv'
<1>1. /\ owner \in 0..MaxItem /\ retired \in 0..MaxItem /\ item \in [Item -> Custody]
      /\ fork \in [pc : ForkPC, proc : 0..MaxStarts, parent : 0..MaxItem,
                   candidate : 0..MaxItem, ledger : 0..MaxItem]
      /\ state \in State /\ proc \in 0..MaxStarts /\ staged \in BOOLEAN /\ working \in BOOLEAN
  BY LifecycleTypes
<1>2. Refreshed \in State
  BY <1>1 DEF Refreshed, State
<1>3. Unmade # {} => NextItem \in Item /\ NextItem # 0 /\ NextItem \in 0..MaxItem /\ item[NextItem] = "none"
  BY NextUnmade, LifecycleBounds DEF Unmade, Item
<1>4. staged => /\ fork.proc = proc /\ fork.pc \in {"response", "verify", "load", "retire"}
                /\ fork.pc \in {"response", "verify"} => fork.candidate = 0 /\ owner = fork.parent
                /\ fork.pc = "load" => /\ fork.candidate \notin {0, owner} /\ owner = fork.parent
                                       /\ item[fork.candidate] = "held"
                /\ fork.pc = "retire" => fork.candidate = owner /\ fork.ledger = 0
                /\ fork.ledger # 0 => /\ item[fork.ledger] = "held"
                                      /\ fork.ledger \notin {owner, fork.candidate}
  BY LifecycleParts DEF StagedWhole
<1>5. /\ owner # 0 => item[owner] \in {"held", "sealed"}
      /\ retired # 0 => item[retired] = "releasing"
      /\ discarded # 0 => item[discarded] = "releasing"
  BY LifecycleParts DEF ContentNamed
<1>6. /\ \A i \in Item : item[i] \in {"held", "sealed"} => i = owner \/ i \in StageItems(fork)
      /\ \A i \in Item : item[i] = "releasing" => i \in {retired, discarded} \/ i \in ending.items
  BY LifecycleParts DEF Custodian
<1>7. proc # 0 => owner # 0
  BY LifecycleParts DEF EndedWhole
<1>10. CASE ForkBegins
  <2>1. /\ fork' = [NoFork EXCEPT !.pc = "response", !.proc = proc, !.parent = owner]
        /\ staged' = TRUE /\ ~staged /\ proc # 0 /\ ending = NoEnding /\ ready
        /\ UNCHANGED <<starts, token, leader, reason, proc, failed, spawn, starter, finalizing,
                       owner, retained, retired, discarded, item, compaction, state, ready,
                       ending, refused, working>>
    BY <1>1, <1>4, <1>10 DEF ForkBegins, Up, processVars, startVars, contentVars, NoFork
  <2>2. /\ fork'.proc = proc /\ fork'.pc = "response" /\ fork'.parent = owner
        /\ fork'.candidate = 0 /\ fork'.ledger = 0
    BY <2>1 DEF NoFork
  <2>3. fork' \in [pc : ForkPC, proc : 0..MaxStarts, parent : 0..MaxItem,
                   candidate : 0..MaxItem, ledger : 0..MaxItem]
    BY <1>1, <2>1, Zeros DEF NoFork, ForkPC
  <2>4. TypeOK'
    BY <2>1, <2>3, LifecycleTypes DEF TypeOK
  <2>5. Custodian' /\ ContentNamed' /\ StagedWhole'
    BY <1>5, <1>6, <2>1, <2>2 DEF Custodian, ContentNamed, StagedWhole, StageItems
  <2> QED
    BY <1>7, <2>1, <2>2, <2>4, <2>5, ForkMoves
<1>11. CASE ForkPayload
  <2>1. /\ staged /\ fork.pc \in {"response", "verify", "load"} /\ fork.ledger = 0
        /\ fork' = [fork EXCEPT !.ledger = NextItem] /\ item' = [item EXCEPT ![NextItem] = "held"]
        /\ UNCHANGED <<starts, token, leader, reason, proc, failed, spawn, starter, finalizing,
                       owner, retained, retired, discarded, staged, compaction, state, ready,
                       ending, refused, working>>
    BY <1>11 DEF ForkPayload, CurrentFork, processVars, startVars
  <2>2. NextItem \in Item /\ NextItem # 0 /\ NextItem \in 0..MaxItem /\ item[NextItem] = "none"
    BY <1>3, <1>11 DEF ForkPayload
  <2>3. /\ fork' \in [pc : ForkPC, proc : 0..MaxStarts, parent : 0..MaxItem,
                      candidate : 0..MaxItem, ledger : 0..MaxItem]
        /\ fork'.proc = fork.proc /\ fork'.pc = fork.pc /\ fork'.candidate = fork.candidate
        /\ fork'.parent = fork.parent /\ fork'.ledger = NextItem
    BY <1>1, <2>1, <2>2
  <2>4. /\ item' \in [Item -> Custody] /\ item'[NextItem] = "held"
        /\ \A i \in Item \ {NextItem} : item'[i] = item[i]
    BY <1>1, <2>1, <2>2 DEF Custody
  <2>5. TypeOK'
    BY <2>1, <2>3, <2>4, LifecycleTypes DEF TypeOK
  <2>6. Custodian'
    BY <1>6, <2>1, <2>2, <2>3, <2>4, <1>5 DEF Custodian, StageItems
  <2>7. ContentNamed' /\ StagedWhole'
    BY <1>1, <1>4, <1>5, <2>1, <2>2, <2>3, <2>4, Bounded, LifecycleTypes DEF ContentNamed, StagedWhole
  <2> QED
    BY <2>1, <2>3, <2>5, <2>6, <2>7, ForkMoves, ForkIsStaged
<1>12. CASE ForkRefused
  <2>1. /\ staged /\ fork.pc \in {"response", "verify"} /\ item' = Drained
        /\ fork' = NoFork /\ staged' = FALSE /\ state' = Refreshed
        /\ UNCHANGED <<starts, token, leader, reason, proc, failed, spawn, starter, finalizing,
                       owner, retained, retired, discarded, compaction, ready, ending, refused,
                       working>>
    BY <1>12 DEF ForkRefused, CurrentFork, processVars, startVars
  <2>2. /\ item' \in [Item -> Custody]
        /\ fork.ledger # 0 => item'[fork.ledger] = "released"
        /\ \A i \in Item \ {fork.ledger} : item'[i] = item[i]
    BY <1>1, <2>1, Bounded DEF Drained, Custody
  <2>3. /\ fork'.proc = 0
        /\ fork' \in [pc : ForkPC, proc : 0..MaxStarts, parent : 0..MaxItem,
                      candidate : 0..MaxItem, ledger : 0..MaxItem]
    BY <2>1, Zeros DEF NoFork, ForkPC
  <2>4. TypeOK'
    <3>1. state' \in State /\ staged' \in BOOLEAN
      BY <1>2, <2>1
    <3> QED
      BY <3>1, <2>1, <2>2, <2>3, LifecycleTypes DEF TypeOK
  <2>5. Custodian'
    BY <1>4, <1>6, <2>1, <2>2, Bounded, LifecycleTypes DEF Custodian, StageItems
  <2>6. ContentNamed' /\ StagedWhole'
    BY <1>1, <1>4, <1>5, <2>1, <2>2, Bounded, LifecycleTypes DEF ContentNamed, StagedWhole
  <2> QED
    BY <2>1, <2>3, <2>4, <2>5, <2>6, ForkMoves, ForkIsStaged
<1>13. CASE ForkVerify
  <2>1. /\ staged /\ fork.pc = "response" /\ fork' = [fork EXCEPT !.pc = "verify"]
        /\ UNCHANGED <<starts, token, leader, reason, proc, failed, spawn, starter, finalizing,
                       owner, retained, retired, discarded, item, staged, compaction, state,
                       ready, ending, refused, working>>
    BY <1>13 DEF ForkVerify, CurrentFork, processVars, startVars, contentVars
  <2>2. /\ fork' \in [pc : ForkPC, proc : 0..MaxStarts, parent : 0..MaxItem,
                      candidate : 0..MaxItem, ledger : 0..MaxItem]
        /\ fork'.proc = fork.proc /\ fork'.pc = "verify" /\ fork'.candidate = fork.candidate
        /\ fork'.parent = fork.parent /\ fork'.ledger = fork.ledger
    BY <1>1, <2>1 DEF ForkPC
  <2>3. TypeOK'
    BY <2>1, <2>2, LifecycleTypes DEF TypeOK
  <2>4. Custodian' /\ ContentNamed' /\ StagedWhole'
    BY <1>4, <1>5, <1>6, <2>1, <2>2 DEF Custodian, StageItems, ContentNamed, StagedWhole
  <2> QED
    BY <2>1, <2>2, <2>3, <2>4, ForkMoves, ForkIsStaged
<1>14. CASE ForkChild
  <2>1. /\ staged /\ fork.pc = "verify"
        /\ fork' = [fork EXCEPT !.pc = "load", !.candidate = NextItem]
        /\ item' = [item EXCEPT ![NextItem] = "held"]
        /\ UNCHANGED <<starts, token, leader, reason, proc, failed, spawn, starter, finalizing,
                       owner, retained, retired, discarded, staged, compaction, state, ready,
                       ending, refused, working>>
    BY <1>14 DEF ForkChild, CurrentFork, processVars, startVars
  <2>2. NextItem \in Item /\ NextItem # 0 /\ NextItem \in 0..MaxItem /\ item[NextItem] = "none"
    BY <1>3, <1>14 DEF ForkChild
  <2>3. /\ fork' \in [pc : ForkPC, proc : 0..MaxStarts, parent : 0..MaxItem,
                      candidate : 0..MaxItem, ledger : 0..MaxItem]
        /\ fork'.proc = fork.proc /\ fork'.pc = "load" /\ fork'.candidate = NextItem
        /\ fork'.parent = fork.parent /\ fork'.ledger = fork.ledger
    BY <1>1, <2>1, <2>2 DEF ForkPC
  <2>4. /\ item' \in [Item -> Custody] /\ item'[NextItem] = "held"
        /\ \A i \in Item \ {NextItem} : item'[i] = item[i]
    BY <1>1, <2>1, <2>2 DEF Custody
  <2>5. TypeOK'
    BY <2>1, <2>3, <2>4, LifecycleTypes DEF TypeOK
  <2>6. Custodian'
    BY <1>4, <1>5, <1>6, <2>1, <2>2, <2>3, <2>4 DEF Custodian, StageItems
  <2>7. ContentNamed' /\ StagedWhole'
    BY <1>1, <1>4, <1>5, <2>1, <2>2, <2>3, <2>4, Bounded, LifecycleTypes DEF ContentNamed, StagedWhole
  <2> QED
    BY <2>1, <2>3, <2>5, <2>6, <2>7, ForkMoves, ForkIsStaged
<1>15. CASE ForkApplied
  <2>1. /\ staged /\ fork.pc = "load" /\ retired = 0 /\ owner' = fork.candidate
        /\ retired' = fork.parent /\ item' = [Drained EXCEPT ![fork.parent] = "releasing"]
        /\ fork' = [fork EXCEPT !.pc = "retire", !.ledger = 0] /\ state' = "idle"
        /\ UNCHANGED <<starts, token, leader, reason, proc, failed, spawn, starter, finalizing,
                       retained, discarded, staged, compaction, ready, ending, refused, working>>
    BY <1>15 DEF ForkApplied, CurrentFork, processVars, startVars
  <2>2. /\ fork.parent = owner /\ owner # 0 /\ owner \in Item /\ ending.items = {}
        /\ fork.candidate \in Item /\ fork.candidate # owner /\ item[fork.candidate] = "held"
        /\ fork.ledger # fork.candidate /\ fork.ledger # owner
    BY <1>1, <1>4, <2>1, ForkIsStaged, Bounded
  <2>3. /\ Drained \in [Item -> Custody]
        /\ fork.ledger # 0 => Drained[fork.ledger] = "released"
        /\ \A i \in Item \ {fork.ledger} : Drained[i] = item[i]
    BY <1>1, Bounded DEF Drained, Custody
  <2>4. /\ item' \in [Item -> Custody] /\ item'[owner] = "releasing"
        /\ item'[fork.candidate] = "held" /\ (fork.ledger # 0 => item'[fork.ledger] = "released")
        /\ \A i \in Item \ {owner, fork.ledger} : item'[i] = item[i]
    BY <1>1, <2>1, <2>2, <2>3, Bounded DEF Custody
  <2>5. /\ fork' \in [pc : ForkPC, proc : 0..MaxStarts, parent : 0..MaxItem,
                      candidate : 0..MaxItem, ledger : 0..MaxItem]
        /\ fork'.proc = fork.proc /\ fork'.pc = "retire" /\ fork'.candidate = fork.candidate
        /\ fork'.ledger = 0
    BY <1>1, <2>1, Zeros DEF ForkPC
  <2>6. TypeOK'
    BY <1>1, <2>1, <2>4, <2>5, LifecycleTypes DEF TypeOK, State
  <2>7. Custodian'
    BY <1>6, <2>1, <2>2, <2>4, <2>5, Bounded, LifecycleTypes DEF Custodian, StageItems
  <2>8. ContentNamed' /\ StagedWhole'
    BY <1>1, <1>4, <1>5, <2>1, <2>2, <2>4, <2>5, Bounded, LifecycleTypes DEF ContentNamed, StagedWhole
  <2> QED
    BY <2>1, <2>2, <2>5, <2>6, <2>7, <2>8, Bounded, ForkMoves, ForkIsStaged
<1>16. CASE ForkDone
  <2>1. /\ fork.pc = "retire" /\ fork' = NoFork /\ staged' = FALSE /\ state' = Refreshed
        /\ ending = NoEnding
        /\ UNCHANGED <<starts, token, leader, reason, proc, failed, spawn, starter, finalizing,
                       owner, retained, retired, discarded, item, compaction, ready, ending,
                       refused, working>>
    BY <1>16 DEF ForkDone, processVars, startVars, contentVars
  <2>2. /\ fork'.proc = 0
        /\ fork' \in [pc : ForkPC, proc : 0..MaxStarts, parent : 0..MaxItem,
                      candidate : 0..MaxItem, ledger : 0..MaxItem]
    BY <2>1, Zeros DEF NoFork, ForkPC
  <2>3. TypeOK'
    <3>1. state' \in State /\ staged' \in BOOLEAN
      BY <1>2, <2>1
    <3> QED
      BY <3>1, <2>1, <2>2, LifecycleTypes DEF TypeOK
  <2>4. CASE ~staged
    <3>1. spawn.pc \in {"stopping", "fence", "fenced"} => leader[spawn.proc] # "up"
      BY LifecycleParts DEF SpawnAlone
    <3>2. staged = FALSE
      BY <1>1, <2>4
    <3> QED
      BY <1>1, <2>1, <2>2, <2>3, <2>4, <3>1, <3>2, QuietStep
  <2>5. CASE staged
    <3>1. Custodian' /\ ContentNamed' /\ StagedWhole'
      BY <1>4, <1>5, <1>6, <2>1, <2>5 DEF Custodian, StageItems, ContentNamed, StagedWhole
    <3> QED
      BY <2>1, <2>2, <2>3, <2>5, <3>1, ForkMoves, ForkIsStaged
  <2> QED
    BY <1>1, <2>4, <2>5
<1>17. CASE ForkFails
  BY <1>17, StopNowKeeps DEF ForkFails
<1>18. CASE ForkStopped
  <2>1. /\ fork.pc = "stopped" /\ fork' = NoFork /\ staged' = FALSE /\ state' = Refreshed
        /\ UNCHANGED <<starts, token, leader, reason, proc, failed, spawn, starter, finalizing,
                       owner, retained, retired, discarded, item, compaction, ready, ending,
                       refused, working>>
    BY <1>18 DEF ForkStopped, processVars, startVars, contentVars
  <2>2. staged = FALSE
    BY <1>1, <1>4, <2>1
  <2>3. /\ fork'.proc = 0
        /\ fork' \in [pc : ForkPC, proc : 0..MaxStarts, parent : 0..MaxItem,
                      candidate : 0..MaxItem, ledger : 0..MaxItem]
    BY <2>1, Zeros DEF NoFork, ForkPC
  <2>4. TypeOK'
    <3>1. state' \in State /\ staged' \in BOOLEAN
      BY <1>2, <2>1
    <3> QED
      BY <3>1, <2>1, <2>3, LifecycleTypes DEF TypeOK
  <2>5. spawn.pc \in {"stopping", "fence", "fenced"} => leader[spawn.proc] # "up"
    BY LifecycleParts DEF SpawnAlone
  <2> QED
    BY <2>1, <2>2, <2>3, <2>4, <2>5, QuietStep
<1> QED
  BY <1>10, <1>11, <1>12, <1>13, <1>14, <1>15, <1>16, <1>17, <1>18

LEMMA SpawnStepsKeep ==
    ASSUME LifecycleInv, SpawnReady \/ SpawnDone \/ SpawnFails \/ SpawnStopped \/ SpawnEnds
    PROVE  LifecycleInv'
<1>1. /\ spawn \in [pc : SpawnPC, proc : 0..MaxStarts] /\ leader \in [Proc -> Leader]
      /\ proc \in 0..MaxStarts
  BY LifecycleTypes
<1>2. spawn.pc # "none" =>
         /\ spawn.proc \in Proc /\ ~ready
         /\ spawn.pc \in {"stopping", "fence", "fenced"} => leader[spawn.proc] # "up"
  BY <1>1, LifecycleParts, LifecycleTypes, Bounded DEF SpawnAlone
<1>3. CASE SpawnReady
  <2>1. /\ spawn.pc = "ready" /\ spawn' = [spawn EXCEPT !.pc = "base"]
        /\ UNCHANGED <<starts, token, leader, reason, proc, failed, starter, finalizing, owner,
                       retained, retired, discarded, item, fork, staged, compaction, state,
                       ready, ending, refused, working>>
    BY <1>3 DEF SpawnReady, processVars, contentVars, coroutineVars
  <2>2. spawn' \in [pc : SpawnPC, proc : 0..MaxStarts] /\ spawn'.pc = "base" /\ spawn'.proc = spawn.proc
    BY <1>1, <2>1 DEF SpawnPC
  <2>3. TypeOK'
    BY <2>1, <2>2, LifecycleTypes DEF TypeOK
  <2> QED
    BY <2>1, <2>2, <2>3, QuietStep
<1>4. CASE SpawnDone
  <2>1. /\ spawn' = NoSpawn /\ ready' = TRUE /\ state' \in State
        /\ UNCHANGED <<starts, token, leader, reason, proc, failed, starter, finalizing, owner,
                       retained, retired, discarded, item, fork, staged, compaction, ending,
                       refused, working>>
    BY <1>4 DEF SpawnDone, processVars, contentVars, coroutineVars, State
  <2>2. spawn' \in [pc : SpawnPC, proc : 0..MaxStarts] /\ spawn'.pc = "none"
    BY <2>1, Zeros DEF NoSpawn, SpawnPC
  <2>3. TypeOK'
    BY <2>1, <2>2, LifecycleTypes DEF TypeOK
  <2> QED
    BY <2>1, <2>2, <2>3, QuietStep
<1>5. CASE SpawnFails
  <2>1. /\ spawn.pc \in {"ready", "base"} /\ spawn' = [spawn EXCEPT !.pc = "stopping"]
        /\ leader' = IF Alive(spawn.proc) THEN Stopped(spawn.proc) ELSE leader
        /\ refused' \in SUBSET Refusal
        /\ UNCHANGED <<starts, token, reason, proc, failed, starter, finalizing, owner,
                       retained, retired, discarded, item, fork, staged, compaction, state,
                       ready, ending, working>>
    <3>1. refused' \in SUBSET Refusal
      BY <1>5, LifecycleTypes DEF SpawnFails, Refusal
    <3> QED
      BY <1>5, <3>1 DEF SpawnFails, contentVars, coroutineVars
  <2>2. /\ spawn' \in [pc : SpawnPC, proc : 0..MaxStarts] /\ spawn'.pc = "stopping"
        /\ spawn'.proc = spawn.proc
    BY <1>1, <2>1 DEF SpawnPC
  <2>3. /\ leader' \in [Proc -> Leader] /\ leader'[spawn.proc] # "up"
        /\ \A p \in Proc : leader'[p] = "up" => leader[p] = "up"
    BY <1>1, <1>2, <2>1, Bounded DEF Alive, Stopped, Leader
  <2>4. TypeOK'
    BY <2>1, <2>2, <2>3, LifecycleTypes DEF TypeOK
  <2> QED
    BY <2>1, <2>2, <2>3, <2>4, QuietStep
<1>6. CASE SpawnStopped
  <2>1. /\ spawn.pc = "stopping" /\ spawn.proc \in Proc /\ Fail(spawn.proc)
        /\ leader[spawn.proc] # "up"
        /\ spawn' \in {[spawn EXCEPT !.pc = "fence"], NoSpawn}
        /\ UNCHANGED <<starts, leader, reason, starter, discarded, fork, compaction, ready>>
    BY <1>2, <1>6 DEF SpawnStopped
  <2>2. /\ spawn' \in [pc : SpawnPC, proc : 0..MaxStarts]
        /\ \/ spawn'.pc = "none"
           \/ spawn'.pc = "fence" /\ spawn'.proc = spawn.proc
    BY <1>1, <2>1, Zeros DEF NoSpawn, SpawnPC
  <2> QED
    BY <1>1, <2>1, <2>2, FailKeeps
<1>7. CASE SpawnEnds
  <2>1. /\ spawn' = NoSpawn
        /\ UNCHANGED <<starts, token, leader, reason, proc, failed, starter, finalizing, owner,
                       retained, retired, discarded, item, fork, staged, compaction, state,
                       ready, ending, refused, working>>
    BY <1>7 DEF SpawnEnds, processVars, contentVars, coroutineVars
  <2>2. spawn' \in [pc : SpawnPC, proc : 0..MaxStarts] /\ spawn'.pc = "none"
    BY <2>1, Zeros DEF NoSpawn, SpawnPC
  <2>3. TypeOK'
    BY <2>1, <2>2, LifecycleTypes DEF TypeOK
  <2> QED
    BY <2>1, <2>2, <2>3, QuietStep
<1> QED
  BY <1>3, <1>4, <1>5, <1>6, <1>7

LEMMA ProcessStepsKeep ==
    ASSUME LifecycleInv, NEW p \in Proc, ProcessStep(p)
    PROVE  LifecycleInv'
<1>1. leader \in [Proc -> Leader] /\ reason \in [Proc -> Reason]
  BY LifecycleTypes
<1>2. spawn.pc \in {"stopping", "fence", "fenced"} => leader[spawn.proc] # "up" /\ spawn.proc \in Proc
  BY LifecycleParts, LifecycleTypes, Bounded DEF SpawnAlone
<1>3. ASSUME NEW l \in Leader \ {"up"}, leader' = [leader EXCEPT ![p] = l], reason' \in [Proc -> Reason],
             UNCHANGED <<starts, token, proc, failed, spawn, starter, finalizing, owner,
                         retained, retired, discarded, item, fork, staged, compaction, state,
                         ready, ending, refused, working>>
      PROVE  LifecycleInv'
  <2>1. /\ leader' \in [Proc -> Leader] /\ \A q \in Proc : leader'[q] = "up" => leader[q] = "up"
    BY <1>1, <1>3
  <2>2. spawn.pc \in {"stopping", "fence", "fenced"} => leader'[spawn.proc] # "up"
    BY <1>2, <2>1
  <2>3. TypeOK'
    BY <1>3, <2>1, LifecycleTypes DEF TypeOK
  <2> QED
    BY <1>3, <2>1, <2>2, <2>3, QuietStep
<1>4. CASE LeaderExits(p)
  BY <1>1, <1>3, <1>4
     DEF LeaderExits, Leader, startVars, contentVars, coroutineVars
<1>5. CASE Finalize(p)
  <2>1. reason' \in [Proc -> Reason]
    BY <1>1, <1>5 DEF Finalize, Reason
  <2> QED
    BY <1>3, <1>5, <2>1 DEF Finalize, Leader, startVars, contentVars, coroutineVars
<1>6. CASE ReportExit(p)
  <2>1. /\ leader' \in [Proc -> Leader] /\ leader'[p] # "up"
        /\ \A q \in Proc : leader'[q] = "up" => leader[q] = "up"
        /\ Fail(p)
        /\ UNCHANGED <<starts, reason, spawn, starter, discarded, fork, compaction, ready>>
    BY <1>1, <1>6 DEF ReportExit, Leader
  <2>2. spawn.pc \in {"stopping", "fence", "fenced"} => leader'[spawn.proc] # "up"
    BY <1>2, <2>1
  <2>3. spawn \in [pc : SpawnPC, proc : 0..MaxStarts]
    BY LifecycleTypes
  <2> QED
    BY <2>1, <2>2, <2>3, FailKeeps
<1>7. CASE ProcessStopped(p)
  BY <1>1, <1>3, <1>7
     DEF ProcessStopped, Leader, startVars, contentVars, coroutineVars
<1> QED
  BY <1>4, <1>5, <1>6, <1>7 DEF ProcessStep

\* A release that settles frees what names it; one that fails in a running
\* generation ends it.
LEMMA ItemSettlesKeeps ==
    ASSUME LifecycleInv, NEW i \in Item, ItemSettles(i)
    PROVE  LifecycleInv'
<1>1. /\ item \in [Item -> Custody] /\ item[i] = "releasing" /\ retired \in 0..MaxItem
      /\ discarded \in 0..MaxItem
      /\ ending \in [kind : {"none", "stop", "terminal", "projection"}, proc : 0..MaxStarts,
                     items : SUBSET Item, spawn : BOOLEAN, lost : BOOLEAN]
  BY LifecycleTypes DEF ItemSettles
<1>2. UNCHANGED <<starts, reason, spawn, starter, finalizing, fork, compaction, refused>>
  BY DEF ItemSettles, startVars
<1>3. PICK result \in {"released", "lost"} :
          \/ /\ i \notin {retired, discarded} \/ result = "released" \/ owner = 0 \/ proc = 0
             /\ item' = [item EXCEPT ![i] = result]
             /\ retired' = IF i = retired THEN 0 ELSE retired
             /\ discarded' = IF i = discarded THEN 0 ELSE discarded
             /\ ending' = IF i \in ending.items /\ result = "lost"
                            THEN [ending EXCEPT !.lost = TRUE] ELSE ending
             /\ UNCHANGED <<token, leader, proc, owner, retained, ready, state, failed,
                            staged, working>>
          \/ /\ i \in {retired, discarded} /\ result = "lost" /\ owner # 0 /\ proc # 0
             /\ token' = 0 /\ failed' = token
             /\ leader' = Stopped(proc)
             /\ proc' = 0 /\ owner' = 0 /\ retained' = FALSE /\ retired' = 0
             /\ discarded' = 0
             /\ item' = [Releasing(Remains) EXCEPT ![i] = "lost"]
             /\ ending' = [Ending("terminal", proc, Remains \ {i}, FALSE) EXCEPT !.lost = TRUE]
             /\ ready' = FALSE /\ state' = "crashed"
             /\ ClearOwned
  BY DEF ItemSettles
<1>4. CASE /\ item' = [item EXCEPT ![i] = result]
           /\ retired' = IF i = retired THEN 0 ELSE retired
           /\ discarded' = IF i = discarded THEN 0 ELSE discarded
           /\ ending' = IF i \in ending.items /\ result = "lost"
                          THEN [ending EXCEPT !.lost = TRUE] ELSE ending
           /\ UNCHANGED <<token, leader, proc, owner, retained, ready, state, failed,
                          staged, working>>
  <2>1. /\ item' \in [Item -> Custody] /\ item'[i] \in {"released", "lost"}
        /\ \A j \in Item \ {i} : item'[j] = item[j]
    BY <1>1, <1>4 DEF Custody
  <2>2. /\ ending'.items = ending.items
        /\ ending' \in [kind : {"none", "stop", "terminal", "projection"}, proc : 0..MaxStarts,
                        items : SUBSET Item, spawn : BOOLEAN, lost : BOOLEAN]
    BY <1>1, <1>4
  <2>3. ending = NoEnding => ending' = NoEnding
    BY <1>4 DEF NoEnding
  <2>4. retired' \in 0..MaxItem /\ discarded' \in 0..MaxItem
    BY <1>1, <1>4, Zeros
  <2>5. TypeOK'
    BY <1>2, <1>4, <2>1, <2>2, <2>4, LifecycleTypes DEF TypeOK
  <2>6. Custodian'
    BY <1>2, <1>4, <2>1, <2>2, LifecycleParts DEF Custodian, StageItems
  <2>7. CleanStart'
    BY <1>2, <1>4, <2>1, LifecycleParts DEF CleanStart
  <2>8. OneGeneration' /\ SpawnAlone'
    BY <1>2, <1>4, LifecycleParts DEF OneGeneration, SpawnAlone
  <2>9. EndedWhole'
    BY <1>2, <1>4, <2>2, <2>3, LifecycleParts DEF EndedWhole
  <2>10. ContentNamed' /\ StagedWhole'
    BY <1>1, <1>2, <1>4, <2>1, LifecycleParts, LifecycleTypes, Bounded DEF ContentNamed, StagedWhole
  <2> QED
    BY <2>5, <2>6, <2>7, <2>8, <2>9, <2>10 DEF LifecycleInv
<1>5. CASE /\ owner # 0 /\ proc # 0
           /\ token' = 0 /\ failed' = token
           /\ leader' = Stopped(proc)
           /\ proc' = 0 /\ owner' = 0 /\ retained' = FALSE /\ retired' = 0
           /\ discarded' = 0
           /\ item' = [Releasing(Remains) EXCEPT ![i] = "lost"]
           /\ ending' = [Ending("terminal", proc, Remains \ {i}, FALSE) EXCEPT !.lost = TRUE]
           /\ ready' = FALSE /\ state' = "crashed"
           /\ ClearOwned
  <2>1. ending.items = {} /\ ending'.items = Remains \ {i}
    BY <1>5, LifecycleParts DEF EndedWhole, NoEnding, Ending
  <2>2. /\ item' \in [Item -> Custody]
        /\ \A j \in Item : /\ item'[j] \notin {"held", "sealed"}
                           /\ item'[j] = "releasing" => j \in ending'.items
    BY <1>5, <2>1, RemainsReleased DEF Custody
  <2>3. ending' \in [kind : {"none", "stop", "terminal", "projection"}, proc : 0..MaxStarts,
                     items : SUBSET Item, spawn : BOOLEAN, lost : BOOLEAN]
    BY <1>5, LifecycleTypes, RemainsReleased DEF Ending
  <2>4. leader' \in [Proc -> Leader] /\ \A p \in Proc : leader'[p] # "up"
    BY <1>5, StoppedNotUp
  <2>5. TypeOK'
    BY <1>2, <1>5, <2>2, <2>3, <2>4, LifecycleTypes, Zeros DEF TypeOK, State, ClearOwned
  <2> QED
    BY <1>2, <1>5, <2>2, <2>4, <2>5, GenerationEnds DEF ClearOwned
<1> QED
  BY <1>3, <1>4, <1>5

\* stopPromise settles when nothing is left to be released.
LEMMA EndingSettlesKeeps ==
    ASSUME LifecycleInv, EndingSettles
    PROVE  LifecycleInv'
<1>1. /\ proc = 0 /\ owner = 0 /\ retired = 0 /\ staged = FALSE /\ retained = FALSE
  BY LifecycleParts, LifecycleTypes DEF EndingSettles, EndedWhole
<1>2. \A i \in ending.items : item[i] \notin {"held", "sealed", "releasing"}
  BY DEF EndingSettles
<1>3. discarded = 0
  BY <1>1, <1>2, LifecycleParts DEF EndedWhole, ContentNamed
<1>4. \A i \in Item : item[i] \notin {"held", "sealed", "releasing"}
  BY <1>1, <1>2, <1>3, Bounded, LifecycleParts DEF Custodian, StageItems, Item
<1>5. /\ ending' = NoEnding /\ state' \in State
      /\ UNCHANGED <<starts, token, leader, reason, proc, failed, starter, owner, retained,
                     retired, discarded, item, staged, compaction, ready, working>>
  BY LifecycleTypes DEF EndingSettles, processVars, contentVars, State
<1>6. /\ refused' \in SUBSET Refusal /\ finalizing' \in BOOLEAN
  BY LifecycleTypes DEF EndingSettles, Refusal
<1>7. /\ spawn' \in [pc : SpawnPC, proc : 0..MaxStarts] /\ spawn'.proc = spawn.proc
      /\ spawn' = spawn \/ (spawn.pc = "fence" /\ spawn'.pc = "fenced")
  BY LifecycleTypes DEF EndingSettles, SpawnPC
<1>8. /\ fork'.proc = fork.proc
      /\ fork' \in [pc : ForkPC, proc : 0..MaxStarts, parent : 0..MaxItem,
                    candidate : 0..MaxItem, ledger : 0..MaxItem]
  BY LifecycleTypes DEF EndingSettles, ForkPC
<1>9. ending' \in [kind : {"none", "stop", "terminal", "projection"}, proc : 0..MaxStarts,
                   items : SUBSET Item, spawn : BOOLEAN, lost : BOOLEAN]
  BY <1>5, Zeros DEF NoEnding
<1>10. TypeOK'
  BY <1>5, <1>6, <1>7, <1>8, <1>9, LifecycleTypes DEF TypeOK
<1>11. Custodian' /\ CleanStart' /\ ContentNamed' /\ StagedWhole'
  BY <1>1, <1>3, <1>4, <1>5 DEF Custodian, CleanStart, ContentNamed, StagedWhole
<1>12. OneGeneration' /\ EndedWhole'
  BY <1>1, <1>3, <1>5, <1>8, LifecycleParts DEF OneGeneration, EndedWhole
<1>13. SpawnAlone'
  BY <1>5, <1>7, <1>8, LifecycleParts DEF SpawnAlone
<1> QED
  BY <1>10, <1>11, <1>12, <1>13 DEF LifecycleInv

\* A compaction whose base came too late throws its payloads away.
LEMMA CompactionKeeps ==
    ASSUME LifecycleInv, CompactionBegins \/ CompactionEnds \/ CompactionDiscards
    PROVE  LifecycleInv'
<1>1. /\ state \in State /\ proc \in 0..MaxStarts /\ owner \in 0..MaxItem
      /\ item \in [Item -> Custody] /\ working \in BOOLEAN
      /\ compaction \in [from : {"none", "file", "process"}, proc : 0..MaxStarts, owner : 0..MaxItem]
  BY LifecycleTypes
<1>2. Refreshed \in State
  BY <1>1 DEF Refreshed, State
<1>3. spawn.pc \in {"stopping", "fence", "fenced"} => leader[spawn.proc] # "up"
  BY LifecycleParts DEF SpawnAlone
<1>4. /\ NoCompaction.proc = 0
      /\ NoCompaction \in [from : {"none", "file", "process"}, proc : 0..MaxStarts, owner : 0..MaxItem]
  BY Zeros DEF NoCompaction
<1>5. CASE CompactionBegins
  <2>1. /\ compaction' \in [from : {"none", "file", "process"}, proc : 0..MaxStarts,
                            owner : 0..MaxItem]
        /\ compaction'.proc = proc /\ ready
        /\ UNCHANGED <<starts, token, leader, reason, proc, failed, spawn, starter, finalizing,
                       owner, retained, retired, discarded, item, fork, staged, state, ready,
                       ending, refused, working>>
    BY <1>1, <1>5 DEF CompactionBegins, processVars, startVars, contentVars
  <2>2. TypeOK'
    BY <2>1, LifecycleTypes DEF TypeOK
  <2> QED
    BY <1>3, <2>1, <2>2, QuietStep
<1>6. CASE CompactionEnds
  <2>1. /\ compaction' = NoCompaction /\ state' \in State
        /\ UNCHANGED <<starts, token, leader, reason, proc, failed, spawn, starter, finalizing,
                       owner, retained, retired, discarded, item, fork, staged, ready,
                       ending, refused, working>>
    BY <1>2, <1>6 DEF CompactionEnds, processVars, startVars, contentVars
  <2>2. TypeOK'
    BY <1>4, <2>1, LifecycleTypes DEF TypeOK
  <2> QED
    BY <1>3, <1>4, <2>1, <2>2, QuietStep
<1>7. CASE CompactionDiscards
  <2>1. /\ compaction' = NoCompaction /\ state' \in State /\ discarded = 0
        /\ discarded' = NextItem /\ item' = [item EXCEPT ![NextItem] = "releasing"]
        /\ UNCHANGED <<starts, token, leader, reason, proc, failed, spawn, starter, finalizing,
                       owner, retained, retired, fork, staged, ready, ending, refused, working>>
    BY <1>2, <1>7 DEF CompactionDiscards, processVars, startVars
  <2>2. NextItem \in Item /\ NextItem # 0 /\ NextItem \in 0..MaxItem /\ item[NextItem] = "none"
    BY <1>7, NextUnmade, LifecycleBounds DEF CompactionDiscards, Unmade, Item
  <2>3. proc # 0 /\ compaction.proc = proc
    BY <1>1, <1>7, LifecycleParts, Bounded DEF CompactionDiscards, Up, OneGeneration
  <2>4. /\ item' \in [Item -> Custody] /\ item'[NextItem] = "releasing"
        /\ \A i \in Item \ {NextItem} : item'[i] = item[i]
    BY <1>1, <2>1, <2>2 DEF Custody
  <2>5. TypeOK'
    BY <1>4, <2>1, <2>2, <2>4, LifecycleTypes DEF TypeOK
  <2>6. Custodian'
    BY <2>1, <2>2, <2>4, LifecycleParts, LifecycleTypes, Bounded DEF Custodian, StageItems
  <2>7. CleanStart'
    BY <2>1, <2>3, LifecycleParts, LifecycleTypes DEF CleanStart, SpawnAlone, OneGeneration
  <2>8. OneGeneration' /\ SpawnAlone'
    BY <1>4, <2>1, LifecycleParts, LifecycleTypes DEF OneGeneration, SpawnAlone
  <2>9. EndedWhole'
    BY <2>1, <2>3, LifecycleParts DEF EndedWhole
  <2>10. ContentNamed' /\ StagedWhole'
    BY <2>1, <2>2, <2>4, LifecycleParts, LifecycleTypes, Bounded DEF ContentNamed, StagedWhole
  <2> QED
    BY <2>5, <2>6, <2>7, <2>8, <2>9, <2>10 DEF LifecycleInv
<1> QED
  BY <1>5, <1>6, <1>7

\* Every step of a runtime keeps its processes and its content in order.
LEMMA LifecycleStep ==
    ASSUME LifecycleInv, Next
    PROVE  LifecycleInv'
<1>1. CASE Open
  BY <1>1, StartKeeps DEF Open
<1>2. CASE StartAgain
  <2>1. finalizing \in BOOLEAN
    BY LifecycleTypes
  <2> QED
    BY <1>2, <2>1, StartKeeps, WaitKeeps DEF StartAgain
<1>3. CASE Work
  <2>1. working' \in BOOLEAN /\ state' \in State
    BY <1>3, LifecycleTypes DEF Work, State
  <2>2. TypeOK'
    BY <1>3, <2>1, LifecycleTypes
       DEF Work, TypeOK, processVars, startVars, contentVars, coroutineVars
  <2>3. spawn.pc \in {"stopping", "fence", "fenced"} => leader[spawn.proc] # "up"
    BY LifecycleParts DEF SpawnAlone
  <2> QED
    BY <1>3, <2>2, <2>3, QuietStep DEF Work, processVars, startVars, contentVars, coroutineVars
<1>4. CASE Stop
  BY <1>4, StopNowKeeps DEF Stop
<1>5. CASE Untrusted
  <2>1. proc # 0 /\ (spawn # NoSpawn) \in BOOLEAN
    BY <1>5 DEF Untrusted, Up
  <2>2. refused' \in SUBSET Refusal
    BY <1>5, LifecycleTypes DEF Untrusted, Refusal
  <2> QED
    BY <1>5, <2>1, <2>2, EndGenerationKeeps DEF Untrusted, TerminalizeProjection
<1>6. CASE ContentFails
  <2>1. proc # 0 /\ FALSE \in BOOLEAN
    BY <1>6 DEF ContentFails, CurrentOwner
  <2>2. refused' \in SUBSET Refusal
    BY <1>6, LifecycleTypes DEF ContentFails
  <2> QED
    BY <1>6, <2>1, <2>2, EndGenerationKeeps DEF ContentFails, TerminalizeContent
<1>7. CASE RetainedFails
  <2>1. /\ retained' = FALSE /\ owner' = 0 /\ item' = Releasing({owner})
        /\ ending' = [Ending("terminal", 0, {owner}, FALSE) EXCEPT !.lost = TRUE]
        /\ staged' = FALSE /\ working' = FALSE
        /\ UNCHANGED <<starts, token, leader, reason, proc, failed, spawn, starter, finalizing,
                       retired, discarded, fork, compaction, state, ready, refused>>
    BY <1>7 DEF RetainedFails, ClearOwned, processVars, startVars
  <2>2. /\ owner # 0 /\ owner \in Item /\ proc = 0 /\ discarded = 0 /\ retired = 0 /\ ~staged
        /\ ending.items = {}
    BY <1>7, LifecycleParts, LifecycleTypes, Bounded DEF RetainedFails, EndedWhole, NoEnding
  <2>3. /\ item' \in [Item -> Custody]
        /\ \A i \in Item : /\ item'[i] \notin {"held", "sealed"}
                           /\ item'[i] = "releasing" => i = owner
    BY <2>1, <2>2, LifecycleParts, LifecycleTypes, Bounded
       DEF Releasing, Custodian, StageItems, Custody, Item
  <2>4. ending'.items = {owner}
    BY <2>1 DEF Ending
  <2>5. ending' \in [kind : {"none", "stop", "terminal", "projection"}, proc : 0..MaxStarts,
                     items : SUBSET Item, spawn : BOOLEAN, lost : BOOLEAN]
    BY <2>1, <2>2, Zeros DEF Ending
  <2>6. TypeOK'
    BY <2>1, <2>3, <2>5, LifecycleTypes, Zeros DEF TypeOK
  <2>7. /\ token' = 0 \/ failed' = token'
        /\ \A p \in Proc : leader'[p] # "up"
    BY <2>1, <2>2, LifecycleParts, Bounded DEF OneGeneration, Proc
  <2> QED
    BY <2>1, <2>2, <2>3, <2>4, <2>6, <2>7, GenerationEnds
<1> QED
  BY <1>1, <1>2, <1>3, <1>4, <1>5, <1>6, <1>7, SpawnStepsKeep, ProcessStepsKeep,
     ItemSettlesKeeps, EndingSettlesKeeps, ForkKeeps, CompactionKeeps DEF Next

LEMMA LifecycleStart ==
    ASSUME Init
    PROVE  LifecycleInv
<1>1. spawn.pc = "none" /\ fork.proc = 0 /\ compaction.proc = 0 /\ starts = 0
  BY DEF Init, NoSpawn, NoFork, NoCompaction
<1>2. TypeOK
  BY Zeros DEF Init, TypeOK, Leader, Reason, State, NoSpawn, SpawnPC, NoEnding, NoFork, ForkPC,
               NoCompaction, Custody
<1>3. Custodian /\ CleanStart /\ ContentNamed /\ StagedWhole
  BY DEF Init, Custodian, CleanStart, ContentNamed, StagedWhole
<1>4. OneGeneration /\ EndedWhole /\ SpawnAlone
  BY <1>1, LifecycleBounds DEF Init, OneGeneration, EndedWhole, SpawnAlone, Proc
<1> QED
  BY <1>2, <1>3, <1>4 DEF LifecycleInv

LEMMA LifecycleInvariant == MCSpec => []LifecycleInv
<1>1. MCInit => LifecycleInv
  BY LifecycleStart DEF MCInit
<1>2. LifecycleInv /\ [MCNext]_all => LifecycleInv'
  <2> SUFFICES ASSUME LifecycleInv, [MCNext]_all PROVE LifecycleInv'
    OBVIOUS
  <2>1. CASE Next
    BY <2>1, LifecycleStep
  <2>2. CASE UNCHANGED vars
    BY <2>2
       DEF vars, processVars, startVars, contentVars, coroutineVars, LifecycleInv, TypeOK,
           Custodian, StageItems, CleanStart, OneGeneration, EndedWhole, ContentNamed,
           StagedWhole, SpawnAlone
  <2> QED
    BY <2>1, <2>2 DEF MCNext, Lives, Operates, Processes, all
<1> QED
  BY <1>1, <1>2, PTL DEF MCSpec

\* A crash, a stop, a fork or a compaction leaves no content behind that nobody
\* holds and nobody releases: session-runtime.ts, stop(), handleFailure,
\* terminalizeGenerationContentFailure and sendIdentityTransition.
THEOREM ContentIsKept == MCSpec => []KeepingExact
<1>1. LifecycleInv => KeepingExact
  BY DEF LifecycleInv, KeepingExact
<1> QED
  BY <1>1, LifecycleInvariant, PTL

\* spawn() is reached only when the content of every earlier generation has been
\* released or given up: session-runtime.ts, start() and stopPromise.
THEOREM StartsAreClean == MCSpec => []CleanStart
<1>1. LifecycleInv => CleanStart
  BY DEF LifecycleInv
<1> QED
  BY <1>1, LifecycleInvariant, PTL
=============================================================================
