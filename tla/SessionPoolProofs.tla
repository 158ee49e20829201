------------------------- MODULE SessionPoolProofs -------------------------
(***************************************************************************)
(* Proofs about SessionPool, for every number of operations, Sessions and  *)
(* runtimes, and for every cap.  PoolInv is the inductive invariant:       *)
(* TypeOK, what an operation is when it waits for something (Shape), the   *)
(* pool lock (Locked), what a body found when it took the lock and still   *)
(* finds (Roomy), which runtimes are tracked and have a Session            *)
(* (HomesTracked, HomesKnown, AdmittedTracked), which of them a creation   *)
(* alone knows, what a deletion keeps away from its Session, what shutdown *)
(* has stopped, and the caps.                                              *)
(***************************************************************************)
EXTENDS SessionPool, FiniteSetTheorems, TLAPS

-----------------------------------------------------------------------------
(* The inductive invariant. *)

\* Operations and bodies that go with each other.
ActivationBody == {"track", "start", "acquire", "restart"}
CreationBody == {"creation", "launch", "commitNew", "untrack", "endCreation"}
ForkPC == {"transit", "forking", "commit", "endTransit"}

\* A creation between its launch and its end, and a deletion or a forgetting
\* sweep between its reservation and its end.
Creating(t) ==
    /\ task[t].op = "create"
    /\ \/ task[t].pc \in {"starting", "started", "failed", "stopping", "stopped"}
       \/ task[t].pc \in {"commitNew", "untrack"}
Deleting(t) ==
    \/ task[t].op \in Management
       /\ task[t].pc \in {"stopping", "stopped", "operating", "forget", "finish"}
    \/ task[t].pc \in {"reaping", "reaped"}
\* A fork between the reservation of its workspace and its end.
Forks(t) ==
    \/ task[t].pc \in {"forking", "commit", "endTransit"}
    \/ task[t].op = "fork" /\ task[t].pc \in {"stopping", "stopped"}
\* The operation waits for this runtime to stop, with the Session reserved.
Stopping(t, r) ==
    \/ task[t].pc = "stopping" /\ task[t].runtime = r
    \/ task[t].pc = "reaping" /\ task[t].victim = r

HandleOps == {"view", "command", "fork", "timer", "restart"}
ShapeAt(t) ==
    /\ task[t].op \in HandleOps \union Management => task[t].handle \in Handle
    /\ task[t].pc \in Body \ {"sweepIdle"} => task[t].body = task[t].pc
    /\ task[t].op = "create" =>
          \/ task[t].pc \in CreationBody
          \/ task[t].pc \in {"stopping", "stopped"} /\ task[t].runtime \in Runtime
          \/ task[t].pc \in {"room", "evicting"} /\ task[t].body = "launch"
          \/ task[t].pc \in {"starting", "started", "failed"}
             /\ task[t].body = "launch" /\ task[t].runtime \in Runtime
    /\ task[t].pc \in {"commitNew", "untrack"} => task[t].runtime \in Runtime
    /\ task[t].pc \in CreationBody => task[t].op = "create"
    /\ task[t].op \in Management =>
          \/ task[t].pc \in {"reserve", "operating", "finish"}
          \/ task[t].pc \in {"stopping", "stopped", "forget"} /\ task[t].runtime \in Runtime
    /\ task[t].pc \in {"reserve", "operating", "forget", "finish"} =>
          task[t].op \in Management
    /\ task[t].op = "reap" =>
          /\ task[t].pc \in {"sweep", "sweepIdle", "evicting", "reaping", "reaped"}
          /\ task[t].body = "sweep"
    /\ task[t].pc \in {"sweep", "sweepIdle"} => task[t].op = "reap"
    /\ task[t].pc \in {"reaping", "reaped"} =>
          task[t].op = "reap" /\ task[t].handle \in Handle /\ task[t].victim \in Runtime
    /\ task[t].pc = "evicting" => task[t].victim \in Runtime
    /\ task[t].op \in HandleOps =>
          \/ task[t].pc \in {"resolve", "track"}
          \/ task[t].pc \in {"room", "evicting"} /\ task[t].body = "track"
          \/ /\ task[t].runtime \in Runtime
             /\ \/ task[t].pc \in {"start", "acquire", "restart"}
                \/ task[t].pc \in {"room", "evicting"} /\ task[t].body \in PinningBody
                \/ task[t].pc \in {"chained", "starting", "started", "failed"}
                   /\ task[t].body \in PinningBody \union {"join"}
                \/ task[t].pc = "working"
                \/ task[t].op = "fork"
                   /\ task[t].pc \in ForkPC \union {"stopping", "stopped"}
    /\ task[t].op = "none" => task[t].pc = "idle"
    /\ task[t].op # "none" => task[t].pc # "idle"
Shape == \A t \in Task : ShapeAt(t)

\* Who waits for the pool lock is in its queue, who works under it is at its head.
LockPC == {"room", "evicting", "reaping", "reaped"}
InQueue(t) == \E i \in DOMAIN queue : queue[i] = t
Locked ==
    \A t \in Task :
        /\ task[t].pc \in Body => InQueue(t)
        /\ task[t].pc \in LockPC => Holds(t)

\* What a body found when it took the lock, it finds after each eviction.
RoomyAt(t) ==
    (task[t].op # "reap" /\ task[t].pc \in {"room", "evicting"}) =>
        /\ task[t].body = "track" =>
              /\ runtimes[task[t].handle] = None /\ task[t].handle \notin deleting
              /\ ~PendingIdentity
        /\ task[t].body \in {"start", "restart"} => home[task[t].runtime] \notin deleting
        /\ task[t].body = "acquire" => task[t].handle \notin deleting
Roomy == \A t \in Task : RoomyAt(t)

\* A handle tracks the runtime that has it.
HomesTracked ==
    /\ \A h \in Handle : runtimes[h] # None =>
          home[runtimes[h]] = h /\ runtimes[h] \notin pending
    /\ \A r \in pending : home[r] # None

\* Whoever refers to a runtime refers to one that was given its Session.
HomesKnown ==
    /\ \A t \in Task : task[t].runtime # None => home[task[t].runtime] # None
    /\ \A h \in Handle : timers[h] # None => home[timers[h]] # None
    /\ \A r \in Runtime : leader[r] # "none" => home[r] # None

\* A process that was admitted is tracked, and the pool counts it.
AdmittedTracked ==
    \A r \in Alive \ unadmitted : Tracked(r) /\ Hot(r)

\* What a cleanup leaves behind is not kept, and a process works or is stopped.
PhasesFit ==
    \A r \in Runtime :
        /\ ending[r] = "cleanup" => phase[r] # "retained"
        /\ leader[r] = "alive" /\ ending[r] = "none" => phase[r] \in {"starting", "idle", "busy"}

\* A runtime at a temporary handle is known to its creation alone.
PendingKnown ==
    /\ \A r \in pending :
          /\ home[r] \notin files /\ phase[r] # "busy"
          /\ \A r2 \in Runtime \ {r} : home[r2] # home[r]
          /\ \A h \in Handle : timers[h] # r
          /\ \E t \in Task : /\ Creating(t) /\ task[t].runtime = r
                             /\ \A t2 \in Task : task[t2].runtime = r => t2 = t
    /\ \A t \in Task : Creating(t) =>
          /\ task[t].runtime \in pending \/ closing = "closed"
          /\ task[t].pc \in {"failed", "stopped", "untrack"} =>
                task[t].runtime \notin Alive \ unadmitted

\* Deletions, forks and creations exclude one another.
Excluded ==
    /\ deleting # {} => ~PendingIdentity
    /\ ~(transition # None /\ creations # {})
    /\ \A t \in Task : t \in creations <=>
          closing # "closed" /\ task[t].op = "create" /\ task[t].pc # "creation"
    /\ \A t \in Task : transition = t <=> closing # "closed" /\ Forks(t)

\* A deletion has its Session to itself but for the process that it stops.
DeletionsAlone ==
    /\ \A t \in Task : Deleting(t) =>
          /\ task[t].handle \in deleting
          /\ \A r \in Alive \ unadmitted : home[r] = task[t].handle =>
                Stopping(t, r) /\ ending[r] # "none"
    /\ \A t1, t2 \in Task :
          Deleting(t1) /\ Deleting(t2) /\ task[t1].handle = task[t2].handle => t1 = t2
    /\ \A h \in deleting : \E t \in Task : Deleting(t) /\ task[t].handle = h

\* Once the supervisor closes nothing new begins, and what it had is stopped.
Closed ==
    /\ closing \notin {"open", "draining"} => \A t \in Task : task[t].op \notin Management
    /\ closing \in {"stopping", "clearing"} =>
          \A r \in Alive \ unadmitted : ending[r] # "none"
    /\ closing = "clearing" => Alive \subseteq unadmitted
    /\ closing = "closed" => TrackedRuntimes = {} /\ deleting = {} /\ ~PendingIdentity

\* What an operation awaits is under way.
AwaitedAt(t) ==
    /\ task[t].pc \in {"evicting", "reaping"} => ending[task[t].victim] # "none"
    /\ task[t].pc = "stopping" => ending[task[t].runtime] # "none"
    /\ task[t].pc = "starting" => phase[task[t].runtime] = "starting"
Awaited == \A t \in Task : AwaitedAt(t)

PoolInv ==
    /\ TypeOK /\ Shape /\ Locked /\ Roomy
    /\ HomesTracked /\ HomesKnown /\ AdmittedTracked /\ PhasesFit /\ PendingKnown
    /\ Excluded /\ DeletionsAlone /\ Closed /\ Awaited
    /\ AdmittedWithinCap

-----------------------------------------------------------------------------
(* Lemmas about the queue of the pool lock, and about what an operation is. *)

\* Joining the queue keeps its head, leaving it at the head keeps the others.
LEMMA QueueMoves ==
  ASSUME NEW S, NEW q \in Seq(S)
  PROVE  /\ \A x \in S :
               /\ Append(q, x) \in Seq(S)
               /\ \E i \in DOMAIN Append(q, x) : Append(q, x)[i] = x
               /\ q # <<>> => Append(q, x) # <<>> /\ Head(Append(q, x)) = Head(q)
               /\ \A y : (\E i \in DOMAIN q : q[i] = y)
                         => \E i \in DOMAIN Append(q, x) : Append(q, x)[i] = y
         /\ q # <<>> =>
               /\ Tail(q) \in Seq(S)
               /\ \A y : (y # Head(q) /\ \E i \in DOMAIN q : q[i] = y)
                         => \E i \in DOMAIN Tail(q) : Tail(q)[i] = y
  <1>1. ASSUME NEW x \in S
        PROVE  /\ Append(q, x) \in Seq(S)
               /\ \E i \in DOMAIN Append(q, x) : Append(q, x)[i] = x
               /\ q # <<>> => Append(q, x) # <<>> /\ Head(Append(q, x)) = Head(q)
               /\ \A y : (\E i \in DOMAIN q : q[i] = y)
                         => \E i \in DOMAIN Append(q, x) : Append(q, x)[i] = y
    <2>1. /\ Append(q, x) \in Seq(S) /\ Len(Append(q, x)) = Len(q) + 1
          /\ \A i \in 1..Len(q) : Append(q, x)[i] = q[i]
          /\ Append(q, x)[Len(q) + 1] = x
      OBVIOUS
    <2>2. /\ DOMAIN q = 1..Len(q) /\ Len(q) \in Nat
          /\ DOMAIN Append(q, x) = 1..(Len(q) + 1)
      BY <2>1
    <2>3. q # <<>> => Append(q, x) # <<>> /\ Head(Append(q, x)) = Head(q)
      OBVIOUS
    <2> QED BY <2>1, <2>2, <2>3
  <1>2. ASSUME q # <<>>
        PROVE  /\ Tail(q) \in Seq(S)
               /\ \A y : (y # Head(q) /\ \E i \in DOMAIN q : q[i] = y)
                         => \E i \in DOMAIN Tail(q) : Tail(q)[i] = y
    <2>1. /\ Tail(q) \in Seq(S) /\ Len(Tail(q)) = Len(q) - 1
          /\ \A i \in 1..(Len(q) - 1) : Tail(q)[i] = q[i + 1]
          /\ Head(q) = q[1] /\ Len(q) \in Nat /\ Len(q) >= 1
      BY <1>2
    <2>2. DOMAIN q = 1..Len(q) /\ DOMAIN Tail(q) = 1..(Len(q) - 1)
      BY <2>1
    <2>3. ASSUME NEW i \in DOMAIN q, q[i] # Head(q)
          PROVE  \E j \in DOMAIN Tail(q) : Tail(q)[j] = q[i]
      <3>1. i \in 1..Len(q) /\ i # 1 /\ i - 1 \in 1..(Len(q) - 1)
        BY <2>1, <2>2, <2>3
      <3>2. Tail(q)[i - 1] = q[i]
        BY <2>1, <3>1
      <3> QED BY <2>2, <3>1, <3>2
    <2> QED BY <2>1, <2>3
  <1> QED BY <1>1, <1>2

\* The operation t, and no other, changes; what the invariant looks at becomes this.
Becomes(t, op, pc, body, handle, runtime, victim) ==
    /\ task' \in [Task -> TaskState]
    /\ \A u \in Task : u # t => task'[u] = task[u]
    /\ task'[t].op = op /\ task'[t].pc = pc /\ task'[t].body = body
    /\ task'[t].handle = handle /\ task'[t].runtime = runtime
    /\ task'[t].victim = victim

\* Set, the only way to change one operation.
LEMMA SetIs ==
  ASSUME TypeOK, NEW t \in Task, NEW s \in TaskState, Set(t, s)
  PROVE  Becomes(t, s.op, s.pc, s.body, s.handle, s.runtime, s.victim)
  <1>1. task \in [Task -> TaskState] /\ task' = [task EXCEPT ![t] = s]
    BY DEF TypeOK, Set
  <1>2. task'[t] = s /\ \A u \in Task : u # t => task'[u] = task[u]
    BY <1>1
  <1>3. task' \in [Task -> TaskState]
    BY <1>1
  <1> QED BY <1>2, <1>3 DEF Becomes

\* The types of an operation and of what it is at the beginning.
LEMMA TaskTypes ==
  ASSUME TypeOK, NEW t \in Task
  PROVE  /\ task[t] \in TaskState /\ Idle \in TaskState
         /\ task[t].op \in Op /\ task[t].pc \in PC
         /\ task[t].body \in Body \union {"none", "join"}
         /\ task[t].handle \in Handle \union {None}
         /\ task[t].runtime \in Runtime \union {None}
         /\ task[t].victim \in Runtime \union {None}
  <1>1. task[t] \in TaskState
    BY DEF TypeOK
  <1>2. Idle \in TaskState
    BY DEF Idle, TaskState, Op, PC, Body
  <1> QED BY <1>1, <1>2 DEF TaskState

LEMMA DoneIs ==
  ASSUME TypeOK, NEW t \in Task, Done(t)
  PROVE  Becomes(t, "none", "idle", "none", None, None, None)
  <1>1. Idle \in TaskState /\ Set(t, Idle)
    BY TaskTypes DEF Done
  <1>2. Becomes(t, Idle.op, Idle.pc, Idle.body, Idle.handle, Idle.runtime, Idle.victim)
    BY <1>1, SetIs
  <1> QED BY <1>2 DEF Idle

LEMMA GotoIs ==
  ASSUME TypeOK, NEW t \in Task, NEW p \in PC,
         Goto(t, p)
  PROVE  Becomes(t, task[t].op, p, task[t].body, task[t].handle, task[t].runtime, task[t].victim)
  <1> DEFINE s == [task[t] EXCEPT !.pc = p]
  <1>1. task[t] \in TaskState
    BY TaskTypes
  <1>2. s \in TaskState
    BY <1>1 DEF TaskState
  <1>3. /\ s.op = task[t].op /\ s.pc = p /\ s.body = task[t].body
        /\ s.handle = task[t].handle /\ s.runtime = task[t].runtime /\ s.victim = task[t].victim
    BY <1>1 DEF TaskState
  <1>4. Set(t, s)
    BY DEF Goto
  <1> HIDE DEF s
  <1>5. Becomes(t, s.op, s.pc, s.body, s.handle, s.runtime, s.victim)
    BY <1>2, <1>4, SetIs
  <1> QED BY <1>3, <1>5

LEMMA WantIs ==
  ASSUME TypeOK, NEW t \in Task, NEW b \in Body,
         Want(t, b)
  PROVE  Becomes(t, task[t].op, b, b, task[t].handle, task[t].runtime, task[t].victim)
  <1> DEFINE s == [task[t] EXCEPT !.pc = b, !.body = b]
  <1>1. task[t] \in TaskState
    BY TaskTypes
  <1>2. s \in TaskState
    BY <1>1, ZenonT(100) DEF TaskState, PC, Body
  <1>3. /\ s.op = task[t].op /\ s.pc = b /\ s.body = b
        /\ s.handle = task[t].handle /\ s.runtime = task[t].runtime /\ s.victim = task[t].victim
    BY <1>1 DEF TaskState
  <1>4. Set(t, s)
    BY DEF Want
  <1> HIDE DEF s
  <1>5. Becomes(t, s.op, s.pc, s.body, s.handle, s.runtime, s.victim)
    BY <1>2, <1>4, SetIs
  <1> QED BY <1>3, <1>5

LEMMA StartIs ==
  ASSUME TypeOK, NEW t \in Task, NEW r \in Runtime \union {None},
         Set(t, [task[t] EXCEPT !.pc = "start", !.body = "start", !.runtime = r])
  PROVE  Becomes(t, task[t].op, "start", "start", task[t].handle, r, task[t].victim)
  <1> DEFINE s == [task[t] EXCEPT !.pc = "start", !.body = "start", !.runtime = r]
  <1>1. task[t] \in TaskState
    BY TaskTypes
  <1>2. s \in TaskState
    BY <1>1 DEF TaskState, PC, Body
  <1>3. /\ s.op = task[t].op /\ s.pc = "start" /\ s.body = "start"
        /\ s.handle = task[t].handle /\ s.runtime = r /\ s.victim = task[t].victim
    BY <1>1 DEF TaskState
  <1>4. Set(t, s)
    BY DEF Set
  <1> HIDE DEF s
  <1>5. Becomes(t, s.op, s.pc, s.body, s.handle, s.runtime, s.victim)
    BY <1>2, <1>4, SetIs
  <1> QED BY <1>3, <1>5

LEMMA AcquireIs ==
  ASSUME TypeOK, NEW t \in Task,
         Set(t, [task[t] EXCEPT !.pc = "acquire", !.body = "acquire", !.fresh = FALSE])
  PROVE  Becomes(t, task[t].op, "acquire", "acquire", task[t].handle, task[t].runtime, task[t].victim)
  <1> DEFINE s == [task[t] EXCEPT !.pc = "acquire", !.body = "acquire", !.fresh = FALSE]
  <1>1. task[t] \in TaskState
    BY TaskTypes
  <1>2. s \in TaskState
    BY <1>1 DEF TaskState, PC, Body
  <1>3. /\ s.op = task[t].op /\ s.pc = "acquire" /\ s.body = "acquire"
        /\ s.handle = task[t].handle /\ s.runtime = task[t].runtime /\ s.victim = task[t].victim
    BY <1>1 DEF TaskState
  <1>4. Set(t, s)
    BY DEF Set
  <1> HIDE DEF s
  <1>5. Becomes(t, s.op, s.pc, s.body, s.handle, s.runtime, s.victim)
    BY <1>2, <1>4, SetIs
  <1> QED BY <1>3, <1>5

LEMMA VictimIs ==
  ASSUME TypeOK, NEW t \in Task, NEW p \in PC, NEW r \in Runtime \union {None},
         Set(t, [task[t] EXCEPT !.pc = p, !.victim = r])
  PROVE  Becomes(t, task[t].op, p, task[t].body, task[t].handle, task[t].runtime, r)
  <1> DEFINE s == [task[t] EXCEPT !.pc = p, !.victim = r]
  <1>1. task[t] \in TaskState
    BY TaskTypes
  <1>2. s \in TaskState
    BY <1>1 DEF TaskState
  <1>3. /\ s.op = task[t].op /\ s.pc = p /\ s.body = task[t].body
        /\ s.handle = task[t].handle /\ s.runtime = task[t].runtime /\ s.victim = r
    BY <1>1 DEF TaskState
  <1>4. Set(t, s)
    BY DEF Set
  <1> HIDE DEF s
  <1>5. Becomes(t, s.op, s.pc, s.body, s.handle, s.runtime, s.victim)
    BY <1>2, <1>4, SetIs
  <1> QED BY <1>3, <1>5

LEMMA RuntimeIs ==
  ASSUME TypeOK, NEW t \in Task, NEW p \in PC, NEW r \in Runtime \union {None},
         Set(t, [task[t] EXCEPT !.pc = p, !.runtime = r])
  PROVE  Becomes(t, task[t].op, p, task[t].body, task[t].handle, r, task[t].victim)
  <1> DEFINE s == [task[t] EXCEPT !.pc = p, !.runtime = r]
  <1>1. task[t] \in TaskState
    BY TaskTypes
  <1>2. s \in TaskState
    BY <1>1 DEF TaskState
  <1>3. /\ s.op = task[t].op /\ s.pc = p /\ s.body = task[t].body
        /\ s.handle = task[t].handle /\ s.runtime = r /\ s.victim = task[t].victim
    BY <1>1 DEF TaskState
  <1>4. Set(t, s)
    BY DEF Set
  <1> HIDE DEF s
  <1>5. Becomes(t, s.op, s.pc, s.body, s.handle, s.runtime, s.victim)
    BY <1>2, <1>4, SetIs
  <1> QED BY <1>3, <1>5

LEMMA LaunchIs ==
  ASSUME TypeOK, NEW t \in Task, NEW r \in Runtime, NEW h \in Handle,
         Set(t, [task[t] EXCEPT !.pc = "starting", !.runtime = r, !.handle = h])
  PROVE  Becomes(t, task[t].op, "starting", task[t].body, h, r, task[t].victim)
  <1> DEFINE s == [task[t] EXCEPT !.pc = "starting", !.runtime = r, !.handle = h]
  <1>1. task[t] \in TaskState
    BY TaskTypes
  <1>2. s \in TaskState
    BY <1>1 DEF TaskState, PC, Body
  <1>3. /\ s.op = task[t].op /\ s.pc = "starting" /\ s.body = task[t].body
        /\ s.handle = h /\ s.runtime = r /\ s.victim = task[t].victim
    BY <1>1 DEF TaskState
  <1>4. Set(t, s)
    BY DEF Set
  <1> HIDE DEF s
  <1>5. Becomes(t, s.op, s.pc, s.body, s.handle, s.runtime, s.victim)
    BY <1>2, <1>4, SetIs
  <1> QED BY <1>3, <1>5

LEMMA ForkingIs ==
  ASSUME TypeOK, NEW t \in Task,
         Set(t, [task[t] EXCEPT !.pc = "forking", !.ok = TRUE])
  PROVE  Becomes(t, task[t].op, "forking", task[t].body, task[t].handle, task[t].runtime, task[t].victim)
  <1> DEFINE s == [task[t] EXCEPT !.pc = "forking", !.ok = TRUE]
  <1>1. task[t] \in TaskState
    BY TaskTypes
  <1>2. s \in TaskState
    BY <1>1 DEF TaskState, PC, Body
  <1>3. /\ s.op = task[t].op /\ s.pc = "forking" /\ s.body = task[t].body
        /\ s.handle = task[t].handle /\ s.runtime = task[t].runtime /\ s.victim = task[t].victim
    BY <1>1 DEF TaskState
  <1>4. Set(t, s)
    BY DEF Set
  <1> HIDE DEF s
  <1>5. Becomes(t, s.op, s.pc, s.body, s.handle, s.runtime, s.victim)
    BY <1>2, <1>4, SetIs
  <1> QED BY <1>3, <1>5

LEMMA FinishIs ==
  ASSUME TypeOK, NEW t \in Task, NEW m \in BOOLEAN,
         Set(t, [task[t] EXCEPT !.pc = "finish", !.body = "finish", !.ok = m])
  PROVE  Becomes(t, task[t].op, "finish", "finish", task[t].handle, task[t].runtime, task[t].victim)
  <1> DEFINE s == [task[t] EXCEPT !.pc = "finish", !.body = "finish", !.ok = m]
  <1>1. task[t] \in TaskState
    BY TaskTypes
  <1>2. s \in TaskState
    BY <1>1 DEF TaskState, PC, Body
  <1>3. /\ s.op = task[t].op /\ s.pc = "finish" /\ s.body = "finish"
        /\ s.handle = task[t].handle /\ s.runtime = task[t].runtime /\ s.victim = task[t].victim
    BY <1>1 DEF TaskState
  <1>4. Set(t, s)
    BY DEF Set
  <1> HIDE DEF s
  <1>5. Becomes(t, s.op, s.pc, s.body, s.handle, s.runtime, s.victim)
    BY <1>2, <1>4, SetIs
  <1> QED BY <1>3, <1>5

LEMMA SweepIs ==
  ASSUME TypeOK, NEW t \in Task, NEW p \in PC, NEW r \in Runtime \union {None},
         NEW h \in Handle \union {None},
         Set(t, [task[t] EXCEPT !.pc = p, !.victim = r, !.handle = h])
  PROVE  Becomes(t, task[t].op, p, task[t].body, h, task[t].runtime, r)
  <1> DEFINE s == [task[t] EXCEPT !.pc = p, !.victim = r, !.handle = h]
  <1>1. task[t] \in TaskState
    BY TaskTypes
  <1>2. s \in TaskState
    BY <1>1 DEF TaskState
  <1>3. /\ s.op = task[t].op /\ s.pc = p /\ s.body = task[t].body
        /\ s.handle = h /\ s.runtime = task[t].runtime /\ s.victim = r
    BY <1>1 DEF TaskState
  <1>4. Set(t, s)
    BY DEF Set
  <1> HIDE DEF s
  <1>5. Becomes(t, s.op, s.pc, s.body, s.handle, s.runtime, s.victim)
    BY <1>2, <1>4, SetIs
  <1> QED BY <1>3, <1>5

LEMMA AsksIs ==
  ASSUME TypeOK, NEW t \in Task, NEW op \in Op,
         NEW h \in Handle \union {None}, NEW r \in Runtime \union {None},
         NEW p \in PC, NEW b \in Body \union {"none", "join"},
         Set(t, [Asks(op, h, r) EXCEPT !.pc = p, !.body = b])
  PROVE  Becomes(t, op, p, b, h, r, None)
  <1> DEFINE s == [Asks(op, h, r) EXCEPT !.pc = p, !.body = b]
  <1>1. Asks(op, h, r) \in TaskState /\ Asks(op, h, r).victim = None
        /\ Asks(op, h, r).op = op /\ Asks(op, h, r).handle = h /\ Asks(op, h, r).runtime = r
        /\ Asks(op, h, r).body = "none"
    BY DEF Asks, Idle, TaskState, PC, Body
  <1>2. s \in TaskState
    BY <1>1 DEF TaskState
  <1>3. /\ s.op = op /\ s.pc = p /\ s.body = b
        /\ s.handle = h /\ s.runtime = r /\ s.victim = None
    BY <1>1 DEF TaskState
  <1>4. Set(t, s)
    BY DEF Set
  <1> HIDE DEF s
  <1>5. Becomes(t, s.op, s.pc, s.body, s.handle, s.runtime, s.victim)
    BY <1>2, <1>4, SetIs
  <1> QED BY <1>3, <1>5

LEMMA ResolveIs ==
  ASSUME TypeOK, NEW t \in Task, NEW op \in Op,
         NEW h \in Handle \union {None}, NEW r \in Runtime \union {None},
         Set(t, [Asks(op, h, r) EXCEPT !.pc = "resolve", !.fresh = TRUE])
  PROVE  Becomes(t, op, "resolve", "none", h, r, None)
  <1> DEFINE s == [Asks(op, h, r) EXCEPT !.pc = "resolve", !.fresh = TRUE]
  <1>1. Asks(op, h, r) \in TaskState /\ Asks(op, h, r).victim = None
        /\ Asks(op, h, r).op = op /\ Asks(op, h, r).handle = h /\ Asks(op, h, r).runtime = r
        /\ Asks(op, h, r).body = "none"
    BY DEF Asks, Idle, TaskState, PC, Body
  <1>2. s \in TaskState
    BY <1>1, ZenonT(100) DEF TaskState, PC, Body
  <1>3. /\ s.op = op /\ s.pc = "resolve" /\ s.body = "none"
        /\ s.handle = h /\ s.runtime = r /\ s.victim = None
    BY <1>1 DEF TaskState
  <1>4. Set(t, s)
    BY DEF Set
  <1> HIDE DEF s
  <1>5. Becomes(t, s.op, s.pc, s.body, s.handle, s.runtime, s.victim)
    BY <1>2, <1>4, SetIs
  <1> QED BY <1>3, <1>5

-----------------------------------------------------------------------------
(* What a step leaves of each conjunct, from what it does to the state.     *)

\* The processes that were admitted.
Admitted == Alive \ unadmitted
\* Operations that a deletion, a fork or a creation may have become.
Launched(t) == task[t].op = "create" /\ task[t].pc # "creation"

LEMMA PoolParts ==
  ASSUME PoolInv
  PROVE  /\ TypeOK /\ Shape /\ Locked /\ Roomy
         /\ HomesTracked /\ HomesKnown /\ AdmittedTracked /\ PhasesFit /\ PendingKnown
         /\ Excluded /\ DeletionsAlone /\ Closed /\ Awaited
         /\ AdmittedWithinCap
  BY DEF PoolInv

LEMMA PoolPartsNext ==
  ASSUME TypeOK', Shape', Locked', Roomy',
         HomesTracked', HomesKnown', AdmittedTracked', PhasesFit', PendingKnown',
         Excluded', DeletionsAlone', Closed', Awaited',
         AdmittedWithinCap'
  PROVE  PoolInv'
  BY DEF PoolInv

\* How an operation and the queue of the pool lock move together.
Paced(t) ==
    \/ queue' = queue /\ task'[t].pc \notin Body \union LockPC
    \/ Holds(t) /\ queue' = queue
    \/ Holds(t) /\ queue' = Tail(queue) /\ task'[t].pc \notin Body \union LockPC
    \/ Holds(t) /\ queue' = Append(Tail(queue), t) /\ task'[t].pc \in Body
    \/ queue' = Append(queue, t) /\ task'[t].pc \in Body

\* Another operation is left alone.
Alone(t) ==
    /\ task' \in [Task -> TaskState]
    /\ \A u \in Task : u # t => task'[u] = task[u]

LEMMA LockedKept ==
  ASSUME TypeOK, Locked, NEW t \in Task, Alone(t), Paced(t)
  PROVE  Locked' /\ queue' \in Seq(Task \union {Closer})
  <1> DEFINE S == Task \union {Closer}
  <1>1. queue \in Seq(S) /\ t \in S
    BY DEF TypeOK
  <1> HIDE DEF S
  <1>2. \A q \in Seq(S) : \A x \in S :
               /\ Append(q, x) \in Seq(S)
               /\ \E i \in DOMAIN Append(q, x) : Append(q, x)[i] = x
               /\ q # <<>> => Append(q, x) # <<>> /\ Head(Append(q, x)) = Head(q)
               /\ \A y : (\E i \in DOMAIN q : q[i] = y)
                         => \E i \in DOMAIN Append(q, x) : Append(q, x)[i] = y
    BY QueueMoves
  <1>3. \A q \in Seq(S) : q # <<>> =>
               /\ Tail(q) \in Seq(S)
               /\ \A y : (y # Head(q) /\ \E i \in DOMAIN q : q[i] = y)
                         => \E i \in DOMAIN Tail(q) : Tail(q)[i] = y
    BY QueueMoves
  <1>4. Holds(t) => queue # <<>> /\ Head(queue) = t
    BY DEF Holds
  <1>4a. Holds(t) => Tail(queue) \in Seq(S)
    BY <1>1, <1>3, <1>4
  <1>4b. Holds(t) => /\ Append(Tail(queue), t) \in Seq(S)
                     /\ \E i \in DOMAIN Append(Tail(queue), t) : Append(Tail(queue), t)[i] = t
    <2> SUFFICES ASSUME Holds(t)
                 PROVE  /\ Append(Tail(queue), t) \in Seq(S)
                        /\ \E i \in DOMAIN Append(Tail(queue), t) : Append(Tail(queue), t)[i] = t
      OBVIOUS
    <2> DEFINE q == Tail(queue)
    <2>1. q \in Seq(S)
      BY <1>4a
    <2> HIDE DEF q
    <2>2. Append(q, t) \in Seq(S) /\ \E i \in DOMAIN Append(q, t) : Append(q, t)[i] = t
      BY <1>1, <1>2, <2>1
    <2> QED BY <2>2 DEF q
  <1>4c. Append(queue, t) \in Seq(S)
    BY <1>1, <1>2
  <1>5. queue' \in Seq(S)
    BY <1>1, <1>4a, <1>4b, <1>4c DEF Paced
  <1>6. \A u \in Task : u # t /\ InQueue(u) =>
           \/ InQueue(u)'
    <2> SUFFICES ASSUME NEW u \in Task, u # t, InQueue(u) PROVE InQueue(u)'
      OBVIOUS
    <2>1. CASE queue' = queue
      BY <2>1 DEF InQueue
    <2>2. CASE Holds(t) /\ queue' = Tail(queue)
      BY <2>2, <1>1, <1>3, <1>4 DEF InQueue
    <2>3. CASE Holds(t) /\ queue' = Append(Tail(queue), t)
      <3>1. Tail(queue) \in Seq(S) /\ \E i \in DOMAIN Tail(queue) : Tail(queue)[i] = u
        BY <2>3, <1>1, <1>3, <1>4 DEF InQueue
      <3> QED BY <3>1, <2>3, <1>1, <1>2 DEF InQueue
    <2>4. CASE queue' = Append(queue, t)
      BY <2>4, <1>1, <1>2 DEF InQueue
    <2> QED BY <2>1, <2>2, <2>3, <2>4 DEF Paced
  <1>7. \A u \in Task : u # t /\ task[u].pc \in LockPC => Holds(u)'
    <2> SUFFICES ASSUME NEW u \in Task, u # t, task[u].pc \in LockPC PROVE Holds(u)'
      OBVIOUS
    <2>1. queue # <<>> /\ Head(queue) = u /\ ~Holds(t)
      BY DEF Locked, Holds
    <2>2. queue' = queue \/ queue' = Append(queue, t)
      BY <2>1 DEF Paced
    <2> QED BY <2>1, <2>2, <1>1, <1>2 DEF Holds
  <1>8. /\ task'[t].pc \in Body => InQueue(t)'
        /\ task'[t].pc \in LockPC => Holds(t)'
    <2>1. CASE queue' = queue /\ task'[t].pc \notin Body \union LockPC
      BY <2>1
    <2>2. CASE Holds(t) /\ queue' = queue
      <3>1. Holds(t)'
        BY <2>2 DEF Holds
      <3>2. queue' # <<>> /\ queue' \in Seq(S) /\ queue'[1] = t
        BY <2>2, <1>1 DEF Holds
      <3>3. InQueue(t)'
        BY <3>2 DEF InQueue
      <3> QED BY <3>1, <3>3
    <2>3. CASE Holds(t) /\ queue' = Tail(queue) /\ task'[t].pc \notin Body \union LockPC
      BY <2>3
    <2>4. CASE Holds(t) /\ queue' = Append(Tail(queue), t) /\ task'[t].pc \in Body
      <3>1. InQueue(t)'
        BY <2>4, <1>4b DEF InQueue
      <3> QED BY <3>1, <2>4 DEF Body, LockPC
    <2>5. CASE queue' = Append(queue, t) /\ task'[t].pc \in Body
      <3>1. InQueue(t)'
        BY <2>5, <1>1, <1>2 DEF InQueue
      <3> QED BY <3>1, <2>5 DEF Body, LockPC
    <2> QED BY <2>1, <2>2, <2>3, <2>4, <2>5 DEF Paced
  <1>9. \A u \in Task : u # t => task'[u] = task[u]
    BY DEF Alone
  <1> QED BY <1>5, <1>6, <1>7, <1>8, <1>9 DEF Locked, S

\* Only the holder of the lock is between taking it and giving it up.
LEMMA HolderAlone ==
  ASSUME Locked, NEW t \in Task, Holds(t)
  PROVE  \A u \in Task : u # t => task[u].pc \notin LockPC
  BY DEF Locked, Holds

LEMMA RoomyHeld ==
  ASSUME Locked, NEW t \in Task, Holds(t), Alone(t), RoomyAt(t)'
  PROVE  Roomy'
  <1>1. \A u \in Task : u # t => task'[u].pc \notin {"room", "evicting"}
    BY HolderAlone DEF Alone, LockPC
  <1> QED BY <1>1 DEF Roomy, RoomyAt

LEMMA RoomyKept ==
  ASSUME TypeOK, Roomy, Shape,
         \A u \in Task : RoomyAt(u)' \/ task'[u] = task[u],
         \A h \in Handle : runtimes[h] = None => runtimes'[h] = None,
         \A u \in Task : task[u].runtime \in Runtime =>
             home'[task[u].runtime] = home[task[u].runtime],
         deleting' = deleting, transition' = transition, creations' = creations
  PROVE  Roomy'
  <1> SUFFICES ASSUME NEW u \in Task, task'[u] = task[u] PROVE RoomyAt(u)'
    BY DEF Roomy
  <1> SUFFICES ASSUME task[u].op # "reap", task[u].pc \in {"room", "evicting"}
               PROVE  /\ task[u].body = "track" =>
                           /\ runtimes'[task[u].handle] = None
                           /\ task[u].handle \notin deleting' /\ ~PendingIdentity'
                      /\ task[u].body \in {"start", "restart"} =>
                           home'[task[u].runtime] \notin deleting'
                      /\ task[u].body = "acquire" => task[u].handle \notin deleting'
    BY DEF RoomyAt
  <1>1. RoomyAt(u) /\ ShapeAt(u) /\ task[u].op \in Op
    BY TaskTypes DEF Roomy, Shape
  <1>2. PendingIdentity' = PendingIdentity
    BY DEF PendingIdentity
  <1>3. task[u].body = "track" => task[u].handle \in Handle
    BY <1>1 DEF ShapeAt, CreationBody, Management, HandleOps, ForkPC, PinningBody, Op
  <1>4. task[u].body \in {"start", "restart"} => task[u].runtime \in Runtime
    BY <1>1 DEF ShapeAt, CreationBody, Management, HandleOps, ForkPC, PinningBody, Op
  <1> QED BY <1>1, <1>2, <1>3, <1>4 DEF RoomyAt

\* A runtime, if any, that has its Session and is no creation's.
Free(r) == r \notin pending /\ (r # None => home[r] # None)

LEMMA NoneFree ==
  ASSUME TypeOK
  PROVE  Free(None)
  BY TaskAssumption DEF TypeOK, Free

\* An operation keeps its part in creations, forks and deletions.
SameCreating(t) ==
    /\ Creating(t)' <=> Creating(t)
    /\ Creating(t) => task'[t].runtime = task[t].runtime
    /\ task'[t].runtime = task[t].runtime \/ Free(task'[t].runtime)
SameDeleting(t) ==
    /\ Deleting(t)' <=> Deleting(t)
    /\ Deleting(t) => task'[t].handle = task[t].handle
RoleKept(t) ==
    /\ SameCreating(t) /\ SameDeleting(t)
    /\ Launched(t)' <=> Launched(t)
    /\ Forks(t)' <=> Forks(t)
    /\ task'[t].op \in Management => task[t].op \in Management \/ Open

LEMMA HomesKnownKept ==
  ASSUME TypeOK, TypeOK', HomesKnown,
         \A t \in Task : \/ task'[t].runtime = task[t].runtime \/ Free(task'[t].runtime)
                          \/ home'[task'[t].runtime] # None,
         \A r \in Runtime : home[r] # None => home'[r] # None,
         \A h \in Handle : timers'[h] \in {timers[h], None},
         \A r \in Runtime : leader'[r] # "none" => leader[r] # "none" \/ home'[r] # None
  PROVE  HomesKnown'
  <1>1. ASSUME NEW t \in Task, task'[t].runtime # None
        PROVE  home'[task'[t].runtime] # None
    <2>1. task'[t].runtime \in Runtime
      BY <1>1 DEF TypeOK, TaskState
    <2>2. home[task'[t].runtime] # None \/ home'[task'[t].runtime] # None
      BY <1>1 DEF HomesKnown, Free
    <2> QED BY <2>1, <2>2
  <1>2. \A h \in Handle : timers'[h] # None => home'[timers'[h]] # None
    BY DEF HomesKnown, TypeOK
  <1>3. \A r \in Runtime : leader'[r] # "none" => home'[r] # None
    BY DEF HomesKnown
  <1> QED BY <1>1, <1>2, <1>3 DEF HomesKnown

LEMMA ExcludedKept ==
  ASSUME Excluded,
         \A t \in Task : (Forks(t)' <=> Forks(t)) /\ (Launched(t)' <=> Launched(t)),
         deleting' = deleting, transition' = transition, creations' = creations,
         closing = "closed" <=> closing' = "closed"
  PROVE  Excluded'
  <1>1. PendingIdentity' = PendingIdentity
    BY DEF PendingIdentity
  <1> QED BY <1>1 DEF Excluded, Launched

LEMMA PendingKept ==
  ASSUME TypeOK, PendingKnown, \A t \in Task : SameCreating(t),
         pending' = pending, closing = "closed" => closing' = "closed",
         \A r \in pending :
            /\ home'[r] = home[r] /\ home[r] \notin files' /\ phase'[r] # "busy"
            /\ \A r2 \in Runtime \ {r} : home'[r2] # home[r]
            /\ \A h \in Handle : timers'[h] # r,
         \A t \in Task : Creating(t) /\ task'[t].pc \in {"failed", "stopped", "untrack"} =>
            task[t].runtime \notin Admitted'
  PROVE  PendingKnown'
  <1>1. ASSUME NEW r \in pending
        PROVE  \E t \in Task : /\ Creating(t)' /\ task'[t].runtime = r
                               /\ \A t2 \in Task : task'[t2].runtime = r => t2 = t
    <2>1. PICK t \in Task : /\ Creating(t) /\ task[t].runtime = r
                            /\ \A t2 \in Task : task[t2].runtime = r => t2 = t
      BY <1>1 DEF PendingKnown
    <2>2. \A t2 \in Task : task'[t2].runtime = r => task[t2].runtime = r
      BY <1>1 DEF RoleKept, SameCreating, SameDeleting, Free
    <2>3. Creating(t)' /\ task'[t].runtime = r
      BY <2>1 DEF RoleKept, SameCreating, SameDeleting
    <2> QED BY <2>1, <2>2, <2>3
  <1>2. \A t \in Task : Creating(t)' =>
          /\ task'[t].runtime \in pending' \/ closing' = "closed"
          /\ task'[t].pc \in {"failed", "stopped", "untrack"} =>
                task'[t].runtime \notin Admitted'
    BY DEF PendingKnown, RoleKept, SameCreating, SameDeleting
  <1> QED BY <1>1, <1>2 DEF PendingKnown, Admitted

\* The processes that were admitted before the step still hold what is said of
\* them; those admitted by it have a home that nobody deletes.
LEMMA DeletionsKept ==
  ASSUME DeletionsAlone, \A t \in Task : SameDeleting(t), deleting' = deleting,
         \A r \in Admitted' :
            \/ home'[r] \notin deleting
            \/ /\ r \in Admitted /\ home'[r] = home[r]
               /\ ending[r] # "none" => ending'[r] # "none"
               /\ \A t \in Task : Deleting(t) /\ Stopping(t, r) => Stopping(t, r)'
  PROVE  DeletionsAlone'
  <1>1. \A t \in Task : (Deleting(t)' <=> Deleting(t))
                        /\ (Deleting(t) => task'[t].handle = task[t].handle)
    BY DEF RoleKept, SameCreating, SameDeleting
  <1>2. ASSUME NEW t \in Task, Deleting(t)'
        PROVE  /\ task'[t].handle \in deleting'
               /\ \A r \in Admitted' : home'[r] = task'[t].handle =>
                     Stopping(t, r)' /\ ending'[r] # "none"
    BY <1>1, <1>2 DEF DeletionsAlone, Admitted
  <1>3. \A t1, t2 \in Task :
          Deleting(t1)' /\ Deleting(t2)' /\ task'[t1].handle = task'[t2].handle => t1 = t2
    BY <1>1 DEF DeletionsAlone
  <1>4. \A h \in deleting' : \E t \in Task : Deleting(t)' /\ task'[t].handle = h
    BY <1>1 DEF DeletionsAlone
  <1> QED BY <1>2, <1>3, <1>4 DEF DeletionsAlone, Admitted

LEMMA ClosedKept ==
  ASSUME Closed, closing' = closing,
         \A t \in Task : task'[t].op \in Management => task[t].op \in Management \/ Open,
         closing = "open" \/ \A r \in Admitted' :
            r \in Admitted /\ (ending[r] # "none" => ending'[r] # "none"),
         closing = "closed" => /\ \A r \in Runtime : Tracked(r)' => Tracked(r)
                               /\ deleting' = deleting
                               /\ transition' = transition /\ creations' = creations
  PROVE  Closed'
  <1>1. closing' \notin {"open", "draining"} => \A t \in Task : task'[t].op \notin Management
    BY DEF Closed, RoleKept, SameCreating, SameDeleting, Open
  <1>2. /\ closing' \in {"stopping", "clearing"} => \A r \in Admitted' : ending'[r] # "none"
        /\ closing' = "clearing" => Admitted' = {}
    BY DEF Closed, Admitted
  <1>3. closing' = "closed" => TrackedRuntimes' = {} /\ deleting' = {} /\ ~PendingIdentity'
    BY DEF Closed, TrackedRuntimes, PendingIdentity
  <1> QED BY <1>1, <1>2, <1>3 DEF Closed, Admitted

LEMMA CapKept ==
  ASSUME TypeOK, AdmittedWithinCap, TypeOK', Admitted' \subseteq Admitted,
         (Kept \ unadmitted)' \subseteq Kept \ unadmitted
  PROVE  AdmittedWithinCap'
  <1>1. IsFiniteSet(Admitted) /\ IsFiniteSet(Kept \ unadmitted)
    BY RuntimeAssumption, FS_Subset DEF Admitted, Alive, Kept, TrackedRuntimes
  <1>2. Cardinality(Admitted') <= Cardinality(Admitted)
        /\ Cardinality((Kept \ unadmitted)') <= Cardinality(Kept \ unadmitted)
    BY <1>1, FS_Subset
  <1>3. /\ Cardinality(Admitted') \in Nat /\ Cardinality(Admitted) \in Nat
        /\ Cardinality((Kept \ unadmitted)') \in Nat /\ Cardinality(Kept \ unadmitted) \in Nat
    BY <1>1, FS_Subset, FS_CardinalityType
  <1> QED
    BY <1>2, <1>3, MaxHotAssumption, MaxRetainedAssumption DEF AdmittedWithinCap, Admitted

\* A process starts with the pool not full.
LEMMA CapLaunched ==
  ASSUME TypeOK, AdmittedTracked, ~Full, TypeOK', NEW s \in Runtime,
         Admitted' \subseteq Admitted \union {s},
         (Kept \ unadmitted)' \subseteq (Kept \ unadmitted) \union {s}
  PROVE  AdmittedWithinCap'
  <1>1. Admitted \subseteq HotSet
    BY DEF AdmittedTracked, Admitted, HotSet, TrackedRuntimes, Alive
  <1>2. Kept \ unadmitted \subseteq ProjectionOwners
    BY <1>1 DEF Admitted, Kept, Alive, ProjectionOwners, TrackedRuntimes
  <1>3. /\ HotSet \subseteq Runtime /\ ProjectionOwners \subseteq Runtime
    BY DEF HotSet, ProjectionOwners, TrackedRuntimes
  <1>4. /\ IsFiniteSet(HotSet) /\ IsFiniteSet(ProjectionOwners)
        /\ Cardinality(HotSet) \in Nat /\ Cardinality(ProjectionOwners) \in Nat
    BY <1>3, RuntimeAssumption, FS_Subset, FS_CardinalityType
  <1>5. /\ Cardinality(HotSet) < MaxHot /\ Cardinality(ProjectionOwners) < MaxRetained
    BY <1>4, MaxHotAssumption, MaxRetainedAssumption DEF Full
  <1>6. ASSUME NEW A, IsFiniteSet(A), NEW B, B \subseteq A \union {s}
        PROVE  Cardinality(B) \in Nat /\ Cardinality(B) <= Cardinality(A) + 1
    <2>1. IsFiniteSet(A \union {s}) /\ Cardinality(A) \in Nat
          /\ Cardinality(A \union {s}) \in {Cardinality(A), Cardinality(A) + 1}
      BY <1>6, FS_AddElement, FS_CardinalityType
    <2>2. IsFiniteSet(B) /\ Cardinality(B) <= Cardinality(A \union {s})
      BY <1>6, <2>1, FS_Subset
    <2>3. Cardinality(B) \in Nat
      BY <2>2, FS_CardinalityType
    <2> QED BY <2>1, <2>2, <2>3
  <1>7. /\ Cardinality(Admitted') \in Nat /\ Cardinality(Admitted') <= Cardinality(HotSet) + 1
        /\ Cardinality((Kept \ unadmitted)') \in Nat
        /\ Cardinality((Kept \ unadmitted)') <= Cardinality(ProjectionOwners) + 1
    BY <1>1, <1>2, <1>4, <1>6
  <1> QED
    BY <1>4, <1>5, <1>7, MaxHotAssumption, MaxRetainedAssumption DEF AdmittedWithinCap, Admitted

LEMMA RoleSame ==
  ASSUME NEW u \in Task, task'[u] = task[u]
  PROVE  RoleKept(u) /\ (\A r : Stopping(u, r)' <=> Stopping(u, r))
  BY DEF RoleKept, SameCreating, SameDeleting, Creating, Launched, Forks, Deleting, Stopping

\* A failed activation forgets a runtime: its process, if any, is remembered.
Drops ==
    /\ runtimes' \in [Handle -> Runtime \union {None}]
    /\ timers' \in [Handle -> Runtime \union {None}]
    /\ unadmitted \subseteq unadmitted' /\ unadmitted' \subseteq Runtime
    /\ \A h \in Handle : /\ timers'[h] \in {timers[h], None}
                         /\ runtimes'[h] \in {runtimes[h], None}
                         /\ runtimes'[h] # runtimes[h] => runtimes[h] \notin Admitted'

\* Nothing else changes but that somebody loses control, ...
DropWorld ==
    /\ Drops /\ owned' \subseteq owned
    /\ UNCHANGED <<home, files, intent, phase, leader, ending, pending, closing>>
\* ... and nothing is reserved, or given back: the step of one operation that
\* changes where it is, disarms timers, forgets the runtime of a failed activation.
QuietWorld == DropWorld /\ UNCHANGED <<deleting, transition, creations>>
QuietTask(t) ==
    /\ Alone(t) /\ Paced(t)
    /\ ShapeAt(t)' /\ RoomyAt(t)' /\ AwaitedAt(t)' /\ RoleKept(t)
    /\ task'[t].pc \in {"failed", "stopped", "untrack"} /\ Creating(t) =>
          task[t].runtime \notin Admitted
    /\ Deleting(t) => task[t].pc \notin {"stopping", "reaping"}

LEMMA DropWorldIs ==
  ASSUME PoolInv, DropWorld
  PROVE  /\ home' = home /\ files' = files /\ phase' = phase /\ leader' = leader
         /\ ending' = ending /\ pending' = pending /\ closing' = closing
         /\ \A h \in Handle : /\ timers'[h] \in {timers[h], None}
                              /\ runtimes'[h] \in {runtimes[h], None}
                              /\ runtimes'[h] # runtimes[h] => runtimes[h] \notin Admitted'
         /\ Alive' = Alive /\ Admitted' \subseteq Admitted
         /\ \A r \in Runtime : Tracked(r)' => Tracked(r)
  <1>1. /\ home' = home /\ files' = files /\ phase' = phase /\ leader' = leader
        /\ ending' = ending /\ pending' = pending /\ closing' = closing
        /\ \A h \in Handle : /\ timers'[h] \in {timers[h], None}
                             /\ runtimes'[h] \in {runtimes[h], None}
                             /\ runtimes'[h] # runtimes[h] => runtimes[h] \notin Admitted'
    BY DEF DropWorld, Drops
  <1>2. Alive' = Alive /\ Admitted' \subseteq Admitted
    BY <1>1 DEF DropWorld, Drops, Admitted, Alive
  <1>3. \A r \in Runtime : Tracked(r)' => Tracked(r)
    BY <1>1, TaskAssumption DEF Tracked
  <1> QED BY <1>1, <1>2, <1>3

LEMMA DropWorldKeeps ==
  ASSUME PoolInv, DropWorld, NEW t \in Task, Alone(t), Paced(t),
         deleting' \subseteq Handle, transition' \in Task \union {None}, creations' \subseteq Task,
         ShapeAt(t)', AwaitedAt(t)'
  PROVE  /\ TypeOK' /\ Shape' /\ Locked' /\ Awaited'
         /\ HomesTracked' /\ AdmittedTracked' /\ PhasesFit' /\ AdmittedWithinCap'
  <1>0. /\ TypeOK /\ Shape /\ Locked /\ HomesTracked /\ AdmittedTracked /\ PhasesFit
        /\ Awaited /\ AdmittedWithinCap
    BY PoolParts
  <1>1. /\ home' = home /\ files' = files /\ phase' = phase /\ leader' = leader
        /\ ending' = ending /\ pending' = pending /\ closing' = closing
        /\ \A h \in Handle : /\ timers'[h] \in {timers[h], None}
                             /\ runtimes'[h] \in {runtimes[h], None}
                             /\ runtimes'[h] # runtimes[h] => runtimes[h] \notin Admitted'
        /\ Alive' = Alive /\ Admitted' \subseteq Admitted
        /\ \A r \in Runtime : Tracked(r)' => Tracked(r)
    BY DropWorldIs
  <1>2. Locked' /\ queue' \in Seq(Task \union {Closer})
    BY <1>0, LockedKept
  <1>3. TypeOK'
    BY <1>0, <1>2 DEF DropWorld, Drops, Alone, TypeOK
  <1>4. Shape' /\ Awaited'
    <2>1. \A u \in Task : u # t => task'[u] = task[u]
      BY DEF Alone
    <2>2. \A u \in Task : u # t => ShapeAt(u)' /\ AwaitedAt(u)'
      BY <1>0, <1>1, <2>1 DEF Shape, Awaited, ShapeAt, AwaitedAt
    <2> QED BY <2>2 DEF Shape, Awaited
  <1>5. HomesTracked'
    BY <1>0, <1>1 DEF HomesTracked
  <1>6. \A r \in Admitted' : Tracked(r)'
    <2> SUFFICES ASSUME NEW r \in Admitted' PROVE Tracked(r)'
      OBVIOUS
    <2>1. r \in pending \/ \E h \in Handle : runtimes[h] = r
      BY <1>0, <1>1 DEF AdmittedTracked, Tracked, Admitted
    <2> QED BY <2>1, <1>1 DEF Tracked
  <1>7. AdmittedTracked'
    BY <1>0, <1>1, <1>6 DEF AdmittedTracked, Admitted, Hot, Running
  <1>8. PhasesFit'
    BY <1>0, <1>1 DEF PhasesFit
  <1>9. (Kept \ unadmitted)' \subseteq Kept \ unadmitted
    BY <1>1 DEF Kept, TrackedRuntimes, DropWorld, Drops
  <1>10. AdmittedWithinCap'
    BY <1>0, <1>1, <1>3, <1>9, CapKept
  <1> QED BY <1>2, <1>3, <1>4, <1>5, <1>7, <1>8, <1>10

LEMMA QuietStep ==
  ASSUME PoolInv, NEW t \in Task, QuietWorld, QuietTask(t)
  PROVE  PoolInv'
  <1>0. /\ TypeOK /\ Shape /\ Locked /\ Roomy /\ HomesKnown /\ PendingKnown /\ Excluded /\ DeletionsAlone /\ Closed
    BY PoolParts
  <1>1. /\ \A u \in Task : u # t => task'[u] = task[u]
        /\ Alone(t) /\ Paced(t) /\ ShapeAt(t)' /\ AwaitedAt(t)'
    BY DEF QuietTask, Alone
  <1>2. /\ DropWorld /\ deleting' = deleting /\ transition' = transition
        /\ creations' = creations
    BY DEF QuietWorld
  <1>3. /\ home' = home /\ files' = files /\ phase' = phase /\ leader' = leader
        /\ ending' = ending /\ pending' = pending /\ closing' = closing
        /\ \A h \in Handle : timers'[h] \in {timers[h], None} /\ runtimes'[h] \in {runtimes[h], None}
        /\ Admitted' \subseteq Admitted
        /\ \A r \in Runtime : Tracked(r)' => Tracked(r)
    BY <1>2, DropWorldIs
  <1>4. /\ TypeOK' /\ Shape' /\ Locked' /\ Awaited'
        /\ HomesTracked' /\ AdmittedTracked' /\ PhasesFit' /\ AdmittedWithinCap'
    BY <1>0, <1>1, <1>2, DropWorldKeeps DEF TypeOK
  <1>5. \A u \in Task : RoleKept(u)
    BY <1>1, RoleSame DEF QuietTask
  <1>6. Roomy'
    BY <1>0, <1>1, <1>2, <1>3, RoomyKept DEF QuietTask
  <1>7. PendingKnown'
    <2>1. \A r \in pending :
            /\ home'[r] = home[r] /\ home[r] \notin files' /\ phase'[r] # "busy"
            /\ \A r2 \in Runtime \ {r} : home'[r2] # home[r]
            /\ \A h \in Handle : timers'[h] # r
      BY <1>0, <1>3, TaskAssumption DEF PendingKnown, TypeOK
    <2>2. \A u \in Task : Creating(u) /\ task'[u].pc \in {"failed", "stopped", "untrack"} =>
            task[u].runtime \notin Admitted'
      BY <1>0, <1>1, <1>3 DEF QuietTask, PendingKnown, Admitted
    <2> QED BY <1>0, <1>3, <1>5, <2>1, <2>2, PendingKept DEF RoleKept
  <1>8. Excluded'
    BY <1>0, <1>2, <1>3, <1>5, ExcludedKept DEF RoleKept
  <1>9. DeletionsAlone'
    <2>1. \A u \in Task : \A r : Deleting(u) /\ Stopping(u, r) => Stopping(u, r)'
      BY <1>1, RoleSame DEF QuietTask, Stopping
    <2> QED BY <1>0, <1>2, <1>3, <1>5, <2>1, DeletionsKept DEF RoleKept
  <1>10. Closed'
    BY <1>0, <1>2, <1>3, <1>5, ClosedKept DEF RoleKept
  <1>11. HomesKnown'
    BY <1>0, <1>3, <1>4, <1>5, HomesKnownKept DEF RoleKept, SameCreating
  <1> QED
    BY <1>4, <1>6, <1>7, <1>8, <1>9, <1>10, <1>11, PoolPartsNext

\* An operation on a Session that has reserved nothing takes a quiet step.
LEMMA HandleStep ==
  ASSUME PoolInv, NEW t \in Task, QuietWorld, Alone(t), Paced(t),
         task[t].op \in HandleOps \union {"none"}, ~Forks(t),
         task'[t].op \in HandleOps \union {"none"}, ~Forks(t)',
         task'[t].runtime = task[t].runtime \/ Free(task'[t].runtime),
         ShapeAt(t)', RoomyAt(t)', AwaitedAt(t)'
  PROVE  PoolInv'
  <1>1. ShapeAt(t)
    BY PoolParts DEF Shape
  <1>2. ~Creating(t) /\ ~Creating(t)' /\ ~Launched(t) /\ ~Launched(t)'
    BY DEF Creating, Launched, HandleOps
  <1>3. ~Deleting(t) /\ ~Deleting(t)'
    BY <1>1 DEF Deleting, ShapeAt, HandleOps, Management
  <1>4. RoleKept(t)
    BY <1>2, <1>3 DEF RoleKept, SameCreating, SameDeleting, HandleOps, Management
  <1> QED BY <1>2, <1>3, <1>4, QuietStep DEF QuietTask

\* It ends.
LEMMA HandleEnds ==
  ASSUME PoolInv, NEW t \in Task, QuietWorld, Done(t),
         (Holds(t) /\ Unlock) \/ queue' = queue,
         task[t].op \in HandleOps \union {"none"}, ~Forks(t)
  PROVE  PoolInv'
  <1>1. Becomes(t, "none", "idle", "none", None, None, None)
    BY PoolParts, DoneIs
  <1>2. /\ task'[t].op = "none" /\ task'[t].pc = "idle" /\ task'[t].body = "none"
        /\ task'[t].runtime = None /\ Alone(t)
    BY <1>1 DEF Becomes, Alone
  <1>3. Free(None)
    BY PoolParts, NoneFree
  <1>4. Paced(t)
    BY <1>2 DEF Paced, Unlock, Body, LockPC
  <1>5. ShapeAt(t)' /\ RoomyAt(t)' /\ AwaitedAt(t)' /\ ~Forks(t)'
    BY <1>2 DEF ShapeAt, RoomyAt, AwaitedAt, Forks, HandleOps, Management, Body, CreationBody
  <1> QED BY <1>2, <1>3, <1>4, <1>5, HandleStep

\* It goes on with the same runtime, or with one that a handle or a timer had.
LEMMA HandleGoes ==
  ASSUME PoolInv, NEW t \in Task, QuietWorld,
         task[t].op \in HandleOps \union {"none"}, ~Forks(t),
         NEW op \in HandleOps, NEW pc \in PC, NEW body \in Body \union {"none", "join"},
         NEW h \in Handle, NEW r \in Runtime \union {None}, NEW v,
         Becomes(t, op, pc, body, h, r, v), Paced(t),
         r = task[t].runtime \/ Free(r),
         \/ pc = "resolve"
         \/ pc = "track" /\ body = "track"
         \/ /\ pc = "room" /\ body = "track"
            /\ runtimes[h] = None /\ h \notin deleting /\ ~PendingIdentity
         \/ /\ r \in Runtime
            /\ \/ pc \in {"start", "acquire", "restart"} /\ body = pc
               \/ /\ pc = "room" /\ body \in {"start", "restart"}
                  /\ home[r] \notin deleting
               \/ /\ pc = "room" /\ body = "acquire" /\ h \notin deleting
               \/ /\ pc \in {"chained", "started", "failed"}
                  /\ body \in PinningBody \union {"join"}
               \/ /\ pc = "starting" /\ body \in PinningBody \union {"join"}
                  /\ phase[r] = "starting"
               \/ pc = "working"
               \/ pc = "transit" /\ body = "transit" /\ op = "fork",
         \A h2 \in Handle : runtimes[h2] = None => runtimes'[h2] = None
  PROVE  PoolInv'
  <1>1. /\ task'[t].op = op /\ task'[t].pc = pc /\ task'[t].body = body
        /\ task'[t].handle = h /\ task'[t].runtime = r /\ Alone(t)
    BY DEF Becomes, Alone
  <1>2. home' = home /\ deleting' = deleting /\ phase' = phase
        /\ PendingIdentity' = PendingIdentity
    BY DEF QuietWorld, DropWorld, PendingIdentity
  <1>3. ShapeAt(t)'
    BY <1>1 DEF ShapeAt, HandleOps, Management, Body, CreationBody, ForkPC, PinningBody
  <1>4. RoomyAt(t)'
    BY <1>1, <1>2 DEF RoomyAt, PinningBody
  <1>5. AwaitedAt(t)' /\ ~Forks(t)'
    BY <1>1, <1>2 DEF AwaitedAt, Forks, HandleOps
  <1> QED BY <1>1, <1>3, <1>4, <1>5, HandleStep

\* Whoever joins a start finds it under way, or knows what became of it.
LEMMA Joins ==
  ASSUME NEW r \in Runtime
  PROVE  /\ JoinPc(r) \in {"chained", "starting", "started", "failed"}
         /\ JoinPc(r) \in PC
         /\ JoinPc(r) \notin Body \union LockPC
         /\ JoinPc(r) = "starting" => phase[r] = "starting"
  BY DEF JoinPc, PC, Body, LockPC

\* A runtime of a handle or of a timer is not at a temporary handle.
LEMMA NotPending ==
  ASSUME PoolInv, NEW h \in Handle
  PROVE  /\ runtimes[h] \in Runtime \union {None} /\ timers[h] \in Runtime \union {None}
         /\ Free(runtimes[h]) /\ Free(timers[h])
         /\ None \notin Runtime /\ None \notin Handle /\ None \notin Task
  BY PoolParts, TaskAssumption DEF TypeOK, HomesTracked, HomesKnown, PendingKnown, Free

\* No operation that reserved something is idle or on its way to the pool.
LEMMA Unreserved ==
  ASSUME PoolInv, NEW t \in Task
  PROVE  /\ task[t].pc = "idle" => task[t].op = "none" /\ ~Forks(t)
         /\ task[t].op \in HandleOps /\ task[t].pc \notin {"forking", "commit", "endTransit",
              "stopping", "stopped"} => ~Forks(t) /\ task[t].handle \in Handle
         /\ task[t].pc \in {"resolve", "track", "start", "acquire", "restart", "chained",
                            "working", "transit"} =>
              task[t].op \in HandleOps /\ ~Forks(t) /\ task[t].handle \in Handle
         /\ task[t].pc \in {"start", "acquire", "restart", "chained", "working", "transit",
                            "forking", "commit", "endTransit"} =>
              task[t].runtime \in Runtime
  <1>1. ShapeAt(t) /\ task[t].op \in Op
    BY PoolParts, TaskTypes DEF Shape
  <1> QED BY <1>1 DEF ShapeAt, Op, HandleOps, Management, Forks, CreationBody, ForkPC

LEMMA SameWorld ==
  ASSUME PoolInv, UNCHANGED <<processVars, sessionVars, trackVars, reserveVars, closing>>
  PROVE  QuietWorld
  BY PoolParts DEF QuietWorld, DropWorld, Drops, TypeOK, processVars, sessionVars, trackVars, reserveVars

LEMMA TrackKeeps ==
  ASSUME PoolInv, NEW t \in Task, Track(t)
  PROVE  PoolInv'
  <1> DEFINE h == task[t].handle
  <1>0. QuietWorld
    BY SameWorld DEF Track
  <1>1. /\ Holds(t) /\ task[t].pc = "track" /\ task[t].op \in HandleOps /\ ~Forks(t) /\ h \in Handle
        /\ UNCHANGED <<processVars, sessionVars, trackVars, reserveVars, closing>>
    BY Unreserved DEF Track, At
  <1>2. TypeOK /\ runtimes' = runtimes
    BY <1>1, PoolParts DEF trackVars
  <1>3. CASE Done(t) /\ Unlock
    BY <1>0, <1>1, <1>3, HandleEnds
  <1>4. CASE /\ Set(t, [task[t] EXCEPT !.pc = "start", !.body = "start", !.runtime = runtimes[h]])
             /\ Relock(t) /\ runtimes[h] # None
    <2>1. runtimes[h] \in Runtime /\ Free(runtimes[h])
      BY <1>1, <1>4, NotPending
    <2>2. Becomes(t, task[t].op, "start", "start", h, runtimes[h], task[t].victim)
      BY <1>2, <1>4, <2>1, StartIs
    <2>3. Paced(t)
      BY <1>1, <1>4, <2>2 DEF Paced, Relock, Becomes, Body
    <2> QED BY <1>0, <1>1, <1>2, <2>1, <2>2, <2>3, HandleGoes DEF PC, Body
  <1>5. CASE /\ Goto(t, "room") /\ queue' = queue
             /\ runtimes[h] = None /\ h \notin deleting /\ ~PendingIdentity
    <2>1. Becomes(t, task[t].op, "room", task[t].body, h, task[t].runtime, task[t].victim)
      BY <1>2, <1>5, GotoIs DEF PC
    <2>2. Paced(t)
      BY <1>1, <1>5 DEF Paced
    <2>3. task[t].body = "track" /\ task[t].runtime \in Runtime \union {None}
      BY <1>1, <1>2, PoolParts, TaskTypes DEF Shape, ShapeAt, Body
    <2> QED BY <1>0, <1>1, <1>2, <1>5, <2>1, <2>2, <2>3, HandleGoes DEF PC, Body
  <1> QED BY <1>1, <1>3, <1>4, <1>5 DEF Track

LEMMA DropActivationDrops ==
  ASSUME PoolInv, NEW t \in Task, DropActivation(t), leader' = leader,
         task[t].handle \in Handle, task[t].runtime \in Runtime
  PROVE  Drops /\ \A h \in Handle : runtimes[h] = None => runtimes'[h] = None
  <1> DEFINE r == task[t].runtime
             h == task[t].handle
  <1>1. /\ runtimes \in [Handle -> Runtime \union {None}]
        /\ timers \in [Handle -> Runtime \union {None}]
        /\ unadmitted \subseteq Runtime /\ Alive \subseteq Runtime /\ Alive' = Alive
    BY PoolParts DEF TypeOK, Alive
  <1>2. CASE /\ Forgets(t) /\ runtimes' = [runtimes EXCEPT ![h] = None]
             /\ timers' = [timers EXCEPT ![home[r]] = None]
             /\ unadmitted' = unadmitted \union ({r} \intersect Alive)
    <2>1. /\ runtimes' \in [Handle -> Runtime \union {None}]
          /\ timers' \in [Handle -> Runtime \union {None}]
          /\ \A g \in Handle : timers'[g] \in {timers[g], None}
          /\ \A g \in Handle : runtimes'[g] \in {runtimes[g], None}
          /\ \A g \in Handle : g # h => runtimes'[g] = runtimes[g]
      BY <1>1, <1>2
    <2>2. runtimes[h] = r
      BY <1>2 DEF Forgets
    <2>3. r \notin Admitted'
      BY <1>1, <1>2 DEF Admitted
    <2>4. unadmitted \subseteq unadmitted' /\ unadmitted' \subseteq Runtime
      BY <1>1, <1>2
    <2> QED BY <2>1, <2>2, <2>3, <2>4 DEF Drops
  <1>3. CASE UNCHANGED <<runtimes, timers, unadmitted>>
    BY <1>1, <1>3 DEF Drops
  <1> QED BY <1>2, <1>3 DEF DropActivation

LEMMA ResolveKeeps ==
  ASSUME PoolInv, NEW t \in Task, Resolve(t)
  PROVE  PoolInv'
  <1>0. QuietWorld
    BY SameWorld DEF Resolve
  <1>1. /\ task[t].pc = "resolve" /\ task[t].op \in HandleOps /\ ~Forks(t)
        /\ task[t].handle \in Handle
        /\ UNCHANGED <<processVars, sessionVars, trackVars, reserveVars, closing>>
    BY Unreserved DEF Resolve, At
  <1>2. TypeOK /\ runtimes' = runtimes /\ task[t].runtime \in Runtime \union {None}
    BY <1>1, PoolParts, TaskTypes DEF trackVars
  <1>3. CASE Done(t) /\ queue' = queue
    BY <1>0, <1>1, <1>3, HandleEnds
  <1>4. CASE Want(t, "track") /\ Enqueue(t)
    <2>1. Becomes(t, task[t].op, "track", "track", task[t].handle, task[t].runtime,
                  task[t].victim)
      BY <1>2, <1>4, WantIs DEF Body
    <2>2. Paced(t)
      BY <1>4, <2>1 DEF Paced, Enqueue, Becomes, Body
    <2> QED BY <1>0, <1>1, <1>2, <2>1, <2>2, HandleGoes DEF PC, Body
  <1> QED BY <1>3, <1>4 DEF Resolve

LEMMA StartKeeps ==
  ASSUME PoolInv, NEW t \in Task, Start(t)
  PROVE  PoolInv'
  <1> DEFINE r == task[t].runtime
             h == task[t].handle
  <1>1. /\ Holds(t) /\ task[t].pc = "start" /\ task[t].op \in HandleOps /\ ~Forks(t)
        /\ h \in Handle /\ r \in Runtime
        /\ UNCHANGED <<phase, leader, ending, sessionVars, pending, owned, reserveVars, closing>>
    BY Unreserved DEF Start, At
  <1>2. TypeOK /\ task[t].body = "start"
    BY <1>1, PoolParts DEF Shape, ShapeAt, Body
  <1>3. CASE Done(t) /\ Unlock /\ DropActivation(t)
    <2>1. Drops
      BY <1>1, <1>3, DropActivationDrops
    <2>2. QuietWorld
      BY <1>1, <2>1 DEF QuietWorld, DropWorld, sessionVars, reserveVars
    <2> QED BY <1>1, <1>3, <2>2, HandleEnds
  <1>4. CASE Goto(t, JoinPc(r)) /\ Unlock /\ UNCHANGED <<runtimes, timers, unadmitted>>
    <2>1. QuietWorld
      BY <1>1, <1>4, SameWorld DEF processVars, trackVars
    <2>2. Becomes(t, task[t].op, JoinPc(r), "start", h, r, task[t].victim)
      BY <1>1, <1>2, <1>4, GotoIs, Joins
    <2>3. Paced(t)
      BY <1>1, <1>4, <2>2, Joins DEF Paced, Unlock, Becomes
    <2> QED
      BY <1>1, <1>4, <2>1, <2>2, <2>3, HandleGoes, Joins DEF PinningBody, Body
  <1>5. CASE /\ Goto(t, "room") /\ home[r] \notin deleting
             /\ UNCHANGED <<queue, runtimes, timers, unadmitted>>
    <2>1. QuietWorld
      BY <1>1, <1>5, SameWorld DEF processVars, trackVars
    <2>2. Becomes(t, task[t].op, "room", "start", h, r, task[t].victim)
      BY <1>1, <1>2, <1>5, GotoIs DEF PC
    <2>3. Paced(t)
      BY <1>1, <1>5 DEF Paced
    <2> QED BY <1>1, <1>5, <2>1, <2>2, <2>3, HandleGoes DEF PC, Body
  <1> QED BY <1>1, <1>3, <1>4, <1>5 DEF Start

LEMMA AcquireKeeps ==
  ASSUME PoolInv, NEW t \in Task, Acquire(t)
  PROVE  PoolInv'
  <1> DEFINE r == task[t].runtime
             h == task[t].handle
  <1>0. QuietWorld
    BY SameWorld DEF Acquire
  <1>1. /\ Holds(t) /\ task[t].pc = "acquire" /\ task[t].op \in HandleOps /\ ~Forks(t)
        /\ h \in Handle /\ r \in Runtime
        /\ UNCHANGED <<processVars, sessionVars, trackVars, reserveVars, closing>>
    BY Unreserved DEF Acquire, At
  <1>2. TypeOK /\ task[t].body = "acquire" /\ runtimes' = runtimes
    BY <1>1, PoolParts DEF Shape, ShapeAt, Body, trackVars
  <1>3. CASE Done(t) /\ Unlock
    BY <1>0, <1>1, <1>3, HandleEnds
  <1>4. CASE Goto(t, JoinPc(r)) /\ Unlock
    <2>2. Becomes(t, task[t].op, JoinPc(r), "acquire", h, r, task[t].victim)
      BY <1>1, <1>2, <1>4, GotoIs, Joins
    <2>3. Paced(t)
      BY <1>1, <1>4, <2>2, Joins DEF Paced, Unlock, Becomes
    <2> QED
      BY <1>0, <1>1, <1>2, <2>2, <2>3, HandleGoes, Joins DEF PinningBody, Body
  <1>5. CASE Goto(t, "room") /\ queue' = queue /\ h \notin deleting
    <2>2. Becomes(t, task[t].op, "room", "acquire", h, r, task[t].victim)
      BY <1>1, <1>2, <1>5, GotoIs DEF PC
    <2>3. Paced(t)
      BY <1>1, <1>5 DEF Paced
    <2> QED BY <1>0, <1>1, <1>2, <1>5, <2>2, <2>3, HandleGoes DEF PC, Body
  <1> QED BY <1>1, <1>3, <1>4, <1>5 DEF Acquire

\* A request joins the queue for a body.
LEMMA AsksKeeps ==
  ASSUME PoolInv, NEW t \in Task, NEW op \in HandleOps, NEW h \in Handle, NEW r \in Runtime,
         NEW b \in {"start", "acquire", "restart"}, Free(r), At(t, "idle"),
         Set(t, [Asks(op, h, r) EXCEPT !.pc = b, !.body = b]), Enqueue(t),
         QuietWorld, runtimes' = runtimes
  PROVE  PoolInv'
  <1>1. TypeOK /\ op \in Op /\ b \in PC /\ b \in Body /\ task[t].op = "none" /\ ~Forks(t)
    BY PoolParts, Unreserved DEF Op, PC, Body, HandleOps, At
  <1>2. Becomes(t, op, b, b, h, r, None)
    BY <1>1, AsksIs
  <1>3. Paced(t)
    BY <1>1, <1>2 DEF Paced, Becomes, Enqueue
  <1> QED BY <1>1, <1>2, <1>3, HandleGoes

LEMMA EnsureRuntimeKeeps ==
  ASSUME PoolInv, NEW t \in Task, NEW h \in Handle, NEW op \in {"view", "command", "fork"},
         EnsureRuntime(t, op, h)
  PROVE  PoolInv'
  <1> DEFINE r == runtimes[h]
  <1>0. QuietWorld
    BY SameWorld DEF EnsureRuntime
  <1>1. /\ task[t].pc = "idle" /\ task[t].op = "none" /\ ~Forks(t) /\ op \in HandleOps /\ op \in Op
        /\ UNCHANGED <<processVars, sessionVars, trackVars, reserveVars, closing>>
    BY Unreserved DEF EnsureRuntime, At, HandleOps, Op
  <1>2. TypeOK /\ r \in Runtime \union {None} /\ Free(r) /\ runtimes' = runtimes
        /\ Free(None)
    BY <1>1, PoolParts, NotPending, NoneFree DEF trackVars, TypeOK
  <1>3. CASE /\ Set(t, [Asks(op, h, None) EXCEPT !.pc = "resolve", !.fresh = TRUE])
             /\ queue' = queue
    <2>1. Becomes(t, op, "resolve", "none", h, None, None)
      BY <1>1, <1>2, <1>3, ResolveIs
    <2>2. Paced(t)
      BY <1>3, <2>1 DEF Paced, Becomes, Body, LockPC
    <2> QED BY <1>0, <1>1, <1>2, <2>1, <2>2, HandleGoes DEF PC
  <1>4. CASE /\ r # None /\ Enqueue(t)
             /\ Set(t, [Asks(op, h, r) EXCEPT !.pc = "acquire", !.body = "acquire"])
    BY <1>0, <1>1, <1>2, <1>4, AsksKeeps DEF At
  <1>5. CASE /\ r # None /\ queue' = queue
             /\ Set(t, [Asks(op, h, r) EXCEPT !.pc = JoinPc(r), !.body = "join"])
    <2>1. Becomes(t, op, JoinPc(r), "join", h, r, None)
      BY <1>1, <1>2, <1>5, AsksIs, Joins
    <2>2. Paced(t)
      BY <1>2, <1>5, <2>1, Joins DEF Paced, Becomes
    <2> QED BY <1>0, <1>1, <1>2, <1>5, <2>1, <2>2, HandleGoes, Joins
  <1>6. CASE /\ r # None /\ Enqueue(t)
             /\ Set(t, [Asks(op, h, r) EXCEPT !.pc = "start", !.body = "start"])
    BY <1>0, <1>1, <1>2, <1>6, AsksKeeps DEF At
  <1> QED BY <1>3, <1>4, <1>5, <1>6 DEF EnsureRuntime

LEMMA RestartKeeps ==
  ASSUME PoolInv, NEW t \in Task, NEW h \in Handle, Restart(t, h)
  PROVE  PoolInv'
  <1>1. QuietWorld /\ runtimes' = runtimes /\ runtimes[h] \in Runtime /\ Free(runtimes[h])
    BY SameWorld, NotPending DEF Restart, trackVars
  <1> QED BY <1>1, AsksKeeps DEF Restart, HandleOps

LEMMA RestartAdmitKeeps ==
  ASSUME PoolInv, NEW t \in Task, RestartAdmit(t)
  PROVE  PoolInv'
  <1> DEFINE r == task[t].runtime
             h == task[t].handle
  <1>1. /\ Holds(t) /\ task[t].pc = "restart" /\ task[t].op \in HandleOps /\ ~Forks(t)
        /\ h \in Handle /\ r \in Runtime
        /\ UNCHANGED <<processVars, sessionVars, runtimes, pending, owned, reserveVars, closing>>
    BY Unreserved DEF RestartAdmit, At
  <1>2. TypeOK /\ HomesTracked /\ task[t].body = "restart" /\ None \notin Runtime
    BY <1>1, PoolParts, TaskAssumption DEF Shape, ShapeAt, Body
  <1>3. QuietWorld
    <2>1. /\ timers' \in [Handle -> Runtime \union {None}]
          /\ \A g \in Handle : timers'[g] \in {timers[g], None}
      BY <1>2 DEF RestartAdmit, TypeOK
    <2> QED
      BY <1>1, <1>2, <2>1 DEF QuietWorld, DropWorld, Drops, processVars, sessionVars, reserveVars, TypeOK
  <1>4. CASE Done(t) /\ Unlock
    BY <1>1, <1>3, <1>4, HandleEnds
  <1>5. CASE Goto(t, "room") /\ queue' = queue /\ runtimes[h] = r /\ h \notin deleting
    <2>1. home[r] \notin deleting
      BY <1>1, <1>2, <1>5 DEF HomesTracked
    <2>2. Becomes(t, task[t].op, "room", "restart", h, r, task[t].victim)
      BY <1>1, <1>2, <1>5, GotoIs DEF PC
    <2>3. Paced(t)
      BY <1>1, <1>5 DEF Paced
    <2> QED BY <1>1, <1>3, <2>1, <2>2, <2>3, HandleGoes DEF PC, Body
  <1> QED BY <1>4, <1>5 DEF RestartAdmit

LEMMA TimerFiresKeeps ==
  ASSUME PoolInv, NEW t \in Task, NEW h \in Handle, TimerFires(t, h)
  PROVE  PoolInv'
  <1>1. /\ At(t, "idle") /\ timers[h] # None
        /\ UNCHANGED <<processVars, sessionVars, runtimes, pending, owned, reserveVars, closing>>
    BY DEF TimerFires
  <1>2. QuietWorld
    <2>1. /\ timers' \in [Handle -> Runtime \union {None}]
          /\ \A g \in Handle : timers'[g] \in {timers[g], None}
      BY PoolParts DEF TimerFires, TypeOK
    <2> QED
      BY <1>1, <2>1, PoolParts DEF QuietWorld, DropWorld, Drops, processVars, sessionVars, reserveVars, TypeOK
  <1>3. timers[h] \in Runtime /\ Free(timers[h])
    BY <1>1, NotPending
  <1>4. CASE /\ Enqueue(t)
             /\ Set(t, [Asks("timer", h, timers[h]) EXCEPT !.pc = "start", !.body = "start"])
    BY <1>1, <1>2, <1>3, <1>4, AsksKeeps DEF HandleOps
  <1>5. CASE UNCHANGED <<task, queue>>
    <2>1. /\ Alone(t) /\ Paced(t) /\ task[t].op = "none" /\ ~Forks(t)
          /\ task'[t] = task[t] /\ task[t].pc = "idle"
      BY <1>1, <1>5, PoolParts, Unreserved DEF Alone, Paced, At, Body, LockPC, TypeOK
    <2>2. ShapeAt(t)' /\ RoomyAt(t)' /\ AwaitedAt(t)' /\ ~Forks(t)'
      BY <2>1, PoolParts DEF Shape, ShapeAt, RoomyAt, AwaitedAt, Forks
    <2> QED BY <1>2, <2>1, <2>2, HandleStep
  <1> QED BY <1>4, <1>5 DEF TimerFires

LEMMA CompleteKeeps ==
  ASSUME PoolInv, NEW t \in Task, Complete(t)
  PROVE  PoolInv'
  <1>1. QuietWorld /\ task[t].op \in HandleOps /\ ~Forks(t)
    BY SameWorld, Unreserved DEF Complete, At
  <1> QED BY <1>1, HandleEnds DEF Complete

\* The parts of an operation that reserved nothing yet and of one that is over.
LEMMA IdleStep ==
  ASSUME PoolInv, NEW t \in Task, QuietWorld,
         NEW op \in Op, NEW pc, NEW body, NEW h, NEW v,
         Becomes(t, op, pc, body, h, None, v), Paced(t),
         ~Creating(t), ~Launched(t), ~Forks(t), ~Deleting(t),
         \/ op = "none" /\ pc = "idle"
         \/ op = "create" /\ pc = "creation" /\ body = "creation"
         \/ op = "reap" /\ pc = "sweep" /\ body = "sweep"
         \/ op \in Management /\ pc = "reserve" /\ body = "reserve" /\ h \in Handle /\ Open
  PROVE  PoolInv'
  <1>1. /\ task'[t].op = op /\ task'[t].pc = pc /\ task'[t].body = body
        /\ task'[t].handle = h /\ task'[t].runtime = None /\ Alone(t)
    BY DEF Becomes, Alone
  <1>2. ShapeAt(t)' /\ RoomyAt(t)' /\ AwaitedAt(t)'
    BY <1>1 DEF ShapeAt, RoomyAt, AwaitedAt, HandleOps, Management, Body, CreationBody
  <1>3. ~Creating(t)' /\ ~Launched(t)' /\ ~Forks(t)' /\ ~Deleting(t)'
    BY <1>1 DEF Creating, Launched, Forks, Deleting, Management
  <1>4. Free(None)
    BY PoolParts, NoneFree
  <1>5. RoleKept(t)
    BY <1>1, <1>3, <1>4 DEF RoleKept, SameCreating, SameDeleting, Management
  <1> QED BY <1>1, <1>2, <1>3, <1>5, QuietStep DEF QuietTask

\* A request of its own joins the queue.
LEMMA RequestKeeps ==
  ASSUME PoolInv, NEW t \in Task, At(t, "idle"), Enqueue(t),
         UNCHANGED <<processVars, sessionVars, trackVars, reserveVars, closing>>,
         NEW op \in Op, NEW h \in Handle \union {None}, NEW b \in Body,
         Set(t, [Asks(op, h, None) EXCEPT !.pc = b, !.body = b]),
         \/ op = "create" /\ b = "creation"
         \/ op = "reap" /\ b = "sweep"
         \/ op \in Management /\ b = "reserve" /\ h \in Handle /\ Open
  PROVE  PoolInv'
  <1>1. QuietWorld /\ TypeOK
    BY SameWorld, PoolParts
  <1>2. /\ task[t].pc = "idle" /\ task[t].op = "none" /\ ~Forks(t)
        /\ ~Creating(t) /\ ~Launched(t) /\ ~Deleting(t)
    BY Unreserved DEF At, Creating, Launched, Deleting, Management
  <1>3. Becomes(t, op, b, b, h, None, None)
    BY <1>1, AsksIs DEF PC
  <1>4. Paced(t)
    BY <1>3 DEF Paced, Becomes, Enqueue
  <1> QED BY <1>1, <1>2, <1>3, <1>4, IdleStep

LEMMA RequestsKeep ==
  ASSUME PoolInv, NEW t \in Task,
         \/ Create(t) \/ Reap(t)
         \/ \E h \in Handle, op \in Management : Manage(t, op, h)
  PROVE  PoolInv'
  <1>1. ASSUME Create(t) PROVE PoolInv'
    BY <1>1, RequestKeeps DEF Create, Op, Body
  <1>2. ASSUME Reap(t) PROVE PoolInv'
    BY <1>2, RequestKeeps DEF Reap, Op, Body
  <1>3. ASSUME NEW h \in Handle, NEW op \in Management, Manage(t, op, h) PROVE PoolInv'
    <2>1. op \in Op /\ "reserve" \in Body
      BY DEF Op, Body, Management
    <2> QED BY <1>3, <2>1, RequestKeeps DEF Manage
  <1> QED BY <1>1, <1>2, <1>3

\* An operation that reserved nothing ends with the lock in its hand.
LEMMA UnreservedEnds ==
  ASSUME PoolInv, NEW t \in Task, QuietWorld, Done(t), Holds(t), Unlock,
         ~Creating(t), ~Launched(t), ~Forks(t), ~Deleting(t)
  PROVE  PoolInv'
  <1>1. Becomes(t, "none", "idle", "none", None, None, None)
    BY PoolParts, DoneIs
  <1>2. Paced(t)
    BY <1>1 DEF Paced, Unlock, Becomes, Body, LockPC
  <1> QED BY <1>1, <1>2, IdleStep DEF Op

LEMMA ReapEndsKeeps ==
  ASSUME PoolInv, NEW t \in Task, ReapEnds(t)
  PROVE  PoolInv'
  <1>1. /\ task[t].pc \in {"sweep", "sweepIdle"} /\ task[t].op = "reap"
        /\ Holds(t) /\ Done(t) /\ Unlock
    BY PoolParts DEF ReapEnds, Shape, ShapeAt
  <1>2. QuietWorld
    BY SameWorld DEF ReapEnds
  <1> QED
    BY <1>1, <1>2, UnreservedEnds DEF Creating, Launched, Forks, Deleting, Management

\* A creation goes on.
LEMMA CreationGoes ==
  ASSUME PoolInv, NEW t \in Task, QuietWorld, task[t].op = "create", NEW pc, NEW body,
         Becomes(t, "create", pc, body, task[t].handle, task[t].runtime, task[t].victim),
         Paced(t),
         \/ pc = "room" /\ body = "launch" /\ task[t].pc = "launch"
         \/ pc = "endCreation" /\ body = pc /\ task[t].pc \in {"launch", "room"}
         \/ pc = "commitNew" /\ body = pc /\ task[t].pc = "started"
         \/ pc = "untrack" /\ body = pc /\ task[t].pc \in {"failed", "stopped"}
  PROVE  PoolInv'
  <1>1. /\ task'[t].op = "create" /\ task'[t].pc = pc /\ task'[t].body = body
        /\ task'[t].handle = task[t].handle /\ task'[t].runtime = task[t].runtime /\ Alone(t)
    BY DEF Becomes, Alone
  <1>2. ShapeAt(t) /\ PendingKnown
    BY PoolParts DEF Shape
  <1>3. ShapeAt(t)'
    BY <1>1, <1>2 DEF ShapeAt, HandleOps, Management, Body, CreationBody
  <1>4. RoomyAt(t)' /\ AwaitedAt(t)'
    BY <1>1 DEF RoomyAt, AwaitedAt
  <1>5. /\ Creating(t)' <=> Creating(t)
        /\ Launched(t) /\ Launched(t)'
        /\ ~Forks(t) /\ ~Forks(t)' /\ ~Deleting(t) /\ ~Deleting(t)'
    BY <1>1, <1>2 DEF Creating, Launched, Forks, Deleting, Management, ShapeAt
  <1>6. RoleKept(t)
    BY <1>1, <1>5 DEF RoleKept, SameCreating, SameDeleting, Management
  <1>7. pc = "untrack" => task[t].runtime \notin Admitted
    BY <1>2 DEF PendingKnown, Creating, Admitted
  <1> QED BY <1>1, <1>3, <1>4, <1>5, <1>6, <1>7, QuietStep DEF QuietTask

\* A fork that reserved its workspace goes on.
LEMMA ForkGoes ==
  ASSUME PoolInv, NEW t \in Task, QuietWorld, task[t].op = "fork", Forks(t), Enqueue(t),
         NEW b \in {"endTransit", "commit"}, Want(t, b),
         task[t].pc \in {"forking", "stopped"}
  PROVE  PoolInv'
  <1>0. TypeOK /\ ShapeAt(t)
    BY PoolParts DEF Shape
  <1>1. Becomes(t, "fork", b, b, task[t].handle, task[t].runtime, task[t].victim)
    BY <1>0, WantIs DEF Body
  <1>2. /\ task'[t].op = "fork" /\ task'[t].pc = b /\ task'[t].body = b
        /\ task'[t].handle = task[t].handle /\ task'[t].runtime = task[t].runtime /\ Alone(t)
    BY <1>1 DEF Becomes, Alone
  <1>3. Paced(t)
    BY <1>2 DEF Paced, Enqueue, Body
  <1>4. ShapeAt(t)'
    BY <1>0, <1>2 DEF ShapeAt, HandleOps, Management, Body, CreationBody, ForkPC
  <1>5. RoomyAt(t)' /\ AwaitedAt(t)' /\ Forks(t)'
    BY <1>2 DEF RoomyAt, AwaitedAt, Forks
  <1>6. ~Creating(t) /\ ~Creating(t)' /\ ~Launched(t) /\ ~Launched(t)'
        /\ ~Deleting(t) /\ ~Deleting(t)'
    BY <1>2 DEF Creating, Launched, Deleting, Management
  <1>7. RoleKept(t)
    BY <1>2, <1>5, <1>6 DEF RoleKept, SameCreating, SameDeleting, Management
  <1> QED BY <1>2, <1>3, <1>4, <1>5, <1>6, <1>7, QuietStep DEF QuietTask

LEMMA ForkAnsweredKeeps ==
  ASSUME PoolInv, NEW t \in Task, ForkAnswered(t)
  PROVE  PoolInv'
  <1>1. QuietWorld
    BY SameWorld DEF ForkAnswered
  <1>2. task[t].pc = "forking" /\ task[t].op = "fork" /\ Forks(t)
    <2>1. ShapeAt(t) /\ task[t].op \in Op
      BY PoolParts, TaskTypes DEF Shape
    <2> QED
      BY <2>1 DEF ForkAnswered, At, ShapeAt, Forks, Op, HandleOps, Management, CreationBody
  <1> QED BY <1>1, <1>2, ForkGoes DEF ForkAnswered

\* A deletion goes on when what it stopped has stopped.
LEMMA DeletionGoes ==
  ASSUME PoolInv, NEW t \in Task, QuietWorld, Paced(t),
         task[t].pc = "stopped", task[t].op \in Management,
         NEW pc, NEW body, pc = "operating" \/ (pc = "forget" /\ body = pc),
         Becomes(t, task[t].op, pc, body, task[t].handle, task[t].runtime, task[t].victim)
  PROVE  PoolInv'
  <1>0. ShapeAt(t)
    BY PoolParts DEF Shape
  <1>1. /\ task'[t].op = task[t].op /\ task'[t].pc = pc /\ task'[t].body = body
        /\ task'[t].handle = task[t].handle /\ task'[t].runtime = task[t].runtime /\ Alone(t)
    BY DEF Becomes, Alone
  <1>2. ShapeAt(t)'
    BY <1>0, <1>1 DEF ShapeAt, HandleOps, Management, Body, CreationBody
  <1>3. RoomyAt(t)' /\ AwaitedAt(t)'
    BY <1>1 DEF RoomyAt, AwaitedAt
  <1>4. Deleting(t) /\ Deleting(t)' /\ ~Creating(t) /\ ~Creating(t)'
        /\ ~Launched(t) /\ ~Launched(t)' /\ ~Forks(t) /\ ~Forks(t)'
    BY <1>1 DEF Deleting, Creating, Launched, Forks, Management
  <1>5. RoleKept(t)
    BY <1>1, <1>4 DEF RoleKept, SameCreating, SameDeleting
  <1> QED BY <1>1, <1>2, <1>3, <1>4, <1>5, QuietStep DEF QuietTask

LEMMA StoppedKeeps ==
  ASSUME PoolInv, NEW t \in Task, Stopped(t)
  PROVE  PoolInv'
  <1>0. QuietWorld
    BY SameWorld DEF Stopped
  <1>1. TypeOK /\ ShapeAt(t) /\ task[t].pc = "stopped" /\ task[t].op \in Op
    BY PoolParts, TaskTypes DEF Shape, Stopped, At
  <1>2. CASE task[t].op = "fork"
    <2>1. Want(t, "endTransit") /\ Enqueue(t) /\ Forks(t)
      BY <1>1, <1>2 DEF Stopped, Forks
    <2> QED BY <1>0, <1>1, <1>2, <2>1, ForkGoes
  <1>3. CASE task[t].op = "create"
    <2>1. Want(t, "untrack") /\ Enqueue(t)
      BY <1>3 DEF Stopped
    <2>2. Becomes(t, "create", "untrack", "untrack", task[t].handle, task[t].runtime,
                  task[t].victim)
      BY <1>1, <1>3, <2>1, WantIs DEF Body
    <2>3. Paced(t)
      BY <2>1, <2>2 DEF Paced, Becomes, Enqueue, Body
    <2> QED BY <1>0, <1>1, <1>3, <2>2, <2>3, CreationGoes
  <1>4. CASE task[t].op = "abandon"
    <2>1. Want(t, "forget") /\ Enqueue(t)
      BY <1>4 DEF Stopped
    <2>2. Becomes(t, task[t].op, "forget", "forget", task[t].handle, task[t].runtime,
                  task[t].victim)
      BY <1>1, <2>1, WantIs DEF Body
    <2>3. Paced(t)
      BY <2>1, <2>2 DEF Paced, Becomes, Enqueue, Body
    <2> QED BY <1>0, <1>1, <1>4, <2>2, <2>3, DeletionGoes DEF Management
  <1>5. CASE task[t].op \notin {"fork", "create", "abandon"}
    <2>1. Goto(t, "operating") /\ queue' = queue
      BY <1>5 DEF Stopped
    <2>2. task[t].op \in Management
      BY <1>1, <1>5 DEF ShapeAt, Op, HandleOps, Management, ForkPC
    <2>3. Becomes(t, task[t].op, "operating", task[t].body, task[t].handle, task[t].runtime,
                  task[t].victim)
      BY <1>1, <2>1, GotoIs DEF PC
    <2>4. Paced(t)
      BY <2>1, <2>3 DEF Paced, Becomes, Body, LockPC
    <2> QED BY <1>0, <1>1, <2>2, <2>3, <2>4, DeletionGoes
  <1> QED BY <1>2, <1>3, <1>4, <1>5

LEMMA LaunchAdmitKeeps ==
  ASSUME PoolInv, NEW t \in Task, LaunchAdmit(t)
  PROVE  PoolInv'
  <1>0. QuietWorld
    BY SameWorld DEF LaunchAdmit
  <1>1. TypeOK /\ ShapeAt(t) /\ task[t].pc = "launch" /\ Holds(t)
    BY PoolParts DEF Shape, LaunchAdmit, At
  <1>2. task[t].op = "create" /\ task[t].body = "launch"
    BY <1>1 DEF ShapeAt, CreationBody, Body
  <1>3. CASE Goto(t, "room") /\ queue' = queue
    <2>1. Becomes(t, "create", "room", "launch", task[t].handle, task[t].runtime,
                  task[t].victim)
      BY <1>1, <1>2, <1>3, GotoIs DEF PC
    <2>2. Paced(t)
      BY <1>1, <1>3 DEF Paced
    <2> QED BY <1>0, <1>1, <1>2, <2>1, <2>2, CreationGoes
  <1>4. CASE Want(t, "endCreation") /\ Relock(t)
    <2>1. Becomes(t, "create", "endCreation", "endCreation", task[t].handle, task[t].runtime,
                  task[t].victim)
      BY <1>1, <1>2, <1>4, WantIs DEF Body
    <2>2. Paced(t)
      BY <1>1, <1>4, <2>1 DEF Paced, Relock, Becomes, Body
    <2> QED BY <1>0, <1>1, <1>2, <2>1, <2>2, CreationGoes
  <1> QED BY <1>3, <1>4 DEF LaunchAdmit

LEMMA RoomDeniedKeeps ==
  ASSUME PoolInv, NEW t \in Task, RoomDenied(t)
  PROVE  PoolInv'
  <1>1. /\ TypeOK /\ ShapeAt(t) /\ task[t].pc = "room" /\ Holds(t) /\ Abort(t)
        /\ task[t].op \in Op
        /\ UNCHANGED <<phase, leader, ending, sessionVars, pending, owned, reserveVars, closing>>
    BY PoolParts, TaskTypes DEF Shape, RoomDenied, At
  <1>2. CASE task[t].body = "launch"
    <2>1. task[t].op = "create"
      BY <1>1, <1>2
         DEF ShapeAt, Op, HandleOps, Management, PinningBody, ForkPC, Body, CreationBody
    <2>2. Want(t, "endCreation") /\ Relock(t) /\ UNCHANGED <<runtimes, timers, unadmitted>>
      BY <1>1, <1>2 DEF Abort
    <2>3. QuietWorld
      BY <1>1, <2>2, SameWorld DEF processVars, trackVars
    <2>4. Becomes(t, "create", "endCreation", "endCreation", task[t].handle, task[t].runtime,
                  task[t].victim)
      BY <1>1, <2>1, <2>2, WantIs DEF Body
    <2>5. Paced(t)
      BY <1>1, <2>2, <2>4 DEF Paced, Relock, Becomes, Body
    <2> QED BY <1>1, <2>1, <2>3, <2>4, <2>5, CreationGoes
  <1>3. CASE task[t].body # "launch"
    <2>1. task[t].op \in HandleOps /\ ~Forks(t) /\ task[t].handle \in Handle
      BY <1>1, <1>3 DEF ShapeAt, Op, HandleOps, Management, PinningBody, ForkPC, Forks, CreationBody
    <2>2. Done(t) /\ Unlock
      BY <1>1, <1>3 DEF Abort
    <2>3. Drops
      <3>1. CASE task[t].body = "start"
        <4>1. task[t].runtime \in Runtime /\ DropActivation(t)
          BY <1>1, <3>1, <2>1 DEF Abort, ShapeAt, HandleOps, Management, PinningBody, ForkPC
        <4> QED BY <1>1, <2>1, <4>1, DropActivationDrops
      <3>2. CASE task[t].body # "start"
        BY <1>1, <3>2 DEF Abort, Drops, TypeOK
      <3> QED BY <3>1, <3>2
    <2>4. QuietWorld
      BY <1>1, <2>3 DEF QuietWorld, DropWorld, sessionVars, reserveVars
    <2> QED BY <1>1, <2>1, <2>2, <2>4, HandleEnds
  <1> QED BY <1>2, <1>3

\* A start that somebody awaits ends, and the operation goes on or gives up.
LEMMA ResumeKeeps ==
  ASSUME PoolInv, NEW t \in Task, Resume(t)
  PROVE  PoolInv'
  <1> DEFINE r == task[t].runtime
             h == task[t].handle
  <1>1. /\ TypeOK /\ ShapeAt(t) /\ task[t].pc \in {"started", "failed"}
        /\ task[t].op \in Op /\ (At(t, "started") <=> task[t].pc = "started")
        /\ UNCHANGED <<phase, leader, ending, sessionVars, pending, owned, reserveVars, closing>>
    BY PoolParts, TaskTypes DEF Shape, Resume, FailureKnown, At
  <1>2. \/ task[t].op = "create" /\ task[t].body = "launch"
        \/ task[t].op \in HandleOps /\ ~Forks(t) /\ h \in Handle /\ r \in Runtime
           /\ task[t].body \in PinningBody \union {"join"}
    BY <1>1 DEF ShapeAt, Op, HandleOps, Management, Forks, ForkPC, CreationBody
  <1>3. CASE task[t].op = "create" /\ task[t].body = "launch"
    <2>1. /\ Want(t, IF task[t].pc = "started" THEN "commitNew" ELSE "untrack") /\ Enqueue(t)
          /\ UNCHANGED <<runtimes, timers, unadmitted>>
      BY <1>1, <1>3 DEF Resume
    <2>2. QuietWorld
      BY <1>1, <2>1, SameWorld DEF processVars, trackVars
    <2>3. PICK b \in {"commitNew", "untrack"} :
             /\ Want(t, b)
             /\ (b = "commitNew" /\ task[t].pc = "started") \/ (b = "untrack" /\ task[t].pc = "failed")
      BY <1>1, <2>1
    <2>4. Becomes(t, "create", b, b, h, r, task[t].victim)
      BY <1>1, <1>3, <2>3, WantIs DEF Body
    <2>5. Paced(t)
      BY <2>1, <2>4 DEF Paced, Becomes, Enqueue, Body
    <2> QED BY <1>3, <2>2, <2>3, <2>4, <2>5, CreationGoes
  <1>4. CASE task[t].op \in HandleOps /\ ~Forks(t) /\ h \in Handle /\ r \in Runtime
             /\ task[t].body \in PinningBody \union {"join"}
    <2>1. Drops /\ \A g \in Handle : runtimes[g] = None => runtimes'[g] = None
      <3>1. DropActivation(t) \/ UNCHANGED <<runtimes, timers, unadmitted>>
        BY DEF Resume
      <3> QED BY <1>1, <1>4, <3>1, DropActivationDrops DEF Drops, TypeOK
    <2>2. QuietWorld
      BY <1>1, <2>1 DEF QuietWorld, DropWorld, sessionVars, reserveVars
    <2>3. \/ Done(t) /\ queue' = queue
          \/ /\ Set(t, [task[t] EXCEPT !.pc = "acquire", !.body = "acquire", !.fresh = FALSE])
             /\ Enqueue(t)
          \/ Want(t, "transit") /\ Enqueue(t) /\ task[t].op = "fork"
          \/ Goto(t, "working") /\ queue' = queue
      BY <1>4 DEF Resume, PinningBody
    <2>4. CASE Done(t) /\ queue' = queue
      BY <1>4, <2>2, <2>4, HandleEnds
    <2>5. CASE /\ Set(t, [task[t] EXCEPT !.pc = "acquire", !.body = "acquire", !.fresh = FALSE])
               /\ Enqueue(t)
      <3>1. Becomes(t, task[t].op, "acquire", "acquire", h, r, task[t].victim)
        BY <1>1, <2>5, AcquireIs
      <3>2. Paced(t)
        BY <2>5, <3>1 DEF Paced, Becomes, Enqueue, Body
      <3> QED BY <1>4, <2>1, <2>2, <3>1, <3>2, HandleGoes DEF PC, Body
    <2>6. CASE Want(t, "transit") /\ Enqueue(t) /\ task[t].op = "fork"
      <3>1. Becomes(t, task[t].op, "transit", "transit", h, r, task[t].victim)
        BY <1>1, <2>6, WantIs DEF Body
      <3>2. Paced(t)
        BY <2>6, <3>1 DEF Paced, Becomes, Enqueue, Body
      <3> QED BY <1>4, <2>1, <2>2, <2>6, <3>1, <3>2, HandleGoes DEF PC, Body
    <2>7. CASE Goto(t, "working") /\ queue' = queue
      <3>1. Becomes(t, task[t].op, "working", task[t].body, h, r, task[t].victim)
        BY <1>1, <2>7, GotoIs DEF PC
      <3>2. Paced(t) /\ task[t].body \in Body \union {"none", "join"}
        BY <1>1, <2>7, <3>1, TaskTypes DEF Paced, Becomes, Body, LockPC
      <3> QED BY <1>4, <2>1, <2>2, <3>1, <3>2, HandleGoes DEF PC
    <2> QED BY <2>3, <2>4, <2>5, <2>6, <2>7
  <1> QED BY <1>2, <1>3, <1>4

-----------------------------------------------------------------------------
(* Steps that stop a process. *)

LEMMA StopCallIs ==
  ASSUME TypeOK, NEW r \in Runtime, StopCall(r)
  PROVE  /\ ending' \in [Runtime -> Ending] /\ ending'[r] # "none"
         /\ \A x \in Runtime : ending[x] # "none" => ending'[x] = ending[x]
         /\ \A x \in Runtime : ending'[x] \in {ending[x], "stop"}
         /\ \A x \in Runtime : x # r => ending'[x] = ending[x]
         /\ phase' = phase /\ leader' = leader /\ unadmitted' = unadmitted
         /\ Alive' = Alive /\ Admitted' = Admitted
  <1>1. /\ ending \in [Runtime -> Ending]
        /\ ending' = [ending EXCEPT ![r] = IF ending[r] = "none" THEN "stop" ELSE ending[r]]
        /\ phase' = phase /\ leader' = leader /\ unadmitted' = unadmitted
    BY DEF TypeOK, StopCall
  <1>2. ending'[r] = (IF ending[r] = "none" THEN "stop" ELSE ending[r])
        /\ \A x \in Runtime : x # r => ending'[x] = ending[x]
    BY <1>1
  <1>3. ending' \in [Runtime -> Ending]
    BY <1>1 DEF Ending
  <1>4. Alive' = Alive /\ Admitted' = Admitted
    BY <1>1 DEF Alive, Admitted
  <1> QED BY <1>1, <1>2, <1>3, <1>4

\* What a stop leaves of the conjuncts about processes.
StopWorld(r) ==
    /\ StopCall(r)
    /\ UNCHANGED <<runtimes, timers, home, files, intent, owned, pending, closing>>

LEMMA StopWorldKeeps ==
  ASSUME PoolInv, NEW r \in Runtime, StopWorld(r), NEW t \in Task, Alone(t), Paced(t),
         deleting' \subseteq Handle, transition' \in Task \union {None}, creations' \subseteq Task,
         ShapeAt(t)', AwaitedAt(t)'
  PROVE  /\ TypeOK' /\ Shape' /\ Locked' /\ Awaited'
         /\ HomesTracked' /\ AdmittedTracked' /\ PhasesFit' /\ AdmittedWithinCap'
  <1>0. /\ TypeOK /\ Shape /\ Locked /\ HomesTracked /\ AdmittedTracked /\ PhasesFit
        /\ Awaited /\ AdmittedWithinCap
    BY PoolParts
  <1>1. /\ ending' \in [Runtime -> Ending] /\ ending'[r] # "none"
        /\ \A x \in Runtime : ending[x] # "none" => ending'[x] = ending[x]
        /\ \A x \in Runtime : ending'[x] \in {ending[x], "stop"}
        /\ phase' = phase /\ leader' = leader /\ unadmitted' = unadmitted
        /\ Alive' = Alive /\ Admitted' = Admitted
    BY <1>0, StopCallIs DEF StopWorld
  <1>2. /\ runtimes' = runtimes /\ timers' = timers /\ home' = home /\ files' = files
        /\ intent' = intent /\ owned' = owned /\ pending' = pending /\ closing' = closing
    BY DEF StopWorld
  <1>3. Locked' /\ queue' \in Seq(Task \union {Closer})
    BY <1>0, LockedKept
  <1>4. TypeOK'
    BY <1>0, <1>1, <1>2, <1>3 DEF TypeOK, Alone
  <1>5. \A u \in Task : u # t => ShapeAt(u)' /\ AwaitedAt(u)'
    <2> SUFFICES ASSUME NEW u \in Task, u # t PROVE ShapeAt(u)' /\ AwaitedAt(u)'
      OBVIOUS
    <2>1. task'[u] = task[u]
      BY DEF Alone
    <2>2. ShapeAt(u) /\ AwaitedAt(u) /\ task[u].op \in Op
      BY <1>0, TaskTypes DEF Shape, Awaited
    <2>3. /\ task[u].pc \in {"evicting", "reaping"} => task[u].victim \in Runtime
          /\ task[u].pc = "stopping" => task[u].runtime \in Runtime
      BY <2>2 DEF ShapeAt, Op, HandleOps, Management, CreationBody, ForkPC
    <2>4. ShapeAt(u)'
      BY <2>1, <2>2 DEF ShapeAt
    <2>5. AwaitedAt(u)'
      BY <1>1, <2>1, <2>2, <2>3 DEF AwaitedAt
    <2> QED BY <2>4, <2>5
  <1>6. Shape' /\ Awaited'
    BY <1>5 DEF Shape, Awaited
  <1>7. HomesTracked'
    BY <1>0, <1>2 DEF HomesTracked
  <1>8. AdmittedTracked'
    BY <1>0, <1>1, <1>2 DEF AdmittedTracked, Tracked, Hot, Running, Alive
  <1>9. PhasesFit'
    BY <1>0, <1>1 DEF PhasesFit
  <1>10. (Kept \ unadmitted)' \subseteq Kept \ unadmitted
    BY <1>1, <1>2 DEF Kept, TrackedRuntimes, Tracked
  <1>11. AdmittedWithinCap'
    BY <1>0, <1>1, <1>4, <1>10, CapKept
  <1> QED BY <1>3, <1>4, <1>6, <1>7, <1>8, <1>9, <1>11

\* An operation that reserves nothing by it stops a process.
LEMMA StopStep ==
  ASSUME PoolInv, NEW r \in Runtime, StopWorld(r), NEW t \in Task, QuietTask(t),
         UNCHANGED <<deleting, transition, creations>>
  PROVE  PoolInv'
  <1>0. /\ TypeOK /\ Shape /\ Locked /\ Roomy
        /\ HomesTracked /\ HomesKnown /\ AdmittedTracked /\ PhasesFit /\ PendingKnown
        /\ Excluded /\ DeletionsAlone /\ Closed /\ Awaited
        /\ AdmittedWithinCap
    BY PoolParts
  <1>1. /\ TypeOK' /\ Shape' /\ Locked' /\ Awaited'
        /\ HomesTracked' /\ AdmittedTracked' /\ PhasesFit' /\ AdmittedWithinCap'
    BY <1>0, StopWorldKeeps DEF QuietTask, TypeOK
  <1>2. /\ ending'[r] # "none" /\ Admitted' = Admitted /\ phase' = phase
        /\ \A x \in Runtime : ending[x] # "none" => ending'[x] # "none"
    BY <1>0, StopCallIs DEF StopWorld
  <1>3. /\ runtimes' = runtimes /\ timers' = timers /\ home' = home /\ files' = files
        /\ pending' = pending /\ closing' = closing
        /\ deleting' = deleting /\ transition' = transition /\ creations' = creations
    BY DEF StopWorld
  <1>4. \A u \in Task : u # t => task'[u] = task[u]
    BY DEF QuietTask, Alone
  <1>5. \A u \in Task : RoleKept(u)
    BY <1>4, RoleSame DEF QuietTask
  <1>6. Roomy'
    BY <1>0, <1>3, <1>4, RoomyKept DEF QuietTask
  <1>7. PendingKnown'
    <2>1. \A x \in pending :
            /\ home'[x] = home[x] /\ home[x] \notin files' /\ phase'[x] # "busy"
            /\ \A r2 \in Runtime \ {x} : home'[r2] # home[x]
            /\ \A h \in Handle : timers'[h] # x
      BY <1>0, <1>2, <1>3 DEF PendingKnown
    <2>2. \A u \in Task : Creating(u) /\ task'[u].pc \in {"failed", "stopped", "untrack"} =>
            task[u].runtime \notin Admitted'
      BY <1>0, <1>2, <1>4 DEF QuietTask, PendingKnown, Admitted
    <2> QED BY <1>0, <1>3, <1>5, <2>1, <2>2, PendingKept DEF RoleKept
  <1>8. Excluded'
    BY <1>0, <1>3, <1>5, ExcludedKept DEF RoleKept
  <1>9. DeletionsAlone'
    <2>1. \A u \in Task : \A x : Deleting(u) /\ Stopping(u, x) => Stopping(u, x)'
      BY <1>4, RoleSame DEF QuietTask, Stopping
    <2>2. Admitted \subseteq Runtime
      BY DEF Admitted, Alive
    <2> QED BY <1>0, <1>2, <1>3, <1>5, <2>1, <2>2, DeletionsKept DEF RoleKept
  <1>10. Closed'
    <2>1. Admitted \subseteq Runtime
      BY DEF Admitted, Alive
    <2>2. \A x \in Runtime : Tracked(x)' => Tracked(x)
      BY <1>3 DEF Tracked
    <2> QED BY <1>0, <1>2, <1>3, <1>5, <2>1, <2>2, ClosedKept DEF RoleKept
  <1>11. HomesKnown'
    <2>1. leader' = leader
      BY DEF StopWorld, StopCall
    <2> QED BY <1>0, <1>1, <1>3, <1>5, <2>1, HomesKnownKept DEF RoleKept, SameCreating
  <1> QED
    BY <1>1, <1>6, <1>7, <1>8, <1>9, <1>10, <1>11, PoolPartsNext

\* Evict and ReapEvictable: the lock holder waits for its victim.
LEMMA EvictKeeps ==
  ASSUME PoolInv, NEW t \in Task, Evict(t) \/ ReapEvictable(t)
  PROVE  PoolInv'
  <1>1. PICK r \in Runtime :
           /\ StopCall(r) /\ Set(t, [task[t] EXCEPT !.pc = "evicting", !.victim = r])
           /\ Holds(t) /\ task[t].pc \in {"room", "sweep", "sweepIdle"}
           /\ UNCHANGED <<sessionVars, trackVars, reserveVars, queue, closing>>
    BY DEF Evict, ReapEvictable, HotSet, TrackedRuntimes, At
  <1>2. TypeOK /\ ShapeAt(t) /\ RoomyAt(t) /\ task[t].op \in Op
    BY PoolParts, TaskTypes DEF Shape, Roomy
  <1>3. Becomes(t, task[t].op, "evicting", task[t].body, task[t].handle, task[t].runtime, r)
    BY <1>1, <1>2, VictimIs DEF PC
  <1>4. /\ task'[t].op = task[t].op /\ task'[t].pc = "evicting" /\ task'[t].body = task[t].body
        /\ task'[t].handle = task[t].handle /\ task'[t].runtime = task[t].runtime
        /\ task'[t].victim = r /\ Alone(t)
    BY <1>3 DEF Becomes, Alone
  <1>5. Paced(t)
    BY <1>1 DEF Paced
  <1>6. ShapeAt(t)'
    BY <1>1, <1>2, <1>4
       DEF ShapeAt, HandleOps, Management, Body, CreationBody, ForkPC, PinningBody
  <1>7. RoomyAt(t)'
    <2>1. PendingIdentity' = PendingIdentity /\ runtimes' = runtimes /\ home' = home
          /\ deleting' = deleting
      BY <1>1 DEF PendingIdentity, reserveVars, trackVars, sessionVars
    <2>2. task[t].op # "reap" => task[t].pc = "room"
      BY <1>1, <1>2 DEF ShapeAt
    <2> QED BY <1>2, <1>4, <2>1, <2>2 DEF RoomyAt
  <1>8. AwaitedAt(t)'
    BY <1>1, <1>2, <1>4, StopCallIs DEF AwaitedAt
  <1>9. /\ ~Creating(t) /\ ~Creating(t)' /\ (Launched(t)' <=> Launched(t))
        /\ ~Forks(t) /\ ~Forks(t)' /\ ~Deleting(t) /\ ~Deleting(t)'
    BY <1>1, <1>4 DEF Creating, Launched, Forks, Deleting, Management
  <1>10. RoleKept(t)
    BY <1>4, <1>9 DEF RoleKept, SameCreating, SameDeleting
  <1>11. QuietTask(t)
    BY <1>4, <1>5, <1>6, <1>7, <1>8, <1>9, <1>10 DEF QuietTask
  <1>12. StopWorld(r) /\ UNCHANGED <<deleting, transition, creations>>
    BY <1>1 DEF StopWorld, sessionVars, trackVars, reserveVars
  <1> QED BY <1>11, <1>12, StopStep

\* An operation that reserved the workspace stops its own process and waits.
LEMMA StopsOwn ==
  ASSUME PoolInv, NEW t \in Task, task[t].runtime \in Runtime, StopWorld(task[t].runtime),
         Goto(t, "stopping"), UNCHANGED <<deleting, transition, creations>>,
         \/ task[t].op = "fork" /\ task[t].pc = "forking" /\ queue' = queue
         \/ task[t].op = "fork" /\ task[t].pc = "commit" /\ Holds(t) /\ Unlock
         \/ task[t].op = "create" /\ task[t].pc = "commitNew" /\ Holds(t) /\ Unlock
  PROVE  PoolInv'
  <1>1. TypeOK /\ ShapeAt(t)
    BY PoolParts DEF Shape
  <1>2. Becomes(t, task[t].op, "stopping", task[t].body, task[t].handle, task[t].runtime,
                task[t].victim)
    BY <1>1, GotoIs DEF PC
  <1>3. /\ task'[t].op = task[t].op /\ task'[t].pc = "stopping" /\ task'[t].body = task[t].body
        /\ task'[t].handle = task[t].handle /\ task'[t].runtime = task[t].runtime /\ Alone(t)
    BY <1>2 DEF Becomes, Alone
  <1>4. Paced(t)
    BY <1>3 DEF Paced, Unlock, Body, LockPC
  <1>5. ShapeAt(t)'
    BY <1>1, <1>3 DEF ShapeAt, HandleOps, Management, Body, CreationBody, ForkPC
  <1>6. RoomyAt(t)' /\ AwaitedAt(t)'
    BY <1>1, <1>3, StopCallIs DEF RoomyAt, AwaitedAt, StopWorld
  <1>7. /\ (Creating(t)' <=> Creating(t)) /\ (Launched(t)' <=> Launched(t))
        /\ (Forks(t)' <=> Forks(t)) /\ ~Deleting(t) /\ ~Deleting(t)'
    BY <1>3 DEF Creating, Launched, Forks, Deleting, Management
  <1>8. RoleKept(t)
    BY <1>3, <1>7 DEF RoleKept, SameCreating, SameDeleting
  <1> QED BY <1>3, <1>4, <1>5, <1>6, <1>7, <1>8, StopStep DEF QuietTask

LEMMA ForkFailsKeeps ==
  ASSUME PoolInv, NEW t \in Task, ForkFails(t)
  PROVE  PoolInv'
  <1>1. task[t].pc = "forking" /\ task[t].op = "fork" /\ task[t].runtime \in Runtime
    <2>1. ShapeAt(t) /\ task[t].op \in Op
      BY PoolParts, TaskTypes DEF Shape
    <2> QED
      BY <2>1 DEF ForkFails, At, ShapeAt, Op, HandleOps, Management, CreationBody
  <1>2. StopWorld(task[t].runtime) /\ UNCHANGED <<deleting, transition, creations>>
    BY DEF ForkFails, StopWorld, sessionVars, trackVars, reserveVars
  <1> QED BY <1>1, <1>2, StopsOwn DEF ForkFails

-----------------------------------------------------------------------------
(* Steps that reserve the workspace, and that give it back. *)

\* Processes, Sessions and handles are left alone.
StillWorld == UNCHANGED <<processVars, sessionVars, trackVars, closing>>

LEMMA StillIsDrop ==
  ASSUME PoolInv, StillWorld
  PROVE  DropWorld
  BY PoolParts DEF StillWorld, DropWorld, Drops, TypeOK, processVars, sessionVars, trackVars

\* Without a fork or a creation nobody forks or creates.
LEMMA NoneReserved ==
  ASSUME PoolInv, ~PendingIdentity, closing # "closed"
  PROVE  /\ creations = {} /\ transition = None /\ pending = {}
         /\ \A u \in Task : ~Launched(u) /\ ~Forks(u) /\ ~Creating(u)
  <1>0. Excluded /\ PendingKnown
    BY PoolParts
  <1>1. creations = {} /\ transition = None
    BY DEF PendingIdentity
  <1>2. \A u \in Task : ~Launched(u) /\ ~Forks(u)
    BY <1>0, <1>1, TaskAssumption DEF Excluded, Launched
  <1>3. \A u \in Task : ~Creating(u)
    BY <1>2 DEF Creating, Launched
  <1>4. pending = {}
    BY <1>0, <1>3 DEF PendingKnown
  <1> QED BY <1>1, <1>2, <1>3, <1>4

\* A handle that tracks a runtime: the supervisor is not closed.
LEMMA TrackedOpen ==
  ASSUME PoolInv, NEW h \in Handle, runtimes[h] # None
  PROVE  closing # "closed" /\ runtimes[h] \in Runtime
  <1>1. Closed /\ TypeOK
    BY PoolParts
  <1>2. runtimes[h] \in Runtime
    BY <1>1 DEF TypeOK
  <1> QED BY <1>1, <1>2 DEF Closed, TrackedRuntimes, Tracked

\* A Session is reserved for its deletion: the only process that has it stops.
LEMMA ReserveStep ==
  ASSUME PoolInv, NEW t \in Task, NEW h \in Handle,
         h \notin deleting, ~PendingIdentity, closing # "closed", Holds(t),
         TypeOK', Shape', Locked', Awaited',
         HomesTracked', AdmittedTracked', PhasesFit', AdmittedWithinCap',
         Alone(t), ~Deleting(t), Deleting(t)', task'[t].handle = h, task'[t].op = task[t].op,
         ~Launched(t)', ~Forks(t)', ~Creating(t)', task'[t].pc \notin {"room", "evicting"},
         task'[t].runtime = task[t].runtime \/ Free(task'[t].runtime),
         deleting' = deleting \union {h},
         UNCHANGED <<files, runtimes, pending, timers, home, phase, leader, unadmitted,
                     closing, transition, creations>>,
         \A r \in Runtime : ending[r] # "none" => ending'[r] # "none",
         \A r \in Admitted : home[r] = h => Stopping(t, r)' /\ ending'[r] # "none"
  PROVE  PoolInv'
  <1>0. /\ TypeOK /\ Locked /\ Excluded /\ DeletionsAlone /\ Closed /\ PendingKnown
    BY PoolParts
  <1>1. /\ creations = {} /\ transition = None /\ pending = {}
        /\ \A u \in Task : ~Launched(u) /\ ~Forks(u) /\ ~Creating(u)
    BY NoneReserved
  <1>2. /\ \A u \in Task : u # t => task'[u] = task[u]
        /\ \A u \in Task : u # t =>
              /\ RoleKept(u)
              /\ \A r : Stopping(u, r)' <=> Stopping(u, r)
    BY RoleSame DEF Alone
  <1>3. Admitted' = Admitted /\ Admitted \subseteq Runtime /\ PendingIdentity' = PendingIdentity
    BY DEF Admitted, Alive, PendingIdentity
  <1>4. Roomy'
    BY <1>0, RoomyHeld DEF RoomyAt
  <1>5. \A u \in Task : ~Launched(u)' /\ ~Forks(u)' /\ ~Creating(u)'
    BY <1>1, <1>2 DEF RoleKept, SameCreating, SameDeleting
  <1>6. PendingKnown'
    BY <1>1, <1>5 DEF PendingKnown
  <1>7. Excluded'
    BY <1>1, <1>3, <1>5, TaskAssumption DEF Excluded, Launched, PendingIdentity
  <1>8. Closed'
    <2>1. \A u \in Task : task'[u].op = task[u].op
      BY <1>2
    <2> QED BY <1>0, <1>3, <2>1 DEF Closed, Admitted
  <1>9. DeletionsAlone'
    <2>1. ASSUME NEW u \in Task, Deleting(u)'
          PROVE  /\ task'[u].handle \in deleting'
                 /\ \A r \in Admitted' : home'[r] = task'[u].handle =>
                       Stopping(u, r)' /\ ending'[r] # "none"
      <3>1. CASE u = t
        BY <1>3, <3>1
      <3>2. CASE u # t
        <4>1. Deleting(u) /\ task'[u].handle = task[u].handle
          BY <1>2, <2>1, <3>2 DEF RoleKept, SameCreating, SameDeleting
        <4>2. task[u].handle \in deleting
              /\ \A r \in Admitted : home[r] = task[u].handle =>
                    Stopping(u, r) /\ ending[r] # "none"
          BY <1>0, <4>1 DEF DeletionsAlone, Admitted
        <4> QED BY <1>2, <1>3, <3>2, <4>1, <4>2
      <3> QED BY <3>1, <3>2
    <2>2. \A u \in Task : u # t /\ Deleting(u)' =>
             Deleting(u) /\ task'[u].handle = task[u].handle /\ task[u].handle \in deleting
      BY <1>0, <1>2 DEF RoleKept, SameCreating, SameDeleting, DeletionsAlone
    <2>3. \A t1, t2 \in Task :
            Deleting(t1)' /\ Deleting(t2)' /\ task'[t1].handle = task'[t2].handle => t1 = t2
      BY <1>0, <2>2 DEF DeletionsAlone
    <2>4. ASSUME NEW g \in deleting'
          PROVE  \E u \in Task : Deleting(u)' /\ task'[u].handle = g
      <3>1. CASE g = h
        BY <3>1
      <3>2. CASE g # h
        <4>1. PICK u \in Task : Deleting(u) /\ task[u].handle = g
          BY <1>0, <2>4, <3>2 DEF DeletionsAlone
        <4> QED BY <1>2, <4>1 DEF RoleKept, SameCreating, SameDeleting
      <3> QED BY <3>1, <3>2
    <2> QED BY <2>1, <2>3, <2>4 DEF DeletionsAlone, Admitted
  <1>10. HomesKnown'
    <2>1. HomesKnown /\ \A u \in Task : u # t => task'[u].runtime = task[u].runtime
      BY <1>2, PoolParts
    <2>2. \A g \in Handle : timers'[g] \in {timers[g], None}
      OBVIOUS
    <2> QED BY <1>0, <2>1, <2>2, HomesKnownKept
  <1> QED BY <1>4, <1>6, <1>7, <1>8, <1>9, <1>10, PoolPartsNext

\* Without a creation in progress the Session belongs to the runtime of its handle.
LEMMA HomeIsTracked ==
  ASSUME PoolInv, NEW h \in Handle, ~PendingIdentity, closing # "closed",
         NEW r \in Admitted, home[r] = h
  PROVE  r = runtimes[h] /\ Hot(r)
  <1>1. Tracked(r) /\ Hot(r) /\ r \notin pending /\ r \in Runtime
    BY NoneReserved, PoolParts DEF AdmittedTracked, Admitted, Alive
  <1>2. PICK g \in Handle : runtimes[g] = r
    BY <1>1 DEF Tracked
  <1>3. home[runtimes[g]] = g
    BY <1>1, <1>2, PoolParts, TaskAssumption DEF HomesTracked
  <1> QED BY <1>1, <1>2, <1>3

LEMMA ReserveKeeps ==
  ASSUME PoolInv, NEW t \in Task, Reserve(t)
  PROVE  PoolInv'
  <1> DEFINE h == task[t].handle
             r == runtimes[h]
             op == task[t].op
  <1>1. /\ TypeOK /\ ShapeAt(t) /\ task[t].pc = "reserve" /\ Holds(t) /\ Unlock
        /\ UNCHANGED <<sessionVars, trackVars, transition, creations, closing>>
    BY PoolParts DEF Shape, Reserve, At
  <1>2. op \in Management /\ h \in Handle
    BY <1>1 DEF ShapeAt
  <1>3. ~Creating(t) /\ ~Launched(t) /\ ~Forks(t) /\ ~Deleting(t)
    BY <1>1, <1>2 DEF Creating, Launched, Forks, Deleting, Management
  <1>4. CASE Done(t) /\ UNCHANGED <<deleting, processVars>>
    <2>1. QuietWorld
      BY <1>1, <1>4, SameWorld DEF reserveVars
    <2> QED BY <1>1, <1>3, <1>4, <2>1, UnreservedEnds
  <1>5. CASE /\ Reservable(op, h) /\ op # "remove" /\ deleting' = deleting \union {h}
             /\ StopCall(r) /\ Set(t, [task[t] EXCEPT !.pc = "stopping", !.runtime = r])
    <2>1. h \notin deleting /\ ~PendingIdentity /\ r # None
      BY <1>2, <1>5 DEF Reservable, Management
    <2>2. closing # "closed" /\ r \in Runtime
      BY <1>2, <2>1, TrackedOpen
    <2>3. Becomes(t, op, "stopping", task[t].body, h, r, task[t].victim)
      BY <1>1, <1>5, <2>2, RuntimeIs DEF PC
    <2>4. /\ task'[t].op = op /\ task'[t].pc = "stopping" /\ task'[t].handle = h
          /\ task'[t].runtime = r /\ Alone(t)
      BY <2>3 DEF Becomes, Alone
    <2>5. Paced(t)
      BY <1>1, <2>4 DEF Paced, Unlock, Body, LockPC
    <2>6. ShapeAt(t)'
      BY <1>2, <2>2, <2>4 DEF ShapeAt, HandleOps, Management, Body, CreationBody, ForkPC
    <2>7. StopWorld(r)
      BY <1>1, <1>5 DEF StopWorld, sessionVars, trackVars
    <2>8. AwaitedAt(t)'
      BY <1>1, <1>5, <2>2, <2>4, StopCallIs DEF AwaitedAt
    <2>9. /\ TypeOK' /\ Shape' /\ Locked' /\ Awaited'
          /\ HomesTracked' /\ AdmittedTracked' /\ PhasesFit' /\ AdmittedWithinCap'
      BY <1>1, <1>2, <1>5, <2>2, <2>4, <2>5, <2>6, <2>7, <2>8, StopWorldKeeps DEF TypeOK
    <2>10. Deleting(t)' /\ ~Launched(t)' /\ ~Forks(t)' /\ ~Creating(t)'
      BY <1>2, <2>4 DEF Deleting, Launched, Forks, Creating, Management
    <2>11. /\ UNCHANGED <<files, runtimes, pending, timers, home, phase, leader, unadmitted,
                          closing, transition, creations>>
           /\ ending'[r] # "none"
           /\ \A x \in Runtime : ending[x] # "none" => ending'[x] # "none"
      BY <1>1, <1>5, <2>2, StopCallIs DEF sessionVars, trackVars
    <2>12. \A x \in Admitted : home[x] = h => Stopping(t, x)' /\ ending'[x] # "none"
      BY <1>2, <2>1, <2>2, <2>4, <2>11, HomeIsTracked DEF Stopping
    <2> QED
      BY <1>1, <1>2, <1>3, <1>5, <2>1, <2>2, <2>4, <2>9, <2>10, <2>11, <2>12, ReserveStep, NotPending
  <1>6. CASE /\ Reservable(op, h) /\ op = "remove" /\ deleting' = deleting \union {h}
             /\ Set(t, [task[t] EXCEPT !.pc = "operating", !.runtime = r])
             /\ UNCHANGED processVars
    <2>1. h \notin deleting /\ ~PendingIdentity /\ Open /\ (r # None => ~Hot(r))
      BY <1>6 DEF Reservable, AssertOpen
    <2>2. closing # "closed" /\ r \in Runtime \union {None}
      BY <1>1, <1>2, <2>1 DEF Open, TypeOK
    <2>3. Becomes(t, op, "operating", task[t].body, h, r, task[t].victim)
      BY <1>1, <1>6, <2>2, RuntimeIs DEF PC
    <2>4. /\ task'[t].op = op /\ task'[t].pc = "operating" /\ task'[t].handle = h
          /\ task'[t].runtime = r /\ Alone(t)
      BY <2>3 DEF Becomes, Alone
    <2>5. Paced(t)
      BY <1>1, <2>4 DEF Paced, Unlock, Body, LockPC
    <2>6. ShapeAt(t)' /\ AwaitedAt(t)'
      BY <1>2, <2>4 DEF ShapeAt, AwaitedAt, HandleOps, Management, Body, CreationBody
    <2>7. DropWorld
      BY <1>1, <1>6, StillIsDrop DEF StillWorld
    <2>8. /\ TypeOK' /\ Shape' /\ Locked' /\ Awaited'
          /\ HomesTracked' /\ AdmittedTracked' /\ PhasesFit' /\ AdmittedWithinCap'
      BY <1>1, <1>2, <1>6, <2>4, <2>5, <2>6, <2>7, DropWorldKeeps DEF TypeOK
    <2>9. Deleting(t)' /\ ~Launched(t)' /\ ~Forks(t)' /\ ~Creating(t)'
      BY <1>2, <2>4 DEF Deleting, Launched, Forks, Creating, Management
    <2>10. /\ UNCHANGED <<files, runtimes, pending, timers, home, phase, leader, unadmitted,
                          closing, transition, creations>>
           /\ ending' = ending
      BY <1>1, <1>6 DEF sessionVars, trackVars, processVars
    <2>11. \A x \in Admitted : home[x] # h
      <3> SUFFICES ASSUME NEW x \in Admitted, home[x] = h PROVE FALSE
        OBVIOUS
      <3>1. x = r /\ Hot(x) /\ x \in Runtime
        BY <1>2, <2>1, <2>2, HomeIsTracked DEF Admitted, Alive
      <3> QED BY <2>1, <3>1, TaskAssumption
    <2> QED
      BY <1>1, <1>2, <1>3, <1>6, <2>1, <2>2, <2>4, <2>8, <2>9, <2>10, <2>11, ReserveStep, NotPending
  <1> QED BY <1>4, <1>5, <1>6 DEF Reserve

LEMMA ReapTransientKeeps ==
  ASSUME PoolInv, NEW t \in Task, ReapTransient(t)
  PROVE  PoolInv'
  <1>1. PICK h \in Handle :
           /\ Holds(t) /\ task[t].pc = "sweep" /\ runtimes[h] # None
           /\ h \notin deleting /\ ~PendingIdentity
           /\ deleting' = deleting \union {h} /\ StopCall(runtimes[h])
           /\ Set(t, [task[t] EXCEPT !.pc = "reaping", !.victim = runtimes[h], !.handle = h])
           /\ UNCHANGED <<sessionVars, trackVars, transition, creations, queue, closing>>
    BY DEF ReapTransient, At
  <1> DEFINE r == runtimes[h]
  <1>2. TypeOK /\ ShapeAt(t) /\ task[t].op = "reap"
    BY <1>1, PoolParts DEF Shape, ShapeAt
  <1>3. closing # "closed" /\ r \in Runtime
    BY <1>1, TrackedOpen
  <1>4. Becomes(t, "reap", "reaping", task[t].body, h, task[t].runtime, r)
    BY <1>1, <1>2, <1>3, SweepIs DEF PC
  <1>5. /\ task'[t].op = "reap" /\ task'[t].pc = "reaping" /\ task'[t].handle = h
        /\ task'[t].victim = r /\ task'[t].body = task[t].body /\ Alone(t)
        /\ task'[t].runtime = task[t].runtime
    BY <1>4 DEF Becomes, Alone
  <1>6. Paced(t)
    BY <1>1 DEF Paced
  <1>7. ShapeAt(t)'
    BY <1>2, <1>3, <1>5 DEF ShapeAt, HandleOps, Management, Body, CreationBody, ForkPC
  <1>8. AwaitedAt(t)'
    BY <1>1, <1>2, <1>3, <1>5, StopCallIs DEF AwaitedAt
  <1>9. StopWorld(r)
    BY <1>1 DEF StopWorld, sessionVars, trackVars
  <1>10. /\ TypeOK' /\ Shape' /\ Locked' /\ Awaited'
         /\ HomesTracked' /\ AdmittedTracked' /\ PhasesFit' /\ AdmittedWithinCap'
    BY <1>1, <1>2, <1>3, <1>5, <1>6, <1>7, <1>8, <1>9, StopWorldKeeps DEF TypeOK
  <1>11. /\ Deleting(t)' /\ ~Launched(t)' /\ ~Forks(t)' /\ ~Creating(t)' /\ ~Deleting(t)
    BY <1>1, <1>2, <1>5 DEF Deleting, Launched, Forks, Creating, Management
  <1>12. /\ UNCHANGED <<files, runtimes, pending, timers, home, phase, leader, unadmitted,
                        closing, transition, creations>>
         /\ ending'[r] # "none"
         /\ \A x \in Runtime : ending[x] # "none" => ending'[x] # "none"
    BY <1>1, <1>2, <1>3, StopCallIs DEF sessionVars, trackVars
  <1>13. \A x \in Admitted : home[x] = h => Stopping(t, x)' /\ ending'[x] # "none"
    BY <1>1, <1>3, <1>5, <1>12, HomeIsTracked DEF Stopping
  <1> QED
    BY <1>1, <1>2, <1>3, <1>5, <1>10, <1>11, <1>12, <1>13, ReserveStep

\* A creation or a fork takes the workspace, or gives it back, with the lock held.
LEMMA WorkspaceStep ==
  ASSUME PoolInv, NEW t \in Task, Holds(t), StillWorld, Alone(t), Paced(t),
         deleting' = deleting, transition' \in Task \union {None}, creations' \subseteq Task,
         ShapeAt(t)', AwaitedAt(t)', task'[t].pc \notin {"room", "evicting"},
         ~Creating(t), ~Creating(t)', ~Deleting(t), ~Deleting(t)',
         task'[t].runtime = task[t].runtime \/ Free(task'[t].runtime),
         task'[t].op \notin Management,
         closing = "closed" => transition' = None /\ creations' = {},
         Excluded'
  PROVE  PoolInv'
  <1>0. /\ TypeOK /\ Locked /\ Excluded /\ DeletionsAlone /\ Closed /\ PendingKnown
        /\ DropWorld
    BY PoolParts, StillIsDrop
  <1>1. /\ TypeOK' /\ Shape' /\ Locked' /\ Awaited'
        /\ HomesTracked' /\ AdmittedTracked' /\ PhasesFit' /\ AdmittedWithinCap'
    BY <1>0, DropWorldKeeps DEF TypeOK
  <1>2. /\ home' = home /\ files' = files /\ phase' = phase /\ leader' = leader
        /\ ending' = ending /\ pending' = pending /\ closing' = closing
        /\ timers' = timers /\ runtimes' = runtimes /\ Admitted' = Admitted
    BY DEF StillWorld, processVars, sessionVars, trackVars, Admitted, Alive
  <1>3. \A u \in Task : u # t => task'[u] = task[u] /\ RoleKept(u)
                                 /\ \A r : Stopping(u, r)' <=> Stopping(u, r)
    BY RoleSame DEF Alone
  <1>4. \A u \in Task : SameCreating(u) /\ SameDeleting(u)
    BY <1>3 DEF RoleKept, SameCreating, SameDeleting
  <1>5. Roomy'
    BY <1>0, RoomyHeld DEF RoomyAt
  <1>6. PendingKnown'
    <2>1. \A r \in pending :
            /\ home'[r] = home[r] /\ home[r] \notin files' /\ phase'[r] # "busy"
            /\ \A r2 \in Runtime \ {r} : home'[r2] # home[r]
            /\ \A h \in Handle : timers'[h] # r
      BY <1>0, <1>2 DEF PendingKnown
    <2>2. \A u \in Task : Creating(u) /\ task'[u].pc \in {"failed", "stopped", "untrack"} =>
            task[u].runtime \notin Admitted'
      BY <1>0, <1>2, <1>3 DEF PendingKnown, Admitted
    <2> QED BY <1>0, <1>2, <1>4, <2>1, <2>2, PendingKept
  <1>7. DeletionsAlone'
    <2>1. \A u \in Task : \A r : Deleting(u) /\ Stopping(u, r) => Stopping(u, r)'
      BY <1>3
    <2> QED BY <1>0, <1>2, <1>4, <2>1, DeletionsKept
  <1>8. Closed'
    <2>1. \A r \in Runtime : Tracked(r)' => Tracked(r)
      BY <1>2 DEF Tracked
    <2>2. closing = "closed" => transition = None /\ creations = {}
      BY <1>0 DEF Closed, PendingIdentity
    <2>3. \A u \in Task : task'[u].op \in Management => task[u].op \in Management \/ Open
      BY <1>3
    <2> QED BY <1>0, <1>2, <2>1, <2>2, <2>3, ClosedKept
  <1>9. HomesKnown'
    <2>1. HomesKnown /\ \A u \in Task : u # t => task'[u].runtime = task[u].runtime
      BY <1>3, PoolParts
    <2> QED BY <1>0, <1>1, <1>2, <2>1, HomesKnownKept
  <1> QED BY <1>1, <1>5, <1>6, <1>7, <1>8, <1>9, PoolPartsNext

\* What Excluded says of two operations, spelled out.
LEMMA ExcludedOthers ==
  ASSUME PoolInv, NEW t \in Task, Alone(t)
  PROVE  /\ \A u \in Task : u # t =>
              /\ (Forks(u)' <=> Forks(u)) /\ (Launched(u)' <=> Launched(u))
              /\ u \in creations <=> closing # "closed" /\ Launched(u)
              /\ transition = u <=> closing # "closed" /\ Forks(u)
         /\ t \in creations <=> closing # "closed" /\ Launched(t)
         /\ transition = t <=> closing # "closed" /\ Forks(t)
         /\ transition \in Task \union {None} /\ creations \subseteq Task
         /\ deleting # {} => ~PendingIdentity
         /\ ~(transition # None /\ creations # {})
  <1>1. \A u \in Task : u # t => RoleKept(u)
    BY RoleSame DEF Alone
  <1> QED BY <1>1, PoolParts DEF Excluded, Launched, RoleKept, TypeOK

LEMMA ReserveCreationKeeps ==
  ASSUME PoolInv, NEW t \in Task, ReserveCreation(t)
  PROVE  PoolInv'
  <1>1. /\ TypeOK /\ ShapeAt(t) /\ Holds(t) /\ task[t].pc = "creation"
        /\ UNCHANGED <<processVars, sessionVars, trackVars, deleting, transition, closing>>
    BY PoolParts DEF Shape, ReserveCreation, At
  <1>2. /\ task[t].op = "create" /\ ~Creating(t) /\ ~Launched(t) /\ ~Forks(t) /\ ~Deleting(t)
    BY <1>1 DEF ShapeAt, CreationBody, Creating, Launched, Forks, Deleting, Management
  <1>3. CASE CreationAdmissible /\ creations' = creations \union {t} /\ Want(t, "launch") /\ Relock(t)
    <2>1. deleting = {} /\ transition = None /\ closing = "open"
      BY <1>3 DEF CreationAdmissible, AssertOpen, Open
    <2>2. Becomes(t, "create", "launch", "launch", task[t].handle, task[t].runtime, task[t].victim)
      BY <1>1, <1>2, <1>3, WantIs DEF Body
    <2>3. /\ task'[t].op = "create" /\ task'[t].pc = "launch" /\ task'[t].body = "launch"
          /\ task'[t].runtime = task[t].runtime /\ Alone(t)
      BY <2>2 DEF Becomes, Alone
    <2>4. Paced(t)
      BY <1>1, <1>3, <2>3 DEF Paced, Relock, Body
    <2>5. ShapeAt(t)' /\ AwaitedAt(t)'
      BY <2>3 DEF ShapeAt, AwaitedAt, HandleOps, Management, Body, CreationBody
    <2>6. ~Creating(t)' /\ Launched(t)' /\ ~Forks(t)' /\ ~Deleting(t)'
      BY <2>3 DEF Creating, Launched, Forks, Deleting, Management
    <2>7. closing' = "open" /\ transition' = None /\ deleting' = {}
      BY <1>1, <2>1
    <2>8. Excluded'
      BY <1>3, <2>1, <2>3, <2>6, <2>7, ExcludedOthers, TaskAssumption
         DEF Excluded, Launched, PendingIdentity
    <2>9. StillWorld
      BY <1>1 DEF StillWorld
    <2> QED
      BY <1>1, <1>2, <1>3, <2>1, <2>3, <2>4, <2>5, <2>6, <2>7, <2>8, <2>9, WorkspaceStep
         DEF TypeOK, Management
  <1>4. CASE Done(t) /\ Unlock /\ creations' = creations
    <2>1. QuietWorld
      BY <1>1, <1>4, SameWorld DEF reserveVars
    <2> QED BY <1>1, <1>2, <1>4, <2>1, UnreservedEnds
  <1> QED BY <1>3, <1>4 DEF ReserveCreation

LEMMA EndCreationKeeps ==
  ASSUME PoolInv, NEW t \in Task, EndCreation(t)
  PROVE  PoolInv'
  <1>1. /\ TypeOK /\ ShapeAt(t) /\ Closed /\ Holds(t) /\ task[t].pc = "endCreation"
        /\ creations' = creations \ {t} /\ Done(t) /\ Unlock
        /\ UNCHANGED <<processVars, sessionVars, trackVars, deleting, transition, closing>>
    BY PoolParts DEF Shape, EndCreation, At
  <1>2. task[t].op = "create" /\ ~Creating(t) /\ ~Forks(t) /\ ~Deleting(t)
    BY <1>1 DEF ShapeAt, CreationBody, Creating, Forks, Deleting, Management
  <1>3. Becomes(t, "none", "idle", "none", None, None, None)
    BY <1>1, DoneIs
  <1>4. /\ task'[t].op = "none" /\ task'[t].pc = "idle" /\ task'[t].runtime = None /\ Alone(t)
    BY <1>3 DEF Becomes, Alone
  <1>5. Paced(t)
    BY <1>1, <1>4 DEF Paced, Unlock, Body, LockPC
  <1>6. ShapeAt(t)' /\ AwaitedAt(t)'
    BY <1>4 DEF ShapeAt, AwaitedAt, HandleOps, Management, Body, CreationBody
  <1>7. ~Creating(t)' /\ ~Launched(t)' /\ ~Forks(t)' /\ ~Deleting(t)'
    BY <1>4 DEF Creating, Launched, Forks, Deleting, Management
  <1>8. Excluded'
    BY <1>1, <1>2, <1>4, <1>7, ExcludedOthers DEF Excluded, Launched, PendingIdentity
  <1>9. StillWorld /\ deleting' = deleting
    BY <1>1 DEF StillWorld
  <1>10. closing = "closed" => transition' = None /\ creations' = {}
    BY <1>1 DEF Closed, PendingIdentity
  <1> QED
    BY <1>1, <1>2, <1>4, <1>5, <1>6, <1>7, <1>8, <1>9, <1>10, WorkspaceStep, NoneFree
       DEF TypeOK, Management

LEMMA ReserveTransitionKeeps ==
  ASSUME PoolInv, NEW t \in Task, ReserveTransition(t)
  PROVE  PoolInv'
  <1> DEFINE r == task[t].runtime
  <1>1. /\ TypeOK /\ ShapeAt(t) /\ Holds(t) /\ task[t].pc = "transit" /\ task[t].op \in Op
        /\ UNCHANGED <<processVars, sessionVars, trackVars, deleting, creations, closing>>
    BY PoolParts, TaskTypes DEF Shape, ReserveTransition, At
  <1>2. /\ task[t].op = "fork" /\ r \in Runtime /\ task[t].handle \in Handle
        /\ ~Creating(t) /\ ~Launched(t) /\ ~Forks(t) /\ ~Deleting(t)
    BY <1>1
       DEF ShapeAt, Op, HandleOps, Management, CreationBody, Creating, Launched, Forks, Deleting
  <1>3. CASE Done(t) /\ Unlock /\ transition' = transition
    <2>1. QuietWorld
      BY <1>1, <1>3, SameWorld DEF reserveVars
    <2> QED BY <1>1, <1>2, <1>3, <2>1, UnreservedEnds
  <1>4. CASE /\ transition' = t /\ deleting = {} /\ ~PendingIdentity /\ AssertOpen
             /\ \/ Set(t, [task[t] EXCEPT !.pc = "forking", !.ok = TRUE]) /\ Unlock
                \/ Want(t, "endTransit") /\ Relock(t)
    <2>1. /\ closing = "open" /\ creations = {} /\ transition = None
          /\ \A u \in Task : ~Launched(u) /\ ~Forks(u)
      BY <1>4, NoneReserved DEF AssertOpen, Open
    <2>2. \/ /\ Becomes(t, "fork", "forking", task[t].body, task[t].handle, r, task[t].victim)
             /\ Unlock
          \/ /\ Becomes(t, "fork", "endTransit", "endTransit", task[t].handle, r, task[t].victim)
             /\ Relock(t)
      BY <1>1, <1>2, <1>4, ForkingIs, WantIs DEF Body
    <2>3. /\ task'[t].op = "fork" /\ Alone(t) /\ task'[t].handle = task[t].handle
          /\ task'[t].runtime = r
          /\ \/ task'[t].pc = "forking" /\ Unlock
             \/ task'[t].pc = "endTransit" /\ task'[t].body = "endTransit" /\ Relock(t)
      BY <2>2 DEF Becomes, Alone
    <2>4. Paced(t)
      BY <1>1, <2>3 DEF Paced, Unlock, Relock, Body, LockPC
    <2>5. ShapeAt(t)' /\ AwaitedAt(t)'
      BY <1>2, <2>3 DEF ShapeAt, AwaitedAt, HandleOps, Management, Body, CreationBody, ForkPC
    <2>6. ~Creating(t)' /\ ~Launched(t)' /\ Forks(t)' /\ ~Deleting(t)'
      BY <2>3 DEF Creating, Launched, Forks, Deleting, Management
    <2>7. closing' = "open" /\ creations' = {} /\ deleting' = {}
      BY <1>1, <1>4, <2>1
    <2>8. Excluded'
      BY <1>4, <2>1, <2>3, <2>6, <2>7, ExcludedOthers, TaskAssumption
         DEF Excluded, Launched, PendingIdentity
    <2>9. StillWorld
      BY <1>1 DEF StillWorld
    <2>10. task'[t].pc \notin {"room", "evicting"} /\ transition' \in Task \union {None}
           /\ creations' \subseteq Task /\ deleting' = deleting /\ task'[t].op \notin Management
      BY <1>1, <1>4, <2>3, <2>7 DEF Management
    <2> QED
      BY <1>1, <1>2, <2>1, <2>3, <2>4, <2>5, <2>6, <2>8, <2>9, <2>10, WorkspaceStep
  <1> QED BY <1>3, <1>4 DEF ReserveTransition

LEMMA EndTransitionKeeps ==
  ASSUME PoolInv, NEW t \in Task, EndTransition(t)
  PROVE  PoolInv'
  <1>1. /\ TypeOK /\ ShapeAt(t) /\ Closed /\ Holds(t) /\ task[t].pc = "endTransit"
        /\ transition' = None /\ Done(t) /\ Unlock /\ task[t].op \in Op
        /\ UNCHANGED <<processVars, sessionVars, trackVars, deleting, creations, closing>>
    BY PoolParts, TaskTypes DEF Shape, EndTransition, At
  <1>2. task[t].op = "fork" /\ ~Creating(t) /\ ~Launched(t) /\ Forks(t) /\ ~Deleting(t)
    BY <1>1
       DEF ShapeAt, Op, HandleOps, Management, CreationBody, Creating, Launched, Forks, Deleting
  <1>3. Becomes(t, "none", "idle", "none", None, None, None)
    BY <1>1, DoneIs
  <1>4. /\ task'[t].op = "none" /\ task'[t].pc = "idle" /\ task'[t].runtime = None /\ Alone(t)
    BY <1>3 DEF Becomes, Alone
  <1>5. Paced(t)
    BY <1>1, <1>4 DEF Paced, Unlock, Body, LockPC
  <1>6. ShapeAt(t)' /\ AwaitedAt(t)'
    BY <1>4 DEF ShapeAt, AwaitedAt, HandleOps, Management, Body, CreationBody
  <1>7. ~Creating(t)' /\ ~Launched(t)' /\ ~Forks(t)' /\ ~Deleting(t)'
    BY <1>4 DEF Creating, Launched, Forks, Deleting, Management
  <1>8. Excluded'
    BY <1>1, <1>2, <1>4, <1>7, ExcludedOthers, TaskAssumption DEF Excluded, Launched, PendingIdentity
  <1>9. StillWorld /\ deleting' = deleting
    BY <1>1 DEF StillWorld
  <1>10. closing = "closed" => transition' = None /\ creations' = {}
    BY <1>1 DEF Closed, PendingIdentity
  <1> QED
    BY <1>1, <1>2, <1>4, <1>5, <1>6, <1>7, <1>8, <1>9, <1>10, WorkspaceStep, NoneFree
       DEF TypeOK, Management

-----------------------------------------------------------------------------
(* Steps that give a runtime its handle, or take it away. *)

\* A creation gives its runtime up, to a handle or for good.
LEMMA PendingLeft ==
  ASSUME PoolInv, NEW t \in Task, Alone(t), Creating(t), ~Creating(t)',
         task'[t].runtime = task[t].runtime,
         pending' = pending \ {task[t].runtime},
         UNCHANGED <<home, files, phase, closing>>, Admitted' = Admitted,
         \A h \in Handle : timers'[h] \in {timers[h], None}
  PROVE  PendingKnown'
  <1>0. PendingKnown /\ TypeOK /\ None \notin Runtime
    BY PoolParts, TaskAssumption
  <1>1. \A u \in Task : u # t =>
           task'[u] = task[u] /\ (Creating(u)' <=> Creating(u))
    BY RoleSame DEF Alone, RoleKept, SameCreating
  <1>2. \A r \in pending' :
            /\ home'[r] \notin files' /\ phase'[r] # "busy"
            /\ \A r2 \in Runtime \ {r} : home'[r2] # home'[r]
            /\ \A h \in Handle : timers'[h] # r
    BY <1>0 DEF PendingKnown, TypeOK
  <1>3. ASSUME NEW r \in pending'
        PROVE  \E u \in Task : /\ Creating(u)' /\ task'[u].runtime = r
                               /\ \A t2 \in Task : task'[t2].runtime = r => t2 = u
    <2>1. r \in pending /\ r # task[t].runtime
      BY <1>3
    <2>2. PICK u \in Task : /\ Creating(u) /\ task[u].runtime = r
                            /\ \A t2 \in Task : task[t2].runtime = r => t2 = u
      BY <1>0, <2>1 DEF PendingKnown
    <2> QED BY <1>1, <2>1, <2>2
  <1>4. ASSUME NEW u \in Task, Creating(u)'
        PROVE  /\ task'[u].runtime \in pending' \/ closing' = "closed"
               /\ task'[u].pc \in {"failed", "stopped", "untrack"} =>
                     task'[u].runtime \notin Admitted'
    <2>1. u # t /\ Creating(u) /\ task'[u] = task[u]
      BY <1>1, <1>4
    <2>2. task[u].runtime \in pending \/ closing = "closed"
      BY <1>0, <2>1 DEF PendingKnown
    <2>3. task[u].runtime \in pending => task[u].runtime # task[t].runtime
      BY <1>0, <2>1 DEF PendingKnown
    <2>4. task[u].pc \in {"failed", "stopped", "untrack"} => task[u].runtime \notin Admitted
      BY <1>0, <2>1 DEF PendingKnown, Admitted
    <2> QED BY <2>1, <2>2, <2>3, <2>4
  <1> QED BY <1>2, <1>3, <1>4 DEF PendingKnown, Admitted

\* The rest of what such a step keeps.
LEMMA CreationLeft ==
  ASSUME PoolInv, NEW t \in Task, Holds(t), Want(t, "endCreation"), Relock(t),
         task[t].op = "create", task[t].pc \in {"commitNew", "untrack"},
         pending' = pending \ {task[t].runtime}, owned' \subseteq owned,
         runtimes' \in [Handle -> Runtime \union {None}],
         timers' \in [Handle -> Runtime \union {None}],
         \A h \in Handle : timers'[h] \in {timers[h], None},
         UNCHANGED <<processVars, sessionVars, reserveVars, closing>>,
         HomesTracked', AdmittedTracked', \A r \in Runtime : Tracked(r)' => Tracked(r)
  PROVE  PoolInv'
  <1>0. /\ TypeOK /\ Shape /\ Locked /\ Excluded /\ DeletionsAlone /\ Closed /\ PhasesFit
        /\ Awaited /\ AdmittedWithinCap /\ ShapeAt(t)
    BY PoolParts DEF Shape
  <1>1. Becomes(t, "create", "endCreation", "endCreation", task[t].handle, task[t].runtime,
                task[t].victim)
    BY <1>0, WantIs DEF Body
  <1>2. /\ task'[t].op = "create" /\ task'[t].pc = "endCreation" /\ task'[t].body = "endCreation"
        /\ task'[t].runtime = task[t].runtime /\ Alone(t)
    BY <1>1 DEF Becomes, Alone
  <1>3. Paced(t)
    BY <1>2 DEF Paced, Relock, Body
  <1>4. /\ Creating(t) /\ ~Creating(t)' /\ Launched(t) /\ Launched(t)' /\ ~Forks(t) /\ ~Forks(t)'
        /\ ~Deleting(t) /\ ~Deleting(t)'
    BY <1>2 DEF Creating, Launched, Forks, Deleting, Management
  <1>5. Locked' /\ queue' \in Seq(Task \union {Closer})
    BY <1>0, <1>2, <1>3, LockedKept
  <1>6. /\ home' = home /\ files' = files /\ phase' = phase /\ leader' = leader
        /\ ending' = ending /\ closing' = closing /\ unadmitted' = unadmitted /\ intent' = intent
        /\ deleting' = deleting /\ transition' = transition /\ creations' = creations
        /\ Admitted' = Admitted /\ Admitted \subseteq Runtime
    BY DEF processVars, sessionVars, reserveVars, Admitted, Alive
  <1>7. TypeOK'
    BY <1>0, <1>2, <1>5, <1>6 DEF TypeOK, Alone
  <1>8. \A u \in Task : u # t => /\ task'[u] = task[u] /\ RoleKept(u)
                                 /\ \A r : Stopping(u, r)' <=> Stopping(u, r)
    BY <1>2, RoleSame DEF Alone
  <1>9. Shape' /\ Awaited'
    <2>1. \A u \in Task : u # t => ShapeAt(u)' /\ AwaitedAt(u)'
      BY <1>0, <1>6, <1>8 DEF Shape, Awaited, ShapeAt, AwaitedAt
    <2>2. ShapeAt(t)' /\ AwaitedAt(t)'
      BY <1>2 DEF ShapeAt, AwaitedAt, HandleOps, Management, Body, CreationBody
    <2> QED BY <2>1, <2>2 DEF Shape, Awaited
  <1>10. Roomy'
    BY <1>0, <1>2, RoomyHeld DEF RoomyAt
  <1>11. PhasesFit'
    BY <1>0, <1>6 DEF PhasesFit
  <1>12. PendingKnown'
    BY <1>2, <1>4, <1>6, PendingLeft
  <1>13. Excluded'
    <2>1. \A u \in Task : (Forks(u)' <=> Forks(u)) /\ (Launched(u)' <=> Launched(u))
      BY <1>4, <1>8 DEF RoleKept
    <2> QED BY <1>0, <1>6, <2>1, ExcludedKept
  <1>14. DeletionsAlone'
    <2>1. \A u \in Task : SameDeleting(u)
      BY <1>4, <1>8 DEF RoleKept, SameDeleting
    <2>2. \A u \in Task : \A r : Deleting(u) /\ Stopping(u, r) => Stopping(u, r)'
      BY <1>4, <1>8
    <2> QED BY <1>0, <1>6, <2>1, <2>2, DeletionsKept
  <1>15. Closed'
    <2>1. \A u \in Task : task'[u].op = task[u].op
      BY <1>2, <1>8
    <2> QED BY <1>0, <1>6, <2>1, ClosedKept
  <1>16. AdmittedWithinCap'
    <2>1. (Kept \ unadmitted)' \subseteq Kept \ unadmitted
      BY <1>6 DEF Kept, TrackedRuntimes
    <2> QED BY <1>0, <1>6, <1>7, <2>1, CapKept
  <1>17. HomesKnown'
    <2>1. HomesKnown /\ \A u \in Task : task'[u].runtime = task[u].runtime
      BY <1>2, <1>8, PoolParts
    <2> QED BY <1>0, <1>6, <1>7, <2>1, HomesKnownKept
  <1> QED
    BY <1>5, <1>7, <1>9, <1>10, <1>11, <1>12, <1>13, <1>14, <1>15, <1>16, <1>17,
       PoolPartsNext

LEMMA CommitCreationKeeps ==
  ASSUME PoolInv, NEW t \in Task, CommitCreation(t)
  PROVE  PoolInv'
  <1> DEFINE r == task[t].runtime
             h == home[r]
  <1>1. /\ TypeOK /\ ShapeAt(t) /\ HomesTracked /\ AdmittedTracked
        /\ Holds(t) /\ task[t].pc = "commitNew"
        /\ UNCHANGED <<sessionVars, owned, timers, reserveVars, closing>>
    BY PoolParts DEF Shape, CommitCreation, At
  <1>2. task[t].op = "create" /\ r \in Runtime
    BY <1>1 DEF ShapeAt, CreationBody
  <1>3. CASE /\ r \in pending /\ runtimes[h] \in {None, r}
             /\ pending' = pending \ {r} /\ runtimes' = [runtimes EXCEPT ![h] = r]
             /\ Want(t, "endCreation") /\ Relock(t) /\ UNCHANGED processVars
    <2>1. h \in Handle /\ None \notin Runtime
      BY <1>1, <1>2, <1>3, TaskAssumption DEF HomesTracked, TypeOK
    <2>2. /\ runtimes \in [Handle -> Runtime \union {None}]
          /\ runtimes' \in [Handle -> Runtime \union {None}]
          /\ runtimes'[h] = r /\ \A g \in Handle : g # h => runtimes'[g] = runtimes[g]
      BY <1>1, <1>2, <1>3, <2>1 DEF TypeOK
    <2>3. home' = home /\ leader' = leader /\ ending' = ending /\ phase' = phase
          /\ unadmitted' = unadmitted /\ Alive' = Alive
      BY <1>1, <1>3 DEF sessionVars, processVars, Alive
    <2>4. HomesTracked'
      BY <1>1, <1>3, <2>1, <2>2, <2>3 DEF HomesTracked
    <2>5. \A x \in Runtime : Tracked(x)' <=> Tracked(x)
      BY <1>3, <2>1, <2>2 DEF Tracked
    <2>6. AdmittedTracked'
      BY <1>1, <2>3, <2>5 DEF AdmittedTracked, Hot, Running, Alive
    <2> QED
      BY <1>1, <1>2, <1>3, <2>2, <2>4, <2>5, <2>6, CreationLeft DEF TypeOK
  <1>4. CASE StopCall(r) /\ Goto(t, "stopping") /\ Unlock /\ UNCHANGED <<pending, runtimes>>
    <2>1. StopWorld(r) /\ UNCHANGED <<deleting, transition, creations>>
      BY <1>1, <1>4 DEF StopWorld, sessionVars, reserveVars
    <2> QED BY <1>1, <1>2, <1>4, <2>1, StopsOwn
  <1> QED BY <1>3, <1>4 DEF CommitCreation

LEMMA UntrackKeeps ==
  ASSUME PoolInv, NEW t \in Task, Untrack(t)
  PROVE  PoolInv'
  <1> DEFINE r == task[t].runtime
  <1>1. /\ TypeOK /\ ShapeAt(t) /\ HomesTracked /\ AdmittedTracked /\ PendingKnown
        /\ Holds(t) /\ task[t].pc = "untrack"
        /\ pending' = pending \ {r} /\ timers' = [timers EXCEPT ![home[r]] = None]
        /\ runtimes' = [g \in Handle |->
              IF g = home[r] /\ runtimes[g] = r THEN None ELSE runtimes[g]]
        /\ Want(t, "endCreation") /\ Relock(t)
        /\ UNCHANGED <<processVars, sessionVars, owned, reserveVars, closing>>
    BY PoolParts DEF Shape, Untrack, At
  <1>2. task[t].op = "create" /\ r \in Runtime /\ None \notin Runtime
    BY <1>1, TaskAssumption DEF ShapeAt, CreationBody
  <1>3. r \notin Admitted
    BY <1>1, <1>2 DEF PendingKnown, Creating, Admitted
  <1>4. /\ runtimes' \in [Handle -> Runtime \union {None}]
        /\ timers' \in [Handle -> Runtime \union {None}]
        /\ \A g \in Handle : timers'[g] \in {timers[g], None}
        /\ \A g \in Handle : runtimes'[g] = runtimes[g] \/ (runtimes'[g] = None /\ runtimes[g] = r)
    BY <1>1 DEF TypeOK
  <1>5. home' = home /\ leader' = leader /\ ending' = ending /\ phase' = phase
        /\ unadmitted' = unadmitted /\ Alive' = Alive /\ Admitted' = Admitted
    BY <1>1 DEF sessionVars, processVars, Alive, Admitted
  <1>6. HomesTracked'
    BY <1>1, <1>4, <1>5 DEF HomesTracked
  <1>7. /\ \A x \in Runtime : Tracked(x)' => Tracked(x)
        /\ \A x \in Runtime : x # r /\ Tracked(x) => Tracked(x)'
    BY <1>1, <1>2, <1>4 DEF Tracked
  <1>8. AdmittedTracked'
    BY <1>1, <1>3, <1>5, <1>7 DEF AdmittedTracked, Hot, Running, Alive, Admitted
  <1> QED
    BY <1>1, <1>2, <1>4, <1>6, <1>7, <1>8, CreationLeft

\* The Session of a deletion that waits for nobody belongs to no process.
LEMMA ForgetIs ==
  ASSUME PoolInv, NEW t \in Task, Deleting(t), task[t].pc \notin {"stopping", "reaping"},
         task[t].handle \in Handle,
         Forget(task[t].handle) \/ UNCHANGED <<timers, runtimes, owned>>,
         UNCHANGED <<processVars, sessionVars, pending, closing>>
  PROVE  DropWorld
  <1> DEFINE h == task[t].handle
  <1>0. TypeOK /\ HomesTracked /\ DeletionsAlone
    BY PoolParts
  <1>1. /\ home' = home /\ files' = files /\ phase' = phase /\ leader' = leader /\ intent' = intent
        /\ ending' = ending /\ pending' = pending /\ closing' = closing
        /\ unadmitted' = unadmitted /\ Admitted' = Admitted
    BY DEF processVars, sessionVars, Admitted, Alive
  <1>2. CASE Forget(h)
    <2>1. /\ runtimes' = [runtimes EXCEPT ![h] = None] /\ timers' = [timers EXCEPT ![h] = None]
          /\ owned' \subseteq owned
      BY <1>2 DEF Forget
    <2>2. /\ runtimes' \in [Handle -> Runtime \union {None}]
          /\ timers' \in [Handle -> Runtime \union {None}]
          /\ \A g \in Handle : timers'[g] \in {timers[g], None}
          /\ \A g \in Handle : runtimes'[g] \in {runtimes[g], None}
          /\ \A g \in Handle : g # h => runtimes'[g] = runtimes[g]
      BY <1>0, <2>1 DEF TypeOK
    <2>3. runtimes[h] \notin Admitted
      <3> SUFFICES ASSUME runtimes[h] \in Admitted PROVE FALSE
        OBVIOUS
      <3>1. runtimes[h] # None /\ home[runtimes[h]] = h
        BY <1>0, TaskAssumption DEF HomesTracked, Admitted, Alive
      <3>2. Stopping(t, runtimes[h])
        BY <1>0, <3>1 DEF DeletionsAlone, Admitted
      <3> QED BY <3>2 DEF Stopping
    <2>4. Drops
      BY <1>0, <1>1, <2>2, <2>3 DEF Drops, TypeOK
    <2> QED BY <1>1, <2>1, <2>4 DEF DropWorld
  <1>3. CASE UNCHANGED <<timers, runtimes, owned>>
    BY <1>0, <1>1, <1>3 DEF DropWorld, Drops, TypeOK
  <1> QED BY <1>2, <1>3

LEMMA ForgetTransientKeeps ==
  ASSUME PoolInv, NEW t \in Task, ForgetTransient(t)
  PROVE  PoolInv'
  <1>1. /\ TypeOK /\ ShapeAt(t) /\ Holds(t) /\ task[t].pc = "forget"
        /\ Want(t, "finish") /\ Relock(t)
        /\ UNCHANGED <<processVars, sessionVars, pending, reserveVars, closing>>
    BY PoolParts DEF Shape, ForgetTransient, At
  <1>2. task[t].op \in Management /\ task[t].handle \in Handle
    BY <1>1 DEF ShapeAt
  <1>3. /\ Deleting(t) /\ ~Creating(t) /\ ~Launched(t) /\ ~Forks(t)
    BY <1>1, <1>2 DEF Deleting, Creating, Launched, Forks, Management
  <1>4. QuietWorld
    <2>1. Forget(task[t].handle) \/ UNCHANGED <<timers, runtimes, owned>>
      BY DEF ForgetTransient
    <2>2. DropWorld
      BY <1>1, <1>2, <1>3, <2>1, ForgetIs
    <2> QED BY <1>1, <2>2 DEF QuietWorld, reserveVars
  <1>5. Becomes(t, task[t].op, "finish", "finish", task[t].handle, task[t].runtime,
                task[t].victim)
    BY <1>1, WantIs DEF Body
  <1>6. /\ task'[t].op = task[t].op /\ task'[t].pc = "finish" /\ task'[t].body = "finish"
        /\ task'[t].handle = task[t].handle /\ task'[t].runtime = task[t].runtime /\ Alone(t)
    BY <1>5 DEF Becomes, Alone
  <1>7. Paced(t)
    BY <1>1, <1>6 DEF Paced, Relock, Body
  <1>8. ShapeAt(t)' /\ RoomyAt(t)' /\ AwaitedAt(t)'
    BY <1>2, <1>6 DEF ShapeAt, RoomyAt, AwaitedAt, HandleOps, Management, Body, CreationBody
  <1>9. Deleting(t)' /\ ~Creating(t)' /\ ~Launched(t)' /\ ~Forks(t)'
    BY <1>2, <1>6 DEF Deleting, Creating, Launched, Forks, Management
  <1>10. RoleKept(t)
    BY <1>3, <1>6, <1>9 DEF RoleKept, SameCreating, SameDeleting
  <1> QED BY <1>1, <1>3, <1>4, <1>6, <1>7, <1>8, <1>10, QuietStep DEF QuietTask

\* A deletion gives its Session back, forgotten or not.
LEMMA ReleaseStep ==
  ASSUME PoolInv, NEW t \in Task, Holds(t), DropWorld, Alone(t), Paced(t),
         Deleting(t), ~Deleting(t)', deleting' = deleting \ {task[t].handle},
         transition' = transition, creations' = creations,
         ShapeAt(t)', AwaitedAt(t)', task'[t].pc \notin {"room", "evicting"},
         ~Creating(t), ~Creating(t)', ~Launched(t), ~Launched(t)', ~Forks(t), ~Forks(t)',
         task'[t].runtime = task[t].runtime \/ Free(task'[t].runtime),
         task'[t].op \notin Management
  PROVE  PoolInv'
  <1> DEFINE h == task[t].handle
  <1>0. /\ TypeOK /\ Locked /\ Excluded /\ DeletionsAlone /\ Closed /\ PendingKnown
    BY PoolParts
  <1>1. /\ TypeOK' /\ Shape' /\ Locked' /\ Awaited'
        /\ HomesTracked' /\ AdmittedTracked' /\ PhasesFit' /\ AdmittedWithinCap'
    BY <1>0, DropWorldKeeps DEF TypeOK
  <1>2. /\ home' = home /\ files' = files /\ phase' = phase /\ leader' = leader
        /\ ending' = ending /\ pending' = pending /\ closing' = closing
        /\ \A g \in Handle : timers'[g] \in {timers[g], None}
        /\ Admitted' \subseteq Admitted
        /\ \A r \in Runtime : Tracked(r)' => Tracked(r)
    BY DropWorldIs
  <1>3. \A u \in Task : u # t => task'[u] = task[u] /\ RoleKept(u)
                                 /\ \A r : Stopping(u, r)' <=> Stopping(u, r)
    BY RoleSame DEF Alone
  <1>4. Roomy'
    BY <1>0, RoomyHeld DEF RoomyAt
  <1>5. PendingKnown'
    <2>1. \A r \in pending :
            /\ home'[r] = home[r] /\ home[r] \notin files' /\ phase'[r] # "busy"
            /\ \A r2 \in Runtime \ {r} : home'[r2] # home[r]
            /\ \A g \in Handle : timers'[g] # r
      BY <1>0, <1>2, TaskAssumption DEF PendingKnown, TypeOK
    <2>2. \A u \in Task : Creating(u) /\ task'[u].pc \in {"failed", "stopped", "untrack"} =>
            task[u].runtime \notin Admitted'
      BY <1>0, <1>2, <1>3 DEF PendingKnown, Admitted
    <2>3. \A u \in Task : SameCreating(u)
      BY <1>3 DEF RoleKept, SameCreating
    <2> QED BY <1>0, <1>2, <2>1, <2>2, <2>3, PendingKept
  <1>6. Excluded'
    <2>1. \A u \in Task : (Forks(u)' <=> Forks(u)) /\ (Launched(u)' <=> Launched(u))
      BY <1>3 DEF RoleKept
    <2>2. PendingIdentity' = PendingIdentity
      BY DEF PendingIdentity
    <2> QED BY <1>0, <1>2, <2>1, <2>2 DEF Excluded, Launched
  <1>7. DeletionsAlone'
    <2>1. \A u \in Task : Deleting(u)' =>
             /\ u # t /\ Deleting(u) /\ task'[u].handle = task[u].handle
             /\ task[u].handle # h /\ task[u].handle \in deleting
      BY <1>0, <1>3 DEF RoleKept, SameDeleting, DeletionsAlone
    <2>2. ASSUME NEW u \in Task, Deleting(u)'
          PROVE  \A r \in Admitted' : home'[r] = task'[u].handle =>
                    Stopping(u, r)' /\ ending'[r] # "none"
      <3>1. \A r \in Admitted : home[r] = task[u].handle => Stopping(u, r) /\ ending[r] # "none"
        BY <1>0, <2>1, <2>2 DEF DeletionsAlone, Admitted
      <3> QED BY <1>2, <1>3, <2>1, <2>2, <3>1
    <2>3. \A t1, t2 \in Task :
            Deleting(t1)' /\ Deleting(t2)' /\ task'[t1].handle = task'[t2].handle => t1 = t2
      BY <1>0, <2>1 DEF DeletionsAlone
    <2>4. \A g \in deleting' : \E u \in Task : Deleting(u)' /\ task'[u].handle = g
      <3> SUFFICES ASSUME NEW g \in deleting' PROVE \E u \in Task : Deleting(u)' /\ task'[u].handle = g
        OBVIOUS
      <3>1. PICK u \in Task : Deleting(u) /\ task[u].handle = g
        BY <1>0 DEF DeletionsAlone
      <3>2. u # t
        BY <3>1
      <3> QED BY <1>3, <3>1, <3>2 DEF RoleKept, SameDeleting
    <2> QED BY <2>1, <2>2, <2>3, <2>4 DEF DeletionsAlone, Admitted
  <1>8. Closed'
    <2>1. \A u \in Task : task'[u].op \in Management => task[u].op \in Management
      BY <1>3
    <2>2. /\ closing' = "closed" => TrackedRuntimes' = {} /\ deleting' = {} /\ ~PendingIdentity'
      BY <1>0, <1>2 DEF Closed, TrackedRuntimes, PendingIdentity
    <2> QED BY <1>0, <1>2, <2>1, <2>2 DEF Closed, Admitted
  <1>9. HomesKnown'
    <2>1. HomesKnown /\ \A u \in Task : u # t => task'[u].runtime = task[u].runtime
      BY <1>3, PoolParts
    <2> QED BY <1>0, <1>1, <1>2, <2>1, HomesKnownKept
  <1> QED BY <1>1, <1>4, <1>5, <1>6, <1>7, <1>8, <1>9, PoolPartsNext

LEMMA FinishDeletionKeeps ==
  ASSUME PoolInv, NEW t \in Task, FinishDeletion(t)
  PROVE  PoolInv'
  <1>1. /\ TypeOK /\ ShapeAt(t) /\ Holds(t) /\ task[t].pc = "finish" /\ Done(t) /\ Unlock
        /\ deleting' = deleting \ {task[t].handle}
        /\ UNCHANGED <<processVars, sessionVars, pending, transition, creations, closing>>
    BY PoolParts DEF Shape, FinishDeletion, At
  <1>2. task[t].op \in Management /\ task[t].handle \in Handle
    BY <1>1 DEF ShapeAt
  <1>3. /\ Deleting(t) /\ ~Creating(t) /\ ~Launched(t) /\ ~Forks(t)
    BY <1>1, <1>2 DEF Deleting, Creating, Launched, Forks, Management
  <1>4. DropWorld
    <2>1. Forget(task[t].handle) \/ UNCHANGED <<timers, runtimes, owned>>
      BY DEF FinishDeletion
    <2> QED BY <1>1, <1>2, <1>3, <2>1, ForgetIs
  <1>5. Becomes(t, "none", "idle", "none", None, None, None)
    BY <1>1, DoneIs
  <1>6. /\ task'[t].op = "none" /\ task'[t].pc = "idle" /\ task'[t].runtime = None /\ Alone(t)
    BY <1>5 DEF Becomes, Alone
  <1>7. Paced(t)
    BY <1>1, <1>6 DEF Paced, Unlock, Body, LockPC
  <1>8. ShapeAt(t)' /\ AwaitedAt(t)'
    BY <1>6 DEF ShapeAt, AwaitedAt, HandleOps, Management, Body, CreationBody
  <1>9. ~Deleting(t)' /\ ~Creating(t)' /\ ~Launched(t)' /\ ~Forks(t)'
    BY <1>6 DEF Deleting, Creating, Launched, Forks, Management
  <1>10. Free(task'[t].runtime) /\ task'[t].op \notin Management
    BY <1>1, <1>6, NoneFree DEF Management
  <1> QED BY <1>1, <1>3, <1>4, <1>6, <1>7, <1>8, <1>9, <1>10, ReleaseStep

LEMMA ReapedKeeps ==
  ASSUME PoolInv, NEW t \in Task, Reaped(t)
  PROVE  PoolInv'
  <1>1. /\ TypeOK /\ ShapeAt(t) /\ Holds(t) /\ task[t].pc = "reaped" /\ queue' = queue
        /\ deleting' = deleting \ {task[t].handle}
        /\ Set(t, [task[t] EXCEPT !.pc = "sweep", !.victim = None, !.handle = None])
        /\ UNCHANGED <<processVars, sessionVars, pending, transition, creations, closing>>
    BY PoolParts DEF Shape, Reaped, At
  <1>2. task[t].op = "reap" /\ task[t].handle \in Handle
    BY <1>1 DEF ShapeAt
  <1>3. /\ Deleting(t) /\ ~Creating(t) /\ ~Launched(t) /\ ~Forks(t)
    BY <1>1, <1>2 DEF Deleting, Creating, Launched, Forks, Management
  <1>4. DropWorld
    <2>1. Forget(task[t].handle) \/ UNCHANGED <<timers, runtimes, owned>>
      BY DEF Reaped
    <2> QED BY <1>1, <1>2, <1>3, <2>1, ForgetIs
  <1>5. Becomes(t, "reap", "sweep", task[t].body, None, task[t].runtime, None)
    BY <1>1, <1>2, SweepIs DEF PC, Body
  <1>6. /\ task'[t].op = "reap" /\ task'[t].pc = "sweep" /\ task'[t].body = task[t].body
        /\ task'[t].runtime = task[t].runtime /\ Alone(t)
    BY <1>5 DEF Becomes, Alone
  <1>7. Paced(t)
    BY <1>1, <1>6 DEF Paced
  <1>8. ShapeAt(t)' /\ AwaitedAt(t)'
    BY <1>1, <1>2, <1>6 DEF ShapeAt, AwaitedAt, HandleOps, Management, Body, CreationBody
  <1>9. ~Deleting(t)' /\ ~Creating(t)' /\ ~Launched(t)' /\ ~Forks(t)' /\ task'[t].op \notin Management
    BY <1>6 DEF Deleting, Creating, Launched, Forks, Management
  <1> QED BY <1>1, <1>3, <1>4, <1>6, <1>7, <1>8, <1>9, ReleaseStep

\* A fork renames its runtime, whose process goes on or is stopped.
LEMMA CommitTransitionKeeps ==
  ASSUME PoolInv, NEW t \in Task, CommitTransition(t)
  PROVE  PoolInv'
  <1> DEFINE r == task[t].runtime
             parent == task[t].handle
  <1>1. PICK child \in Handle \ {parent} :
          IF CommitAdmissible(t, child)
          THEN /\ runtimes' = [runtimes EXCEPT ![parent] = None, ![child] = r]
               /\ home' = [home EXCEPT ![r] = child]
               /\ owned' = owned \ {r}
               /\ files' \in {files, files \union {child}}
               /\ \/ Want(t, "endTransit") /\ Relock(t) /\ UNCHANGED processVars
                  \/ StopCall(r) /\ Goto(t, "stopping") /\ Unlock
          ELSE /\ StopCall(r) /\ Goto(t, "stopping") /\ Unlock
               /\ UNCHANGED <<runtimes, home, owned, files>>
    BY DEF CommitTransition
  <1>2. /\ TypeOK /\ Shape /\ ShapeAt(t) /\ Holds(t) /\ task[t].pc = "commit" /\ task[t].op \in Op
        /\ UNCHANGED <<intent, pending, timers, reserveVars, closing>>
    BY PoolParts, TaskTypes DEF Shape, CommitTransition, At
  <1>3. /\ task[t].op = "fork" /\ r \in Runtime /\ parent \in Handle /\ None \notin Runtime
    BY <1>2, TaskAssumption DEF ShapeAt, Op, HandleOps, Management, CreationBody
  <1>4. CASE ~CommitAdmissible(t, child)
    <2>1. StopWorld(r) /\ UNCHANGED <<deleting, transition, creations>>
      BY <1>1, <1>2, <1>4 DEF StopWorld, reserveVars
    <2> QED BY <1>1, <1>2, <1>3, <1>4, <2>1, StopsOwn
  <1>5. CASE CommitAdmissible(t, child)
    <2>0. /\ Locked /\ HomesTracked /\ AdmittedTracked /\ PhasesFit /\ PendingKnown /\ Excluded
          /\ DeletionsAlone /\ Closed /\ Awaited /\ AdmittedWithinCap
      BY PoolParts
    <2>1. /\ closing = "open" /\ transition # None /\ runtimes[parent] = r
          /\ child \notin deleting /\ runtimes[child] \in {None, r}
      BY <1>5 DEF CommitAdmissible, AssertOpen, Open
    <2>2. /\ deleting = {} /\ creations = {} /\ \A u \in Task : ~Launched(u) /\ ~Creating(u)
      BY <2>0, <2>1 DEF Excluded, PendingIdentity, Launched, Creating
    <2>3. pending = {}
      BY <2>0, <2>2 DEF PendingKnown
    <2>4. home[r] = parent /\ runtimes[child] = None /\ child # parent /\ child \in Handle
      BY <1>3, <2>0, <2>1 DEF HomesTracked
    <2>5. /\ \/ Want(t, "endTransit") /\ Relock(t) /\ UNCHANGED processVars
             \/ StopCall(r) /\ Goto(t, "stopping") /\ Unlock
          /\ runtimes' = [runtimes EXCEPT ![parent] = None, ![child] = r]
          /\ home' = [home EXCEPT ![r] = child]
          /\ owned' \subseteq owned /\ files' \subseteq files \union {child}
      BY <1>1, <1>5
    <2>6. /\ ending' \in [Runtime -> Ending] /\ phase' = phase /\ leader' = leader
          /\ unadmitted' = unadmitted /\ Alive' = Alive /\ Admitted' = Admitted
          /\ \A x \in Runtime : ending[x] # "none" => ending'[x] = ending[x]
          /\ \A x \in Runtime : ending'[x] \in {ending[x], "stop"}
      BY <1>2, <1>3, <2>5, StopCallIs DEF TypeOK, processVars, Alive, Admitted
    <2>7. \/ /\ Becomes(t, "fork", "endTransit", "endTransit", parent, r, task[t].victim)
             /\ Relock(t)
          \/ /\ Becomes(t, "fork", "stopping", task[t].body, parent, r, task[t].victim)
             /\ Unlock /\ ending'[r] # "none"
      BY <1>2, <1>3, <2>5, WantIs, GotoIs, StopCallIs DEF Body, PC
    <2>8. /\ task'[t].op = "fork" /\ Alone(t) /\ task'[t].handle = parent /\ task'[t].runtime = r
          /\ \/ task'[t].pc = "endTransit" /\ task'[t].body = "endTransit" /\ Relock(t)
             \/ task'[t].pc = "stopping" /\ Unlock /\ ending'[r] # "none"
      BY <2>7 DEF Becomes, Alone
    <2>9. Paced(t)
      BY <1>2, <2>8 DEF Paced, Unlock, Relock, Body, LockPC
    <2>10. ShapeAt(t)' /\ AwaitedAt(t)' /\ RoomyAt(t)'
      BY <1>3, <2>8
         DEF ShapeAt, AwaitedAt, RoomyAt, HandleOps, Management, Body, CreationBody, ForkPC
    <2>11. /\ ~Creating(t) /\ ~Creating(t)' /\ ~Launched(t) /\ ~Launched(t)'
           /\ Forks(t) /\ Forks(t)' /\ ~Deleting(t) /\ ~Deleting(t)'
      BY <1>2, <1>3, <2>8 DEF Creating, Launched, Forks, Deleting, Management
    <2>12. \A u \in Task : u # t => task'[u] = task[u] /\ RoleKept(u)
                                    /\ \A x : Stopping(u, x)' <=> Stopping(u, x)
      BY <2>8, RoleSame DEF Alone
    <2>13. /\ closing' = closing /\ pending' = {} /\ timers' = timers /\ intent' = intent
           /\ deleting' = {} /\ transition' = transition /\ creations' = creations
      BY <1>2, <2>2, <2>3 DEF reserveVars
    <2>14. Locked' /\ queue' \in Seq(Task \union {Closer})
      BY <1>2, <2>0, <2>8, <2>9, LockedKept
    <2>15. /\ runtimes' \in [Handle -> Runtime \union {None}]
           /\ runtimes'[parent] = None /\ runtimes'[child] = r
           /\ \A g \in Handle : g # parent /\ g # child => runtimes'[g] = runtimes[g]
           /\ home' \in [Runtime -> Handle \union {None}] /\ home'[r] = child
           /\ \A x \in Runtime : x # r => home'[x] = home[x]
      BY <1>2, <1>3, <2>4, <2>5 DEF TypeOK
    <2>16. TypeOK'
      BY <1>2, <2>4, <2>5, <2>6, <2>8, <2>13, <2>14, <2>15 DEF TypeOK, Alone
    <2>17. Shape' /\ Awaited'
      <3>1. \A u \in Task : u # t => ShapeAt(u)' /\ AwaitedAt(u)'
        <4> SUFFICES ASSUME NEW u \in Task, u # t PROVE ShapeAt(u)' /\ AwaitedAt(u)'
          OBVIOUS
        <4>1. ShapeAt(u) /\ AwaitedAt(u) /\ task'[u] = task[u] /\ task[u].op \in Op
          BY <1>2, <2>0, <2>12, TaskTypes DEF Shape, Awaited
        <4>2. /\ task[u].pc \in {"evicting", "reaping"} => task[u].victim \in Runtime
              /\ task[u].pc = "stopping" => task[u].runtime \in Runtime
          BY <4>1 DEF ShapeAt, Op, HandleOps, Management, CreationBody, ForkPC
        <4>3. ShapeAt(u)'
          BY <4>1 DEF ShapeAt
        <4>4. AwaitedAt(u)'
          BY <2>6, <4>1, <4>2 DEF AwaitedAt
        <4> QED BY <4>3, <4>4
      <3> QED BY <2>10, <3>1 DEF Shape, Awaited
    <2>18. Roomy'
      BY <1>2, <2>0, <2>8, <2>10, RoomyHeld
    <2>19. HomesTracked'
      BY <1>2, <1>3, <2>0, <2>4, <2>13, <2>15 DEF HomesTracked, TypeOK
    <2>20. \A x \in Runtime : Tracked(x)' <=> Tracked(x)
      BY <1>3, <2>1, <2>3, <2>4, <2>13, <2>15 DEF Tracked
    <2>21. AdmittedTracked'
      BY <2>0, <2>6, <2>20 DEF AdmittedTracked, Hot, Running, Alive
    <2>22. PhasesFit'
      BY <2>0, <2>6 DEF PhasesFit
    <2>23. PendingKnown'
      <3>1. \A u \in Task : ~Creating(u)'
        BY <2>2, <2>11, <2>12 DEF RoleKept, SameCreating
      <3> QED BY <2>13, <3>1 DEF PendingKnown
    <2>24. Excluded'
      <3>1. \A u \in Task : (Forks(u)' <=> Forks(u)) /\ (Launched(u)' <=> Launched(u))
        BY <2>11, <2>12 DEF RoleKept
      <3> QED BY <2>0, <2>2, <2>13, <3>1, ExcludedKept
    <2>25. DeletionsAlone'
      <3>1. \A u \in Task : SameDeleting(u)
        BY <2>11, <2>12 DEF RoleKept, SameDeleting
      <3> QED BY <2>0, <2>2, <2>13, <3>1, DeletionsKept
    <2>26. Closed'
      BY <2>1, <2>13 DEF Closed
    <2>27. AdmittedWithinCap'
      <3>1. (Kept \ unadmitted)' \subseteq Kept \ unadmitted
        BY <2>6, <2>20 DEF Kept, TrackedRuntimes
      <3> QED BY <1>2, <2>0, <2>6, <2>16, <3>1, CapKept
    <2>28. HomesKnown'
      <3>1. HomesKnown /\ \A u \in Task : task'[u].runtime = task[u].runtime
        BY <2>8, <2>12, PoolParts
      <3>2. child # None
        BY <2>4, TaskAssumption
      <3> QED BY <1>2, <2>6, <2>13, <2>15, <2>16, <3>1, <3>2, HomesKnownKept
    <2> QED
      BY <2>14, <2>16, <2>17, <2>18, <2>19, <2>21, <2>22, <2>23, <2>24, <2>25, <2>26, <2>27,
         <2>28, PoolPartsNext
  <1> QED BY <1>4, <1>5

-----------------------------------------------------------------------------
(* Steps that start a process. *)

LEMMA SpawnIs ==
  ASSUME TypeOK, NEW r \in Runtime, NEW history, Spawn(r, history)
  PROVE  /\ phase' \in [Runtime -> Phase] /\ leader' \in [Runtime -> Leader]
         /\ phase'[r] = "starting" /\ leader'[r] = "alive" /\ r \in Alive'
         /\ \A x \in Runtime : x # r => phase'[x] = phase[x] /\ leader'[x] = leader[x]
         /\ Alive' = Alive \union {r}
         /\ ending' = ending /\ unadmitted' = history
  <1>1. /\ phase' = [phase EXCEPT ![r] = "starting"] /\ leader' = [leader EXCEPT ![r] = "alive"]
        /\ ending' = ending /\ unadmitted' = history
        /\ phase \in [Runtime -> Phase] /\ leader \in [Runtime -> Leader]
    BY DEF Spawn, TypeOK
  <1>2. /\ phase' \in [Runtime -> Phase] /\ leader' \in [Runtime -> Leader]
        /\ phase'[r] = "starting" /\ leader'[r] = "alive"
        /\ \A x \in Runtime : x # r => phase'[x] = phase[x] /\ leader'[x] = leader[x]
    BY <1>1 DEF Phase, Leader
  <1>3. Alive' = Alive \union {r}
    BY <1>2 DEF Alive
  <1> QED BY <1>1, <1>2, <1>3

\* What the start of a process keeps, if it is tracked or not admitted, if no
\* deletion has its Session, and if there was room for it or it is not admitted.
LEMMA SpawnKeeps ==
  ASSUME PoolInv, NEW r \in Runtime, NEW history, Spawn(r, history), history \subseteq Runtime,
         unadmitted \ {r} \subseteq history,
         r \notin history => Tracked(r)' /\ ~Full /\ home'[r] \notin deleting /\ closing = "open",
         leader[r] = "none",
         \A x \in Runtime : x # r => (Tracked(x)' <=> Tracked(x)) /\ home'[x] = home[x],
         TypeOK', closing' = closing, deleting' = deleting, transition' = transition,
         creations' = creations,
         closing = "open" \/ (Tracked(r)' => Tracked(r)),
         \A t \in Task : SameDeleting(t),
         \A t \in Task : \A x \in Runtime :
            Deleting(t) /\ Stopping(t, x) => Stopping(t, x)',
         \A t \in Task : task'[t].op \in Management => task[t].op \in Management \/ Open
  PROVE  AdmittedTracked' /\ PhasesFit' /\ DeletionsAlone' /\ Closed' /\ AdmittedWithinCap'
  <1>0. TypeOK /\ AdmittedTracked /\ PhasesFit /\ DeletionsAlone /\ Closed /\ AdmittedWithinCap
    BY PoolParts
  <1>1. /\ phase'[r] = "starting" /\ leader'[r] = "alive"
        /\ \A x \in Runtime : x # r => phase'[x] = phase[x] /\ leader'[x] = leader[x]
        /\ Alive' = Alive \union {r} /\ ending' = ending /\ unadmitted' = history
    BY <1>0, SpawnIs
  <1>2. /\ Admitted' \subseteq Admitted \union {r} /\ r \notin Admitted /\ Admitted \subseteq Runtime
        /\ r \in Admitted' => r \notin history
    BY <1>1 DEF Admitted, Alive
  <1>3. AdmittedTracked'
    BY <1>0, <1>1, <1>2 DEF AdmittedTracked, Admitted, Hot, Running, Alive
  <1>4. PhasesFit'
    BY <1>0, <1>1 DEF PhasesFit
  <1>5. DeletionsAlone'
    BY <1>0, <1>1, <1>2, DeletionsKept
  <1>6. Closed'
    BY <1>0, <1>1, <1>2, ClosedKept
  <1>7. (Kept \ unadmitted)' \subseteq (Kept \ unadmitted) \union {r}
    BY <1>1 DEF Kept, TrackedRuntimes
  <1>8. AdmittedWithinCap'
    <2>1. CASE r \notin history
      BY <1>0, <1>2, <1>7, <2>1, CapLaunched
    <2>2. CASE r \in history
      <3>1. Admitted' \subseteq Admitted
        BY <1>2, <2>2
      <3>2. (Kept \ unadmitted)' \subseteq Kept \ unadmitted
        BY <1>1, <1>7, <2>2
      <3> QED BY <1>0, <3>1, <3>2, CapKept
    <2> QED BY <2>1, <2>2
  <1> QED BY <1>3, <1>4, <1>5, <1>6, <1>8

\* The holder of the lock starts a process; the creation it may do that for is
\* left to the caller.
LEMMA LaunchStep ==
  ASSUME PoolInv, NEW t \in Task, NEW r \in Runtime, NEW history, Spawn(r, history),
         history \subseteq Runtime, unadmitted \ {r} \subseteq history,
         closing = "open", ~Full, leader[r] = "none",
         Holds(t), Alone(t), Paced(t), ShapeAt(t)', RoomyAt(t)', AwaitedAt(t)',
         r \notin history => Tracked(r)' /\ home'[r] \notin deleting,
         \A x \in Runtime : x # r => (Tracked(x)' <=> Tracked(x)) /\ home'[x] = home[x],
         runtimes' \in [Handle -> Runtime \union {None}], pending' \subseteq Runtime,
         home' \in [Runtime -> Handle \union {None}], owned' \subseteq owned,
         UNCHANGED <<files, intent, timers, deleting, transition, creations, closing>>,
         ~Deleting(t), ~Deleting(t)', ~Forks(t), ~Forks(t)', task'[t].op = task[t].op,
         task[t].pc # "creation", task'[t].pc # "creation",
         HomesTracked', PendingKnown', home'[r] # None, task'[t].runtime = r
  PROVE  PoolInv'
  <1>0. /\ TypeOK /\ Shape /\ Locked /\ Excluded /\ DeletionsAlone /\ Closed /\ Awaited
    BY PoolParts
  <1>1. /\ phase' \in [Runtime -> Phase] /\ leader' \in [Runtime -> Leader]
        /\ phase'[r] = "starting" /\ ending' = ending /\ unadmitted' = history
        /\ \A x \in Runtime : x # r => phase'[x] = phase[x]
    BY <1>0, SpawnIs
  <1>2. Locked' /\ queue' \in Seq(Task \union {Closer})
    BY <1>0, LockedKept
  <1>3. TypeOK'
    BY <1>0, <1>1, <1>2 DEF TypeOK, Alone
  <1>4. \A u \in Task : u # t => task'[u] = task[u] /\ RoleKept(u)
                                 /\ \A x : Stopping(u, x)' <=> Stopping(u, x)
    BY RoleSame DEF Alone
  <1>5. /\ \A u \in Task : (Forks(u)' <=> Forks(u)) /\ (Launched(u)' <=> Launched(u))
        /\ \A u \in Task : SameDeleting(u)
        /\ \A u \in Task : task'[u].op \in Management => task[u].op \in Management \/ Open
    BY <1>4 DEF RoleKept, SameDeleting, Launched
  <1>6. \A u \in Task : \A x \in Runtime : Deleting(u) /\ Stopping(u, x) => Stopping(u, x)'
    BY <1>4
  <1>7. \A u \in Task : u # t => ShapeAt(u)' /\ AwaitedAt(u)'
    <2> SUFFICES ASSUME NEW u \in Task, u # t PROVE ShapeAt(u)' /\ AwaitedAt(u)'
      OBVIOUS
    <2>1. task'[u] = task[u] /\ ShapeAt(u) /\ AwaitedAt(u) /\ task[u].op \in Op
      BY <1>0, <1>4, TaskTypes DEF Shape, Awaited
    <2>2. task[u].pc = "starting" => task[u].runtime \in Runtime
      BY <2>1 DEF ShapeAt, Op, HandleOps, Management, CreationBody, ForkPC
    <2>3. ShapeAt(u)'
      BY <2>1 DEF ShapeAt
    <2>4. AwaitedAt(u)'
      BY <1>1, <2>1, <2>2 DEF AwaitedAt
    <2> QED BY <2>3, <2>4
  <1>8. Shape' /\ Awaited'
    BY <1>7 DEF Shape, Awaited
  <1>9. Roomy'
    BY <1>0, RoomyHeld
  <1>10. Excluded'
    BY <1>0, <1>5, ExcludedKept
  <1>11. AdmittedTracked' /\ PhasesFit' /\ DeletionsAlone' /\ Closed' /\ AdmittedWithinCap'
    BY <1>0, <1>3, <1>5, <1>6, SpawnKeeps
  <1>12. HomesKnown'
    <2>1. HomesKnown /\ \A u \in Task : u # t => task'[u].runtime = task[u].runtime
      BY <1>4, PoolParts
    <2>2. \A x \in Runtime : x # r => leader'[x] = leader[x]
      BY <1>0, SpawnIs
    <2>3. \A x \in Runtime : home[x] # None => home'[x] # None
      OBVIOUS
    <2> QED BY <1>0, <1>3, <2>1, <2>2, <2>3, HomesKnownKept
  <1> QED
    BY <1>2, <1>3, <1>8, <1>9, <1>10, <1>11, <1>12, PoolPartsNext

\* A tracked runtime is started.
LEMMA LaunchTrackedKeeps ==
  ASSUME PoolInv, NEW t \in Task, LaunchTracked(t)
  PROVE  PoolInv'
  <1>0. PICK r, h, b, history :
           /\ r = task[t].runtime /\ h = task[t].handle /\ b = task[t].body
           /\ history = IF \/ ~Tracked(r)
                           \/ b = "acquire" /\ runtimes[h] # r
                        THEN unadmitted \union {r} ELSE unadmitted \ {r}
    OBVIOUS
  <1>1. /\ TypeOK /\ HomesTracked /\ PendingKnown /\ ShapeAt(t) /\ task[t].op \in Op /\ RoomyAt(t)
        /\ Holds(t) /\ task[t].pc = "room" /\ b \in PinningBody /\ ~Full
        /\ closing = "open" /\ Unlock
        /\ UNCHANGED <<sessionVars, runtimes, pending, timers, reserveVars, closing>>
    BY <1>0, PoolParts, TaskTypes DEF Shape, Roomy, LaunchTracked, AssertOpen, Open, At
  <1>2. /\ task[t].op \in HandleOps /\ r \in Runtime /\ h \in Handle /\ ~Forks(t) /\ b \in Body
        /\ b \in {"start", "acquire", "restart"} /\ None \notin Runtime
    BY <1>0, <1>1, TaskAssumption
       DEF ShapeAt, Op, HandleOps, Management, CreationBody, ForkPC, PinningBody, Forks, Body
  <1>3. /\ b \in {"start", "restart"} => home[r] \notin deleting
        /\ b = "acquire" => h \notin deleting
    BY <1>0, <1>1, <1>2 DEF RoomyAt, HandleOps
  <1>4. CASE Goto(t, JoinPc(r)) /\ UNCHANGED <<processVars, owned>>
    <2>1. QuietWorld
      BY <1>1, <1>4, SameWorld DEF trackVars
    <2>2. Becomes(t, task[t].op, JoinPc(r), b, h, r, task[t].victim)
      BY <1>0, <1>1, <1>2, <1>4, GotoIs, Joins
    <2>3. Paced(t)
      BY <1>1, <1>2, <2>2, Joins DEF Paced, Unlock, Becomes
    <2> QED
      BY <1>0, <1>1, <1>2, <2>1, <2>2, <2>3, HandleGoes, Joins
  <1>5. CASE Spawns(r) /\ Spawn(r, history) /\ owned' = owned \ {r} /\ Goto(t, "starting")
    <2>1. Becomes(t, task[t].op, "starting", b, h, r, task[t].victim)
      BY <1>0, <1>1, <1>5, GotoIs DEF PC
    <2>2. /\ task'[t].op = task[t].op /\ task'[t].pc = "starting" /\ task'[t].body = b
          /\ task'[t].handle = h /\ task'[t].runtime = r /\ Alone(t)
      BY <2>1 DEF Becomes, Alone
    <2>3. Paced(t)
      BY <1>1, <2>2 DEF Paced, Unlock, Body, LockPC
    <2>4. /\ phase'[r] = "starting" /\ Alive' = Alive \union {r} /\ unadmitted' = history
          /\ ending' = ending /\ leader[r] = "none"
          /\ \A x \in Runtime : x # r => phase'[x] = phase[x]
      BY <1>1, <1>2, <1>5, SpawnIs DEF Spawns
    <2>5. ShapeAt(t)' /\ RoomyAt(t)' /\ AwaitedAt(t)'
      BY <1>2, <2>2, <2>4
         DEF ShapeAt, RoomyAt, AwaitedAt, HandleOps, Management, Body, CreationBody, PinningBody
    <2>6. /\ ~Creating(t) /\ ~Creating(t)' /\ ~Deleting(t) /\ ~Deleting(t)' /\ ~Forks(t)'
      BY <1>0, <1>1, <1>2, <2>2 DEF Creating, Deleting, Forks, HandleOps, Management
    <2>7. history \subseteq Runtime /\ unadmitted \ {r} \subseteq history
      BY <1>0, <1>1, <1>2 DEF TypeOK
    <2>8. r \notin history => Tracked(r)' /\ home'[r] \notin deleting
      <3> SUFFICES ASSUME Tracked(r), b = "acquire" => runtimes[h] = r
                   PROVE  Tracked(r)' /\ home'[r] \notin deleting
        BY <1>0, <1>2
      <3>1. Tracked(r)' /\ home' = home
        BY <1>1 DEF Tracked, sessionVars
      <3>2. CASE b = "acquire"
        BY <1>1, <1>2, <1>3, <3>1, <3>2 DEF HomesTracked
      <3>3. CASE b \in {"start", "restart"}
        BY <1>3, <3>1, <3>3
      <3> QED BY <1>2, <3>1, <3>2, <3>3
    <2>9. /\ runtimes' = runtimes /\ pending' = pending /\ home' = home /\ files' = files
          /\ intent' = intent /\ timers' = timers /\ deleting' = deleting
          /\ transition' = transition /\ creations' = creations /\ closing' = closing
      BY <1>1 DEF sessionVars, reserveVars
    <2>10. HomesTracked'
      BY <1>1, <2>9 DEF HomesTracked
    <2>11. \A u \in Task : SameCreating(u)
      BY <1>0, <2>2, <2>6, RoleSame DEF Alone, RoleKept, SameCreating
    <2>12. PendingKnown'
      <3>1. \A x \in pending :
              /\ home'[x] = home[x] /\ home[x] \notin files' /\ phase'[x] # "busy"
              /\ \A r2 \in Runtime \ {x} : home'[r2] # home[x]
              /\ \A g \in Handle : timers'[g] # x
        BY <1>1, <2>4, <2>9 DEF PendingKnown, TypeOK
      <3>2. ASSUME NEW u \in Task, Creating(u), task'[u].pc \in {"failed", "stopped", "untrack"}
            PROVE  task[u].runtime \notin Admitted'
        <4>1. u # t /\ task'[u] = task[u]
          BY <2>2, <2>6, <3>2 DEF Alone
        <4>2. task[u].runtime \notin Admitted /\ task[u].runtime \in pending
          BY <1>1, <3>2, <4>1 DEF PendingKnown, Admitted
        <4>3. task[u].runtime # r
          BY <1>0, <1>1, <4>1, <4>2, <3>2 DEF PendingKnown
        <4> QED BY <2>4, <2>7, <4>2, <4>3 DEF Admitted
      <3> QED BY <1>1, <2>9, <2>11, <3>1, <3>2, PendingKept
    <2>13. \A x \in Runtime : x # r => (Tracked(x)' <=> Tracked(x)) /\ home'[x] = home[x]
      BY <2>9 DEF Tracked
    <2>15. home'[r] # None
      BY <1>0, <1>2, <2>9, PoolParts DEF HomesKnown
    <2>14. /\ runtimes' \in [Handle -> Runtime \union {None}] /\ pending' \subseteq Runtime
           /\ home' \in [Runtime -> Handle \union {None}] /\ owned' \subseteq owned
      BY <1>1, <1>5, <2>9 DEF TypeOK
    <2> QED
      BY <1>1, <1>2, <1>5, <2>2, <2>3, <2>4, <2>5, <2>6, <2>7, <2>8, <2>9, <2>10, <2>12,
         <2>13, <2>14, <2>15, LaunchStep
  <1> QED BY <1>0, <1>4, <1>5 DEF LaunchTracked

\* What an object that nothing refers to is.
LEMMA UnusedIs ==
  ASSUME TypeOK, NEW r \in Unused
  PROVE  /\ r \in Runtime /\ leader[r] = "none" /\ ending[r] = "none" /\ ~Tracked(r)
         /\ r \notin pending /\ \A h \in Handle : timers[h] # r /\ runtimes[h] # r
         /\ \A t \in Task : r # task[t].runtime /\ r # task[t].victim
  BY DEF Unused, Tracked

\* A new runtime of a Session is tracked and started.
LEMMA LaunchNewKeeps ==
  ASSUME PoolInv, NEW t \in Task, LaunchNew(t)
  PROVE  PoolInv'
  <1>0. PICK r \in Unused, h \in {task[t].handle} :
          /\ h = task[t].handle
          /\ runtimes' = [runtimes EXCEPT ![h] = r] /\ home' = [home EXCEPT ![r] = h]
          /\ Spawn(r, unadmitted \ {r})
          /\ Set(t, [task[t] EXCEPT !.pc = "start", !.body = "start", !.runtime = r])
    BY DEF LaunchNew
  <1>1. /\ TypeOK /\ HomesTracked /\ PendingKnown /\ Excluded /\ ShapeAt(t) /\ task[t].op \in Op
        /\ RoomyAt(t) /\ Holds(t) /\ task[t].pc = "room" /\ task[t].body = "track" /\ ~Full
        /\ closing = "open" /\ Relock(t) /\ None \notin Runtime
        /\ UNCHANGED <<files, intent, pending, owned, timers, reserveVars, closing>>
    BY PoolParts, TaskTypes, TaskAssumption DEF Shape, Roomy, LaunchNew, AssertOpen, Open, At
  <1>2. task[t].op \in HandleOps /\ h \in Handle
    BY <1>0, <1>1 DEF ShapeAt, Op, HandleOps, Management, CreationBody, PinningBody
  <1>3. runtimes[h] = None /\ h \notin deleting /\ ~PendingIdentity
    BY <1>0, <1>1, <1>2 DEF RoomyAt, HandleOps
  <1>4. /\ creations = {} /\ \A u \in Task : ~Creating(u)
    BY <1>1, <1>3 DEF Excluded, PendingIdentity, Creating
  <1>5. pending = {}
    BY <1>1, <1>4 DEF PendingKnown
  <1>6. /\ r \in Runtime /\ leader[r] = "none" /\ ~Tracked(r) /\ \A g \in Handle : runtimes[g] # r
    BY <1>1, UnusedIs
  <1>7. Becomes(t, task[t].op, "start", "start", h, r, task[t].victim)
    BY <1>0, <1>1, <1>6, StartIs
  <1>8. /\ task'[t].op = task[t].op /\ task'[t].pc = "start" /\ task'[t].body = "start"
        /\ task'[t].handle = h /\ task'[t].runtime = r /\ Alone(t)
    BY <1>7 DEF Becomes, Alone
  <1>9. Paced(t)
    BY <1>1, <1>8 DEF Paced, Relock, Body
  <1>10. ShapeAt(t)' /\ RoomyAt(t)' /\ AwaitedAt(t)'
    BY <1>2, <1>6, <1>8
       DEF ShapeAt, RoomyAt, AwaitedAt, HandleOps, Management, Body, CreationBody
  <1>11. /\ ~Creating(t)' /\ ~Deleting(t) /\ ~Deleting(t)' /\ ~Forks(t) /\ ~Forks(t)'
    BY <1>1, <1>2, <1>8 DEF Creating, Deleting, Forks, HandleOps, Management
  <1>12. /\ runtimes' \in [Handle -> Runtime \union {None}] /\ runtimes'[h] = r
         /\ \A g \in Handle : g # h => runtimes'[g] = runtimes[g]
         /\ home' \in [Runtime -> Handle \union {None}] /\ home'[r] = h
         /\ \A x \in Runtime : x # r => home'[x] = home[x]
         /\ pending' = {} /\ pending' \subseteq Runtime /\ owned' \subseteq owned
         /\ files' = files /\ intent' = intent /\ timers' = timers /\ deleting' = deleting
         /\ transition' = transition /\ creations' = creations /\ closing' = closing
    BY <1>0, <1>1, <1>2, <1>5, <1>6 DEF TypeOK, reserveVars
  <1>13. \A x \in Runtime : x # r => (Tracked(x)' <=> Tracked(x)) /\ home'[x] = home[x]
    BY <1>1, <1>2, <1>3, <1>5, <1>12 DEF Tracked
  <1>14. Tracked(r)'
    BY <1>2, <1>12 DEF Tracked
  <1>15. HomesTracked'
    BY <1>1, <1>2, <1>6, <1>12 DEF HomesTracked, TypeOK
  <1>16. PendingKnown'
    <2>1. \A u \in Task : ~Creating(u)'
      BY <1>4, <1>8, <1>11, RoleSame DEF Alone, RoleKept, SameCreating
    <2> QED BY <1>12, <2>1 DEF PendingKnown
  <1>17. unadmitted \ {r} \subseteq Runtime
    BY <1>1 DEF TypeOK
  <1> QED
    BY <1>0, <1>1, <1>3, <1>6, <1>8, <1>9, <1>10, <1>11, <1>12, <1>13, <1>14, <1>15, <1>16,
       <1>17, TaskAssumption, LaunchStep

\* A creation starts its runtime, at a handle that nobody has.
LEMMA LaunchCreationKeeps ==
  ASSUME PoolInv, NEW t \in Task, LaunchCreation(t)
  PROVE  PoolInv'
  <1>0. PICK r \in Unused, h \in NewHandles :
          /\ pending' = pending \union {r} /\ home' = [home EXCEPT ![r] = h]
          /\ Spawn(r, unadmitted \ {r})
          /\ Set(t, [task[t] EXCEPT !.pc = "starting", !.runtime = r, !.handle = h])
    BY DEF LaunchCreation
  <1>1. /\ TypeOK /\ HomesTracked /\ PendingKnown /\ Excluded /\ ShapeAt(t) /\ task[t].op \in Op
        /\ Holds(t) /\ task[t].pc = "room" /\ task[t].body = "launch" /\ ~Full
        /\ closing = "open" /\ Unlock /\ None \notin Runtime /\ None \notin Handle
        /\ UNCHANGED <<files, intent, runtimes, owned, timers, reserveVars, closing>>
    BY PoolParts, TaskTypes, TaskAssumption DEF Shape, LaunchCreation, AssertOpen, Open, At
  <1>2. task[t].op = "create"
    <2>1. task[t].op \notin HandleOps
      BY <1>1 DEF ShapeAt, PinningBody, ForkPC
    <2>2. task[t].op \notin Management /\ task[t].op \notin {"reap", "none"}
      BY <1>1 DEF ShapeAt
    <2> QED BY <1>1, <2>1, <2>2 DEF Op, HandleOps, Management
  <1>3. deleting = {}
    BY <1>1, <1>2 DEF Excluded, PendingIdentity
  <1>4. /\ r \in Runtime /\ leader[r] = "none" /\ ~Tracked(r) /\ r \notin pending
        /\ \A g \in Handle : timers[g] # r /\ runtimes[g] # r
        /\ \A u \in Task : task[u].runtime # r
    BY <1>1, UnusedIs
  <1>5. /\ h \in Handle /\ h # None /\ h \notin files /\ \A x \in Runtime : home[x] # h
    BY <1>0, <1>1 DEF NewHandles
  <1>6. Becomes(t, "create", "starting", "launch", h, r, task[t].victim)
    BY <1>0, <1>1, <1>2, <1>4, <1>5, LaunchIs
  <1>7. /\ task'[t].op = "create" /\ task'[t].pc = "starting" /\ task'[t].body = "launch"
        /\ task'[t].handle = h /\ task'[t].runtime = r /\ Alone(t)
    BY <1>6 DEF Becomes, Alone
  <1>8. /\ phase'[r] = "starting" /\ Alive' = Alive \union {r} /\ unadmitted' = unadmitted \ {r}
        /\ \A x \in Runtime : x # r => phase'[x] = phase[x]
    BY <1>0, <1>1, <1>4, SpawnIs
  <1>9. Paced(t)
    BY <1>1, <1>7 DEF Paced, Unlock, Body, LockPC
  <1>10. ShapeAt(t)' /\ RoomyAt(t)' /\ AwaitedAt(t)'
    BY <1>4, <1>7, <1>8
       DEF ShapeAt, RoomyAt, AwaitedAt, HandleOps, Management, Body, CreationBody
  <1>11. /\ ~Creating(t) /\ Creating(t)' /\ ~Deleting(t) /\ ~Deleting(t)'
         /\ ~Forks(t) /\ ~Forks(t)'
    BY <1>1, <1>2, <1>7 DEF Creating, Deleting, Forks, Management
  <1>12. /\ pending' = pending \union {r} /\ pending' \subseteq Runtime
         /\ home' \in [Runtime -> Handle \union {None}] /\ home'[r] = h
         /\ \A x \in Runtime : x # r => home'[x] = home[x]
         /\ runtimes' = runtimes /\ owned' = owned
         /\ files' = files /\ intent' = intent /\ timers' = timers /\ deleting' = deleting
         /\ transition' = transition /\ creations' = creations /\ closing' = closing
    BY <1>0, <1>1, <1>4, <1>5 DEF TypeOK, reserveVars
  <1>13. \A x \in Runtime : x # r => (Tracked(x)' <=> Tracked(x)) /\ home'[x] = home[x]
    BY <1>12 DEF Tracked
  <1>14. Tracked(r)'
    BY <1>12 DEF Tracked
  <1>15. HomesTracked'
    BY <1>1, <1>4, <1>5, <1>12 DEF HomesTracked, TypeOK
  <1>16. PendingKnown'
    <2>0. \A u \in Task : u # t => task'[u] = task[u] /\ (Creating(u)' <=> Creating(u))
      BY <1>7, RoleSame DEF Alone, RoleKept, SameCreating
    <2>1. ASSUME NEW x \in pending'
          PROVE  /\ home'[x] \notin files' /\ phase'[x] # "busy"
                 /\ \A r2 \in Runtime \ {x} : home'[r2] # home'[x]
                 /\ \A g \in Handle : timers'[g] # x
      <3>1. CASE x = r
        BY <3>1, <1>4, <1>5, <1>8, <1>12
      <3>2. CASE x \in pending
        <4>1. /\ x # r /\ x \in Runtime /\ home[x] \notin files /\ phase[x] # "busy"
              /\ \A r2 \in Runtime \ {x} : home[r2] # home[x]
              /\ \A g \in Handle : timers[g] # x
          BY <3>2, <1>1, <1>4 DEF PendingKnown, TypeOK
        <4> QED BY <4>1, <1>5, <1>8, <1>12
      <3> QED BY <3>1, <3>2, <1>12
    <2>2. ASSUME NEW x \in pending'
          PROVE  \E u \in Task : /\ Creating(u)' /\ task'[u].runtime = x
                                 /\ \A t2 \in Task : task'[t2].runtime = x => t2 = u
      <3>1. CASE x = r
        BY <3>1, <1>4, <1>7, <1>11, <2>0
      <3>2. CASE x \in pending
        <4>1. PICK u \in Task : /\ Creating(u) /\ task[u].runtime = x
                                /\ \A t2 \in Task : task[t2].runtime = x => t2 = u
          BY <3>2, <1>1 DEF PendingKnown
        <4> QED BY <3>2, <4>1, <1>4, <1>7, <1>11, <2>0
      <3> QED BY <3>1, <3>2, <1>12
    <2>3. ASSUME NEW u \in Task, Creating(u)'
          PROVE  /\ task'[u].runtime \in pending' \/ closing' = "closed"
                 /\ task'[u].pc \in {"failed", "stopped", "untrack"} =>
                       task'[u].runtime \notin Admitted'
      <3>1. CASE u = t
        BY <3>1, <1>7, <1>12
      <3>2. CASE u # t
        <4>1. Creating(u) /\ task'[u] = task[u]
          BY <2>0, <2>3, <3>2
        <4>2. /\ task[u].runtime \in pending
              /\ task[u].pc \in {"failed", "stopped", "untrack"} => task[u].runtime \notin Admitted
          BY <1>1, <4>1 DEF PendingKnown, Admitted
        <4>3. task[u].runtime # r
          BY <1>4
        <4> QED BY <1>8, <1>12, <4>1, <4>2, <4>3 DEF Admitted
      <3> QED BY <3>1, <3>2
    <2> QED BY <2>1, <2>2, <2>3, <1>5, <1>12, <1>1 DEF PendingKnown, Admitted
  <1>17. unadmitted \ {r} \subseteq Runtime
    BY <1>1 DEF TypeOK
  <1>18. runtimes' \in [Handle -> Runtime \union {None}]
    BY <1>1, <1>12 DEF TypeOK
  <1> QED
    BY <1>0, <1>1, <1>2, <1>3, <1>4, <1>5, <1>7, <1>9, <1>10, <1>11, <1>12, <1>13, <1>14, <1>15,
       <1>16, <1>17, <1>18, TaskAssumption, LaunchStep

-----------------------------------------------------------------------------
(* Steps of the processes, which wake the operations that await them.       *)

\* An operation that a process wakes goes on where it waited.
Woken(t) ==
    /\ task'[t].op = task[t].op /\ task'[t].body = task[t].body
    /\ task'[t].handle = task[t].handle /\ task'[t].runtime = task[t].runtime
    /\ \/ task'[t].pc = task[t].pc /\ task'[t].victim = task[t].victim
       \/ /\ task[t].pc \in {"chained", "starting"}
          /\ task'[t].pc \in {"starting", "started", "failed"}
       \/ task[t].pc = "evicting" /\ task[t].op = "reap" /\ task'[t].pc = "sweepIdle"
       \/ task[t].pc = "evicting" /\ task[t].op # "reap" /\ task'[t].pc = "room"
       \/ task[t].pc = "reaping" /\ task'[t].pc = "reaped" /\ task'[t].victim = task[t].victim
       \/ task[t].pc = "stopping" /\ task'[t].pc = "stopped"

LEMMA WokenShape ==
  ASSUME PoolInv, NEW t \in Task, Woken(t)
  PROVE  ShapeAt(t)'
  <1>1. ShapeAt(t) /\ task[t].op \in Op
    BY PoolParts, TaskTypes DEF Shape
  <1>2. CASE task'[t].pc = task[t].pc /\ task'[t].victim = task[t].victim
    BY <1>1, <1>2 DEF Woken, ShapeAt
  <1>3. CASE /\ task[t].pc \in {"chained", "starting"}
             /\ task'[t].pc \in {"starting", "started", "failed"}
    BY <1>1, <1>3
       DEF Woken, ShapeAt, Op, HandleOps, Management, Body, CreationBody, ForkPC
  <1>4. CASE \/ task[t].pc = "evicting" /\ task[t].op = "reap" /\ task'[t].pc = "sweepIdle"
             \/ task[t].pc = "evicting" /\ task[t].op # "reap" /\ task'[t].pc = "room"
    BY <1>1, <1>4
       DEF Woken, ShapeAt, Op, HandleOps, Management, Body, CreationBody, ForkPC
  <1>5. CASE \/ /\ task[t].pc = "reaping" /\ task'[t].pc = "reaped"
                /\ task'[t].victim = task[t].victim
             \/ task[t].pc = "stopping" /\ task'[t].pc = "stopped"
    BY <1>1, <1>5
       DEF Woken, ShapeAt, Op, HandleOps, Management, Body, CreationBody, ForkPC
  <1> QED BY <1>2, <1>3, <1>4, <1>5 DEF Woken

LEMMA WokenRole ==
  ASSUME PoolInv, NEW t \in Task, Woken(t)
  PROVE  RoleKept(t)
  <1>1. ShapeAt(t) /\ task[t].op \in Op
    BY PoolParts, TaskTypes DEF Shape
  <1>2. Creating(t)' <=> Creating(t)
    BY <1>1 DEF Woken, ShapeAt, Creating, HandleOps, Management, CreationBody
  <1>3. Launched(t)' <=> Launched(t)
    BY <1>1 DEF Woken, Launched
  <1>4. Forks(t)' <=> Forks(t)
    BY <1>1 DEF Woken, Forks
  <1>5. Deleting(t)' <=> Deleting(t)
    BY <1>1 DEF Woken, Deleting, ShapeAt, HandleOps, Management, CreationBody
  <1> QED BY <1>2, <1>3, <1>4, <1>5 DEF RoleKept, SameCreating, SameDeleting, Woken

LEMMA WokenKeeps ==
  ASSUME PoolInv, \A t \in Task : Woken(t),
         UNCHANGED <<queue, runtimes, home, deleting, transition, creations>>
  PROVE  Shape' /\ Locked' /\ Roomy' /\ \A t \in Task : RoleKept(t)
  <1>0. TypeOK /\ Shape /\ Locked /\ Roomy
    BY PoolParts
  <1>1. Shape' /\ \A t \in Task : RoleKept(t)
    BY WokenShape, WokenRole DEF Shape
  <1>2. Locked'
    <2> SUFFICES ASSUME NEW t \in Task
                 PROVE  /\ task'[t].pc \in Body => InQueue(t)'
                        /\ task'[t].pc \in LockPC => Holds(t)'
      BY DEF Locked
    <2>1. /\ InQueue(t)' <=> InQueue(t)
          /\ Holds(t)' <=> Holds(t)
      BY DEF InQueue, Holds
    <2>2. Holds(t) => InQueue(t)
      <3>1. queue \in Seq(Task \union {Closer})
        BY <1>0 DEF TypeOK
      <3>2. queue # <<>> => 1 \in DOMAIN queue /\ Head(queue) = queue[1]
        BY <3>1
      <3> QED BY <3>2 DEF Holds, InQueue
    <2>3. Woken(t)
      OBVIOUS
    <2>4. /\ task[t].pc \in Body => InQueue(t)
          /\ task[t].pc \in LockPC => Holds(t)
      BY <1>0 DEF Locked
    <2>5. CASE task'[t].pc = task[t].pc
      BY <2>1, <2>4, <2>5
    <2>6. CASE task'[t].pc \in {"starting", "started", "failed", "stopped"}
      BY <2>6 DEF Body, LockPC
    <2>7. CASE task[t].pc \in {"evicting", "reaping"}
      BY <2>1, <2>2, <2>4, <2>7 DEF LockPC
    <2> QED BY <2>3, <2>5, <2>6, <2>7 DEF Woken
  <1>3. \A t \in Task : RoomyAt(t)'
    <2> SUFFICES ASSUME NEW t \in Task PROVE RoomyAt(t)'
      OBVIOUS
    <2>1. Woken(t) /\ RoomyAt(t) /\ (PendingIdentity' <=> PendingIdentity)
      BY <1>0 DEF Roomy, PendingIdentity
    <2> QED BY <2>1 DEF Woken, RoomyAt
  <1> QED BY <1>1, <1>2, <1>3 DEF Roomy

\* One process takes a step, and whoever awaited it goes on; nothing is admitted.
LEMMA ProcessStep ==
  ASSUME PoolInv, NEW r \in Runtime, \A t \in Task : Woken(t), task' \in [Task -> TaskState],
         UNCHANGED <<queue, runtimes, pending, home, deleting, transition, creations, closing>>,
         phase' \in [Runtime -> Phase], leader' \in [Runtime -> Leader],
         ending' \in [Runtime -> Ending], unadmitted' \subseteq Runtime,
         \A x \in Runtime : x # r =>
            /\ phase'[x] = phase[x] /\ leader'[x] = leader[x] /\ ending'[x] = ending[x]
            /\ x \in unadmitted' <=> x \in unadmitted,
         owned' \subseteq Runtime, intent' \subseteq Runtime, files' \subseteq Handle,
         timers' \in [Handle -> Runtime \union {None}],
         r \in Admitted' => /\ r \in Admitted /\ Hot(r)'
                            /\ ending[r] # "none" => ending'[r] # "none",
         ending'[r] = "cleanup" => phase'[r] # "retained",
         leader'[r] = "alive" /\ ending'[r] = "none" => phase'[r] \in {"starting", "idle", "busy"},
         r \in (Kept \ unadmitted)' => r \in Kept \ unadmitted,
         leader'[r] # "none" => home[r] # None,
         \A h \in Handle : timers'[h] # None => home[timers'[h]] # None,
         \A x \in pending : /\ home[x] \notin files' /\ phase'[x] # "busy"
                            /\ \A h \in Handle : timers'[h] # x,
         \A t \in Task : Creating(t) /\ task'[t].pc \in {"failed", "stopped", "untrack"} =>
            task[t].runtime \notin Admitted',
         \A t \in Task : \A x \in Admitted' : Stopping(t, x) => Stopping(t, x)',
         \A t \in Task : AwaitedAt(t)'
  PROVE  PoolInv'
  <1>0. /\ TypeOK /\ Shape /\ Locked /\ Roomy
        /\ HomesTracked /\ HomesKnown /\ AdmittedTracked /\ PhasesFit /\ PendingKnown
        /\ Excluded /\ DeletionsAlone /\ Closed /\ Awaited
        /\ AdmittedWithinCap
    BY PoolParts
  <1>1. Shape' /\ Locked' /\ Roomy' /\ \A t \in Task : RoleKept(t)
    BY WokenKeeps
  <1>2. TypeOK'
    BY <1>0 DEF TypeOK
  <1>3. \A x \in Runtime : Tracked(x)' <=> Tracked(x)
    BY DEF Tracked
  <1>4. \A x \in Admitted' : x \in Admitted /\ x \in Runtime
                              /\ (ending[x] # "none" => ending'[x] # "none")
    BY DEF Admitted, Alive
  <1>5. HomesTracked'
    BY <1>0 DEF HomesTracked
  <1>6. AdmittedTracked'
    <2> SUFFICES ASSUME NEW x \in Admitted' PROVE Tracked(x)' /\ Hot(x)'
      BY DEF AdmittedTracked, Admitted
    <2>1. Tracked(x) /\ Hot(x) /\ x \in Runtime
      BY <1>0, <1>4 DEF AdmittedTracked, Admitted
    <2>2. Hot(x)'
      BY <2>1 DEF Hot, Running
    <2> QED BY <1>3, <2>1, <2>2
  <1>7. PhasesFit'
    BY <1>0 DEF PhasesFit
  <1>8. PendingKnown'
    <2>1. \A x \in pending :
            /\ home'[x] = home[x] /\ home[x] \notin files' /\ phase'[x] # "busy"
            /\ \A r2 \in Runtime \ {x} : home'[r2] # home[x]
            /\ \A h \in Handle : timers'[h] # x
      BY <1>0 DEF PendingKnown
    <2> QED BY <1>0, <1>1, <2>1, PendingKept DEF RoleKept
  <1>9. Excluded'
    BY <1>0, <1>1, ExcludedKept DEF RoleKept
  <1>10. DeletionsAlone'
    <2>1. \A x \in Admitted' :
            /\ x \in Admitted /\ home'[x] = home[x]
            /\ ending[x] # "none" => ending'[x] # "none"
            /\ \A t \in Task : Deleting(t) /\ Stopping(t, x) => Stopping(t, x)'
      BY <1>4
    <2> QED BY <1>0, <1>1, <2>1, DeletionsKept DEF RoleKept
  <1>11. Closed'
    BY <1>0, <1>1, <1>3, <1>4, ClosedKept DEF RoleKept
  <1>12. Admitted' \subseteq Admitted
    BY <1>4
  <1>13. (Kept \ unadmitted)' \subseteq Kept \ unadmitted
    BY <1>3 DEF Kept, TrackedRuntimes
  <1>14. AdmittedWithinCap'
    BY <1>0, <1>2, <1>12, <1>13, CapKept
  <1>15. HomesKnown'
    <2>1. \A t \in Task : task'[t].runtime = task[t].runtime
      BY DEF Woken
    <2> QED BY <1>0, <2>1 DEF HomesKnown
  <1> QED
    BY <1>1, <1>2, <1>5, <1>6, <1>7, <1>8, <1>9, <1>10, <1>11, <1>14, <1>15, PoolPartsNext DEF Awaited

\* An operation changes what it waits for, and nothing else.
LEMMA PcIs ==
  ASSUME TypeOK, NEW t \in Task, NEW p \in PC
  PROVE  /\ [task[t] EXCEPT !.pc = p] \in TaskState
         /\ [task[t] EXCEPT !.pc = p].op = task[t].op
         /\ [task[t] EXCEPT !.pc = p].body = task[t].body
         /\ [task[t] EXCEPT !.pc = p].handle = task[t].handle
         /\ [task[t] EXCEPT !.pc = p].runtime = task[t].runtime
         /\ [task[t] EXCEPT !.pc = p].victim = task[t].victim
         /\ [task[t] EXCEPT !.pc = p].pc = p
  <1>1. task[t] \in TaskState
    BY TaskTypes
  <1> QED BY <1>1 DEF TaskState

LEMMA OkIs ==
  ASSUME TypeOK, NEW t \in Task
  PROVE  /\ [task[t] EXCEPT !.ok = FALSE] \in TaskState
         /\ [task[t] EXCEPT !.ok = FALSE].op = task[t].op
         /\ [task[t] EXCEPT !.ok = FALSE].body = task[t].body
         /\ [task[t] EXCEPT !.ok = FALSE].handle = task[t].handle
         /\ [task[t] EXCEPT !.ok = FALSE].runtime = task[t].runtime
         /\ [task[t] EXCEPT !.ok = FALSE].victim = task[t].victim
         /\ [task[t] EXCEPT !.ok = FALSE].pc = task[t].pc
  <1>1. task[t] \in TaskState
    BY TaskTypes
  <1> QED BY <1>1 DEF TaskState

\* What an operation awaits belongs to a runtime.
LEMMA AwaitedRuntime ==
  ASSUME PoolInv, NEW t \in Task
  PROVE  /\ AwaitedAt(t)
         /\ task[t].pc \in {"evicting", "reaping"} => task[t].victim \in Runtime
         /\ task[t].pc \in {"stopping", "starting", "chained"} => task[t].runtime \in Runtime
  <1>1. ShapeAt(t) /\ task[t].op \in Op
    BY PoolParts, TaskTypes DEF Shape
  <1> QED BY <1>1, PoolParts DEF Awaited, ShapeAt, Op, HandleOps, Management, CreationBody, ForkPC

\* A runtime at a temporary handle is used by its creation alone.
LEMMA PendingUse ==
  ASSUME PoolInv, NEW t \in Task
  PROVE  /\ task[t].runtime \in pending => Creating(t)
         /\ Creating(t) /\ task[t].pc \in {"failed", "stopped", "untrack"} =>
               task[t].runtime \notin Admitted
  BY PoolParts DEF PendingKnown, Admitted

\* No operation is concerned.
LEMMA StillTasks ==
  ASSUME PoolInv, task' = task
  PROVE  /\ \A t \in Task : Woken(t) /\ task'[t] = task[t]
         /\ task' \in [Task -> TaskState]
         /\ \A t \in Task : \A x : Stopping(t, x)' <=> Stopping(t, x)
  BY PoolParts DEF Woken, TypeOK, Stopping

LEMMA ReadyKeeps ==
  ASSUME PoolInv, NEW r \in Runtime, Ready(r)
  PROVE  PoolInv'
  <1>1. /\ TypeOK /\ PendingKnown /\ PhasesFit /\ HomesKnown
        /\ phase[r] = "starting" /\ leader[r] = "alive" /\ ending[r] = "none"
        /\ UNCHANGED <<leader, ending, unadmitted, home, intent, files, runtimes, pending, owned,
                       timers, deleting, transition, creations, queue, closing>>
    BY PoolParts DEF Ready, sessionVars, trackVars, reserveVars
  <1>2. /\ phase' \in [Runtime -> Phase] /\ phase'[r] = "idle"
        /\ \A x \in Runtime : x # r => phase'[x] = phase[x]
    BY <1>1 DEF Ready, TypeOK, Phase
  <1>3. ASSUME NEW t \in Task
        PROVE  /\ task'[t] \in TaskState /\ Woken(t)
               /\ \/ task'[t] = task[t] /\ ~(task[t].runtime = r /\ task[t].pc = "starting")
                  \/ /\ task[t].pc = "starting" /\ task'[t].pc = "started"
    <2>1. task'[t] = IF task[t].runtime = r /\ task[t].pc = "starting"
                     THEN [task[t] EXCEPT !.pc = "started"] ELSE task[t]
      BY DEF Ready
    <2>2. "started" \in PC
      BY DEF PC
    <2>3. CASE task[t].runtime = r /\ task[t].pc = "starting"
      BY <1>1, <2>1, <2>2, <2>3, PcIs DEF Woken
    <2>4. CASE ~(task[t].runtime = r /\ task[t].pc = "starting")
      BY <1>1, <2>1, <2>4, TaskTypes DEF Woken
    <2> QED BY <2>3, <2>4
  <1>4. task' \in [Task -> TaskState]
    BY <1>3 DEF Ready
  <1>5. Admitted' = Admitted /\ Alive' = Alive
    BY <1>1 DEF Admitted, Alive
  <1>6. \A t \in Task : AwaitedAt(t)'
    <2> SUFFICES ASSUME NEW t \in Task PROVE AwaitedAt(t)'
      OBVIOUS
    <2> QED BY <1>1, <1>2, <1>3, AwaitedRuntime DEF AwaitedAt
  <1>7. \A t \in Task : Creating(t) /\ task'[t].pc \in {"failed", "stopped", "untrack"} =>
            task[t].runtime \notin Admitted'
    BY <1>3, <1>5, PendingUse
  <1>8. \A t \in Task : \A x \in Admitted' : Stopping(t, x) => Stopping(t, x)'
    BY <1>3 DEF Stopping
  <1>9. r \in Admitted' => r \in Admitted /\ Hot(r)'
    BY <1>1, <1>5 DEF Hot, Running
  <1>10. r \in (Kept \ unadmitted)' => r \in Kept \ unadmitted
    BY <1>1, <1>2 DEF Kept, TrackedRuntimes, Tracked
  <1>11. \A x \in pending : /\ home[x] \notin files' /\ phase'[x] # "busy"
                            /\ \A h \in Handle : timers'[h] # x
    BY <1>1, <1>2 DEF PendingKnown, TypeOK
  <1>12. /\ leader' \in [Runtime -> Leader] /\ ending' \in [Runtime -> Ending]
         /\ unadmitted' \subseteq Runtime /\ owned' \subseteq Runtime /\ intent' \subseteq Runtime
         /\ files' \subseteq Handle /\ timers' \in [Handle -> Runtime \union {None}]
         /\ leader'[r] # "none" => home[r] # None
         /\ \A h \in Handle : timers'[h] # None => home[timers'[h]] # None
    BY <1>1 DEF TypeOK, HomesKnown
  <1> QED
    BY <1>1, <1>2, <1>3, <1>4, <1>5, <1>6, <1>7, <1>8, <1>9, <1>10, <1>11, <1>12, ProcessStep

\* What a step of one process that changes no operation has to keep.
SameButProcess ==
    UNCHANGED <<task, queue, runtimes, pending, home, timers, deleting, transition, creations,
                closing, ending>>

LEMMA ProcessAlone ==
  ASSUME PoolInv, NEW r \in Runtime, SameButProcess,
         phase' \in [Runtime -> Phase], leader' \in [Runtime -> Leader],
         \A x \in Runtime : x # r => phase'[x] = phase[x] /\ leader'[x] = leader[x],
         unadmitted' \in {unadmitted, unadmitted \union {r}}, owned' \subseteq Runtime,
         intent' \subseteq Runtime, files' \subseteq Handle, leader'[r] # "none",
         leader[r] # "none", ending[r] = "none", phase[r] = "starting" => phase'[r] = "starting",
         r \in Admitted' => Hot(r)',
         leader'[r] = "alive" => phase'[r] \in {"starting", "idle", "busy"},
         phase'[r] = "busy" => phase[r] = "busy" \/ r \notin pending,
         \A x \in pending : home[x] \notin files'
  PROVE  PoolInv'
  <1>1. /\ \A t \in Task : Woken(t) /\ task'[t] = task[t]
        /\ task' \in [Task -> TaskState]
        /\ \A t \in Task : \A x : Stopping(t, x)' <=> Stopping(t, x)
    BY StillTasks DEF SameButProcess
  <1>2. TypeOK /\ PendingKnown /\ PhasesFit /\ HomesKnown
    BY PoolParts
  <1>3. Alive' = Alive /\ Admitted' \subseteq Admitted
    BY DEF Alive, Admitted, SameButProcess
  <1>4. \A t \in Task : AwaitedAt(t)'
    <2> SUFFICES ASSUME NEW t \in Task PROVE AwaitedAt(t)'
      OBVIOUS
    <2> QED BY <1>1, AwaitedRuntime DEF AwaitedAt, SameButProcess
  <1>5. \A t \in Task : Creating(t) /\ task'[t].pc \in {"failed", "stopped", "untrack"} =>
            task[t].runtime \notin Admitted'
    BY <1>1, <1>3, PendingUse
  <1>6. \A t \in Task : \A x \in Admitted' : Stopping(t, x) => Stopping(t, x)'
    BY <1>1
  <1>7. r \in (Kept \ unadmitted)' => r \in Kept \ unadmitted
    BY DEF Kept, TrackedRuntimes, Tracked, SameButProcess
  <1>8. \A x \in pending : /\ home[x] \notin files' /\ phase'[x] # "busy"
                            /\ \A h \in Handle : timers'[h] # x
    BY <1>2 DEF PendingKnown, TypeOK, SameButProcess
  <1>9. /\ ending' \in [Runtime -> Ending] /\ unadmitted' \subseteq Runtime
        /\ timers' \in [Handle -> Runtime \union {None}]
        /\ leader'[r] # "none" => home[r] # None
        /\ \A h \in Handle : timers'[h] # None => home[timers'[h]] # None
    BY <1>2 DEF TypeOK, HomesKnown, SameButProcess
  <1>10. \A x \in Runtime : x # r =>
            /\ phase'[x] = phase[x] /\ leader'[x] = leader[x] /\ ending'[x] = ending[x]
            /\ x \in unadmitted' <=> x \in unadmitted
    BY DEF SameButProcess
  <1>11. r \in Admitted' => /\ r \in Admitted /\ Hot(r)'
                            /\ ending[r] # "none" => ending'[r] # "none"
    BY <1>3 DEF SameButProcess
  <1>12. /\ ending'[r] = "cleanup" => phase'[r] # "retained"
         /\ leader'[r] = "alive" /\ ending'[r] = "none" => phase'[r] \in {"starting", "idle", "busy"}
    BY DEF SameButProcess
  <1>13. /\ queue' = queue /\ runtimes' = runtimes /\ pending' = pending /\ home' = home
         /\ deleting' = deleting /\ transition' = transition /\ creations' = creations
         /\ closing' = closing
    BY DEF SameButProcess
  <1>14. \A t \in Task : Woken(t)
    BY <1>1
  <1>15. task' \in [Task -> TaskState]
    BY <1>1
  <1> QED
    BY <1>4, <1>5, <1>6, <1>7, <1>8, <1>9, <1>10, <1>11, <1>12, <1>13, <1>14, <1>15, ProcessStep

LEMMA TurnEndsKeeps ==
  ASSUME PoolInv, NEW r \in Runtime, TurnEnds(r)
  PROVE  PoolInv'
  <1>1. /\ TypeOK /\ PendingKnown /\ AdmittedTracked /\ HomesKnown /\ None \notin Handle
        /\ phase[r] = "busy" /\ leader[r] \in {"alive", "exited"} /\ ending[r] = "none"
        /\ phase' = [phase EXCEPT ![r] = "idle"] /\ files' \in {files, files \union {home[r]}}
        /\ UNCHANGED <<leader, ending, unadmitted, home, intent, runtimes, pending, owned, timers,
                       deleting, transition, creations, task, queue, closing>>
    BY PoolParts, TaskAssumption DEF TurnEnds, trackVars, reserveVars
  <1>2. /\ phase' \in [Runtime -> Phase] /\ phase'[r] = "idle"
        /\ \A x \in Runtime : x # r => phase'[x] = phase[x]
    BY <1>1 DEF TypeOK, Phase
  <1>3. home[r] \in Handle
    BY <1>1 DEF HomesKnown, TypeOK
  <1>4. \A x \in pending : home[x] \notin files'
    BY <1>1, <1>3 DEF PendingKnown
  <1>5. r \in Admitted' => Hot(r)'
    BY <1>1 DEF AdmittedTracked, Admitted, Alive, Hot, Running
  <1>6. /\ leader' \in [Runtime -> Leader] /\ owned' \subseteq Runtime /\ intent' \subseteq Runtime
        /\ files' \subseteq Handle
    BY <1>1, <1>3 DEF TypeOK
  <1> QED BY <1>1, <1>2, <1>4, <1>5, <1>6, ProcessAlone DEF SameButProcess

LEMMA LeaderExitsKeeps ==
  ASSUME PoolInv, NEW r \in Runtime, LeaderExits(r)
  PROVE  PoolInv'
  <1>1. /\ TypeOK /\ PendingKnown /\ PhasesFit /\ leader[r] = "alive" /\ ending[r] = "none"
        /\ leader' = [leader EXCEPT ![r] = "exited"]
        /\ unadmitted' = IF phase[r] = "starting" THEN unadmitted ELSE unadmitted \union {r}
        /\ UNCHANGED <<phase, ending, home, intent, files, runtimes, pending, owned, timers,
                       deleting, transition, creations, task, queue, closing>>
    BY PoolParts DEF LeaderExits, sessionVars, trackVars, reserveVars
  <1>2. /\ leader' \in [Runtime -> Leader] /\ leader'[r] = "exited"
        /\ \A x \in Runtime : x # r => leader'[x] = leader[x]
    BY <1>1 DEF TypeOK, Leader
  <1>3. r \in Admitted' => Hot(r)'
    BY <1>1 DEF Admitted, Hot
  <1>4. phase[r] \in {"starting", "idle", "busy"} /\ \A x \in pending : home[x] \notin files'
    BY <1>1 DEF PhasesFit, PendingKnown
  <1> QED BY <1>1, <1>2, <1>3, <1>4, ProcessAlone DEF TypeOK, SameButProcess

LEMMA FinalizesKeeps ==
  ASSUME PoolInv, NEW r \in Runtime, Finalizes(r)
  PROVE  PoolInv'
  <1>1. /\ TypeOK /\ PendingKnown /\ PhasesFit
        /\ leader[r] \in {"alive", "exited"} /\ ending[r] = "none"
        /\ leader' = [leader EXCEPT ![r] = "finalizing"]
        /\ UNCHANGED <<phase, ending, unadmitted, home, intent, files, runtimes, pending, owned,
                       timers, deleting, transition, creations, task, queue, closing>>
    BY PoolParts DEF Finalizes, sessionVars, trackVars, reserveVars
  <1>2. /\ leader' \in [Runtime -> Leader] /\ leader'[r] = "finalizing"
        /\ \A x \in Runtime : x # r => leader'[x] = leader[x]
    BY <1>1 DEF TypeOK, Leader
  <1>3. r \in Admitted' => Hot(r)'
    BY <1>1, <1>2 DEF Hot, Running
  <1>4. \A x \in pending : home[x] \notin files'
    BY <1>1 DEF PendingKnown
  <1> QED BY <1>1, <1>2, <1>3, <1>4, ProcessAlone DEF TypeOK, SameButProcess

LEMMA ConverseKeeps ==
  ASSUME PoolInv, NEW t \in Task, Converse(t)
  PROVE  PoolInv'
  <1>0. PICK r : r = task[t].runtime
    OBVIOUS
  <1>1. /\ TypeOK /\ PendingKnown /\ r \in Runtime /\ task[t].pc = "working" /\ ~Creating(t)
        /\ phase[r] = "idle" /\ leader[r] = "alive" /\ ending[r] = "none"
        /\ phase' = [phase EXCEPT ![r] = "busy"] /\ intent' = intent \union {r}
        /\ UNCHANGED <<leader, ending, unadmitted, home, files, runtimes, pending, owned, timers,
                       deleting, transition, creations, task, queue, closing>>
    BY <1>0, PoolParts, Unreserved DEF Converse, At, Creating, trackVars, reserveVars
  <1>2. /\ phase' \in [Runtime -> Phase] /\ phase'[r] = "busy"
        /\ \A x \in Runtime : x # r => phase'[x] = phase[x]
    BY <1>1 DEF TypeOK, Phase
  <1>3. r \in Admitted' => Hot(r)'
    BY <1>1 DEF Hot, Running
  <1>4. r \notin pending /\ \A x \in pending : home[x] \notin files'
    BY <1>0, <1>1, PendingUse DEF PendingKnown
  <1> QED BY <1>1, <1>2, <1>3, <1>4, ProcessAlone DEF TypeOK, SameButProcess

LEMMA BereavedIs ==
  ASSUME PoolInv, NEW r \in Runtime, task' = Bereaved(r)
  PROVE  /\ task' \in [Task -> TaskState]
         /\ \A t \in Task :
               /\ Woken(t) /\ task'[t].runtime = task[t].runtime
               /\ task'[t].victim = task[t].victim
               /\ \/ task'[t].pc = task[t].pc
                     /\ ~(task[t].runtime = r /\ task[t].pc = "starting")
                  \/ /\ task[t].runtime = r /\ task[t].pc = "starting"
                     /\ task'[t].pc = "failed"
  <1>1. TypeOK /\ "failed" \in PC
    BY PoolParts DEF PC
  <1>2. ASSUME NEW t \in Task
        PROVE  /\ task'[t] \in TaskState
               /\ Woken(t) /\ task'[t].runtime = task[t].runtime
               /\ task'[t].victim = task[t].victim
               /\ \/ task'[t].pc = task[t].pc
                     /\ ~(task[t].runtime = r /\ task[t].pc = "starting")
                  \/ /\ task[t].runtime = r /\ task[t].pc = "starting"
                     /\ task'[t].pc = "failed"
    <2>1. CASE task[t].runtime = r /\ task[t].pc \in {"forking", "commit"}
      <3>1. task'[t] = [task[t] EXCEPT !.ok = FALSE]
        BY <2>1 DEF Bereaved
      <3> QED BY <1>1, <2>1, <3>1, OkIs DEF Woken
    <2>2. CASE task[t].runtime = r /\ task[t].pc = "starting"
      <3>1. task'[t] = [task[t] EXCEPT !.pc = "failed"]
        BY <2>2 DEF Bereaved
      <3> QED BY <1>1, <2>2, <3>1, PcIs DEF Woken
    <2>3. CASE ~(task[t].runtime = r /\ task[t].pc \in {"forking", "commit", "starting"})
      <3>1. task'[t] = task[t]
        BY <2>3 DEF Bereaved
      <3> QED BY <1>1, <2>3, <3>1, TaskTypes DEF Woken
    <2> QED BY <2>1, <2>2, <2>3
  <1>3. task' \in [Task -> TaskState]
    BY <1>2 DEF Bereaved
  <1> QED BY <1>2, <1>3

LEMMA HandleFailureKeeps ==
  ASSUME PoolInv, NEW r \in Runtime, HandleFailure(r)
  PROVE  PoolInv'
  <1>1. /\ TypeOK /\ PendingKnown /\ PhasesFit /\ HomesKnown
        /\ leader[r] = "finalizing" /\ ending[r] = "none"
        /\ leader' = [leader EXCEPT ![r] = "none"] /\ task' = Bereaved(r) /\ ArmTimer(r)
        /\ UNCHANGED <<unadmitted, home, intent, files, runtimes, pending, owned,
                       deleting, transition, creations, queue, closing>>
    BY PoolParts DEF HandleFailure, sessionVars, reserveVars
  <1>2. /\ leader' \in [Runtime -> Leader] /\ leader'[r] = "none"
        /\ \A x \in Runtime : x # r => leader'[x] = leader[x]
    BY <1>1 DEF TypeOK, Leader
  <1>3. /\ phase' \in [Runtime -> Phase] /\ ending' \in [Runtime -> Ending]
        /\ phase'[r] \in {"retained", "crashed"}
        /\ ending'[r] = "cleanup" => phase'[r] # "retained"
        /\ \A x \in Runtime : x # r => phase'[x] = phase[x] /\ ending'[x] = ending[x]
    BY <1>1 DEF HandleFailure, TypeOK, Phase, Ending
  <1>4. /\ task' \in [Task -> TaskState]
        /\ \A t \in Task :
              /\ Woken(t) /\ task'[t].runtime = task[t].runtime
              /\ task'[t].victim = task[t].victim
              /\ \/ task'[t].pc = task[t].pc
                    /\ ~(task[t].runtime = r /\ task[t].pc = "starting")
                 \/ /\ task[t].runtime = r /\ task[t].pc = "starting"
                    /\ task'[t].pc = "failed"
    BY <1>1, BereavedIs
  <1>5. r \notin Admitted' /\ Admitted' \subseteq Admitted
    BY <1>1, <1>2 DEF Admitted, Alive
  <1>6. \A t \in Task : AwaitedAt(t)'
    <2> SUFFICES ASSUME NEW t \in Task PROVE AwaitedAt(t)'
      OBVIOUS
    <2> QED BY <1>1, <1>3, <1>4, AwaitedRuntime DEF AwaitedAt
  <1>7. \A t \in Task : Creating(t) /\ task'[t].pc \in {"failed", "stopped", "untrack"} =>
            task[t].runtime \notin Admitted'
    BY <1>4, <1>5, PendingUse
  <1>8. \A t \in Task : \A x \in Admitted' : Stopping(t, x) => Stopping(t, x)'
    BY <1>4 DEF Stopping
  <1>9. \/ timers' = timers
        \/ home[r] \in files /\ timers' = [timers EXCEPT ![home[r]] = r]
    BY <1>1 DEF ArmTimer, Recoverable
  <1>10. r \in (Kept \ unadmitted)' => r \in Kept \ unadmitted
    BY <1>1, <1>2 DEF Kept, TrackedRuntimes, Tracked
  <1>11. \A x \in pending : /\ home[x] \notin files' /\ phase'[x] # "busy"
                            /\ \A h \in Handle : timers'[h] # x
    BY <1>1, <1>3, <1>9 DEF PendingKnown, TypeOK
  <1>12. /\ unadmitted' \subseteq Runtime /\ owned' \subseteq Runtime /\ intent' \subseteq Runtime
         /\ files' \subseteq Handle /\ timers' \in [Handle -> Runtime \union {None}]
    BY <1>1, <1>9 DEF TypeOK
  <1>13. \A h \in Handle : timers'[h] # None => home[timers'[h]] # None
    BY <1>1, <1>9, TaskAssumption DEF TypeOK, HomesKnown
  <1> QED
    BY <1>1, <1>2, <1>3, <1>4, <1>5, <1>6, <1>7, <1>8, <1>10, <1>11, <1>12, <1>13, ProcessStep

LEMMA ContentFailsKeeps ==
  ASSUME PoolInv, NEW r \in Runtime, ContentFails(r)
  PROVE  PoolInv'
  <1>1. /\ TypeOK /\ PendingKnown /\ PhasesFit /\ HomesKnown
        /\ leader[r] = "alive" /\ ending[r] = "none" /\ phase[r] # "starting"
        /\ phase' = [phase EXCEPT ![r] = "crashed"]
        /\ ending' = [ending EXCEPT ![r] = "cleanup"] /\ task' = Bereaved(r)
        /\ UNCHANGED <<leader, unadmitted, home, intent, files, runtimes, pending, owned, timers,
                       deleting, transition, creations, queue, closing>>
    BY PoolParts DEF ContentFails, sessionVars, trackVars, reserveVars
  <1>2. /\ phase' \in [Runtime -> Phase] /\ ending' \in [Runtime -> Ending]
        /\ phase'[r] = "crashed" /\ ending'[r] = "cleanup"
        /\ \A x \in Runtime : x # r => phase'[x] = phase[x] /\ ending'[x] = ending[x]
    BY <1>1 DEF TypeOK, Phase, Ending
  <1>3. /\ task' \in [Task -> TaskState]
        /\ \A t \in Task :
              /\ Woken(t) /\ task'[t].runtime = task[t].runtime
              /\ task'[t].victim = task[t].victim /\ task'[t].pc = task[t].pc
              /\ ~(task[t].runtime = r /\ task[t].pc = "starting")
    BY <1>1, BereavedIs, AwaitedRuntime DEF AwaitedAt
  <1>4. Admitted' = Admitted
    BY <1>1 DEF Admitted, Alive
  <1>5. \A t \in Task : AwaitedAt(t)'
    <2> SUFFICES ASSUME NEW t \in Task PROVE AwaitedAt(t)'
      OBVIOUS
    <2> QED BY <1>1, <1>2, <1>3, AwaitedRuntime DEF AwaitedAt
  <1>6. \A t \in Task : Creating(t) /\ task'[t].pc \in {"failed", "stopped", "untrack"} =>
            task[t].runtime \notin Admitted'
    BY <1>3, <1>4, PendingUse
  <1>7. \A t \in Task : \A x \in Admitted' : Stopping(t, x) => Stopping(t, x)'
    BY <1>3 DEF Stopping
  <1>8. r \in Admitted' => r \in Admitted /\ Hot(r)'
    BY <1>2, <1>4 DEF Hot, Running
  <1>9. r \in (Kept \ unadmitted)' => r \in Kept \ unadmitted
    BY <1>1, <1>2 DEF Kept, TrackedRuntimes, Tracked
  <1>10. \A x \in pending : /\ home[x] \notin files' /\ phase'[x] # "busy"
                            /\ \A h \in Handle : timers'[h] # x
    BY <1>1, <1>2 DEF PendingKnown, TypeOK
  <1>11. /\ leader' \in [Runtime -> Leader] /\ unadmitted' \subseteq Runtime
         /\ owned' \subseteq Runtime /\ intent' \subseteq Runtime
         /\ files' \subseteq Handle /\ timers' \in [Handle -> Runtime \union {None}]
         /\ leader'[r] # "none" => home[r] # None
         /\ \A h \in Handle : timers'[h] # None => home[timers'[h]] # None
    BY <1>1 DEF TypeOK, HomesKnown
  <1> QED
    BY <1>1, <1>2, <1>3, <1>4, <1>5, <1>6, <1>7, <1>8, <1>9, <1>10, <1>11, ProcessStep

LEMMA SettledIs ==
  ASSUME PoolInv, NEW r \in Runtime, task' = Settled(r)
  PROVE  /\ task' \in [Task -> TaskState]
         /\ \A t \in Task :
               /\ Woken(t) /\ task'[t].runtime = task[t].runtime
               /\ \/ /\ task'[t] = task[t]
                     /\ task[t].pc \in {"evicting", "reaping"} => task[t].victim # r
                     /\ task[t].pc \in {"stopping", "starting"} => task[t].runtime # r
                  \/ task'[t].pc \in {"sweepIdle", "room"} /\ task[t].pc = "evicting"
                  \/ task'[t].pc = "reaped" /\ task[t].pc = "reaping" /\ task[t].victim = r
                  \/ task'[t].pc = "stopped" /\ task[t].pc = "stopping" /\ task[t].runtime = r
                  \/ task'[t].pc = "failed" /\ task[t].pc = "starting" /\ task[t].runtime = r
  <1>1. TypeOK /\ {"failed", "stopped", "reaped", "sweepIdle", "room"} \subseteq PC
    BY PoolParts DEF PC, Body
  <1>2. ASSUME NEW t \in Task
        PROVE  /\ task'[t] \in TaskState
               /\ Woken(t) /\ task'[t].runtime = task[t].runtime
               /\ \/ /\ task'[t] = task[t]
                     /\ task[t].pc \in {"evicting", "reaping"} => task[t].victim # r
                     /\ task[t].pc \in {"stopping", "starting"} => task[t].runtime # r
                  \/ task'[t].pc \in {"sweepIdle", "room"} /\ task[t].pc = "evicting"
                  \/ task'[t].pc = "reaped" /\ task[t].pc = "reaping" /\ task[t].victim = r
                  \/ task'[t].pc = "stopped" /\ task[t].pc = "stopping" /\ task[t].runtime = r
                  \/ task'[t].pc = "failed" /\ task[t].pc = "starting" /\ task[t].runtime = r
    <2>1. CASE task[t].victim = r /\ task[t].pc = "evicting" /\ task[t].op = "reap"
      <3>1. task'[t] = [task[t] EXCEPT !.pc = "sweepIdle", !.victim = None]
        BY <2>1 DEF Settled
      <3>2. /\ task'[t] \in TaskState /\ task'[t].op = task[t].op
            /\ task'[t].body = task[t].body /\ task'[t].handle = task[t].handle
            /\ task'[t].runtime = task[t].runtime /\ task'[t].pc = "sweepIdle"
        <4>1. "sweepIdle" \in PC /\ task[t] \in TaskState
          BY <1>1, TaskTypes
        <4> QED BY <3>1, <4>1 DEF TaskState
      <3> QED BY <2>1, <3>2 DEF Woken
    <2>2. CASE task[t].victim = r /\ task[t].pc = "evicting" /\ task[t].op # "reap"
      <3>1. task'[t] = [task[t] EXCEPT !.pc = "room", !.victim = None]
        BY <2>2 DEF Settled
      <3>2. /\ task'[t] \in TaskState /\ task'[t].op = task[t].op
            /\ task'[t].body = task[t].body /\ task'[t].handle = task[t].handle
            /\ task'[t].runtime = task[t].runtime /\ task'[t].pc = "room"
        <4>1. "room" \in PC /\ task[t] \in TaskState
          BY <1>1, TaskTypes
        <4> QED BY <3>1, <4>1 DEF TaskState
      <3> QED BY <2>2, <3>2 DEF Woken
    <2>3. CASE task[t].victim = r /\ task[t].pc = "reaping"
      <3>1. task'[t] = [task[t] EXCEPT !.pc = "reaped"]
        BY <2>3 DEF Settled
      <3> QED BY <1>1, <2>3, <3>1, PcIs DEF Woken
    <2>4. CASE task[t].runtime = r /\ task[t].pc = "stopping"
      <3>1. task'[t] = [task[t] EXCEPT !.pc = "stopped"]
        BY <2>4 DEF Settled
      <3> QED BY <1>1, <2>4, <3>1, PcIs DEF Woken
    <2>5. CASE task[t].runtime = r /\ task[t].pc = "starting"
      <3>1. task'[t] = [task[t] EXCEPT !.pc = "failed"]
        BY <2>5 DEF Settled
      <3> QED BY <1>1, <2>5, <3>1, PcIs DEF Woken
    <2>6. CASE /\ ~(task[t].victim = r /\ task[t].pc \in {"evicting", "reaping"})
               /\ ~(task[t].runtime = r /\ task[t].pc \in {"stopping", "starting"})
      <3>1. task'[t] = task[t]
        BY <2>6 DEF Settled
      <3> QED BY <1>1, <2>6, <3>1, TaskTypes DEF Woken
    <2> QED BY <2>1, <2>2, <2>3, <2>4, <2>5, <2>6
  <1>3. task' \in [Task -> TaskState]
    BY <1>2 DEF Settled
  <1> QED BY <1>2, <1>3

LEMMA SettleKeeps ==
  ASSUME PoolInv, NEW r \in Runtime, Settle(r)
  PROVE  PoolInv'
  <1>1. /\ TypeOK /\ PendingKnown /\ PhasesFit /\ HomesKnown /\ ending[r] # "none"
        /\ leader' = [leader EXCEPT ![r] = "none"]
        /\ phase' = [phase EXCEPT ![r] = IF ending[r] = "stop" THEN "dormant" ELSE @]
        /\ ending' = [ending EXCEPT ![r] = "none"] /\ unadmitted' = unadmitted \ {r}
        /\ task' = Settled(r)
        /\ UNCHANGED <<home, intent, files, runtimes, pending, owned, timers,
                       deleting, transition, creations, queue, closing>>
    BY PoolParts DEF Settle, sessionVars, trackVars, reserveVars
  <1>2. /\ leader' \in [Runtime -> Leader] /\ leader'[r] = "none"
        /\ \A x \in Runtime : x # r => leader'[x] = leader[x]
    BY <1>1 DEF TypeOK, Leader
  <1>3. /\ phase' \in [Runtime -> Phase] /\ ending' \in [Runtime -> Ending]
        /\ phase'[r] \in {"dormant", phase[r]} /\ ending'[r] = "none"
        /\ ending[r] # "cleanup" => phase'[r] = "dormant"
        /\ \A x \in Runtime : x # r => phase'[x] = phase[x] /\ ending'[x] = ending[x]
    BY <1>1 DEF TypeOK, Phase, Ending
  <1>4. /\ task' \in [Task -> TaskState]
        /\ \A t \in Task :
              /\ Woken(t) /\ task'[t].runtime = task[t].runtime
              /\ \/ /\ task'[t] = task[t]
                    /\ task[t].pc \in {"evicting", "reaping"} => task[t].victim # r
                    /\ task[t].pc \in {"stopping", "starting"} => task[t].runtime # r
                 \/ task'[t].pc \in {"sweepIdle", "room"} /\ task[t].pc = "evicting"
                 \/ task'[t].pc = "reaped" /\ task[t].pc = "reaping" /\ task[t].victim = r
                 \/ task'[t].pc = "stopped" /\ task[t].pc = "stopping" /\ task[t].runtime = r
                 \/ task'[t].pc = "failed" /\ task[t].pc = "starting" /\ task[t].runtime = r
    BY <1>1, SettledIs
  <1>5. r \notin Admitted' /\ Admitted' \subseteq Admitted
    BY <1>1, <1>2 DEF Admitted, Alive
  <1>6. \A t \in Task : AwaitedAt(t)'
    <2> SUFFICES ASSUME NEW t \in Task PROVE AwaitedAt(t)'
      OBVIOUS
    <2> QED BY <1>1, <1>3, <1>4, AwaitedRuntime DEF AwaitedAt
  <1>7. \A t \in Task : Creating(t) /\ task'[t].pc \in {"failed", "stopped", "untrack"} =>
            task[t].runtime \notin Admitted'
    BY <1>4, <1>5, PendingUse
  <1>8. \A t \in Task : \A x \in Admitted' : Stopping(t, x) => Stopping(t, x)'
    BY <1>4, <1>5 DEF Stopping
  <1>9. r \notin (Kept \ unadmitted)'
    BY <1>1, <1>2, <1>3 DEF Kept, PhasesFit
  <1>10. \A x \in pending : /\ home[x] \notin files' /\ phase'[x] # "busy"
                            /\ \A h \in Handle : timers'[h] # x
    BY <1>1, <1>3 DEF PendingKnown, TypeOK
  <1>11. /\ unadmitted' \subseteq Runtime /\ owned' \subseteq Runtime /\ intent' \subseteq Runtime
         /\ files' \subseteq Handle /\ timers' \in [Handle -> Runtime \union {None}]
         /\ \A h \in Handle : timers'[h] # None => home[timers'[h]] # None
         /\ \A x \in Runtime : x # r => (x \in unadmitted' <=> x \in unadmitted)
    BY <1>1 DEF TypeOK, HomesKnown
  <1> QED
    BY <1>1, <1>2, <1>3, <1>4, <1>5, <1>6, <1>7, <1>8, <1>9, <1>10, <1>11, ProcessStep

LEMMA ReviveKeeps ==
  ASSUME PoolInv, NEW r \in Runtime, Revive(r)
  PROVE  PoolInv'
  <1>0. PICK p : p = IF Spawns(r) THEN "starting" ELSE JoinPc(r)
    OBVIOUS
  <1>1. /\ TypeOK /\ PendingKnown /\ PhasesFit /\ HomesKnown /\ None \notin Runtime
        /\ ending[r] = "none" /\ leader[r] \in {"none", "alive"} /\ home[r] # None
        /\ task' = [t \in Task |->
              IF task[t].runtime = r /\ task[t].pc = "chained"
              THEN [task[t] EXCEPT !.pc = p] ELSE task[t]]
        /\ UNCHANGED <<home, intent, files, runtimes, pending, timers,
                       deleting, transition, creations, queue, closing>>
    <2>1. /\ TypeOK /\ PendingKnown /\ PhasesFit /\ HomesKnown /\ None \notin Runtime
          /\ leader[r] \in Leader
      BY PoolParts, TaskAssumption DEF TypeOK
    <2>2. r \in Reviving
      BY DEF Revive
    <2>3. home[r] # None
      BY <2>1, <2>2 DEF Reviving, HomesKnown
    <2> QED BY <1>0, <2>1, <2>2, <2>3 DEF Revive, Reviving, sessionVars, reserveVars, Leader
  <1>2. p \in {"starting", "started", "failed"} /\ p \in PC
    BY <1>0, <1>1 DEF JoinPc, PC
  <1>3. ASSUME NEW t \in Task
        PROVE  /\ task'[t] \in TaskState /\ Woken(t) /\ task'[t].runtime = task[t].runtime
               /\ \/ /\ task'[t] = task[t]
                     /\ ~(task[t].runtime = r /\ task[t].pc = "chained")
                  \/ task[t].runtime = r /\ task[t].pc = "chained" /\ task'[t].pc = p
    <2>1. CASE task[t].runtime = r /\ task[t].pc = "chained"
      BY <1>1, <1>2, <2>1, PcIs DEF Woken
    <2>2. CASE ~(task[t].runtime = r /\ task[t].pc = "chained")
      BY <1>1, <2>2, TaskTypes DEF Woken
    <2> QED BY <2>1, <2>2
  <1>4. task' \in [Task -> TaskState]
    BY <1>1, <1>3
  <1>5. /\ phase' \in [Runtime -> Phase] /\ leader' \in [Runtime -> Leader]
        /\ ending' = ending /\ unadmitted' \subseteq Runtime /\ owned' \subseteq Runtime
        /\ \A x \in Runtime : x # r =>
              /\ phase'[x] = phase[x] /\ leader'[x] = leader[x]
              /\ x \in unadmitted' <=> x \in unadmitted
        /\ \/ /\ ~Spawns(r) /\ UNCHANGED <<phase, leader, unadmitted>>
           \/ /\ Spawns(r) /\ phase'[r] = "starting" /\ leader'[r] = "alive"
              /\ r \in unadmitted'
    BY <1>1 DEF Revive, Spawn, processVars, TypeOK, Phase, Leader
  <1>6. Admitted' \subseteq Admitted
    BY <1>5 DEF Admitted, Alive
  <1>7. p = "starting" => phase'[r] = "starting"
    BY <1>0, <1>1, <1>5 DEF JoinPc
  <1>8. \A x \in Runtime : phase[x] = "starting" => phase'[x] = "starting"
    BY <1>5
  <1>9. \A t \in Task : AwaitedAt(t)'
    <2> SUFFICES ASSUME NEW t \in Task PROVE AwaitedAt(t)'
      OBVIOUS
    <2>1. CASE task'[t] = task[t]
      BY <1>1, <1>5, <1>8, <2>1, AwaitedRuntime DEF AwaitedAt
    <2>2. CASE task[t].runtime = r /\ task[t].pc = "chained" /\ task'[t].pc = p
      BY <1>2, <1>3, <1>7, <2>2 DEF AwaitedAt
    <2> QED BY <1>3, <2>1, <2>2
  <1>10. \A t \in Task : Creating(t) /\ task'[t].pc \in {"failed", "stopped", "untrack"} =>
            task[t].runtime \notin Admitted'
    <2>1. \A t \in Task : Creating(t) => task[t].pc # "chained"
      BY DEF Creating
    <2> QED BY <1>3, <1>6, <2>1, PendingUse
  <1>11. \A t \in Task : \A x \in Admitted' : Stopping(t, x) => Stopping(t, x)'
    BY <1>3 DEF Stopping
  <1>12. r \in Admitted' => r \in Admitted /\ Hot(r)'
    <2>1. CASE Spawns(r)
      BY <1>5, <2>1 DEF Admitted
    <2>2. CASE ~Spawns(r)
      BY <1>1, <1>5, <1>6, <2>2, PoolParts DEF AdmittedTracked, Admitted, Hot, Running
    <2> QED BY <2>1, <2>2
  <1>13. r \in (Kept \ unadmitted)' => r \in Kept \ unadmitted
    BY <1>1, <1>5 DEF Kept, TrackedRuntimes, Tracked
  <1>14. \A x \in pending : /\ home[x] \notin files' /\ phase'[x] # "busy"
                            /\ \A h \in Handle : timers'[h] # x
    BY <1>1, <1>5 DEF PendingKnown, TypeOK
  <1>15. /\ ending' \in [Runtime -> Ending] /\ intent' \subseteq Runtime
         /\ files' \subseteq Handle /\ timers' \in [Handle -> Runtime \union {None}]
         /\ \A h \in Handle : timers'[h] # None => home[timers'[h]] # None
    BY <1>1, <1>5 DEF TypeOK, HomesKnown
  <1>16. /\ ending'[r] = "cleanup" => phase'[r] # "retained"
         /\ leader'[r] = "alive" /\ ending'[r] = "none" =>
               phase'[r] \in {"starting", "idle", "busy"}
    BY <1>1, <1>5 DEF PhasesFit
  <1>17. \A x \in Runtime : x # r =>
            /\ phase'[x] = phase[x] /\ leader'[x] = leader[x] /\ ending'[x] = ending[x]
            /\ x \in unadmitted' <=> x \in unadmitted
    BY <1>5
  <1>18. /\ phase' \in [Runtime -> Phase] /\ leader' \in [Runtime -> Leader]
         /\ unadmitted' \subseteq Runtime /\ owned' \subseteq Runtime
         /\ ending[r] # "none" => ending'[r] # "none"
         /\ leader'[r] # "none" => home[r] # None
    BY <1>1, <1>5
  <1>19. UNCHANGED <<queue, runtimes, pending, home, deleting, transition, creations, closing>>
    BY <1>1
  <1>20. \A t \in Task : Woken(t)
    BY <1>3
  <1> QED
    BY <1>4, <1>9, <1>10, <1>11, <1>12, <1>13, <1>14, <1>15, <1>16, <1>17, <1>18, <1>19, <1>20,
       ProcessStep

-----------------------------------------------------------------------------
(* The file of a deleted Session, leases, shutdown, and objects used again.  *)

LEMMA OperateKeeps ==
  ASSUME PoolInv, NEW t \in Task, Operate(t)
  PROVE  PoolInv'
  <1>0. /\ TypeOK /\ Shape /\ Locked /\ Roomy
        /\ HomesTracked /\ HomesKnown /\ AdmittedTracked /\ PhasesFit /\ PendingKnown
        /\ Excluded /\ DeletionsAlone /\ Closed /\ Awaited
        /\ AdmittedWithinCap
    BY PoolParts
  <1>1. PICK moved \in BOOLEAN :
           /\ files' = IF moved THEN files \ {task[t].handle} ELSE files
           /\ Set(t, [task[t] EXCEPT !.pc = "finish", !.body = "finish", !.ok = moved])
    BY DEF Operate
  <1>2. /\ task[t].pc = "operating" /\ task[t].op \in Management
        /\ Enqueue(t) /\ files' \subseteq files
        /\ UNCHANGED <<phase, leader, ending, unadmitted, home, intent, runtimes, pending, owned,
                       timers, deleting, transition, creations, closing>>
    BY <1>0, <1>1 DEF Operate, At, Shape, ShapeAt, processVars, trackVars, reserveVars
  <1>3. Becomes(t, task[t].op, "finish", "finish", task[t].handle, task[t].runtime, task[t].victim)
    BY <1>0, <1>1, FinishIs
  <1>4. /\ task'[t].op = task[t].op /\ task'[t].pc = "finish" /\ task'[t].body = "finish"
        /\ task'[t].handle = task[t].handle /\ task'[t].runtime = task[t].runtime /\ Alone(t)
        /\ \A u \in Task : u # t => task'[u] = task[u]
    BY <1>3 DEF Becomes, Alone
  <1>5. Paced(t)
    BY <1>2, <1>4 DEF Paced, Enqueue, Body
  <1>6. Locked' /\ queue' \in Seq(Task \union {Closer})
    BY <1>0, <1>4, <1>5, LockedKept
  <1>7. TypeOK'
    BY <1>0, <1>2, <1>4, <1>6 DEF TypeOK, Alone
  <1>8. ShapeAt(t)' /\ RoomyAt(t)' /\ AwaitedAt(t)'
    BY <1>0, <1>2, <1>4
       DEF Shape, ShapeAt, RoomyAt, AwaitedAt, HandleOps, Management, Body, CreationBody
  <1>9. Shape' /\ Awaited'
    <2>1. \A u \in Task : u # t => ShapeAt(u)' /\ AwaitedAt(u)'
      BY <1>0, <1>2, <1>4 DEF Shape, Awaited, ShapeAt, AwaitedAt
    <2> QED BY <1>8, <2>1 DEF Shape, Awaited
  <1>10. RoleKept(t) /\ Deleting(t) /\ Deleting(t)' /\ ~Creating(t)
    <2>1. /\ Deleting(t) /\ Deleting(t)' /\ ~Creating(t) /\ ~Creating(t)'
          /\ ~Launched(t) /\ ~Launched(t)' /\ ~Forks(t) /\ ~Forks(t)'
      BY <1>2, <1>4 DEF Deleting, Creating, Launched, Forks, Management
    <2> QED BY <1>2, <1>4, <2>1 DEF RoleKept, SameCreating, SameDeleting
  <1>11. \A u \in Task : RoleKept(u)
    BY <1>4, <1>10, RoleSame
  <1>12. Roomy'
    BY <1>0, <1>2, <1>4, <1>8, RoomyKept
  <1>13. Admitted' = Admitted /\ Kept' = Kept
    BY <1>2 DEF Admitted, Alive, Kept, TrackedRuntimes, Tracked
  <1>14. HomesTracked' /\ AdmittedTracked' /\ PhasesFit'
    BY <1>0, <1>2 DEF HomesTracked, AdmittedTracked, PhasesFit, Tracked, Hot, Running, Alive
  <1>15. HomesKnown'
    BY <1>0, <1>2, <1>7, <1>11, HomesKnownKept DEF RoleKept, SameCreating
  <1>16. PendingKnown'
    <2>1. \A x \in pending :
            /\ home'[x] = home[x] /\ home[x] \notin files' /\ phase'[x] # "busy"
            /\ \A r2 \in Runtime \ {x} : home'[r2] # home[x]
            /\ \A h \in Handle : timers'[h] # x
      BY <1>0, <1>2 DEF PendingKnown
    <2>2. \A u \in Task : Creating(u) /\ task'[u].pc \in {"failed", "stopped", "untrack"} =>
            task[u].runtime \notin Admitted'
      BY <1>4, <1>10, <1>13, PendingUse
    <2> QED BY <1>0, <1>2, <1>11, <2>1, <2>2, PendingKept DEF RoleKept
  <1>17. Excluded'
    BY <1>0, <1>2, <1>11, ExcludedKept DEF RoleKept
  <1>18. DeletionsAlone'
    <2>1. \A u \in Task : \A x : Deleting(u) /\ Stopping(u, x) => Stopping(u, x)'
      BY <1>2, <1>4, RoleSame DEF Stopping
    <2> QED BY <1>0, <1>2, <1>11, <1>13, <2>1, DeletionsKept DEF RoleKept
  <1>19. Closed'
    <2>1. \A x \in Runtime : Tracked(x)' => Tracked(x)
      BY <1>2 DEF Tracked
    <2> QED BY <1>0, <1>2, <1>11, <1>13, <2>1, ClosedKept DEF RoleKept
  <1>20. AdmittedWithinCap'
    BY <1>0, <1>2, <1>7, <1>13, CapKept
  <1> QED
    BY <1>6, <1>7, <1>9, <1>12, <1>14, <1>15, <1>16, <1>17, <1>18, <1>19, <1>20, PoolPartsNext

\* stopAll joins the queue, or gives the lock up; the operations stay there.
CloserMoves ==
    \/ queue' = queue \/ queue' = Append(queue, Closer)
    \/ Holds(Closer) /\ queue' = Tail(queue)

LEMMA CloserLocked ==
  ASSUME TypeOK, Locked, task' = task, CloserMoves
  PROVE  Locked' /\ queue' \in Seq(Task \union {Closer})
  <1> DEFINE S == Task \union {Closer}
  <1>1. queue \in Seq(S) /\ Closer \in S /\ Closer \notin Task
    BY TaskAssumption DEF TypeOK
  <1> HIDE DEF S
  <1>2. CASE queue' = queue
    BY <1>1, <1>2 DEF Locked, InQueue, Holds, S
  <1>3. CASE queue' = Append(queue, Closer)
    <2>1. /\ Append(queue, Closer) \in Seq(S)
          /\ queue # <<>> => Append(queue, Closer) # <<>>
                             /\ Head(Append(queue, Closer)) = Head(queue)
          /\ \A y : (\E i \in DOMAIN queue : queue[i] = y)
                    => \E i \in DOMAIN Append(queue, Closer) : Append(queue, Closer)[i] = y
      BY <1>1, QueueMoves
    <2>2. \A u \in Task : (InQueue(u) => InQueue(u)') /\ (Holds(u) => Holds(u)')
      BY <1>3, <2>1 DEF InQueue, Holds
    <2> QED BY <1>3, <2>1, <2>2 DEF Locked, S
  <1>4. CASE Holds(Closer) /\ queue' = Tail(queue)
    <2>1. /\ queue # <<>> /\ Head(queue) = Closer /\ Tail(queue) \in Seq(S)
          /\ \A y : (y # Head(queue) /\ \E i \in DOMAIN queue : queue[i] = y)
                    => \E i \in DOMAIN Tail(queue) : Tail(queue)[i] = y
      BY <1>1, <1>4, QueueMoves DEF Holds
    <2>2. \A u \in Task : (InQueue(u) => InQueue(u)') /\ ~Holds(u)
      BY <1>1, <1>4, <2>1 DEF InQueue, Holds
    <2> QED BY <1>4, <2>1, <2>2 DEF Locked, S
  <1> QED BY <1>2, <1>3, <1>4 DEF CloserMoves

\* Somebody takes or gives up control, or stopAll waits: no process, no Session
\* and no operation changes.
LEMMA SupervisorStep ==
  ASSUME PoolInv, CloserMoves, owned' \subseteq Runtime,
         UNCHANGED <<phase, leader, ending, unadmitted, home, intent, files, runtimes, pending,
                     deleting, transition, creations, task>>,
         timers' \in [Handle -> Runtime \union {None}],
         \A h \in Handle : timers'[h] \in {timers[h], None},
         closing' \in Closing, closing = "closed" <=> closing' = "closed", Closed'
  PROVE  PoolInv'
  <1>0. /\ TypeOK /\ Shape /\ Locked /\ Roomy
        /\ HomesTracked /\ HomesKnown /\ AdmittedTracked /\ PhasesFit /\ PendingKnown
        /\ Excluded /\ DeletionsAlone /\ Awaited
        /\ AdmittedWithinCap
    BY PoolParts
  <1>1. Locked' /\ queue' \in Seq(Task \union {Closer})
    BY <1>0, CloserLocked
  <1>2. TypeOK'
    BY <1>0, <1>1 DEF TypeOK
  <1>3. \A u \in Task : RoleKept(u) /\ \A r : Stopping(u, r)' <=> Stopping(u, r)
    BY RoleSame
  <1>4. Shape' /\ Awaited'
    BY <1>0 DEF Shape, Awaited, ShapeAt, AwaitedAt
  <1>5. Roomy'
    BY <1>0, RoomyKept
  <1>6. Admitted' = Admitted /\ Kept' = Kept
    BY DEF Admitted, Alive, Kept, TrackedRuntimes, Tracked
  <1>7. HomesTracked' /\ AdmittedTracked' /\ PhasesFit'
    BY <1>0 DEF HomesTracked, AdmittedTracked, PhasesFit, Tracked, Hot, Running, Alive
  <1>8. HomesKnown'
    BY <1>0, <1>2, HomesKnownKept
  <1>9. PendingKnown'
    <2>1. \A x \in pending :
            /\ home'[x] = home[x] /\ home[x] \notin files' /\ phase'[x] # "busy"
            /\ \A r2 \in Runtime \ {x} : home'[r2] # home[x]
            /\ \A h \in Handle : timers'[h] # x
      BY <1>0, TaskAssumption DEF PendingKnown, TypeOK
    <2>2. \A u \in Task : Creating(u) /\ task'[u].pc \in {"failed", "stopped", "untrack"} =>
            task[u].runtime \notin Admitted'
      BY <1>6, PendingUse
    <2> QED BY <1>0, <1>3, <2>1, <2>2, PendingKept DEF RoleKept
  <1>10. Excluded'
    BY <1>0, <1>3, ExcludedKept DEF RoleKept
  <1>11. DeletionsAlone'
    BY <1>0, <1>3, <1>6, DeletionsKept DEF RoleKept
  <1>12. AdmittedWithinCap'
    BY <1>0, <1>2, <1>6, CapKept
  <1> QED
    BY <1>1, <1>2, <1>4, <1>5, <1>7, <1>8, <1>9, <1>10, <1>11, <1>12, PoolPartsNext

LEMMA LeasesKeep ==
  ASSUME PoolInv,
         \/ \E h \in Handle : Claim(h)
         \/ \E r \in Runtime : GiveUp(r)
         \/ Terminated
         \/ UNCHANGED vars
  PROVE  PoolInv'
  <1>1. TypeOK /\ Closed
    BY PoolParts
  <1>2. /\ UNCHANGED <<phase, leader, ending, unadmitted, home, intent, files, runtimes, pending,
                       timers, deleting, transition, creations, task, queue, closing>>
        /\ owned' \subseteq Runtime
    BY <1>1 DEF Claim, GiveUp, Terminated, vars, processVars, sessionVars, trackVars, reserveVars,
                TypeOK
  <1>3. Closed'
    BY <1>1, <1>2 DEF Closed, TrackedRuntimes, Tracked, PendingIdentity, Alive
  <1> QED BY <1>1, <1>2, <1>3, SupervisorStep DEF CloserMoves, TypeOK

LEMMA StopAllKeeps ==
  ASSUME PoolInv, StopAll
  PROVE  PoolInv'
  <1>1. TypeOK
    BY PoolParts
  <1>2. /\ UNCHANGED <<phase, leader, ending, unadmitted, home, intent, files, runtimes, pending,
                       owned, deleting, transition, creations, task, queue>>
        /\ closing = "open" /\ closing' = "draining" /\ timers' = [h \in Handle |-> None]
    BY DEF StopAll, Open, closeVars, processVars, sessionVars, reserveVars
  <1>3. Closed'
    BY <1>2 DEF Closed
  <1> QED BY <1>1, <1>2, <1>3, SupervisorStep DEF CloserMoves, Closing, TypeOK

LEMMA DrainedKeeps ==
  ASSUME PoolInv, Drained
  PROVE  PoolInv'
  <1>1. TypeOK
    BY PoolParts
  <1>2. /\ UNCHANGED <<phase, leader, ending, unadmitted, home, intent, files, runtimes, pending,
                       owned, timers, deleting, transition, creations, task>>
        /\ closing = "draining" /\ closing' = "barrier" /\ queue' = Append(queue, Closer)
        /\ \A t \in Task : task[t].op \notin Management
    BY DEF Drained, Enqueue, closeVars, processVars, sessionVars, reserveVars
  <1>3. Closed'
    BY <1>2 DEF Closed
  <1> QED BY <1>1, <1>2, <1>3, SupervisorStep DEF CloserMoves, Closing, TypeOK

LEMMA RuntimesStoppedKeeps ==
  ASSUME PoolInv, RuntimesStopped
  PROVE  PoolInv'
  <1>1. TypeOK /\ Closed /\ AdmittedTracked
    BY PoolParts
  <1>2. /\ UNCHANGED <<phase, leader, ending, unadmitted, home, intent, files, runtimes, pending,
                       owned, timers, deleting, transition, creations, task>>
        /\ closing = "stopping" /\ closing' = "clearing" /\ queue' = Append(queue, Closer)
        /\ \A r \in TrackedRuntimes : ending[r] = "none"
    BY DEF RuntimesStopped, Enqueue, closeVars, processVars, sessionVars, reserveVars
  <1>3. Alive \subseteq unadmitted
    BY <1>1, <1>2 DEF Closed, AdmittedTracked, TrackedRuntimes, Alive
  <1>4. Closed'
    BY <1>1, <1>2, <1>3 DEF Closed, Alive
  <1> QED BY <1>1, <1>2, <1>4, SupervisorStep DEF CloserMoves, Closing, TypeOK

LEMMA StopRuntimesKeeps ==
  ASSUME PoolInv, StopRuntimes
  PROVE  PoolInv'
  <1>0. /\ TypeOK /\ Shape /\ Locked /\ Roomy
        /\ HomesTracked /\ HomesKnown /\ AdmittedTracked /\ PhasesFit /\ PendingKnown
        /\ Excluded /\ DeletionsAlone /\ Closed /\ Awaited
        /\ AdmittedWithinCap
    BY PoolParts
  <1>1. /\ UNCHANGED <<phase, leader, unadmitted, home, intent, files, runtimes, pending, owned,
                       timers, deleting, transition, creations, task>>
        /\ closing = "barrier" /\ closing' = "stopping" /\ Holds(Closer) /\ queue' = Tail(queue)
    BY DEF StopRuntimes, Unlock, sessionVars, trackVars, reserveVars
  <1>2. /\ ending' \in [Runtime -> Ending]
        /\ \A r \in Runtime : /\ Tracked(r) => ending'[r] # "none"
                              /\ ending[r] # "none" => ending'[r] = ending[r]
                              /\ ending'[r] = "none" => ending[r] = "none"
                              /\ ending'[r] = "cleanup" => ending[r] = "cleanup"
    BY <1>0 DEF StopRuntimes, TypeOK, Ending
  <1>3. Locked' /\ queue' \in Seq(Task \union {Closer})
    BY <1>0, <1>1, CloserLocked DEF CloserMoves
  <1>4. TypeOK'
    BY <1>0, <1>1, <1>2, <1>3 DEF TypeOK, Closing
  <1>5. \A u \in Task : RoleKept(u) /\ \A r : Stopping(u, r)' <=> Stopping(u, r)
    BY <1>1, RoleSame
  <1>6. Shape'
    BY <1>0, <1>1 DEF Shape, ShapeAt
  <1>7. Awaited'
    <2> SUFFICES ASSUME NEW u \in Task PROVE AwaitedAt(u)'
      BY DEF Awaited
    <2> QED BY <1>1, <1>2, AwaitedRuntime DEF AwaitedAt
  <1>8. Roomy'
    BY <1>0, <1>1, RoomyKept
  <1>9. Admitted' = Admitted /\ Kept' = Kept /\ \A r : Tracked(r)' <=> Tracked(r)
    BY <1>1 DEF Admitted, Alive, Kept, TrackedRuntimes, Tracked
  <1>10. HomesTracked' /\ PhasesFit'
    BY <1>0, <1>1, <1>2 DEF HomesTracked, PhasesFit
  <1>11. AdmittedTracked'
    BY <1>0, <1>1, <1>2, <1>9 DEF AdmittedTracked, Admitted, Hot, Running, Alive
  <1>12. HomesKnown'
    BY <1>0, <1>1, <1>4, HomesKnownKept
  <1>13. PendingKnown'
    <2>1. \A x \in pending :
            /\ home'[x] = home[x] /\ home[x] \notin files' /\ phase'[x] # "busy"
            /\ \A r2 \in Runtime \ {x} : home'[r2] # home[x]
            /\ \A h \in Handle : timers'[h] # x
      BY <1>0, <1>1 DEF PendingKnown
    <2>2. \A u \in Task : Creating(u) /\ task'[u].pc \in {"failed", "stopped", "untrack"} =>
            task[u].runtime \notin Admitted'
      BY <1>1, <1>9, PendingUse
    <2> QED BY <1>0, <1>1, <1>5, <2>1, <2>2, PendingKept DEF RoleKept
  <1>14. Excluded'
    BY <1>0, <1>1, <1>5, ExcludedKept DEF RoleKept
  <1>15. DeletionsAlone'
    <2>1. \A x \in Admitted' : x \in Admitted /\ ending[x] # "none" => ending'[x] # "none"
      BY <1>2, <1>9 DEF Admitted, Alive
    <2> QED BY <1>0, <1>1, <1>5, <1>9, <2>1, DeletionsKept DEF RoleKept
  <1>16. Closed'
    <2>1. \A x \in Admitted' : ending'[x] # "none"
      BY <1>0, <1>2, <1>9 DEF AdmittedTracked, Admitted, Alive
    <2>2. \A t \in Task : task'[t].op \notin Management
      BY <1>0, <1>1 DEF Closed
    <2> QED BY <1>1, <2>1, <2>2 DEF Closed, Admitted
  <1>17. AdmittedWithinCap'
    BY <1>0, <1>4, <1>9, <1>1, CapKept
  <1> QED
    BY <1>3, <1>4, <1>6, <1>7, <1>8, <1>10, <1>11, <1>12, <1>13, <1>14, <1>15, <1>16, <1>17,
       PoolPartsNext

LEMMA ClearKeeps ==
  ASSUME PoolInv, Clear
  PROVE  PoolInv'
  <1>0. /\ TypeOK /\ Shape /\ Locked
        /\ HomesKnown /\ PhasesFit /\ Closed /\ Awaited
        /\ AdmittedWithinCap
    BY PoolParts
  <1>1. /\ UNCHANGED <<phase, leader, ending, unadmitted, home, intent, files, timers, task>>
        /\ closing = "clearing" /\ closing' = "closed" /\ Holds(Closer) /\ queue' = Tail(queue)
        /\ runtimes' = [h \in Handle |-> None] /\ pending' = {} /\ owned' = {}
        /\ deleting' = {} /\ transition' = None /\ creations' = {}
    BY DEF Clear, Unlock, processVars, sessionVars
  <1>2. Locked' /\ queue' \in Seq(Task \union {Closer})
    BY <1>0, <1>1, CloserLocked DEF CloserMoves
  <1>3. TypeOK'
    BY <1>0, <1>1, <1>2 DEF TypeOK, Closing
  <1>4. Shape' /\ Awaited'
    BY <1>0, <1>1 DEF Shape, Awaited, ShapeAt, AwaitedAt
  <1>5. \A u \in Task : /\ task[u].pc \notin LockPC /\ task[u].op \notin Management
                        /\ ~Deleting(u)
    <2>1. \A u \in Task : ~Holds(u)
      BY <1>1, TaskAssumption DEF Holds
    <2> QED BY <1>0, <1>1, <2>1 DEF Locked, Closed, Deleting, LockPC
  <1>6. Roomy'
    BY <1>1, <1>5 DEF Roomy, RoomyAt, LockPC
  <1>7. Admitted' = {} /\ Admitted = {} /\ TrackedRuntimes' = {}
    BY <1>0, <1>1, TaskAssumption DEF Closed, Admitted, Alive, TrackedRuntimes, Tracked
  <1>8. HomesTracked' /\ PhasesFit' /\ HomesKnown'
    BY <1>0, <1>1 DEF HomesTracked, PhasesFit, HomesKnown
  <1>9. AdmittedTracked'
    BY <1>7 DEF AdmittedTracked, Admitted
  <1>10. PendingKnown'
    BY <1>1, <1>7 DEF PendingKnown, Admitted
  <1>11. Excluded'
    BY <1>1, TaskAssumption DEF Excluded, PendingIdentity
  <1>12. DeletionsAlone'
    BY <1>1, <1>5 DEF DeletionsAlone, Deleting
  <1>13. Closed'
    BY <1>1, <1>5, <1>7 DEF Closed, PendingIdentity
  <1>14. AdmittedWithinCap'
    BY <1>0, <1>3, <1>7, CapKept DEF Kept
  <1> QED
    BY <1>2, <1>3, <1>4, <1>6, <1>8, <1>9, <1>10, <1>11, <1>12, <1>13, <1>14, PoolPartsNext

LEMMA CollectKeeps ==
  ASSUME PoolInv, Collect
  PROVE  PoolInv'
  <1>0. /\ TypeOK /\ Shape /\ Locked /\ Roomy
        /\ HomesTracked /\ HomesKnown /\ AdmittedTracked /\ PhasesFit /\ PendingKnown
        /\ Excluded /\ DeletionsAlone /\ Closed /\ Awaited
        /\ AdmittedWithinCap
    BY PoolParts
  <1>1. /\ UNCHANGED <<leader, ending, files, runtimes, pending, timers, deleting, transition,
                       creations, task, queue, closing>>
        /\ owned' \subseteq Runtime /\ intent' \subseteq Runtime /\ unadmitted' \subseteq Runtime
    BY <1>0 DEF Collect, reserveVars, TypeOK
  <1>2. \A r \in Garbage :
           /\ r \in Runtime /\ ~Tracked(r) /\ leader[r] = "none" /\ ending[r] = "none"
           /\ \A h \in Handle : timers[h] # r
           /\ \A t \in Task : task[t].runtime # r /\ task[t].victim # r
    BY DEF Garbage, Unused
  <1>3. /\ phase' \in [Runtime -> Phase] /\ home' \in [Runtime -> Handle \union {None}]
        /\ \A r \in Runtime : r \notin Garbage =>
              /\ phase'[r] = phase[r] /\ home'[r] = home[r]
              /\ r \in unadmitted' <=> r \in unadmitted
        /\ \A r \in Garbage : phase'[r] = "dormant" /\ home'[r] = None
    BY <1>0, <1>2 DEF Collect, TypeOK, Phase
  <1>4. TypeOK'
    BY <1>0, <1>1, <1>3 DEF TypeOK
  <1>5. \A u \in Task : RoleKept(u) /\ \A r : Stopping(u, r)' <=> Stopping(u, r)
    BY <1>1, RoleSame
  <1>6. Shape' /\ Locked'
    BY <1>0, <1>1 DEF Shape, ShapeAt, Locked, InQueue, Holds
  <1>7. Awaited'
    <2> SUFFICES ASSUME NEW u \in Task PROVE AwaitedAt(u)'
      BY DEF Awaited
    <2> QED BY <1>1, <1>2, <1>3, AwaitedRuntime DEF AwaitedAt
  <1>8. Roomy'
    BY <1>0, <1>1, <1>2, <1>3, RoomyKept
  <1>9. Admitted' = Admitted
    BY <1>1, <1>2, <1>3 DEF Admitted, Alive
  <1>10. (Kept \ unadmitted)' \subseteq Kept \ unadmitted
    BY <1>1, <1>2, <1>3 DEF Kept, TrackedRuntimes, Tracked
  <1>11. \A h \in Handle : runtimes[h] # None => runtimes[h] \in Runtime \ Garbage
    BY <1>0, <1>2 DEF Tracked, TypeOK
  <1>12. \A r \in pending : r \in Runtime \ Garbage
    BY <1>0, <1>2 DEF Tracked, TypeOK
  <1>13. HomesTracked'
    BY <1>0, <1>1, <1>3, <1>11, <1>12 DEF HomesTracked
  <1>14. HomesKnown'
    <2>1. \A u \in Task : task[u].runtime # None => task[u].runtime \in Runtime \ Garbage
      BY <1>0, <1>2, TaskTypes DEF TaskState
    <2>2. \A h \in Handle : timers[h] # None => timers[h] \in Runtime \ Garbage
      BY <1>0, <1>2 DEF TypeOK
    <2>3. \A r \in Runtime : leader[r] # "none" => r \notin Garbage
      BY <1>2
    <2> QED BY <1>0, <1>1, <1>3, <2>1, <2>2, <2>3 DEF HomesKnown
  <1>15. AdmittedTracked'
    <2>1. \A r \in Admitted : r \in Runtime \ Garbage
      BY <1>2 DEF Admitted, Alive
    <2> QED BY <1>0, <1>1, <1>3, <1>9, <2>1 DEF AdmittedTracked, Admitted, Tracked, Hot, Running
  <1>16. PhasesFit'
    BY <1>0, <1>1, <1>2, <1>3 DEF PhasesFit
  <1>17. PendingKnown'
    <2>1. \A x \in pending :
            /\ home'[x] = home[x] /\ home[x] \notin files' /\ phase'[x] # "busy"
            /\ \A r2 \in Runtime \ {x} : home'[r2] # home[x]
            /\ \A h \in Handle : timers'[h] # x
      BY <1>0, <1>1, <1>3, <1>12 DEF PendingKnown, HomesTracked
    <2>2. \A u \in Task : Creating(u) /\ task'[u].pc \in {"failed", "stopped", "untrack"} =>
            task[u].runtime \notin Admitted'
      BY <1>1, <1>9, PendingUse
    <2> QED BY <1>0, <1>1, <1>5, <2>1, <2>2, PendingKept DEF RoleKept
  <1>18. Excluded'
    BY <1>0, <1>1, <1>5, ExcludedKept DEF RoleKept
  <1>19. DeletionsAlone'
    <2>1. \A r \in Admitted : r \in Runtime \ Garbage
      BY <1>2 DEF Admitted, Alive
    <2> QED BY <1>0, <1>1, <1>3, <1>5, <1>9, <2>1, DeletionsKept DEF RoleKept
  <1>20. Closed'
    <2>1. \A x \in Runtime : Tracked(x)' => Tracked(x)
      BY <1>1 DEF Tracked
    <2> QED BY <1>0, <1>1, <1>5, <1>9, <2>1, ClosedKept DEF RoleKept
  <1>21. AdmittedWithinCap'
    BY <1>0, <1>4, <1>9, <1>10, CapKept
  <1> QED
    BY <1>4, <1>6, <1>7, <1>8, <1>13, <1>14, <1>15, <1>16, <1>17, <1>18, <1>19, <1>20, <1>21,
       PoolPartsNext

-----------------------------------------------------------------------------
(* The invariant, and what follows from it. *)

LEMMA InitHolds ==
  ASSUME Init
  PROVE  PoolInv
  <1>1. TypeOK
    <2>1. Idle \in TaskState
      BY DEF Idle, TaskState, Op, PC
    <2>2. <<>> \in Seq(Task \union {Closer})
      OBVIOUS
    <2>3. /\ runtimes \in [Handle -> Runtime \union {None}]
          /\ timers \in [Handle -> Runtime \union {None}]
          /\ home \in [Runtime -> Handle \union {None}]
          /\ phase \in [Runtime -> Phase] /\ leader \in [Runtime -> Leader]
          /\ ending \in [Runtime -> Ending] /\ closing \in Closing
      BY DEF Init, Phase, Leader, Ending, Closing
    <2>4. task \in [Task -> TaskState]
      BY <2>1 DEF Init
    <2> QED BY <2>2, <2>3, <2>4, PersistedAssumption DEF Init, TypeOK
  <1>2. \A t \in Task : /\ task[t].op = "none" /\ task[t].pc = "idle" /\ task[t].body = "none"
                        /\ task[t].runtime = None
    BY DEF Init, Idle
  <1>3. /\ Shape /\ Locked /\ Roomy /\ Awaited
    BY <1>2 DEF Shape, ShapeAt, Locked, LockPC, Roomy, RoomyAt, Awaited, AwaitedAt, Body,
                CreationBody, HandleOps, Management
  <1>4. /\ Alive = {} /\ TrackedRuntimes = {} /\ ~PendingIdentity
        /\ \A t \in Task : ~Creating(t) /\ ~Deleting(t) /\ ~Forks(t)
    BY <1>2, TaskAssumption
       DEF Init, Alive, TrackedRuntimes, Tracked, PendingIdentity, Creating, Deleting, Forks,
           Management
  <1>5. HomesTracked /\ HomesKnown /\ AdmittedTracked /\ PhasesFit
    BY <1>2, <1>4 DEF Init, HomesTracked, HomesKnown, AdmittedTracked, PhasesFit
  <1>6. PendingKnown /\ Excluded /\ DeletionsAlone /\ Closed
    BY <1>2, <1>4, TaskAssumption DEF Init, PendingKnown, Excluded, DeletionsAlone, Closed
  <1>7. AdmittedWithinCap
    <2>1. Alive \ unadmitted = {} /\ Kept \ unadmitted = {}
      BY <1>4 DEF Kept
    <2>2. Cardinality({}) = 0
      BY FS_EmptySet
    <2> QED BY <2>1, <2>2, MaxHotAssumption, MaxRetainedAssumption DEF AdmittedWithinCap
  <1> QED BY <1>1, <1>3, <1>5, <1>6, <1>7 DEF PoolInv

LEMMA ReactKeeps ==
  ASSUME PoolInv, NEW t \in Task, React(t)
  PROVE  PoolInv'
  <1>1. CASE RoomDenied(t) \/ Evict(t) \/ LaunchTracked(t) \/ LaunchNew(t) \/ LaunchCreation(t)
    BY <1>1, RoomDeniedKeeps, EvictKeeps, LaunchTrackedKeeps, LaunchNewKeeps, LaunchCreationKeeps
  <1>2. CASE Track(t) \/ Start(t) \/ Acquire(t) \/ RestartAdmit(t) \/ Resume(t)
    BY <1>2, TrackKeeps, StartKeeps, AcquireKeeps, RestartAdmitKeeps, ResumeKeeps
  <1>3. CASE ReserveCreation(t) \/ LaunchAdmit(t) \/ CommitCreation(t) \/ Untrack(t)
             \/ EndCreation(t)
    BY <1>3, ReserveCreationKeeps, LaunchAdmitKeeps, CommitCreationKeeps, UntrackKeeps,
       EndCreationKeeps
  <1>4. CASE ReserveTransition(t) \/ CommitTransition(t) \/ EndTransition(t)
    BY <1>4, ReserveTransitionKeeps, CommitTransitionKeeps, EndTransitionKeeps
  <1>5. CASE Reserve(t) \/ Stopped(t) \/ ForgetTransient(t) \/ FinishDeletion(t)
    BY <1>5, ReserveKeeps, StoppedKeeps, ForgetTransientKeeps, FinishDeletionKeeps
  <1>6. CASE ReapTransient(t) \/ Reaped(t) \/ ReapEvictable(t) \/ ReapEnds(t)
    BY <1>6, ReapTransientKeeps, ReapedKeeps, EvictKeeps, ReapEndsKeeps
  <1> QED BY <1>1, <1>2, <1>3, <1>4, <1>5, <1>6 DEF React

LEMMA RequestOrAnswerKeeps ==
  ASSUME PoolInv, NEW t \in Task, Answer(t) \/ Request(t)
  PROVE  PoolInv'
  <1>1. CASE Answer(t)
    BY <1>1, ResolveKeeps, ConverseKeeps, CompleteKeeps, ForkAnsweredKeeps, ForkFailsKeeps,
       OperateKeeps DEF Answer
  <1>2. CASE Request(t)
    <2>1. CASE \E h \in Handle, op \in {"view", "command", "fork"} \intersect Requests :
                  EnsureRuntime(t, op, h)
      BY <2>1, EnsureRuntimeKeeps
    <2>2. CASE \E h \in Handle : Restart(t, h) \/ TimerFires(t, h)
      BY <2>2, RestartKeeps, TimerFiresKeeps
    <2>3. CASE Create(t) \/ Reap(t) \/ \E h \in Handle, op \in Management : Manage(t, op, h)
      BY <2>3, RequestsKeep
    <2> QED BY <1>2, <2>1, <2>2, <2>3 DEF Request
  <1> QED BY <1>1, <1>2

LEMMA ProcessEventKeeps ==
  ASSUME PoolInv, NEW r \in Runtime, ProcessEvent(r)
  PROVE  PoolInv'
  BY ReadyKeeps, TurnEndsKeeps, LeaderExitsKeeps, FinalizesKeeps, HandleFailureKeeps,
     ContentFailsKeeps, SettleKeeps DEF ProcessEvent

LEMMA NextKeeps ==
  ASSUME PoolInv, [Next]_vars
  PROVE  PoolInv'
  <1>1. CASE Collect
    BY <1>1, CollectKeeps
  <1>2. CASE Reaction
    <2>1. CASE \E t \in Task : React(t)
      BY <2>1, ReactKeeps
    <2>2. CASE \E r \in Runtime : Revive(r)
      BY <2>2, ReviveKeeps
    <2> QED BY <1>2, <2>1, <2>2, StopRuntimesKeeps, ClearKeeps DEF Reaction
  <1>3. CASE Event
    <2>1. CASE \E t \in Task : Answer(t) \/ Request(t)
      BY <2>1, RequestOrAnswerKeeps
    <2>2. CASE \E r \in Runtime : ProcessEvent(r)
      BY <2>2, ProcessEventKeeps
    <2>3. CASE (\E r \in Runtime : GiveUp(r)) \/ (\E h \in Handle : Claim(h)) \/ Terminated
      BY <2>3, LeasesKeep
    <2> QED
      BY <1>3, <2>1, <2>2, <2>3, StopAllKeeps, DrainedKeeps, RuntimesStoppedKeeps DEF Event
  <1>4. CASE UNCHANGED vars
    BY <1>4, LeasesKeep
  <1> QED BY <1>1, <1>2, <1>3, <1>4 DEF Next

\* What an operation waits for, what it holds and what it reserved fit together
\* after every step of the pool, of its processes and of shutdown.
THEOREM PoolInvariant == Spec => []PoolInv
  <1>1. Init => PoolInv
    BY InitHolds
  <1>2. PoolInv /\ [Next]_vars => PoolInv'
    BY NextKeeps
  <1> QED BY <1>1, <1>2, PTL DEF Spec

\* Whatever the operations of the supervisor and its processes do, in whatever
\* order, its state is one that the code can hold.
THEOREM TypesHold == Spec => []TypeOK
  <1>1. PoolInv => TypeOK
    BY DEF PoolInv
  <1> QED BY <1>1, PoolInvariant, PTL

\* ensureCapacity counts and starts under one hold of the pool lock, and what
\* starts without it (restarts chained behind a cleanup, forgotten activations) is
\* nobody's admission: the admitted processes and the kept projections stay
\* within their caps for every number of Sessions and of operations.
THEOREM CapsHold == Spec => []AdmittedWithinCap
  <1>1. PoolInv => AdmittedWithinCap
    BY DEF PoolInv
  <1> QED BY <1>1, PoolInvariant, PTL

\* Every admitted process belongs to a runtime tracked at the handle of its
\* Session, or at the temporary handle of its creation, so that eviction, deletion
\* and stopAll reach it; and stopAll leaves none, whatever was under way.
THEOREM NoProcessIsLost == Spec => []ProcessesTracked
  <1>1. ASSUME PoolInv PROVE ProcessesTracked
    <2>1. AdmittedTracked /\ HomesTracked /\ Closed
      BY <1>1, PoolParts
    <2>2. NoOrphanProcess
      BY <2>1, TaskAssumption
         DEF NoOrphanProcess, AdmittedTracked, HomesTracked, Tracked, Alive
    <2>3. ShutdownStopsAll
      BY <2>1 DEF ShutdownStopsAll, AdmittedTracked, Closed, TrackedRuntimes, Alive
    <2> QED BY <2>2, <2>3 DEF ProcessesTracked
  <1> QED BY <1>1, PoolInvariant, PTL

\* While withSessionDeletion moves the file away no admitted process has the
\* Session open and no fork or creation decides an identity; whoever reserved the
\* workspace is still there to give it back.
THEOREM DeletionsAreAlone == Spec => []WorkspaceReserved
  <1>1. ASSUME PoolInv PROVE WorkspaceReserved
    <2>1. TypeOK /\ Shape /\ Excluded /\ DeletionsAlone
      BY <1>1, PoolParts
    <2>2. ASSUME NEW t \in Task, task[t].pc = "operating"
          PROVE  /\ \A r \in Alive \ unadmitted : home[r] # task[t].handle
                 /\ task[t].handle \in deleting
                 /\ ~PendingIdentity
      <3>1. Deleting(t)
        BY <2>1, <2>2 DEF Deleting, Shape, ShapeAt
      <3>2. \A r : ~Stopping(t, r)
        BY <2>2 DEF Stopping
      <3> QED BY <2>1, <3>1, <3>2 DEF DeletionsAlone, Excluded
    <2>3. \A h \in deleting : \E t \in Task :
              /\ task[t].handle = h
              /\ task[t].pc \in {"stopping", "stopped", "operating", "forget", "finish",
                                 "reaping", "reaped"}
      BY <2>1 DEF DeletionsAlone, Deleting
    <2>4. closing # "closed" =>
            /\ \A t \in creations : task[t].op = "create"
            /\ transition # None => task[transition].op = "fork"
      <3>1. ASSUME closing # "closed", transition # None PROVE task[transition].op = "fork"
        <4>1. transition \in Task /\ Forks(transition)
          BY <2>1, <3>1 DEF TypeOK, Excluded
        <4>2. ShapeAt(transition) /\ task[transition].op \in Op
          BY <2>1, <4>1, TaskTypes DEF Shape
        <4> QED BY <4>1, <4>2 DEF Forks, ShapeAt, Op, HandleOps, Management, CreationBody
      <3> QED BY <2>1, <3>1 DEF TypeOK, Excluded
    <2>5. ReservationsHeld
      BY <2>1, <2>3, <2>4 DEF ReservationsHeld, Excluded
    <2> QED BY <2>2, <2>5 DEF WorkspaceReserved, DeletionAlone
  <1> QED BY <1>1, PoolInvariant, PTL

\* withPoolLock never waits for a wake-up that has already been given: what an
\* operation awaits is under way, and who awaits with the lock in hand has it.
THEOREM NoWakeUpIsLost == Spec => []AwaitsAreAnswered
  <1>1. ASSUME PoolInv PROVE AwaitsAreAnswered
    BY <1>1, PoolParts
       DEF AwaitsAreAnswered, Locked, LockPC, InQueue, Awaited, AwaitedAt
  <1> QED BY <1>1, PoolInvariant, PTL

\* A stop concerns one runtime, and begins where none was in progress.
LEMMA StopCallOnly ==
  ASSUME TypeOK, NEW r \in Runtime, NEW x, StopCall(x), ending'[r] # ending[r]
  PROVE  r = x
  BY DEF StopCall, TypeOK

\* What a step that begins a stop looked at: canEvict, canAbandon and the checks of
\* deletion, or the fork or creation that failed.
StopsWell(r) ==
    \/ \E t \in Task : task[t].runtime = r /\ task[t].op \in {"fork", "create"}
                         /\ task'[t].pc = "stopping"
    \/ /\ phase[r] = "idle" /\ ~Pinned(r)
       /\ r \in intent => Recoverable(r)

LEMMA StopsOfTasks ==
  ASSUME PoolInv, NEW t \in Task, NEW r \in Runtime,
         ending[r] = "none", ending'[r] = "stop", leader[r] = "alive",
         \/ Evict(t) \/ ReapEvictable(t) \/ ReapTransient(t) \/ Reserve(t)
         \/ ForkFails(t) \/ CommitCreation(t) \/ CommitTransition(t)
  PROVE  StopsWell(r)
  <1>1. TypeOK /\ PhasesFit /\ ShapeAt(t) /\ task[t].op \in Op /\ ending'[r] # ending[r]
    BY PoolParts, TaskTypes DEF Shape
  <1>2. CASE Evict(t) \/ ReapEvictable(t)
    <2>1. PICK x : StopCall(x) /\ IsEvictable(x)
      BY <1>2 DEF Evict, ReapEvictable
    <2>2. r = x
      BY <1>1, <2>1, StopCallOnly
    <2> QED BY <2>1, <2>2 DEF StopsWell, IsEvictable, CanEvict, Unblocked
  <1>3. CASE ReapTransient(t)
    <2>1. PICK x : StopCall(x) /\ CanAbandon(x)
      BY <1>3 DEF ReapTransient
    <2>2. r = x
      BY <1>1, <2>1, StopCallOnly
    <2> QED BY <2>1, <2>2 DEF StopsWell, CanAbandon, Unblocked
  <1>4. CASE Reserve(t)
    <2>1. PICK x : /\ StopCall(x)
                   /\ CanAbandon(x) \/ (Recoverable(x) /\ DeletableState(x))
      <3>1. task[t].op \in Management
        BY <1>1, <1>4 DEF Reserve, At, ShapeAt
      <3>2. StopCall(runtimes[task[t].handle]) /\ task[t].op # "remove"
            /\ Reservable(task[t].op, task[t].handle)
        BY <1>1, <1>4 DEF Reserve, processVars
      <3> QED BY <3>1, <3>2 DEF Reservable, Management
    <2>2. r = x
      BY <1>1, <2>1, StopCallOnly
    <2>3. CASE CanAbandon(x)
      BY <2>2, <2>3 DEF StopsWell, CanAbandon, Unblocked
    <2>4. CASE Recoverable(x) /\ DeletableState(x)
      <3>1. phase[r] \in {"starting", "idle", "busy"}
        BY <1>1 DEF PhasesFit
      <3> QED BY <2>2, <2>4, <3>1 DEF StopsWell, DeletableState, CanEvict, Unblocked
    <2> QED BY <2>1, <2>3, <2>4
  <1>5. CASE ForkFails(t) \/ CommitCreation(t) \/ CommitTransition(t)
    <2>1. /\ StopCall(task[t].runtime) /\ Goto(t, "stopping")
          /\ task[t].pc \in {"forking", "commit", "commitNew"}
      BY <1>1, <1>5 DEF ForkFails, CommitCreation, CommitTransition, At, processVars
    <2>2. task[t].op \in {"fork", "create"}
      BY <1>1, <2>1 DEF ShapeAt, Op, HandleOps, Management, CreationBody, ForkPC
    <2>3. task'[t].pc = "stopping"
      <3>1. Becomes(t, task[t].op, "stopping", task[t].body, task[t].handle, task[t].runtime,
                    task[t].victim)
        BY <1>1, <2>1, GotoIs DEF PC
      <3> QED BY <3>1 DEF Becomes
    <2> QED BY <1>1, <2>1, <2>2, <2>3, StopCallOnly DEF StopsWell
  <1> QED BY <1>2, <1>3, <1>4, <1>5

\* No other step of an operation stops anything.
LEMMA OthersStopNothing ==
  ASSUME NEW t \in Task, React(t) \/ Answer(t) \/ Request(t),
         ~(Evict(t) \/ ReapEvictable(t) \/ ReapTransient(t) \/ Reserve(t)),
         ~(ForkFails(t) \/ CommitCreation(t) \/ CommitTransition(t))
  PROVE  ending' = ending
  <1>1. CASE React(t)
    <2>1. CASE RoomDenied(t) \/ LaunchTracked(t) \/ LaunchNew(t) \/ LaunchCreation(t)
      BY <2>1 DEF RoomDenied, LaunchTracked, LaunchNew, LaunchCreation, Spawn, processVars
    <2>2. CASE Track(t) \/ Start(t) \/ Acquire(t) \/ RestartAdmit(t) \/ Resume(t)
      BY <2>2 DEF Track, Start, Acquire, RestartAdmit, Resume, processVars
    <2>3. CASE ReserveCreation(t) \/ LaunchAdmit(t) \/ Untrack(t) \/ EndCreation(t)
               \/ ReserveTransition(t) \/ EndTransition(t)
      BY <2>3 DEF ReserveCreation, LaunchAdmit, Untrack, EndCreation, ReserveTransition,
                  EndTransition, processVars
    <2>4. CASE Stopped(t) \/ ForgetTransient(t) \/ FinishDeletion(t) \/ Reaped(t) \/ ReapEnds(t)
      BY <2>4 DEF Stopped, ForgetTransient, FinishDeletion, Reaped, ReapEnds, processVars
    <2> QED BY <1>1, <2>1, <2>2, <2>3, <2>4 DEF React
  <1>2. CASE Answer(t)
    BY <1>2 DEF Answer, Resolve, Converse, Complete, ForkAnswered, Operate, processVars
  <1>3. CASE Request(t)
    BY <1>3 DEF Request, EnsureRuntime, Restart, TimerFires, Create, Reap, Manage, processVars
  <1> QED BY <1>1, <1>2, <1>3

\* Until shutdown a process that is stopped was idle and unused, and its
\* conversation has a file (canEvict, canAbandon, reserveSessionDeletion); the only
\* others are those of the fork or the creation that failed.
THEOREM NothingIsStoppedAtWork == Spec => StopsLoseNothing
  <1> DEFINE A == \A r \in Runtime :
          (ending[r] = "none" /\ ending'[r] = "stop" /\ leader[r] = "alive" /\ Open)
          => StopsWell(r)
  <1>1. PoolInv /\ [Next]_vars => [A]_vars
    <2> SUFFICES ASSUME PoolInv, Next, NEW r \in Runtime, ending[r] = "none",
                        ending'[r] = "stop", leader[r] = "alive", Open
                 PROVE  StopsWell(r)
      OBVIOUS
    <2>1. TypeOK
      BY PoolParts
    <2>2. ending' # ending
      OBVIOUS
    <2>3. CASE \E t \in Task : React(t) \/ Answer(t) \/ Request(t)
      BY <2>2, <2>3, StopsOfTasks, OthersStopNothing
    <2>4. ~Collect
      BY <2>2 DEF Collect
    <2>5. ASSUME NEW x \in Runtime, Revive(x) \/ GiveUp(x) \/ ProcessEvent(x) PROVE FALSE
      <3>1. CASE Revive(x) \/ GiveUp(x)
        BY <2>2, <3>1 DEF Revive, GiveUp, Spawn, processVars
      <3>2. CASE ProcessEvent(x)
        BY <2>1, <2>2, <3>2
           DEF ProcessEvent, Ready, TurnEnds, LeaderExits, Finalizes, HandleFailure, ContentFails,
               Settle, TypeOK
      <3> QED BY <2>5, <3>1, <3>2
    <2>6. ~StopRuntimes /\ ~Clear /\ ~StopAll /\ ~Drained /\ ~RuntimesStopped /\ ~Terminated
          /\ \A h \in Handle : ~Claim(h)
      BY <2>2 DEF StopRuntimes, Clear, StopAll, Drained, RuntimesStopped, Terminated, Claim, Open,
                  closeVars, processVars, vars
    <2> QED BY <2>3, <2>4, <2>5, <2>6 DEF Next, Reaction, Event
  <1>2. Spec => [][A]_vars
    BY <1>1, PoolInvariant, PTL DEF Spec
  <1> QED BY <1>2 DEF StopsLoseNothing, StopsWell
=============================================================================
