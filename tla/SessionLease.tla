---------------------------- MODULE SessionLease ----------------------------
(***************************************************************************)
(* Who may drive a Session: the lease authority of SessionSupervisor and   *)
(* the control requests that SessionWsBridge runs against it.              *)
(*                                                                         *)
(* A handle names a Session.  The supervisor tracks at most one runtime    *)
(* per handle, and a runtime counts its process generations.  The lease of *)
(* a handle belongs to one generation; its owner is a connection together  *)
(* with a fencing token, and every change of owner takes the next          *)
(* revision.                                                               *)
(*                                                                         *)
(* Two promise chains serialise the code.  The pool lock (poolTail) is     *)
(* held across awaits; the lease actor (leaseTail) runs bodies that never  *)
(* await.  An operation that takes both is two actions here: the checks    *)
(* made under the pool lock, after which "pool" names the operation that   *)
(* holds it, and the actor body.  Release and disconnect take only the     *)
(* actor, so they run between the two.                                     *)
(***************************************************************************)
EXTENDS Naturals, FiniteSets

CONSTANTS
    Handle,         \* Session handles
    Conn,           \* WebSocket connections
    Runtime,        \* SessionRuntime objects, each created at most once
    None,           \* undefined
    MaxRevision,    \* Number.MAX_SAFE_INTEGER, the last lease revision
    MaxGeneration,  \* bound of the exploration: process generations
    MaxToken        \* bound of the exploration: fencing tokens drawn

ASSUME MaxRevisionAssumption == MaxRevision \in Nat \ {0}
ASSUME BoundAssumption == MaxGeneration \in Nat /\ MaxToken \in Nat

VARIABLES
    runtimes,       \* the runtime tracked at each handle
    sessionHandle,  \* the handle each runtime believes it has
    generation,     \* the process generation of each runtime
    phase,          \* unborn, running, dormant, crashed or fenced (needs an explicit restart)
    leases,         \* the lease entry of each handle
    deleting,       \* handles with a deletion reservation
    pool,           \* the operation that holds the pool lock across the actor
    request,        \* the control request each connection has in flight
    closed,         \* connections whose socket closed
    swept,          \* closed connections whose lease cleanup ran
    nextToken,      \* fencing tokens drawn so far: randomUUID never repeats
    spent           \* history: tokens that were accepted once and then not

vars == <<runtimes, sessionHandle, generation, phase, leases, deleting, pool,
          request, closed, swept, nextToken, spent>>

processVars == <<runtimes, sessionHandle, generation, phase>>
connVars == <<request, closed, swept>>

-----------------------------------------------------------------------------
(* Data. *)

Token == Nat
Owner == [connectionId : Conn, fencingToken : Token]
LeaseState == [generation : Nat, revision : Nat,
               owner : Owner \union {None}, terminal : BOOLEAN]

Phase == {"unborn", "running", "dormant", "crashed", "fenced"}

\* "granted" is a request whose actor body ran and whose bridge continuation,
\* which resumes after an await, has not.
Stage == {"idle", "claiming", "claimAdmitted", "takingOver", "takeoverAdmitted",
          "granted"}

\* observed is the owner the requester saw when it sent the request; the code
\* does not carry it.
Request == [stage : Stage, runtime : Runtime \union {None},
            handle : Handle \union {None}, generation : Nat, revision : Nat,
            observed : Owner \union {None}, token : Token \union {None},
            wanted : BOOLEAN]

Idle == [stage |-> "idle", runtime |-> None, handle |-> None, generation |-> 0,
         revision |-> 0, observed |-> None, token |-> None, wanted |-> FALSE]

Granted(q, t) == [Idle EXCEPT !.stage = "granted", !.handle = q.handle,
                              !.token = t, !.wanted = q.wanted]

\* A rekey moves the lease of "from" to "to"; to = None forgets it.
Rekeying == [from : Handle, to : Handle \union {None},
             runtime : Runtime \union {None}]
PoolHolder == {None} \union Conn \union Rekeying

ASSUME NoneAssumption ==
    None \notin Handle \union Conn \union Runtime \union Nat
                  \union Owner \union LeaseState \union Rekeying
ASSUME HolderAssumption == Conn \intersect Rekeying = {}

Fresh(g) == [generation |-> g, revision |-> 0, owner |-> None, terminal |-> FALSE]

\* The fault a restart would have if it kept the entry of the old process.
LeaseStateForCarriedOver(h, g) ==
    IF leases[h] # None THEN [leases[h] EXCEPT !.generation = g] ELSE Fresh(g)

\* leaseStateFor: an entry of another generation is replaced by a free one.
LeaseStateFor(h, g) ==
    IF leases[h] # None /\ leases[h].generation = g THEN leases[h] ELSE Fresh(g)

\* The fault of an owner change that clients cannot order.
AdvancedSilently(state, owner) == [state EXCEPT !.owner = owner]

\* commitLeaseTransition, when the revision is not exhausted and when it is.
Advanced(state, owner) ==
    [generation |-> state.generation, revision |-> state.revision + 1,
     owner |-> owner, terminal |-> FALSE]
Exhausted(state) ==
    [generation |-> state.generation, revision |-> state.revision,
     owner |-> None, terminal |-> TRUE]
CommitLeaseTransition(state, owner) ==
    IF state.revision >= MaxRevision THEN Exhausted(state) ELSE Advanced(state, owner)

\* The fault of asking for the owner without naming a generation.
LeaseOwnerForAnyGeneration(h, g) ==
    IF leases[h] = None \/ leases[h].terminal THEN None ELSE leases[h].owner

\* leaseOwnerFor(runtime.sessionHandle, runtime.generation)
LeaseOwnerFor(h, g) ==
    IF leases[h] = None \/ leases[h].terminal \/ leases[h].generation # g
    THEN None ELSE leases[h].owner

\* The owner that assertLease compares a privileged request with.
LiveOwner(h) ==
    IF runtimes[h] = None THEN None ELSE LeaseOwnerFor(h, generation[runtimes[h]])

Accepted ==
    {LiveOwner(h).fencingToken : h \in {k \in Handle : LiveOwner(k) # None}}

PhaseAt(h) == IF runtimes[h] = None THEN "unborn" ELSE phase[runtimes[h]]

OwnedBy(c) ==
    {h \in Handle : leases[h] # None /\ ~leases[h].terminal
                    /\ leases[h].owner # None /\ leases[h].owner.connectionId = c}

\* The history every step takes: the tokens it stops accepting.
Fence == spent' = spent \union (Accepted \ Accepted')

-----------------------------------------------------------------------------
Init ==
    /\ runtimes = [h \in Handle |-> None]
    /\ sessionHandle = [r \in Runtime |-> None]
    /\ generation = [r \in Runtime |-> 0]
    /\ phase = [r \in Runtime |-> "unborn"]
    /\ leases = [h \in Handle |-> None]
    /\ deleting = {}
    /\ pool = None
    /\ request = [c \in Conn |-> Idle]
    /\ closed = {}
    /\ swept = {}
    /\ nextToken = 0
    /\ spent = {}

-----------------------------------------------------------------------------
(* Claim. *)

\* session_claim: ensureRuntime has found the runtime started, or crashed and
\* waiting for an explicit restart.
ClaimRequest(c, h) ==
    /\ c \notin closed
    /\ request[c].stage = "idle"
    /\ h \notin deleting
    /\ PhaseAt(h) \in {"running", "fenced"}
    /\ request' = [request EXCEPT ![c] =
                     [Idle EXCEPT !.stage = "claiming", !.runtime = runtimes[h],
                                  !.wanted = TRUE]]
    /\ UNCHANGED <<processVars, leases, deleting, pool, closed, swept, nextToken>>
    /\ Fence

\* claimWithTransition under the pool lock: the runtime may have been rekeyed,
\* deleted or replaced since ensureRuntime returned it.
ClaimAdmit(c) ==
    LET r == request[c].runtime
        h == sessionHandle[r]
    IN  /\ pool = None
        /\ request[c].stage = "claiming"
        /\ \/ /\ h \notin deleting
              /\ runtimes[h] = r
              /\ pool' = c
              /\ request' = [request EXCEPT ![c].stage = "claimAdmitted", ![c].handle = h]
           \/ /\ h \in deleting \/ runtimes[h] # r
              /\ pool' = pool
              /\ request' = [request EXCEPT ![c] = Idle]
        /\ UNCHANGED <<processVars, leases, deleting, closed, swept, nextToken>>
        /\ Fence

\* The actor body of the claim.
ClaimCommit(c) ==
    LET h == request[c].handle
        state == LeaseStateFor(h, generation[request[c].runtime])
    IN  /\ request[c].stage = "claimAdmitted"
        /\ pool' = None
        /\ \/ /\ state.terminal \/ state.owner # None
              /\ leases' = [leases EXCEPT ![h] = state]
              /\ request' = [request EXCEPT ![c] =
                   IF ~state.terminal /\ state.owner.connectionId = c
                   THEN Granted(@, state.owner.fencingToken)
                   ELSE Idle]
              /\ UNCHANGED nextToken
           \/ /\ ~state.terminal /\ state.owner = None
              /\ nextToken < MaxToken
              /\ nextToken' = nextToken + 1
              /\ leases' = [leases EXCEPT ![h] =
                   CommitLeaseTransition(state, [connectionId |-> c, fencingToken |-> nextToken])]
              /\ request' = [request EXCEPT ![c] =
                   IF state.revision >= MaxRevision THEN Idle
                   ELSE Granted(@, nextToken)]
        /\ UNCHANGED <<processVars, deleting, closed, swept>>
        /\ Fence

-----------------------------------------------------------------------------
(* Takeover. *)

\* session_takeover carries the generation and the revision of the lease view
\* the client holds; the view shows a controller other than itself.
TakeoverRequest(c, h) ==
    /\ c \notin closed
    /\ request[c].stage = "idle"
    /\ LiveOwner(h) # None /\ LiveOwner(h).connectionId # c
    /\ request' = [request EXCEPT ![c] =
         [Idle EXCEPT !.stage = "takingOver", !.runtime = runtimes[h], !.handle = h,
                      !.generation = leases[h].generation,
                      !.revision = leases[h].revision,
                      !.observed = LiveOwner(h), !.wanted = TRUE]]
    /\ UNCHANGED <<processVars, leases, deleting, pool, closed, swept, nextToken>>
    /\ Fence

\* takeover under the pool lock.
TakeoverAdmissible(q) ==
    /\ PhaseAt(q.handle) \notin {"unborn", "dormant"}
    /\ q.handle \notin deleting
    /\ generation[runtimes[q.handle]] = q.generation

TakeoverAdmit(c) ==
    /\ pool = None
    /\ request[c].stage = "takingOver"
    /\ \/ /\ TakeoverAdmissible(request[c])
          /\ pool' = c
          /\ request' = [request EXCEPT ![c].stage = "takeoverAdmitted"]
       \/ /\ ~TakeoverAdmissible(request[c])
          /\ pool' = pool
          /\ request' = [request EXCEPT ![c] = Idle]
    /\ UNCHANGED <<processVars, leases, deleting, closed, swept, nextToken>>
    /\ Fence

\* The fault of a takeover that does not compare the revision.
TakeableUnordered(state, q, c) ==
    ~state.terminal /\ state.owner # None /\ state.owner.connectionId # c

\* What the actor body compares: the exact revision, held by someone else.
Takeable(state, q, c) ==
    /\ ~state.terminal
    /\ state.revision = q.revision
    /\ state.owner # None
    /\ state.owner.connectionId # c

\* The actor body of the takeover, a compare-and-swap on the revision.
TakeoverCommit(c) ==
    LET q == request[c]
        state == LeaseStateFor(q.handle, generation[runtimes[q.handle]])
    IN  /\ q.stage = "takeoverAdmitted"
        /\ pool' = None
        /\ \/ /\ ~Takeable(state, q, c)
              /\ leases' = [leases EXCEPT ![q.handle] = state]
              /\ request' = [request EXCEPT ![c] = Idle]
              /\ UNCHANGED nextToken
           \/ /\ Takeable(state, q, c)
              /\ nextToken < MaxToken
              /\ nextToken' = nextToken + 1
              /\ leases' = [leases EXCEPT ![q.handle] =
                   CommitLeaseTransition(state, [connectionId |-> c, fencingToken |-> nextToken])]
              /\ request' = [request EXCEPT ![c] =
                   IF state.revision >= MaxRevision THEN Idle
                   ELSE Granted(@, nextToken)]
        /\ UNCHANGED <<processVars, deleting, closed, swept>>
        /\ Fence

-----------------------------------------------------------------------------
(* What a connection gives up. *)

\* releaseWithTransition: by connection, on the generation of the tracked
\* runtime, or of the entry itself when none is tracked.
ReleaseByConnection(c, h) ==
    IF leases[h] = None THEN leases
    ELSE LET g == IF runtimes[h] # None THEN generation[runtimes[h]] ELSE leases[h].generation
             state == LeaseStateFor(h, g)
         IN  [leases EXCEPT ![h] =
                IF state.terminal \/ state.owner = None \/ state.owner.connectionId # c
                THEN state ELSE CommitLeaseTransition(state, None)]

\* releaseExactWithTransition: the exact grant of the connection.
ReleaseByToken(c, h, t) ==
    IF leases[h] = None THEN leases
    ELSE LET g == IF runtimes[h] # None THEN generation[runtimes[h]] ELSE leases[h].generation
             state == LeaseStateFor(h, g)
         IN  [leases EXCEPT ![h] =
                IF state.terminal \/ state.owner = None
                   \/ state.owner # [connectionId |-> c, fencingToken |-> t]
                THEN state ELSE CommitLeaseTransition(state, None)]

\* The fault of a continuation that trusts a connection to be open still.
GivesBackIfWithdrawn(c) == ~request[c].wanted

GivesBack(c) == c \in closed \/ ~request[c].wanted

\* The bridge continuation of a granted claim or takeover: a connection that
\* closed, unsubscribed or withdrew meanwhile gives the exact grant back.
Continue(c) ==
    /\ request[c].stage = "granted"
    /\ request' = [request EXCEPT ![c] = Idle]
    /\ leases' = IF GivesBack(c)
                 THEN ReleaseByToken(c, request[c].handle, request[c].token)
                 ELSE leases
    /\ UNCHANGED <<processVars, deleting, pool, closed, swept, nextToken>>
    /\ Fence

\* session_release: it withdraws a claim that is still in flight as well.
Release(c, h) ==
    /\ c \notin closed
    /\ \/ LiveOwner(h) # None /\ LiveOwner(h).connectionId = c
       \/ request[c].stage \in {"claiming", "claimAdmitted"}
    /\ leases' = ReleaseByConnection(c, h)
    /\ request' = [request EXCEPT ![c].wanted =
         @ /\ request[c].stage \in {"takingOver", "takeoverAdmitted"}]
    /\ UNCHANGED <<processVars, deleting, pool, closed, swept, nextToken>>
    /\ Fence

\* session_unsubscribe: no request in flight may leave a lease behind.
Unsubscribe(c, h) ==
    /\ c \notin closed
    /\ request[c].stage # "idle"
    /\ leases' = ReleaseByConnection(c, h)
    /\ request' = [request EXCEPT ![c].wanted = FALSE]
    /\ UNCHANGED <<processVars, deleting, pool, closed, swept, nextToken>>
    /\ Fence

Disconnect(c) ==
    /\ c \notin closed
    /\ closed' = closed \union {c}
    /\ UNCHANGED <<processVars, leases, deleting, pool, request, swept, nextToken>>
    /\ Fence

\* The fault of a cleanup that does not wait for the close.
CleanableEarly == Conn \ swept

Cleanable == closed \ swept

\* releaseConnectionWithTransitions walks the leases in map order, which is
\* arbitrary here.  The first exhausted revision throws: done is what the walk
\* released before it, and what comes after it is never visited.
Sweep(c) ==
    LET spentOut == {h \in OwnedBy(c) : leases[h].revision >= MaxRevision}
    IN  /\ c \in Cleanable
        /\ swept' = swept \union {c}
        /\ \/ /\ spentOut = {}
              /\ leases' = [h \in Handle |-> IF h \in OwnedBy(c)
                              THEN Advanced(leases[h], None) ELSE leases[h]]
           \/ \E bad \in spentOut, done \in SUBSET (OwnedBy(c) \ spentOut) :
                leases' = [h \in Handle |->
                   CASE h = bad -> Exhausted(leases[h])
                     [] h \in done -> Advanced(leases[h], None)
                     [] OTHER -> leases[h]]
        /\ UNCHANGED <<processVars, deleting, pool, request, closed, nextToken>>
        /\ Fence

-----------------------------------------------------------------------------
(* What happens to processes and identities meanwhile. *)

\* ensureRuntime or createSession: a new runtime object always starts counting
\* its generations at zero, and its first spawn makes that one.
Track(h, r) ==
    /\ pool = None
    /\ h \notin deleting
    /\ runtimes[h] = None
    /\ phase[r] = "unborn"
    /\ runtimes' = [runtimes EXCEPT ![h] = r]
    /\ sessionHandle' = [sessionHandle EXCEPT ![r] = h]
    /\ generation' = [generation EXCEPT ![r] = 1]
    /\ phase' = [phase EXCEPT ![r] = "running"]
    /\ UNCHANGED <<leases, deleting, pool, connVars, nextToken>>
    /\ Fence

\* A process exits; some failures wait for an explicit restart.
Crash(h) ==
    /\ PhaseAt(h) = "running"
    /\ \E p \in {"crashed", "fenced"} : phase' = [phase EXCEPT ![runtimes[h]] = p]
    /\ UNCHANGED <<runtimes, sessionHandle, generation, leases, deleting, pool,
                   connVars, nextToken>>
    /\ Fence

\* ensureCapacity and reapIdle stop only a runtime that nobody controls.
Evict(h) ==
    /\ pool = None
    /\ PhaseAt(h) = "running"
    /\ LiveOwner(h) = None
    /\ phase' = [phase EXCEPT ![runtimes[h]] = "dormant"]
    /\ UNCHANGED <<runtimes, sessionHandle, generation, leases, deleting, pool,
                   connVars, nextToken>>
    /\ Fence

\* spawn: the next generation.  A start chained behind a stop takes no lock.
Respawn(h) ==
    LET r == runtimes[h]
    IN  /\ PhaseAt(h) \in {"crashed", "dormant"}
        /\ h \notin deleting
        /\ generation[r] < MaxGeneration
        /\ generation' = [generation EXCEPT ![r] = @ + 1]
        /\ phase' = [phase EXCEPT ![r] = "running"]
        /\ UNCHANGED <<runtimes, sessionHandle, leases, deleting, pool, connVars, nextToken>>
        /\ Fence

\* Every start ends with reconcileLeaseGeneration in the actor.
Reconcile(h) ==
    /\ runtimes[h] # None
    /\ leases' = [leases EXCEPT ![h] = LeaseStateFor(h, generation[runtimes[h]])]
    /\ UNCHANGED <<processVars, deleting, pool, connVars, nextToken>>
    /\ Fence

\* restart(): only the controller; an overflowed runtime is replaced by a new
\* object that goes on counting from its generation.
Restart(c, h, r) ==
    LET old == runtimes[h]
    IN  /\ pool = None
        /\ h \notin deleting
        /\ PhaseAt(h) = "fenced"
        /\ LiveOwner(h) # None /\ LiveOwner(h).connectionId = c
        /\ c \notin closed
        /\ generation[old] < MaxGeneration
        /\ phase[r] = "unborn" \/ r = old
        /\ runtimes' = [runtimes EXCEPT ![h] = r]
        /\ sessionHandle' = [sessionHandle EXCEPT ![r] = h]
        /\ generation' = [generation EXCEPT ![r] = generation[old] + 1]
        /\ phase' = [phase EXCEPT ![old] = "dormant", ![r] = "running"]
        /\ UNCHANGED <<leases, deleting, pool, connVars, nextToken>>
        /\ Fence

\* commitIdentityTransition: apply() and the runtime half of rekeyRuntime.
\* A fork or a clone turns the running process into the child Session.
RekeyRuntime(h, child) ==
    LET r == runtimes[h]
    IN  /\ pool = None
        /\ PhaseAt(h) = "running"
        /\ runtimes[child] = None
        /\ {h, child} \intersect deleting = {}
        /\ generation[r] < MaxGeneration
        /\ generation' = [generation EXCEPT ![r] = @ + 1]
        /\ sessionHandle' = [sessionHandle EXCEPT ![r] = child]
        /\ runtimes' = [runtimes EXCEPT ![h] = None, ![child] = r]
        /\ pool' = [from |-> h, to |-> child, runtime |-> r]
        /\ UNCHANGED <<phase, leases, deleting, connVars, nextToken>>
        /\ Fence

\* The fault of a fork that takes its controller along.
RekeyedWithOwner(previous, g) ==
    IF previous = None THEN Fresh(g) ELSE [previous EXCEPT !.generation = g]

\* A child process starts free; only an unchanged generation keeps its lease.
Rekeyed(previous, g) ==
    IF previous = None \/ previous.generation # g THEN Fresh(g)
    ELSE IF previous.owner = None THEN previous
    ELSE CommitLeaseTransition(previous, previous.owner)

\* The lease half of rekeyRuntime, in the actor.
RekeyLease ==
    /\ pool \in Rekeying /\ pool.to # None
    /\ leases' = [leases EXCEPT ![pool.from] = None,
         ![pool.to] = Rekeyed(leases[pool.from], generation[pool.runtime])]
    /\ pool' = None
    /\ UNCHANGED <<processVars, deleting, connVars, nextToken>>
    /\ Fence

\* withControlledSessionDeletion, withSessionDeletion and abandonTransient:
\* an active runtime only through its controller.  The runtime is stopped.
ReserveDeletion(h) ==
    /\ pool = None
    /\ h \notin deleting
    /\ PhaseAt(h) = "running" => LiveOwner(h) # None
    /\ deleting' = deleting \union {h}
    /\ phase' = IF runtimes[h] = None THEN phase
                ELSE [phase EXCEPT ![runtimes[h]] = "dormant"]
    /\ UNCHANGED <<runtimes, sessionHandle, generation, leases, pool, connVars, nextToken>>
    /\ Fence

\* The operation failed (the file could not be moved, or it materialised).
AbortDeletion(h) ==
    /\ pool = None
    /\ h \in deleting
    /\ deleting' = deleting \ {h}
    /\ UNCHANGED <<processVars, leases, pool, connVars, nextToken>>
    /\ Fence

FinishDeletion(h) ==
    /\ pool = None
    /\ h \in deleting
    /\ deleting' = deleting \ {h}
    /\ runtimes' = [runtimes EXCEPT ![h] = None]
    /\ pool' = [from |-> h, to |-> None, runtime |-> None]
    /\ UNCHANGED <<sessionHandle, generation, phase, leases, connVars, nextToken>>
    /\ Fence

ForgetLease ==
    /\ pool \in Rekeying /\ pool.to = None
    /\ leases' = [leases EXCEPT ![pool.from] = None]
    /\ pool' = None
    /\ UNCHANGED <<processVars, deleting, connVars, nextToken>>
    /\ Fence

-----------------------------------------------------------------------------
ControlStep(c) ==
    \/ ClaimAdmit(c) \/ ClaimCommit(c)
    \/ TakeoverAdmit(c) \/ TakeoverCommit(c)
    \/ Continue(c)
    \/ Disconnect(c) \/ Sweep(c)
    \/ \E h \in Handle :
         \/ ClaimRequest(c, h) \/ TakeoverRequest(c, h)
         \/ Release(c, h) \/ Unsubscribe(c, h)
         \/ \E r \in Runtime : Restart(c, h, r)

IdentityStep ==
    \/ RekeyLease \/ ForgetLease
    \/ \E h \in Handle :
         \/ Crash(h) \/ Evict(h) \/ Respawn(h) \/ Reconcile(h)
         \/ ReserveDeletion(h) \/ AbortDeletion(h) \/ FinishDeletion(h)
         \/ \E r \in Runtime : Track(h, r)
         \/ \E child \in Handle : RekeyRuntime(h, child)

Next == (\E c \in Conn : ControlStep(c)) \/ IdentityStep

Spec == Init /\ [][Next]_vars

-----------------------------------------------------------------------------
(* Properties. *)

TypeOK ==
    /\ runtimes \in [Handle -> Runtime \union {None}]
    /\ sessionHandle \in [Runtime -> Handle \union {None}]
    /\ generation \in [Runtime -> Nat]
    /\ phase \in [Runtime -> Phase]
    /\ leases \in [Handle -> LeaseState \union {None}]
    /\ deleting \subseteq Handle
    /\ pool \in PoolHolder
    /\ request \in [Conn -> Request]
    /\ closed \subseteq Conn
    /\ swept \subseteq closed
    /\ nextToken \in Nat
    /\ spent \subseteq Token

\* A fencing token that assertLease stopped accepting (released, taken over,
\* left behind by a restart, a fork, a deletion or a disconnect) is never
\* accepted again, whatever becomes of the handle.
SpentStaysSpent == Accepted \intersect spent = {}

\* One token opens one Session: a rekey moves authority, it never copies it.
TokenOpensOneSession ==
    \A h, k \in Handle :
        LiveOwner(h) # None /\ LiveOwner(k) # None
        /\ LiveOwner(h).fencingToken = LiveOwner(k).fencingToken => h = k

\* Within a generation of a tracked runtime, another owner always means a
\* higher revision: clients order the lease views they receive by it.
RevisionOrdersOwners ==
    [][\A h \in Handle :
         /\ runtimes[h] # None /\ runtimes'[h] = runtimes[h]
         /\ leases[h] # None /\ leases'[h] # None
         /\ leases[h].generation = leases'[h].generation
         /\ leases'[h].owner # leases[h].owner
         => leases'[h].revision > leases[h].revision \/ leases'[h].terminal]_vars

\* A takeover that commits replaces the very owner its requester saw: nothing
\* happened to the lease between the view and the swap.  Stated for requests
\* that reach the runtime they were aimed at: a new runtime of the Session counts
\* generations and revisions from the start again.
Replaces(c) ==
    /\ request[c].stage = "takeoverAdmitted"
    /\ request'[c].stage = "granted"

TakeoverReplacesObserved ==
    [][\A c \in Conn :
         Replaces(c) /\ runtimes[request[c].handle] = request[c].runtime
         => LiveOwner(request[c].handle) = request[c].observed]_vars

\* A connection whose cleanup ran and whose last request settled owns nothing:
\* ADR 0003, "Disconnect releases all leases and invalidates their fencing
\* tokens."  A claim granted after the cleanup is given back by Continue.
DisconnectReleasesAll ==
    \A c \in swept : request[c].stage = "idle" => OwnedBy(c) = {}

-----------------------------------------------------------------------------
(* Why spent tokens stay spent: the invariant that every step preserves.   *)

Owned(h) == leases[h] # None /\ leases[h].owner # None

\* Tokens are drawn before they are held or spent, and held once.
TokensDrawn ==
    /\ \A h \in Handle : Owned(h) => leases[h].owner.fencingToken < nextToken
    /\ \A t \in spent : t < nextToken

GrantsDistinct ==
    \A h, k \in Handle :
        Owned(h) /\ Owned(k)
        /\ leases[h].owner.fencingToken = leases[k].owner.fencingToken => h = k

\* A tracked runtime was started, and believes it has the handle it is tracked
\* at: no runtime is tracked twice.
TrackedAtHome ==
    \A h \in Handle : runtimes[h] # None =>
        sessionHandle[runtimes[h]] = h /\ phase[runtimes[h]] # "unborn"

\* A Session without a runtime has no owner, except while its entry waits in
\* the actor to be moved or forgotten.
UntrackedUnowned ==
    \A h \in Handle :
        runtimes[h] = None /\ Owned(h) => pool \in Rekeying /\ pool.from = h

\* An owner is never of a generation that is still to come: generations grow,
\* so an entry that fell behind can never be current again.
OwnersNotAhead ==
    \A h \in Handle :
        runtimes[h] # None /\ Owned(h) => leases[h].generation <= generation[runtimes[h]]

\* While a rekey waits for the actor, the parent is gone and the child process
\* is of a later generation than the entry that is about to be dropped.
RekeyInProgress ==
    pool \in Rekeying =>
        /\ runtimes[pool.from] = None
        /\ pool.to # None =>
             /\ pool.runtime # None
             /\ runtimes[pool.to] = pool.runtime
             /\ ~Owned(pool.to)
             /\ Owned(pool.from) => leases[pool.from].generation < generation[pool.runtime]

\* What a request in flight relies on when its actor body or continuation runs.
Grounded(c) ==
    LET q == request[c]
    IN  /\ q.stage = "claiming" =>
             q.runtime # None /\ sessionHandle[q.runtime] # None
        /\ q.stage = "claimAdmitted" =>
             /\ pool = c
             /\ q.handle # None /\ q.runtime # None
             /\ runtimes[q.handle] = q.runtime
        /\ q.stage = "takingOver" => q.handle # None
        /\ q.stage = "takeoverAdmitted" =>
             pool = c /\ q.handle # None /\ runtimes[q.handle] # None
        /\ q.stage = "granted" => q.handle # None /\ q.token # None

RequestsGrounded == \A c \in Conn : Grounded(c)

LeaseInv ==
    /\ TypeOK
    /\ TokensDrawn
    /\ GrantsDistinct
    /\ TrackedAtHome
    /\ UntrackedUnowned
    /\ OwnersNotAhead
    /\ RekeyInProgress
    /\ RequestsGrounded
    /\ SpentStaysSpent

-----------------------------------------------------------------------------
\* Why a takeover replaces the owner its requester saw.  A view is of a
\* generation that its runtime has reached.  While the Session still has that
\* runtime in that generation, nobody has changed the owner without moving the
\* revision.  Once the takeover is admitted, a later generation has no owner.
Viewed(c) ==
    LET q == request[c]
        h == q.handle
    IN  q.stage \in {"takingOver", "takeoverAdmitted"} =>
          /\ q.runtime # None /\ phase[q.runtime] # "unborn"
          /\ q.generation <= generation[q.runtime]
          /\ runtimes[h] = q.runtime /\ generation[q.runtime] = q.generation =>
               /\ leases[h] # None /\ leases[h].generation = q.generation
               /\ leases[h].revision >= q.revision
               /\ leases[h].revision = q.revision /\ ~leases[h].terminal =>
                    leases[h].owner = q.observed
          /\ pool \in Rekeying /\ pool.to # None /\ pool.runtime = q.runtime =>
               q.generation < generation[q.runtime]
          /\ /\ q.stage = "takeoverAdmitted"
             /\ runtimes[h] = q.runtime /\ generation[q.runtime] # q.generation
             => LiveOwner(h) = None

TakeoversViewed == \A c \in Conn : Viewed(c)

\* Why a connection that is gone holds nothing.  Two transitions at most go with
\* a token, a grant and its release, so a revision is exhausted only after half
\* of them have been drawn.  Until then a cleanup visits every lease, and only
\* the continuation of a request finds one of a cleaned-up connection.
RevisionsPaid ==
    \A h \in Handle : leases[h] # None =>
        /\ leases[h].revision <= 2 * nextToken
        /\ Owned(h) => leases[h].revision < 2 * nextToken

Unexhausted == 2 * nextToken <= MaxRevision

OnlyGrantsLeft ==
    \A c \in swept : \A h \in OwnedBy(c) :
        /\ request[c].stage = "granted" /\ request[c].handle = h
        /\ request[c].token = leases[h].owner.fencingToken

GrantsGivenBack == RevisionsPaid /\ (Unexhausted => OnlyGrantsLeft)

-----------------------------------------------------------------------------
\* The lease table implements a register of owners per Session in which a new
\* process always starts unowned and a token is drawn for one grant only.
Life(h) == IF runtimes[h] = None THEN <<>> ELSE <<runtimes[h], generation[runtimes[h]]>>

Register == INSTANCE LeaseRegister
              WITH owner <- [h \in Handle |-> LiveOwner(h)],
                   life <- [h \in Handle |-> Life(h)],
                   drawn <- nextToken

ImplementsRegister == Register!Spec
=============================================================================
