------------------------- MODULE SessionLeaseProofs -------------------------
(***************************************************************************)
(* Proofs about SessionLease for any sets of handles, connections and      *)
(* runtimes and any bounds.                                                *)
(***************************************************************************)
EXTENDS SessionLease, TLAPS

-----------------------------------------------------------------------------
(* What the helpers return. *)

\* A transition keeps the generation and leaves the owner it was given, or none.
LEMMA CommitFacts ==
    ASSUME NEW s \in LeaseState, NEW o \in Owner \union {None}
    PROVE  /\ CommitLeaseTransition(s, o) \in LeaseState
           /\ CommitLeaseTransition(s, o).generation = s.generation
           /\ CommitLeaseTransition(s, o).owner \in {o, None}
           /\ s.revision < MaxRevision => CommitLeaseTransition(s, o).owner = o
<1>1. Advanced(s, o) \in LeaseState /\ Exhausted(s) \in LeaseState
  BY DEF Advanced, Exhausted, LeaseState
<1>2. /\ Advanced(s, o).generation = s.generation /\ Advanced(s, o).owner = o
      /\ Exhausted(s).generation = s.generation /\ Exhausted(s).owner = None
  BY DEF Advanced, Exhausted, LeaseState
<1>3. CommitLeaseTransition(s, o) \in {Advanced(s, o), Exhausted(s)}
  BY DEF CommitLeaseTransition
<1>4. s.revision < MaxRevision => CommitLeaseTransition(s, o) = Advanced(s, o)
  BY MaxRevisionAssumption DEF CommitLeaseTransition, LeaseState
<1> QED
  BY <1>1, <1>2, <1>3, <1>4

\* The entry for a generation is the stored one or a free one.
LEMMA StateFacts ==
    ASSUME TypeOK, NEW h \in Handle, NEW g \in Nat
    PROVE  /\ LeaseStateFor(h, g) \in LeaseState
           /\ LeaseStateFor(h, g).generation = g
           /\ LeaseStateFor(h, g).owner # None =>
                leases[h] # None /\ LeaseStateFor(h, g) = leases[h]
  BY DEF LeaseStateFor, TypeOK, LeaseState, Fresh

LEMMA NewOwnerType ==
    ASSUME NEW c \in Conn, NEW t \in Nat
    PROVE  [connectionId |-> c, fencingToken |-> t] \in Owner
  BY DEF Owner, Token

LEMMA IdleType == Idle \in Request
  BY DEF Idle, Request, Stage

-----------------------------------------------------------------------------
(* Types. *)

LEMMA InitType == Init => TypeOK
  BY IdleType DEF Init, TypeOK, Phase, PoolHolder

\* Every step types the history, whatever else it does.
LEMMA AcceptedType == TypeOK => Accepted \subseteq Nat
<1> SUFFICES ASSUME TypeOK, NEW h \in Handle, LiveOwner(h) # None
             PROVE  LiveOwner(h).fencingToken \in Nat
  BY DEF Accepted
<1> QED
  BY DEF TypeOK, LiveOwner, LeaseOwnerFor, LeaseState, Owner, Token

LEMMA SpentType == TypeOK /\ Fence => spent' \subseteq Token
  BY AcceptedType DEF TypeOK, Fence, Token

\* Releasing keeps the table typed, gives no owner and touches one entry.
LEMMA ReleaseFacts ==
    ASSUME TypeOK, NEW h \in Handle,
           NEW new,
           \/ \E c \in Conn : new = ReleaseByConnection(c, h)
           \/ \E c \in Conn, t \in Nat : new = ReleaseByToken(c, h, t)
    PROVE  /\ new \in [Handle -> LeaseState \union {None}]
           /\ \A k \in Handle : new[k] = leases[k] \/ new[k].owner = None
<1> DEFINE g == IF runtimes[h] # None THEN generation[runtimes[h]] ELSE leases[h].generation
           state == LeaseStateFor(h, g)
<1>1. CASE leases[h] = None
  BY <1>1 DEF TypeOK, ReleaseByConnection, ReleaseByToken
<1>2. CASE leases[h] # None
  <2>1. g \in Nat
    BY <1>2 DEF TypeOK, LeaseState
  <2>2. /\ state \in LeaseState
        /\ state.owner # None => leases[h] # None /\ state = leases[h]
    BY <2>1, StateFacts
  <2>3. new \in {[leases EXCEPT ![h] = state],
                [leases EXCEPT ![h] = CommitLeaseTransition(state, None)]}
    BY <1>2 DEF ReleaseByConnection, ReleaseByToken
  <2>4. /\ CommitLeaseTransition(state, None) \in LeaseState
        /\ CommitLeaseTransition(state, None).owner = None
    BY <2>2, CommitFacts
  <2> HIDE DEF state
  <2>5. leases \in [Handle -> LeaseState \union {None}]
    BY DEF TypeOK
  <2> QED
    BY <2>2, <2>3, <2>4, <2>5
<1> QED
  BY <1>1, <1>2

-----------------------------------------------------------------------------
(* Steps that leave processes and identities alone. *)

\* No entry gains an owner.
Quiet == \A h \in Handle : leases'[h] = leases[h] \/ ~Owned(h)'

\* One tracked Session gets an owner of its live generation and a new token, and
\* had none or another one.
Granted1(h, c) ==
    /\ runtimes[h] # None
    /\ LiveOwner(h) # None => LiveOwner(h).connectionId # c
    /\ pool = c /\ pool' = None
    /\ nextToken' = nextToken + 1
    /\ leases'[h] # None
    /\ leases'[h].generation = generation[runtimes[h]]
    /\ leases'[h].owner = [connectionId |-> c, fencingToken |-> nextToken]
    /\ \A k \in Handle \ {h} : leases'[k] = leases[k]

LeaseStep ==
    /\ Quiet \/ \E h \in Handle, c \in Conn : Granted1(h, c)
    /\ nextToken' \in {nextToken, nextToken + 1}
    /\ UNCHANGED <<runtimes, sessionHandle, generation>>
    /\ \A r \in Runtime : phase'[r] = "unborn" => phase[r] = "unborn"
    /\ pool' \in Rekeying => pool' = pool
    /\ pool \in Rekeying /\ pool' # pool =>
         \A h \in Handle : h = pool.from => ~Owned(h)'

\* What assertLease accepts is the owner of an entry.
LEMMA LiveOwnerFacts ==
    ASSUME NEW h \in Handle, LiveOwner(h) # None
    PROVE  /\ runtimes[h] # None /\ Owned(h)
           /\ LiveOwner(h) = leases[h].owner
           /\ leases[h].generation = generation[runtimes[h]]
  BY DEF LiveOwner, LeaseOwnerFor, Owned

\* A step that accepts nothing but what was accepted, or a token just drawn,
\* keeps spent tokens spent.
LEMMA HistoryKept ==
    ASSUME TypeOK, TokensDrawn, SpentStaysSpent, Fence,
           nextToken' \in {nextToken, nextToken + 1},
           \A h \in Handle : LiveOwner(h)' # None =>
              \/ LiveOwner(h)' = LiveOwner(h)
              \/ LiveOwner(h)'.fencingToken = nextToken
    PROVE  SpentStaysSpent' /\ \A t \in spent' : t < nextToken'
<1>1. \A t \in Accepted : t < nextToken
  BY LiveOwnerFacts DEF Accepted, TokensDrawn
<1>2. \A t \in Accepted' : t \in Accepted \/ t = nextToken
  BY DEF Accepted
<1>3. spent' = spent \union (Accepted \ Accepted')
  BY DEF Fence
<1>4. nextToken \in Nat /\ spent \subseteq Nat
  BY DEF TypeOK, Token
<1>5. Accepted' \intersect spent = {}
  BY <1>2, <1>4 DEF SpentStaysSpent, TokensDrawn
<1>6. SpentStaysSpent'
  BY <1>3, <1>5 DEF SpentStaysSpent
<1>7. ASSUME NEW t \in spent' PROVE t < nextToken'
  <2>1. t \in spent \/ t \in Accepted
    BY <1>3, <1>7
  <2>2. t \in Nat /\ t < nextToken
    BY <2>1, <1>1, <1>4, AcceptedType DEF TokensDrawn
  <2> QED
    BY <2>2, <1>4
<1> QED
  BY <1>6, <1>7

\* A step of this kind preserves everything but types and requests.
LEMMA LeaseStepKeeps ==
    ASSUME LeaseInv, TypeOK', LeaseStep, Fence
    PROVE  /\ TokensDrawn' /\ GrantsDistinct' /\ TrackedAtHome'
           /\ UntrackedUnowned' /\ OwnersNotAhead' /\ RekeyInProgress'
           /\ SpentStaysSpent'
<1> USE DEF LeaseInv
<1>1. \A h \in Handle : Owned(h)' =>
        \/ Owned(h) /\ leases'[h] = leases[h]
        \/ \E c \in Conn : Granted1(h, c)
  BY DEF LeaseStep, Quiet, Owned, Granted1
<1>2. nextToken \in Nat /\ nextToken' \in Nat
  BY DEF TypeOK
<1>3. \A h \in Handle : LiveOwner(h)' # None =>
        \/ LiveOwner(h)' = LiveOwner(h)
        \/ LiveOwner(h)'.fencingToken = nextToken
  <2> SUFFICES ASSUME NEW h \in Handle, LiveOwner(h)' # None
               PROVE  \/ LiveOwner(h)' = LiveOwner(h)
                      \/ LiveOwner(h)'.fencingToken = nextToken
    OBVIOUS
  <2>1. Owned(h)' /\ LiveOwner(h)' = leases'[h].owner
    BY DEF LiveOwner, LeaseOwnerFor, Owned
  <2>2. CASE leases'[h] = leases[h]
    BY <2>2 DEF LeaseStep, LiveOwner, LeaseOwnerFor
  <2>3. ASSUME NEW c \in Conn, Granted1(h, c) PROVE LiveOwner(h)'.fencingToken = nextToken
    BY <2>1, <2>3 DEF Granted1
  <2> QED
    BY <1>1, <2>1, <2>2, <2>3
<1>4. SpentStaysSpent' /\ \A t \in spent' : t < nextToken'
  BY <1>3, HistoryKept DEF LeaseStep
<1>5. TokensDrawn'
  <2>1. ASSUME NEW h \in Handle, Owned(h)' PROVE leases'[h].owner.fencingToken < nextToken'
    <3>1. CASE Owned(h) /\ leases'[h] = leases[h]
      <4>1. leases[h].owner.fencingToken \in Nat
        BY <3>1 DEF TypeOK, LeaseState, Owner, Token, Owned
      <4> QED
        BY <3>1, <4>1, <1>2 DEF TokensDrawn, LeaseStep
    <3>2. CASE \E c \in Conn : Granted1(h, c)
      BY <3>2, <1>2 DEF Granted1
    <3> QED
      BY <2>1, <1>1, <3>1, <3>2
  <2> QED
    BY <2>1, <1>4 DEF TokensDrawn
<1>6. GrantsDistinct'
  <2> SUFFICES ASSUME NEW h \in Handle, NEW k \in Handle, Owned(h)', Owned(k)', h # k
               PROVE  leases'[h].owner.fencingToken # leases'[k].owner.fencingToken
    BY DEF GrantsDistinct
  <2>1. CASE Quiet
    BY <2>1 DEF Quiet, Owned, GrantsDistinct
  <2>2. ASSUME NEW g \in Handle, NEW c \in Conn, Granted1(g, c)
        PROVE  leases'[h].owner.fencingToken # leases'[k].owner.fencingToken
    <3>1. \A j \in Handle \ {g} : leases'[j] = leases[j]
      BY <2>2 DEF Granted1
    <3>2. \A j \in Handle \ {g} : Owned(j)' => leases'[j].owner.fencingToken < nextToken
      BY <3>1 DEF Owned, TokensDrawn
    <3>3. leases'[g].owner.fencingToken = nextToken
      BY <2>2 DEF Granted1
    <3> QED
      BY <3>1, <3>2, <3>3, <1>2 DEF GrantsDistinct, Owned
  <2> QED
    BY <2>1, <2>2 DEF LeaseStep
<1>7. TrackedAtHome'
  <2> SUFFICES ASSUME NEW h \in Handle, runtimes'[h] # None
               PROVE  sessionHandle'[runtimes'[h]] = h /\ phase'[runtimes'[h]] # "unborn"
    BY DEF TrackedAtHome
  <2>1. runtimes[h] \in Runtime /\ runtimes[h] # None /\ runtimes'[h] = runtimes[h]
    BY DEF TypeOK, LeaseStep
  <2> QED
    BY <2>1 DEF TrackedAtHome, LeaseStep
<1>8. UntrackedUnowned'
  <2> SUFFICES ASSUME NEW h \in Handle, runtimes'[h] = None, Owned(h)'
               PROVE  pool' \in Rekeying /\ pool'.from = h
    BY DEF UntrackedUnowned
  <2>1. Owned(h) /\ runtimes[h] = None
    BY <1>1 DEF LeaseStep, Granted1
  <2>2. pool \in Rekeying /\ pool.from = h
    BY <2>1 DEF UntrackedUnowned
  <2> QED
    BY <2>2 DEF LeaseStep
<1>9. OwnersNotAhead'
  <2> SUFFICES ASSUME NEW h \in Handle, runtimes'[h] # None, Owned(h)'
               PROVE  leases'[h].generation <= generation'[runtimes'[h]]
    BY DEF OwnersNotAhead
  <2>1. /\ generation[runtimes[h]] \in Nat /\ runtimes[h] # None
        /\ generation' = generation /\ runtimes' = runtimes
    BY DEF TypeOK, LeaseStep
  <2>2. CASE Owned(h) /\ leases'[h] = leases[h]
    BY <2>1, <2>2 DEF OwnersNotAhead
  <2>3. ASSUME NEW c \in Conn, Granted1(h, c)
        PROVE  leases'[h].generation = generation[runtimes[h]]
    BY <2>3 DEF Granted1
  <2> QED
    BY <1>1, <2>1, <2>2, <2>3
<1>10. RekeyInProgress'
  <2> SUFFICES ASSUME pool' \in Rekeying PROVE RekeyInProgress'
    BY DEF RekeyInProgress
  <2>1. pool' = pool /\ Quiet
    BY NoneAssumption DEF LeaseStep, Granted1
  <2> QED
    BY <2>1, <1>1 DEF RekeyInProgress, LeaseStep, Owned, Quiet, Rekeying, TypeOK
<1> QED
  BY <1>4, <1>5, <1>6, <1>7, <1>8, <1>9, <1>10

\* A request that is not touched keeps what it relies on as long as the pool
\* lock is not taken away from it.
LEMMA GroundedKept ==
    ASSUME NEW d \in Conn, Grounded(d), request'[d] = request[d],
           UNCHANGED <<runtimes, sessionHandle>>, pool = d => pool' = d
    PROVE  Grounded(d)'
  BY DEF Grounded

LEMMA ClaimRequestStep ==
    ASSUME LeaseInv, NEW c \in Conn, NEW h \in Handle, ClaimRequest(c, h)
    PROVE  TypeOK' /\ LeaseStep /\ RequestsGrounded'
<1> USE DEF LeaseInv
<1>1. request' \in [Conn -> Request]
  BY IdleType DEF TypeOK, ClaimRequest, Request, Stage, PhaseAt, Idle
<1>2. TypeOK'
  BY <1>1, SpentType DEF TypeOK, ClaimRequest, processVars
<1>3. LeaseStep
  BY DEF LeaseStep, Quiet, ClaimRequest, processVars
<1>4. RequestsGrounded'
  <2>1. Grounded(c)'
    BY NoneAssumption DEF Grounded, ClaimRequest, processVars, TypeOK, Idle, TrackedAtHome, PhaseAt
  <2>2. \A d \in Conn \ {c} : Grounded(d)'
    BY GroundedKept DEF RequestsGrounded, ClaimRequest, processVars, TypeOK
  <2> QED
    BY <2>1, <2>2 DEF RequestsGrounded
<1> QED
  BY <1>2, <1>3, <1>4

LEMMA ClaimAdmitStep ==
    ASSUME LeaseInv, NEW c \in Conn, ClaimAdmit(c)
    PROVE  TypeOK' /\ LeaseStep /\ RequestsGrounded'
<1> USE DEF LeaseInv
<1>1. request' \in [Conn -> Request]
  BY IdleType DEF TypeOK, ClaimAdmit, Request, Stage, RequestsGrounded
<1>2. TypeOK'
  BY <1>1, SpentType DEF TypeOK, ClaimAdmit, processVars, PoolHolder
<1>3. LeaseStep
  BY HolderAssumption, NoneAssumption DEF LeaseStep, Quiet, ClaimAdmit, processVars
<1>4. RequestsGrounded'
  <2>1. Grounded(c)'
    <3> DEFINE r == request[c].runtime
               h == sessionHandle[r]
    <3>1. request[c] \in Request /\ r # None /\ h # None
      BY DEF RequestsGrounded, Grounded, ClaimAdmit, TypeOK
    <3>2. CASE request' = [request EXCEPT ![c] = Idle]
      BY <3>2 DEF Grounded, TypeOK, Idle
    <3>3. CASE /\ runtimes[h] = r /\ pool' = c
               /\ request' = [request EXCEPT ![c].stage = "claimAdmitted", ![c].handle = h]
      <4>1. /\ request'[c].stage = "claimAdmitted" /\ request'[c].handle = h
            /\ request'[c].runtime = r
        BY <3>1, <3>3 DEF TypeOK, Request
      <4> QED
        BY <3>1, <3>3, <4>1 DEF Grounded, ClaimAdmit, processVars
    <3> QED
      BY <3>2, <3>3 DEF ClaimAdmit
  <2>2. \A d \in Conn \ {c} : Grounded(d)'
    BY GroundedKept, NoneAssumption DEF RequestsGrounded, ClaimAdmit, processVars, TypeOK
  <2> QED
    BY <2>1, <2>2 DEF RequestsGrounded
<1> QED
  BY <1>2, <1>3, <1>4

\* Writing back the entry that is there, or an unowned one.
LEMMA EntryKept ==
    ASSUME TypeOK, NEW h \in Handle, NEW e \in LeaseState,
           e.owner # None => leases[h] = e,
           leases' = [leases EXCEPT ![h] = e]
    PROVE  Quiet /\ leases' \in [Handle -> LeaseState \union {None}]
  BY DEF TypeOK, Quiet, Owned

\* Writing the outcome of a grant, which an exhausted revision refuses.
LEMMA EntryGranted ==
    ASSUME TypeOK, NEW h \in Handle, NEW c \in Conn, NEW e \in LeaseState,
           e.owner \in {[connectionId |-> c, fencingToken |-> nextToken], None},
           runtimes[h] # None, LiveOwner(h) # None => LiveOwner(h).connectionId # c,
           e.generation = generation[runtimes[h]],
           leases' = [leases EXCEPT ![h] = e],
           nextToken' = nextToken + 1, pool = c, pool' = None
    PROVE  /\ Quiet \/ Granted1(h, c)
           /\ leases' \in [Handle -> LeaseState \union {None}]
<1>1. /\ leases \in [Handle -> LeaseState \union {None}]
      /\ leases' \in [Handle -> LeaseState \union {None}]
      /\ leases'[h] = e
      /\ \A k \in Handle \ {h} : leases'[k] = leases[k]
  BY DEF TypeOK
<1>2. CASE e.owner = None
  BY <1>1, <1>2 DEF Quiet, Owned
<1>3. CASE e.owner # None
  BY <1>1, <1>3, NoneAssumption DEF Granted1
<1> QED
  BY <1>1, <1>2, <1>3

LEMMA GrantedType ==
    ASSUME NEW q \in Request, q.handle # None, NEW t \in Nat
    PROVE  /\ Granted(q, t) \in Request
           /\ Granted(q, t).stage = "granted"
           /\ Granted(q, t).handle = q.handle
           /\ Granted(q, t).token = t
  BY DEF Granted, Idle, Request, Stage, Token

\* A request that settles to idle or granted needs nothing of the pool lock.
Settled(q) ==
    /\ q \in Request
    /\ \/ q.stage = "idle"
       \/ q.stage = "granted" /\ q.handle # None /\ q.token # None

LEMMA RequestSettles ==
    ASSUME TypeOK, RequestsGrounded, NEW c \in Conn, NEW q, Settled(q),
           request' = [request EXCEPT ![c] = q],
           UNCHANGED <<runtimes, sessionHandle>>, pool = c \/ pool' = pool
    PROVE  request' \in [Conn -> Request] /\ RequestsGrounded'
<1>1. request \in [Conn -> Request] /\ request'[c] = q
  BY DEF TypeOK
<1>2. request' \in [Conn -> Request]
  BY <1>1 DEF Settled
<1>3. Grounded(c)'
  BY <1>1 DEF Grounded, Settled
<1>4. \A d \in Conn \ {c} : Grounded(d)'
  BY <1>1, GroundedKept DEF RequestsGrounded
<1> QED
  BY <1>2, <1>3, <1>4 DEF RequestsGrounded

LEMMA IdleSettled == Settled(Idle)
<1>1. Idle.stage = "idle"
  BY DEF Idle
<1> QED
  BY <1>1, IdleType DEF Settled

LEMMA GrantedSettled ==
    ASSUME NEW q \in Request, q.handle # None, NEW t \in Nat, None \notin Nat
    PROVE  Settled(Granted(q, t))
  BY GrantedType DEF Settled

LEMMA ClaimCommitStep ==
    ASSUME LeaseInv, NEW c \in Conn, ClaimCommit(c)
    PROVE  TypeOK' /\ LeaseStep /\ RequestsGrounded'
<1> USE DEF LeaseInv
<1> DEFINE r == request[c].runtime
           h == request[c].handle
           state == LeaseStateFor(h, generation[r])
           owner == [connectionId |-> c, fencingToken |-> nextToken]
<1>1. /\ pool = c /\ h \in Handle /\ r \in Runtime /\ runtimes[h] = r /\ r # None
      /\ request[c] \in Request
  BY DEF RequestsGrounded, Grounded, ClaimCommit, TypeOK, Request
<1>2. /\ generation[r] \in Nat
      /\ state \in LeaseState
      /\ state.generation = generation[r]
      /\ state.owner # None => leases[h] # None /\ state = leases[h]
  BY <1>1, StateFacts DEF TypeOK
<1>3. owner \in Owner
  BY NewOwnerType DEF TypeOK
<1>4. /\ CommitLeaseTransition(state, owner) \in LeaseState
      /\ CommitLeaseTransition(state, owner).generation = state.generation
      /\ CommitLeaseTransition(state, owner).owner \in {owner, None}
  BY <1>2, <1>3, CommitFacts
<1>5. nextToken \in Nat /\ leases \in [Handle -> LeaseState \union {None}]
  BY DEF TypeOK
<1> HIDE DEF state, owner
<1>6. /\ pool' = None /\ UNCHANGED <<processVars, deleting, closed, swept>>
      /\ spent' \subseteq Token
  BY SpentType DEF ClaimCommit
<1>7. CASE /\ state.terminal \/ state.owner # None
           /\ leases' = [leases EXCEPT ![h] = state]
           /\ request' = [request EXCEPT ![c] =
                IF ~state.terminal /\ state.owner.connectionId = c
                THEN Granted(@, state.owner.fencingToken) ELSE Idle]
           /\ UNCHANGED nextToken
  <2> DEFINE q == IF ~state.terminal /\ state.owner.connectionId = c
                  THEN Granted(request[c], state.owner.fencingToken) ELSE Idle
  <2>1. Settled(q)
    <3>1. CASE state.owner = None \/ state.terminal
      BY <3>1, <1>7, IdleSettled
    <3>2. CASE state.owner # None
      <4>1. state.owner.fencingToken \in Nat
        BY <3>2, <1>2 DEF LeaseState, Owner, Token
      <4> QED
        BY <4>1, <1>1, IdleSettled, GrantedSettled, NoneAssumption
    <3> QED
      BY <3>1, <3>2
  <2>2. request' \in [Conn -> Request] /\ RequestsGrounded'
    BY <1>1, <1>6, <1>7, <2>1, RequestSettles DEF processVars
  <2>3. Quiet /\ leases' \in [Handle -> LeaseState \union {None}]
    BY <1>1, <1>2, <1>7, EntryKept
  <2>4. TypeOK'
    BY <1>6, <1>7, <2>2, <2>3 DEF TypeOK, PoolHolder, processVars
  <2>5. LeaseStep
    BY <1>1, <1>6, <1>7, <2>3, HolderAssumption, NoneAssumption DEF LeaseStep, processVars
  <2> QED
    BY <2>2, <2>4, <2>5
<1>8. CASE /\ ~state.terminal /\ state.owner = None
           /\ nextToken' = nextToken + 1
           /\ leases' = [leases EXCEPT ![h] = CommitLeaseTransition(state, owner)]
           /\ request' = [request EXCEPT ![c] =
                IF state.revision >= MaxRevision THEN Idle
                ELSE Granted(@, nextToken)]
  <2> DEFINE q == IF state.revision >= MaxRevision THEN Idle
                  ELSE Granted(request[c], nextToken)
  <2>1. Settled(q)
    BY <1>1, <1>5, IdleSettled, GrantedSettled, NoneAssumption
  <2>2. request' \in [Conn -> Request] /\ RequestsGrounded'
    BY <1>1, <1>6, <1>8, <2>1, RequestSettles DEF processVars
  <2>0. LiveOwner(h) # None => state.owner = LiveOwner(h)
    BY <1>1, LiveOwnerFacts DEF state, LeaseStateFor, Owned
  <2>3. /\ Quiet \/ Granted1(h, c)
        /\ leases' \in [Handle -> LeaseState \union {None}]
    BY <1>1, <1>2, <1>4, <1>6, <1>8, <2>0, EntryGranted DEF owner
  <2>4. TypeOK'
    BY <1>5, <1>6, <1>8, <2>2, <2>3 DEF TypeOK, PoolHolder, processVars
  <2>5. LeaseStep
    BY <1>1, <1>6, <1>8, <2>3, HolderAssumption, NoneAssumption DEF LeaseStep, processVars
  <2> QED
    BY <2>2, <2>4, <2>5
<1> QED
  BY <1>7, <1>8 DEF ClaimCommit, state, owner

LEMMA TakeoverRequestStep ==
    ASSUME LeaseInv, NEW c \in Conn, NEW h \in Handle, TakeoverRequest(c, h)
    PROVE  TypeOK' /\ LeaseStep /\ RequestsGrounded'
<1> USE DEF LeaseInv
<1>1. /\ runtimes[h] # None /\ leases[h] # None /\ LiveOwner(h) = leases[h].owner
      /\ LiveOwner(h) # None
  BY LiveOwnerFacts DEF TakeoverRequest, Owned
<1>2. /\ leases[h].generation \in Nat /\ leases[h].revision \in Nat
      /\ LiveOwner(h) \in Owner /\ runtimes[h] \in Runtime
  BY <1>1 DEF TypeOK, LeaseState
<1> DEFINE q == [Idle EXCEPT !.stage = "takingOver", !.runtime = runtimes[h], !.handle = h,
                   !.generation = leases[h].generation, !.revision = leases[h].revision,
                   !.observed = LiveOwner(h), !.wanted = TRUE]
<1>3. q \in Request /\ q.stage = "takingOver" /\ q.handle = h
  BY <1>2 DEF Idle, Request, Stage
<1>4. request' = [request EXCEPT ![c] = q] /\ request \in [Conn -> Request]
  BY DEF TakeoverRequest, TypeOK
<1> HIDE DEF q
<1>5. TypeOK'
  BY <1>3, <1>4, SpentType DEF TypeOK, TakeoverRequest, processVars
<1>6. LeaseStep
  BY DEF LeaseStep, Quiet, TakeoverRequest, processVars
<1>7. Grounded(c)'
  BY <1>3, <1>4, NoneAssumption DEF Grounded
<1>8. \A d \in Conn \ {c} : Grounded(d)'
  BY <1>4, GroundedKept DEF RequestsGrounded, TakeoverRequest, processVars
<1> QED
  BY <1>5, <1>6, <1>7, <1>8 DEF RequestsGrounded

LEMMA TakeoverAdmitStep ==
    ASSUME LeaseInv, NEW c \in Conn, TakeoverAdmit(c)
    PROVE  TypeOK' /\ LeaseStep /\ RequestsGrounded'
<1> USE DEF LeaseInv
<1>1. /\ request \in [Conn -> Request] /\ request[c] \in Request
      /\ request[c].stage = "takingOver" /\ request[c].handle # None
  BY DEF RequestsGrounded, Grounded, TakeoverAdmit, TypeOK
<1>2. /\ pool = None /\ UNCHANGED <<processVars, leases, deleting, closed, swept, nextToken>>
      /\ spent' \subseteq Token
  BY SpentType DEF TakeoverAdmit
<1>3. CASE pool' = pool /\ request' = [request EXCEPT ![c] = Idle]
  <2>1. request' \in [Conn -> Request] /\ RequestsGrounded'
    BY <1>2, <1>3, IdleSettled, RequestSettles DEF processVars
  <2> QED
    BY <1>2, <1>3, <2>1 DEF TypeOK, LeaseStep, Quiet, processVars
<1>4. CASE /\ TakeoverAdmissible(request[c]) /\ pool' = c
           /\ request' = [request EXCEPT ![c].stage = "takeoverAdmitted"]
  <2>1. /\ request'[c] \in Request /\ request'[c].stage = "takeoverAdmitted"
        /\ request'[c].handle = request[c].handle
        /\ request' = [request EXCEPT ![c] = request'[c]]
    BY <1>1, <1>4 DEF Request, Stage
  <2>2. runtimes[request[c].handle] # None
    BY <1>4 DEF TakeoverAdmissible, PhaseAt
  <2>3. TypeOK'
    BY <1>1, <1>2, <1>4, <2>1 DEF TypeOK, PoolHolder, processVars
  <2>4. LeaseStep
    BY <1>2, <1>4, HolderAssumption, NoneAssumption DEF LeaseStep, Quiet, processVars
  <2>5. Grounded(c)'
    BY <1>1, <1>2, <1>4, <2>1, <2>2 DEF Grounded, processVars
  <2>6. \A d \in Conn \ {c} : Grounded(d)'
    BY <1>1, <1>2, <1>4, <2>1, GroundedKept, NoneAssumption DEF RequestsGrounded, processVars
  <2> QED
    BY <2>3, <2>4, <2>5, <2>6 DEF RequestsGrounded
<1> QED
  BY <1>3, <1>4 DEF TakeoverAdmit

LEMMA TakeoverCommitStep ==
    ASSUME LeaseInv, NEW c \in Conn, TakeoverCommit(c)
    PROVE  TypeOK' /\ LeaseStep /\ RequestsGrounded'
<1> USE DEF LeaseInv
<1> DEFINE q == request[c]
           h == q.handle
           state == LeaseStateFor(h, generation[runtimes[h]])
           owner == [connectionId |-> c, fencingToken |-> nextToken]
<1>1. /\ pool = c /\ h \in Handle /\ h # None /\ runtimes[h] \in Runtime /\ runtimes[h] # None
      /\ q \in Request
  BY DEF RequestsGrounded, Grounded, TakeoverCommit, TypeOK, Request
<1>2. /\ generation[runtimes[h]] \in Nat
      /\ state \in LeaseState
      /\ state.generation = generation[runtimes[h]]
      /\ state.owner # None => leases[h] # None /\ state = leases[h]
  BY <1>1, StateFacts DEF TypeOK
<1>3. owner \in Owner
  BY NewOwnerType DEF TypeOK
<1>4. /\ CommitLeaseTransition(state, owner) \in LeaseState
      /\ CommitLeaseTransition(state, owner).generation = state.generation
      /\ CommitLeaseTransition(state, owner).owner \in {owner, None}
  BY <1>2, <1>3, CommitFacts
<1>5. nextToken \in Nat /\ leases \in [Handle -> LeaseState \union {None}]
  BY DEF TypeOK
<1> HIDE DEF state, owner
<1>6. /\ pool' = None /\ UNCHANGED <<processVars, deleting, closed, swept>>
      /\ spent' \subseteq Token
  BY SpentType DEF TakeoverCommit
<1>7. CASE /\ leases' = [leases EXCEPT ![h] = state]
           /\ request' = [request EXCEPT ![c] = Idle]
           /\ UNCHANGED nextToken
  <2>1. request' \in [Conn -> Request] /\ RequestsGrounded'
    BY <1>1, <1>6, <1>7, IdleSettled, RequestSettles DEF processVars
  <2>2. Quiet /\ leases' \in [Handle -> LeaseState \union {None}]
    BY <1>1, <1>2, <1>7, EntryKept
  <2>3. TypeOK'
    BY <1>6, <1>7, <2>1, <2>2 DEF TypeOK, PoolHolder, processVars
  <2>4. LeaseStep
    BY <1>1, <1>6, <1>7, <2>2, HolderAssumption, NoneAssumption DEF LeaseStep, processVars
  <2> QED
    BY <2>1, <2>3, <2>4
<1>8. CASE /\ Takeable(state, q, c)
           /\ nextToken' = nextToken + 1
           /\ leases' = [leases EXCEPT ![h] = CommitLeaseTransition(state, owner)]
           /\ request' = [request EXCEPT ![c] =
                IF state.revision >= MaxRevision THEN Idle
                ELSE Granted(@, nextToken)]
  <2> DEFINE new == IF state.revision >= MaxRevision THEN Idle
                    ELSE Granted(request[c], nextToken)
  <2>1. Settled(new)
    BY <1>1, <1>5, IdleSettled, GrantedSettled, NoneAssumption
  <2>2. request' \in [Conn -> Request] /\ RequestsGrounded'
    BY <1>1, <1>6, <1>8, <2>1, RequestSettles DEF processVars
  <2>0. LiveOwner(h) # None => state.owner = LiveOwner(h)
    BY <1>1, LiveOwnerFacts DEF state, LeaseStateFor, Owned
  <2>3. /\ Quiet \/ Granted1(h, c)
        /\ leases' \in [Handle -> LeaseState \union {None}]
    BY <1>1, <1>2, <1>4, <1>6, <1>8, <2>0, EntryGranted DEF owner, Takeable
  <2>4. TypeOK'
    BY <1>5, <1>6, <1>8, <2>2, <2>3 DEF TypeOK, PoolHolder, processVars
  <2>5. LeaseStep
    BY <1>1, <1>6, <1>8, <2>3, HolderAssumption, NoneAssumption DEF LeaseStep, processVars
  <2> QED
    BY <2>2, <2>4, <2>5
<1> QED
  BY <1>7, <1>8 DEF TakeoverCommit, state, owner

\* A step that moves no request and keeps the pool lock where it is.
LEMMA RequestsKept ==
    ASSUME TypeOK, RequestsGrounded,
           UNCHANGED <<request, runtimes, sessionHandle>>,
           pool' = pool \/ pool \notin Conn
    PROVE  RequestsGrounded'
<1> SUFFICES ASSUME NEW d \in Conn PROVE Grounded(d)'
  BY DEF RequestsGrounded
<1> QED
  BY GroundedKept DEF RequestsGrounded

\* Withdrawing a request changes nothing that its next step relies on.
LEMMA WithdrawnKept ==
    ASSUME TypeOK, RequestsGrounded, NEW c \in Conn, NEW w \in BOOLEAN,
           request' = [request EXCEPT ![c].wanted = w],
           UNCHANGED <<runtimes, sessionHandle, pool>>
    PROVE  request' \in [Conn -> Request] /\ RequestsGrounded'
<1>1. request \in [Conn -> Request]
  BY DEF TypeOK
<1>2. /\ request'[c] \in Request
      /\ request'[c].stage = request[c].stage /\ request'[c].handle = request[c].handle
      /\ request'[c].runtime = request[c].runtime /\ request'[c].token = request[c].token
  BY <1>1 DEF Request
<1>3. Grounded(c)'
  BY <1>2 DEF RequestsGrounded, Grounded
<1>4. \A d \in Conn \ {c} : Grounded(d)'
  BY <1>1, GroundedKept DEF RequestsGrounded
<1>5. request' \in [Conn -> Request]
  BY <1>1, <1>2
<1> QED
  BY <1>3, <1>4, <1>5 DEF RequestsGrounded

LEMMA ContinueStep ==
    ASSUME LeaseInv, NEW c \in Conn, Continue(c)
    PROVE  TypeOK' /\ LeaseStep /\ RequestsGrounded'
<1> USE DEF LeaseInv
<1> DEFINE h == request[c].handle
           t == request[c].token
<1>1. h \in Handle /\ t \in Nat
  BY DEF RequestsGrounded, Grounded, Continue, TypeOK, Request, Token
<1>2. /\ leases' \in [Handle -> LeaseState \union {None}]
      /\ \A k \in Handle : leases'[k] = leases[k] \/ leases'[k].owner = None
  <2>1. CASE leases' = leases
    BY <2>1 DEF TypeOK
  <2>2. CASE leases' = ReleaseByToken(c, h, t)
    BY <2>2, <1>1, ReleaseFacts
  <2> QED
    BY <2>1, <2>2 DEF Continue
<1>3. request' \in [Conn -> Request] /\ RequestsGrounded'
  BY IdleSettled, RequestSettles DEF Continue, processVars
<1>4. TypeOK'
  BY <1>2, <1>3, SpentType DEF TypeOK, Continue, processVars
<1>5. LeaseStep
  BY <1>2 DEF LeaseStep, Quiet, Owned, Continue, processVars
<1> QED
  BY <1>3, <1>4, <1>5

LEMMA ReleaseStep ==
    ASSUME LeaseInv, NEW c \in Conn, NEW h \in Handle,
           Release(c, h) \/ Unsubscribe(c, h)
    PROVE  TypeOK' /\ LeaseStep /\ RequestsGrounded'
<1> USE DEF LeaseInv
<1>1. /\ leases' = ReleaseByConnection(c, h) /\ spent' \subseteq Token
      /\ UNCHANGED <<processVars, deleting, pool, closed, swept, nextToken>>
  BY SpentType DEF Release, Unsubscribe
<1>2. /\ leases' \in [Handle -> LeaseState \union {None}]
      /\ \A k \in Handle : leases'[k] = leases[k] \/ leases'[k].owner = None
  BY <1>1, ReleaseFacts
<1>3. PICK w \in BOOLEAN : request' = [request EXCEPT ![c].wanted = w]
  <2>1. request[c].wanted \in BOOLEAN
    BY DEF TypeOK, Request
  <2> QED
    BY <2>1 DEF Release, Unsubscribe
<1>4. request' \in [Conn -> Request] /\ RequestsGrounded'
  BY <1>1, <1>3, WithdrawnKept DEF processVars
<1>5. TypeOK'
  BY <1>1, <1>2, <1>4 DEF TypeOK, processVars
<1>6. LeaseStep
  BY <1>1, <1>2 DEF LeaseStep, Quiet, Owned, processVars
<1> QED
  BY <1>4, <1>5, <1>6

LEMMA DisconnectStep ==
    ASSUME LeaseInv, NEW c \in Conn, Disconnect(c)
    PROVE  TypeOK' /\ LeaseStep /\ RequestsGrounded'
<1> USE DEF LeaseInv
<1>1. TypeOK'
  BY SpentType DEF TypeOK, Disconnect, processVars
<1>2. LeaseStep
  BY DEF LeaseStep, Quiet, Disconnect, processVars
<1>3. RequestsGrounded'
  BY RequestsKept DEF Disconnect, processVars
<1> QED
  BY <1>1, <1>2, <1>3

LEMMA SweepStep ==
    ASSUME LeaseInv, NEW c \in Conn, Sweep(c)
    PROVE  TypeOK' /\ LeaseStep /\ RequestsGrounded'
<1> USE DEF LeaseInv
<1>1. /\ c \in closed /\ swept' = swept \union {c} /\ spent' \subseteq Token
      /\ UNCHANGED <<processVars, deleting, pool, request, closed, nextToken>>
  BY SpentType DEF Sweep, Cleanable
<1>2. \A h \in OwnedBy(c) : leases[h] \in LeaseState
  BY DEF OwnedBy, TypeOK
<1>3. \A h \in OwnedBy(c) :
        /\ Advanced(leases[h], None) \in LeaseState /\ Advanced(leases[h], None).owner = None
        /\ Exhausted(leases[h]) \in LeaseState /\ Exhausted(leases[h]).owner = None
  BY <1>2 DEF Advanced, Exhausted, LeaseState
<1>4. \A h \in Handle : \/ leases'[h] = leases[h]
                        \/ h \in OwnedBy(c) /\ leases'[h] \in {Advanced(leases[h], None), Exhausted(leases[h])}
  BY DEF Sweep
<1>5. leases' \in [Handle -> LeaseState \union {None}]
  <2>1. leases' = [h \in Handle |-> leases'[h]]
    BY DEF Sweep
  <2>2. \A h \in Handle : leases'[h] \in LeaseState \union {None}
    BY <1>3, <1>4 DEF TypeOK
  <2> QED
    BY <2>1, <2>2
<1>6. Quiet
  BY <1>3, <1>4 DEF Quiet, Owned
<1>7. TypeOK'
  BY <1>1, <1>5 DEF TypeOK, processVars
<1>8. LeaseStep
  BY <1>1, <1>6 DEF LeaseStep, processVars
<1>9. RequestsGrounded'
  BY <1>1, RequestsKept DEF processVars
<1> QED
  BY <1>7, <1>8, <1>9

LEMMA PhaseStep ==
    ASSUME LeaseInv, NEW h \in Handle,
           Crash(h) \/ Evict(h) \/ ReserveDeletion(h) \/ AbortDeletion(h)
    PROVE  TypeOK' /\ LeaseStep /\ RequestsGrounded'
<1> USE DEF LeaseInv
<1>1. /\ phase' \in [Runtime -> Phase]
      /\ \A r \in Runtime : phase'[r] = "unborn" => phase[r] = "unborn"
  BY DEF Crash, Evict, ReserveDeletion, AbortDeletion, TypeOK, Phase, processVars
<1>2. /\ UNCHANGED <<runtimes, sessionHandle, generation, leases, pool, request,
                     closed, swept, nextToken>>
      /\ deleting' \subseteq Handle /\ spent' \subseteq Token
  BY SpentType DEF Crash, Evict, ReserveDeletion, AbortDeletion, TypeOK, processVars, connVars
<1>3. TypeOK'
  BY <1>1, <1>2 DEF TypeOK
<1>4. LeaseStep
  BY <1>1, <1>2 DEF LeaseStep, Quiet
<1>5. RequestsGrounded'
  BY <1>2, RequestsKept
<1> QED
  BY <1>3, <1>4, <1>5

LEMMA ReconcileStep ==
    ASSUME LeaseInv, NEW h \in Handle, Reconcile(h)
    PROVE  TypeOK' /\ LeaseStep /\ RequestsGrounded'
<1> USE DEF LeaseInv
<1> DEFINE e == LeaseStateFor(h, generation[runtimes[h]])
<1>1. /\ e \in LeaseState
      /\ e.owner # None => leases[h] = e
      /\ leases' = [leases EXCEPT ![h] = e]
  BY StateFacts DEF Reconcile, TypeOK
<1> HIDE DEF e
<1>2. Quiet /\ leases' \in [Handle -> LeaseState \union {None}]
  BY <1>1, EntryKept
<1>3. TypeOK'
  BY <1>2, SpentType DEF TypeOK, Reconcile, processVars, connVars
<1>4. LeaseStep
  BY <1>2 DEF LeaseStep, Reconcile, processVars
<1>5. RequestsGrounded'
  BY RequestsKept DEF Reconcile, processVars, connVars
<1> QED
  BY <1>3, <1>4, <1>5

\* The actor half of a rekey moves no owner: the child is of a later generation.
LEMMA RekeyLeaseStep ==
    ASSUME LeaseInv, RekeyLease \/ ForgetLease
    PROVE  TypeOK' /\ LeaseStep /\ RequestsGrounded'
<1> USE DEF LeaseInv
<1>1. /\ pool \in Rekeying /\ pool.from \in Handle /\ pool \notin Conn /\ pool' = None
      /\ pool' \notin Rekeying
  BY HolderAssumption, NoneAssumption DEF RekeyLease, ForgetLease, Rekeying
<1>2. /\ UNCHANGED <<processVars, deleting, connVars, nextToken>>
      /\ spent' \subseteq Token
  BY SpentType DEF RekeyLease, ForgetLease
<1>3. /\ leases' \in [Handle -> LeaseState \union {None}]
      /\ Quiet
      /\ \A h \in Handle : h = pool.from => ~Owned(h)'
  <2>1. CASE leases' = [leases EXCEPT ![pool.from] = None]
    BY <1>1, <2>1 DEF TypeOK, Quiet, Owned
  <2>2. CASE /\ pool.to # None
             /\ leases' = [leases EXCEPT ![pool.from] = None,
                  ![pool.to] = Rekeyed(leases[pool.from], generation[pool.runtime])]
    <3> DEFINE old == leases[pool.from]
               g == generation[pool.runtime]
    <3>1. /\ pool.to \in Handle /\ pool.runtime \in Runtime /\ g \in Nat
          /\ old # None => old \in LeaseState
      BY <1>1, <2>2 DEF RekeyInProgress, Rekeying, TypeOK
    <3>2. Owned(pool.from) => old.generation # g
      BY <1>1, <2>2, <3>1 DEF RekeyInProgress, TypeOK, LeaseState, Owned
    <3>3. Rekeyed(old, g) \in LeaseState /\ Rekeyed(old, g).owner = None
      BY <3>1, <3>2 DEF Rekeyed, Fresh, LeaseState, Owned
    <3> QED
      BY <1>1, <2>2, <3>1, <3>3 DEF TypeOK, Quiet, Owned
  <2> QED
    BY <2>1, <2>2 DEF RekeyLease, ForgetLease
<1>4. TypeOK'
  BY <1>1, <1>2, <1>3 DEF TypeOK, PoolHolder, processVars, connVars
<1>5. LeaseStep
  BY <1>1, <1>2, <1>3 DEF LeaseStep, processVars
<1>6. RequestsGrounded'
  BY <1>1, <1>2, RequestsKept DEF processVars, connVars
<1> QED
  BY <1>4, <1>5, <1>6

-----------------------------------------------------------------------------
(* Steps that move processes and identities leave the lease table alone.   *)

\* The owned entry of a tracked Session is current after the step only if its
\* runtime and generation are those of before: nothing is accepted anew.
Ungranted ==
    /\ UNCHANGED <<leases, nextToken, request, closed, swept>>
    /\ \A h \in Handle :
         /\ runtimes'[h] # None /\ Owned(h)
         /\ leases[h].generation = generation'[runtimes'[h]]
         => /\ runtimes'[h] = runtimes[h]
            /\ generation'[runtimes[h]] = generation[runtimes[h]]

LEMMA UngrantedKeeps ==
    ASSUME LeaseInv, Fence, Ungranted
    PROVE  /\ TokensDrawn' /\ GrantsDistinct' /\ SpentStaysSpent'
           /\ spent' \subseteq Token
<1> USE DEF LeaseInv
<1>1. \A h \in Handle : LiveOwner(h)' # None => LiveOwner(h)' = LiveOwner(h)
  BY DEF Ungranted, LiveOwner, LeaseOwnerFor, Owned
<1>2. SpentStaysSpent' /\ \A t \in spent' : t < nextToken'
  BY <1>1, HistoryKept DEF Ungranted
<1> QED
  BY <1>2, SpentType DEF Ungranted, TokensDrawn, GrantsDistinct, Owned

\* Nobody holds the pool lock across the actor when a process step takes it.
LEMMA RequestsUnadmitted ==
    ASSUME TypeOK, RequestsGrounded, pool = None, UNCHANGED request,
           \A r \in Runtime : sessionHandle[r] # None => sessionHandle'[r] # None
    PROVE  RequestsGrounded'
<1> SUFFICES ASSUME NEW d \in Conn PROVE Grounded(d)'
  BY DEF RequestsGrounded
<1> QED
  BY NoneAssumption DEF RequestsGrounded, Grounded, TypeOK, Request

LEMMA TrackStep ==
    ASSUME LeaseInv, NEW h \in Handle, NEW r \in Runtime, Track(h, r)
    PROVE  LeaseInv' /\ Ungranted
<1> USE DEF LeaseInv
<1>1. /\ pool = None /\ pool' = None /\ runtimes[h] = None /\ phase[r] = "unborn"
      /\ runtimes' = [runtimes EXCEPT ![h] = r]
      /\ sessionHandle' = [sessionHandle EXCEPT ![r] = h]
      /\ generation' = [generation EXCEPT ![r] = 1]
      /\ phase' = [phase EXCEPT ![r] = "running"]
      /\ UNCHANGED <<leases, deleting, request, closed, swept, nextToken>>
      /\ None \notin Rekeying /\ None \notin Handle /\ None \notin Runtime
  BY NoneAssumption DEF Track, connVars
<1>2. ~Owned(h) /\ \A k \in Handle : runtimes[k] # r
  BY <1>1 DEF UntrackedUnowned, TrackedAtHome
<1>3. Ungranted
  BY <1>1, <1>2 DEF Ungranted, TypeOK
<1>4. TokensDrawn' /\ GrantsDistinct' /\ SpentStaysSpent' /\ spent' \subseteq Token
  BY <1>3, UngrantedKeeps DEF Track
<1>5. TypeOK'
  BY <1>1, <1>4 DEF TypeOK, Phase
<1>6. TrackedAtHome'
  BY <1>1, <1>2 DEF TrackedAtHome, TypeOK
<1>7. UntrackedUnowned' /\ OwnersNotAhead'
  BY <1>1, <1>2 DEF UntrackedUnowned, OwnersNotAhead, Owned, TypeOK
<1>8. RekeyInProgress'
  BY <1>1 DEF RekeyInProgress
<1>9. RequestsGrounded'
  BY <1>1, RequestsUnadmitted DEF TypeOK
<1> QED
  BY <1>3, <1>4, <1>5, <1>6, <1>7, <1>8, <1>9

LEMMA RespawnStep ==
    ASSUME LeaseInv, NEW h \in Handle, Respawn(h)
    PROVE  LeaseInv' /\ Ungranted
<1> USE DEF LeaseInv
<1> DEFINE r == runtimes[h]
<1>1. /\ r \in Runtime /\ r # None
      /\ generation' = [generation EXCEPT ![r] = @ + 1]
      /\ phase' = [phase EXCEPT ![r] = "running"]
      /\ UNCHANGED <<runtimes, sessionHandle, leases, deleting, pool, request,
                     closed, swept, nextToken>>
  BY DEF Respawn, PhaseAt, TypeOK, connVars
<1>2. \A k \in Handle : runtimes[k] = r => k = h
  BY <1>1 DEF TrackedAtHome
<1>3. /\ generation \in [Runtime -> Nat] /\ generation' \in [Runtime -> Nat]
      /\ generation'[r] = generation[r] + 1
      /\ \A x \in Runtime : generation[x] <= generation'[x]
  BY <1>1 DEF TypeOK
<1>4. Owned(h) => leases[h].generation \in Nat /\ leases[h].generation < generation'[r]
  BY <1>1, <1>3 DEF OwnersNotAhead, Owned, TypeOK, LeaseState
<1>5. Ungranted
  BY <1>1, <1>2, <1>3, <1>4 DEF Ungranted, TypeOK
<1>6. TokensDrawn' /\ GrantsDistinct' /\ SpentStaysSpent' /\ spent' \subseteq Token
  BY <1>5, UngrantedKeeps DEF Respawn
<1>7. TypeOK'
  BY <1>1, <1>3, <1>6 DEF TypeOK, Phase
<1>8. TrackedAtHome' /\ UntrackedUnowned'
  BY <1>1 DEF TrackedAtHome, UntrackedUnowned, Owned, TypeOK
<1>9. OwnersNotAhead'
  BY <1>1, <1>3 DEF OwnersNotAhead, Owned, TypeOK, LeaseState
<1>10. RekeyInProgress'
  BY <1>1, <1>3 DEF RekeyInProgress, Rekeying, Owned, TypeOK, LeaseState
<1>11. RequestsGrounded'
  BY <1>1, RequestsKept
<1> QED
  BY <1>5, <1>6, <1>7, <1>8, <1>9, <1>10, <1>11

LEMMA RestartStep ==
    ASSUME LeaseInv, NEW c \in Conn, NEW h \in Handle, NEW r \in Runtime, Restart(c, h, r)
    PROVE  LeaseInv' /\ Ungranted
<1> USE DEF LeaseInv
<1> DEFINE old == runtimes[h]
<1>1. /\ old \in Runtime /\ old # None /\ pool = None /\ pool' = None
      /\ phase[r] = "unborn" \/ r = old
      /\ runtimes' = [runtimes EXCEPT ![h] = r]
      /\ sessionHandle' = [sessionHandle EXCEPT ![r] = h]
      /\ generation' = [generation EXCEPT ![r] = generation[old] + 1]
      /\ phase' = [phase EXCEPT ![old] = "dormant", ![r] = "running"]
      /\ UNCHANGED <<leases, deleting, request, closed, swept, nextToken>>
      /\ None \notin Rekeying /\ None \notin Handle /\ None \notin Runtime
  BY NoneAssumption DEF Restart, PhaseAt, TypeOK, connVars
<1>2. \A k \in Handle : runtimes[k] \in {r, old} => k = h
  BY <1>1 DEF TrackedAtHome
<1>3. /\ generation \in [Runtime -> Nat] /\ generation' \in [Runtime -> Nat]
      /\ generation'[r] = generation[old] + 1
      /\ \A x \in Runtime \ {r} : generation[x] = generation'[x]
      /\ runtimes'[h] = r /\ \A k \in Handle \ {h} : runtimes'[k] = runtimes[k]
  BY <1>1 DEF TypeOK
<1>4. Owned(h) => leases[h].generation \in Nat /\ leases[h].generation < generation'[r]
  BY <1>1, <1>3 DEF OwnersNotAhead, Owned, TypeOK, LeaseState
<1>5. Ungranted
  BY <1>1, <1>2, <1>3, <1>4 DEF Ungranted, TypeOK
<1>6. TokensDrawn' /\ GrantsDistinct' /\ SpentStaysSpent' /\ spent' \subseteq Token
  BY <1>5, UngrantedKeeps DEF Restart
<1>7. TypeOK'
  BY <1>1, <1>3, <1>6 DEF TypeOK, Phase
<1>8. TrackedAtHome'
  BY <1>1, <1>2, <1>3 DEF TrackedAtHome, TypeOK
<1>9. UntrackedUnowned'
  BY <1>1, <1>3 DEF UntrackedUnowned, Owned
<1>10. OwnersNotAhead'
  BY <1>1, <1>2, <1>3, <1>4 DEF OwnersNotAhead, Owned, TypeOK, LeaseState
<1>11. RekeyInProgress'
  BY <1>1 DEF RekeyInProgress
<1>12. RequestsGrounded'
  BY <1>1, RequestsUnadmitted DEF TypeOK
<1> QED
  BY <1>5, <1>6, <1>7, <1>8, <1>9, <1>10, <1>11, <1>12

LEMMA RekeyRuntimeStep ==
    ASSUME LeaseInv, NEW h \in Handle, NEW child \in Handle, RekeyRuntime(h, child)
    PROVE  LeaseInv' /\ Ungranted
<1> USE DEF LeaseInv
<1> DEFINE r == runtimes[h]
<1>1. /\ r \in Runtime /\ r # None /\ pool = None
      /\ h # child /\ runtimes[child] = None
      /\ generation' = [generation EXCEPT ![r] = @ + 1]
      /\ sessionHandle' = [sessionHandle EXCEPT ![r] = child]
      /\ runtimes' = [runtimes EXCEPT ![h] = None, ![child] = r]
      /\ pool' = [from |-> h, to |-> child, runtime |-> r]
      /\ UNCHANGED <<phase, leases, deleting, request, closed, swept, nextToken>>
      /\ None \notin Rekeying /\ None \notin Handle /\ None \notin Runtime
  BY NoneAssumption DEF RekeyRuntime, PhaseAt, TypeOK, connVars
<1>2. /\ ~Owned(child)
      /\ \A k \in Handle : runtimes[k] = r => k = h
  BY <1>1 DEF TrackedAtHome, UntrackedUnowned
<1>3. /\ generation \in [Runtime -> Nat] /\ generation' \in [Runtime -> Nat]
      /\ generation'[r] = generation[r] + 1
      /\ \A x \in Runtime \ {r} : generation[x] = generation'[x]
      /\ runtimes'[h] = None /\ runtimes'[child] = r
      /\ \A k \in Handle \ {h, child} : runtimes'[k] = runtimes[k]
  BY <1>1 DEF TypeOK
<1>4. Owned(h) => leases[h].generation \in Nat /\ leases[h].generation < generation'[r]
  BY <1>1, <1>3 DEF OwnersNotAhead, Owned, TypeOK, LeaseState
<1>5. Ungranted
  BY <1>1, <1>2, <1>3, <1>4 DEF Ungranted, TypeOK
<1>6. TokensDrawn' /\ GrantsDistinct' /\ SpentStaysSpent' /\ spent' \subseteq Token
  BY <1>5, UngrantedKeeps DEF RekeyRuntime
<1>7. /\ pool' \in Rekeying
      /\ pool'.from = h /\ pool'.to = child /\ pool'.runtime = r
  BY <1>1 DEF Rekeying
<1>8. TypeOK'
  BY <1>1, <1>3, <1>6, <1>7 DEF TypeOK, PoolHolder
<1>9. TrackedAtHome'
  BY <1>1, <1>2, <1>3 DEF TrackedAtHome, TypeOK
<1>10. UntrackedUnowned'
  BY <1>1, <1>3, <1>7 DEF UntrackedUnowned, Owned
<1>11. OwnersNotAhead'
  BY <1>1, <1>2, <1>3 DEF OwnersNotAhead, Owned, TypeOK
<1>12. RekeyInProgress'
  BY <1>1, <1>2, <1>3, <1>4, <1>7 DEF RekeyInProgress, Owned
<1>13. RequestsGrounded'
  BY <1>1, RequestsUnadmitted DEF TypeOK
<1> QED
  BY <1>5, <1>6, <1>8, <1>9, <1>10, <1>11, <1>12, <1>13

LEMMA FinishDeletionStep ==
    ASSUME LeaseInv, NEW h \in Handle, FinishDeletion(h)
    PROVE  LeaseInv' /\ Ungranted
<1> USE DEF LeaseInv
<1>1. /\ pool = None
      /\ runtimes' = [runtimes EXCEPT ![h] = None]
      /\ pool' = [from |-> h, to |-> None, runtime |-> None]
      /\ deleting' = deleting \ {h}
      /\ UNCHANGED <<sessionHandle, generation, phase, leases, request, closed, swept, nextToken>>
      /\ None \notin Rekeying
  BY NoneAssumption DEF FinishDeletion, connVars
<1>2. /\ runtimes'[h] = None /\ \A k \in Handle \ {h} : runtimes'[k] = runtimes[k]
      /\ pool' \in Rekeying /\ pool'.from = h /\ pool'.to = None
  BY <1>1 DEF TypeOK, Rekeying
<1>3. Ungranted
  BY <1>1, <1>2 DEF Ungranted
<1>4. TokensDrawn' /\ GrantsDistinct' /\ SpentStaysSpent' /\ spent' \subseteq Token
  BY <1>3, UngrantedKeeps DEF FinishDeletion
<1>5. TypeOK'
  BY <1>1, <1>2, <1>4 DEF TypeOK, PoolHolder
<1>6. TrackedAtHome' /\ UntrackedUnowned' /\ OwnersNotAhead'
  BY <1>1, <1>2 DEF TrackedAtHome, UntrackedUnowned, OwnersNotAhead, Owned
<1>7. RekeyInProgress'
  BY <1>2 DEF RekeyInProgress
<1>8. RequestsGrounded'
  BY <1>1, RequestsUnadmitted
<1> QED
  BY <1>3, <1>4, <1>5, <1>6, <1>7, <1>8

-----------------------------------------------------------------------------
(* The theorems. *)

\* Any step that leaves processes alone preserves the invariant.
LEMMA LeaseStepInvariant ==
    ASSUME LeaseInv, Fence, TypeOK', LeaseStep, RequestsGrounded'
    PROVE  LeaseInv'
  BY LeaseStepKeeps DEF LeaseInv

LEMMA ControlStepInvariant ==
    ASSUME LeaseInv, NEW c \in Conn, ControlStep(c)
    PROVE  LeaseInv' /\ (LeaseStep \/ Ungranted)
<1>1. CASE ClaimAdmit(c)
  BY <1>1, ClaimAdmitStep, LeaseStepInvariant DEF ClaimAdmit
<1>2. CASE ClaimCommit(c)
  BY <1>2, ClaimCommitStep, LeaseStepInvariant DEF ClaimCommit
<1>3. CASE TakeoverAdmit(c)
  BY <1>3, TakeoverAdmitStep, LeaseStepInvariant DEF TakeoverAdmit
<1>4. CASE TakeoverCommit(c)
  BY <1>4, TakeoverCommitStep, LeaseStepInvariant DEF TakeoverCommit
<1>5. CASE Continue(c)
  BY <1>5, ContinueStep, LeaseStepInvariant DEF Continue
<1>6. CASE Disconnect(c)
  BY <1>6, DisconnectStep, LeaseStepInvariant DEF Disconnect
<1>7. CASE Sweep(c)
  BY <1>7, SweepStep, LeaseStepInvariant DEF Sweep
<1>8. ASSUME NEW h \in Handle, ClaimRequest(c, h) PROVE LeaseInv' /\ (LeaseStep \/ Ungranted)
  BY <1>8, ClaimRequestStep, LeaseStepInvariant DEF ClaimRequest
<1>9. ASSUME NEW h \in Handle, TakeoverRequest(c, h) PROVE LeaseInv' /\ (LeaseStep \/ Ungranted)
  BY <1>9, TakeoverRequestStep, LeaseStepInvariant DEF TakeoverRequest
<1>10. ASSUME NEW h \in Handle, Release(c, h) \/ Unsubscribe(c, h) PROVE LeaseInv' /\ (LeaseStep \/ Ungranted)
  BY <1>10, ReleaseStep, LeaseStepInvariant DEF Release, Unsubscribe
<1>11. ASSUME NEW h \in Handle, NEW r \in Runtime, Restart(c, h, r) PROVE LeaseInv' /\ (LeaseStep \/ Ungranted)
  BY <1>11, RestartStep
<1> QED
  BY <1>1, <1>2, <1>3, <1>4, <1>5, <1>6, <1>7, <1>8, <1>9, <1>10, <1>11 DEF ControlStep

LEMMA IdentityStepInvariant ==
    ASSUME LeaseInv, IdentityStep
    PROVE  LeaseInv' /\ (LeaseStep \/ Ungranted)
<1>1. CASE RekeyLease \/ ForgetLease
  BY <1>1, RekeyLeaseStep, LeaseStepInvariant DEF RekeyLease, ForgetLease
<1>2. ASSUME NEW h \in Handle,
             Crash(h) \/ Evict(h) \/ ReserveDeletion(h) \/ AbortDeletion(h)
      PROVE  LeaseInv' /\ (LeaseStep \/ Ungranted)
  BY <1>2, PhaseStep, LeaseStepInvariant DEF Crash, Evict, ReserveDeletion, AbortDeletion
<1>3. ASSUME NEW h \in Handle, Reconcile(h) PROVE LeaseInv' /\ (LeaseStep \/ Ungranted)
  BY <1>3, ReconcileStep, LeaseStepInvariant DEF Reconcile
<1>4. ASSUME NEW h \in Handle, Respawn(h) PROVE LeaseInv' /\ (LeaseStep \/ Ungranted)
  BY <1>4, RespawnStep
<1>5. ASSUME NEW h \in Handle, FinishDeletion(h) PROVE LeaseInv' /\ (LeaseStep \/ Ungranted)
  BY <1>5, FinishDeletionStep
<1>6. ASSUME NEW h \in Handle, NEW r \in Runtime, Track(h, r) PROVE LeaseInv' /\ (LeaseStep \/ Ungranted)
  BY <1>6, TrackStep
<1>7. ASSUME NEW h \in Handle, NEW child \in Handle, RekeyRuntime(h, child) PROVE LeaseInv' /\ (LeaseStep \/ Ungranted)
  BY <1>7, RekeyRuntimeStep
<1> QED
  BY <1>1, <1>2, <1>3, <1>4, <1>5, <1>6, <1>7 DEF IdentityStep

LEMMA InitInvariant == Init => LeaseInv
<1> SUFFICES ASSUME Init PROVE LeaseInv
  OBVIOUS
<1>1. TypeOK
  BY InitType
<1>2. \A h \in Handle : runtimes[h] = None /\ ~Owned(h)
  BY DEF Init, Owned
<1>3. /\ spent = {} /\ pool \notin Rekeying
      /\ \A c \in Conn : request[c].stage = "idle"
  BY NoneAssumption DEF Init, Idle
<1> QED
  BY <1>1, <1>2, <1>3
  DEF LeaseInv, TokensDrawn, GrantsDistinct, TrackedAtHome, UntrackedUnowned,
      OwnersNotAhead, RekeyInProgress, RequestsGrounded, Grounded, SpentStaysSpent

LEMMA StutterInvariant == LeaseInv /\ UNCHANGED vars => LeaseInv'
  BY DEF LeaseInv, vars, TypeOK, TokensDrawn, GrantsDistinct, TrackedAtHome, UntrackedUnowned,
         OwnersNotAhead, RekeyInProgress, RequestsGrounded, Grounded, SpentStaysSpent,
         Owned, Accepted, LiveOwner, LeaseOwnerFor

\* The inductive invariant of the lease authority: the types, where tokens come
\* from, where runtimes are tracked, and what a request in flight relies on.
THEOREM LeaseInvariant == Spec => []LeaseInv
<1>1. LeaseInv /\ [Next]_vars => LeaseInv'
  BY ControlStepInvariant, IdentityStepInvariant, StutterInvariant DEF Next
<1> QED
  BY InitInvariant, <1>1, PTL DEF Spec

\* A fencing token that claimWithTransition or takeover drew and assertLease
\* stopped accepting is never accepted again, for any number of Sessions,
\* connections, restarts, forks and deletions.
THEOREM SpentTokensStaySpent == Spec => []SpentStaysSpent
<1>1. LeaseInv => SpentStaysSpent
  BY DEF LeaseInv
<1> QED
  BY LeaseInvariant, <1>1, PTL

\* No fencing token is accepted for two Sessions at once, although rekeyRuntime
\* moves entries between handles.
THEOREM TokensOpenOneSession == Spec => []TokenOpensOneSession
<1>1. LeaseInv => TokenOpensOneSession
  BY LiveOwnerFacts DEF LeaseInv, GrantsDistinct, TokenOpensOneSession
<1> QED
  BY LeaseInvariant, <1>1, PTL

-----------------------------------------------------------------------------
(* The lease table implements the register of LeaseRegister.               *)

\* A step that leaves processes alone revokes, grants or replaces.
LEMMA LeaseStepRefines ==
    ASSUME LeaseInv, LeaseStep
    PROVE  Register!Next
<1>1. /\ \A h \in Handle : Life(h)' = Life(h)
      /\ [h \in Handle |-> Life(h)]' = [h \in Handle |-> Life(h)]
  BY DEF LeaseStep, Life
<1>2. ASSUME NEW h \in Handle, leases'[h] = leases[h] \/ ~Owned(h)'
      PROVE  LiveOwner(h)' \in {LiveOwner(h), None}
  BY <1>2 DEF LeaseStep, LiveOwner, LeaseOwnerFor, Owned
<1>3. nextToken' \in {nextToken, nextToken + 1}
  BY DEF LeaseStep
<1>4. CASE \A h \in Handle : LiveOwner(h)' \in {LiveOwner(h), None}
  <2>1. Register!Revoke
    BY <1>1, <1>3, <1>4 DEF Register!Revoke
  <2> QED
    BY <2>1 DEF Register!Next
<1>5. ASSUME NEW h \in Handle, NEW c \in Conn, Granted1(h, c),
             LiveOwner(h)' \notin {LiveOwner(h), None}
      PROVE  Register!Next
  <2>1. LiveOwner(h)' = [connectionId |-> c, fencingToken |-> nextToken]
    BY <1>5 DEF Granted1, LeaseStep, LiveOwner, LeaseOwnerFor
  <2>2. \A k \in Handle \ {h} : LiveOwner(k)' = LiveOwner(k)
    BY <1>5 DEF Granted1, LeaseStep, LiveOwner, LeaseOwnerFor
  <2>3. [k \in Handle |-> LiveOwner(k)]'
          = [[k \in Handle |-> LiveOwner(k)] EXCEPT ![h] =
               [connectionId |-> c, fencingToken |-> nextToken]]
    BY <2>1, <2>2
  <2>4. Register!Install(h, c)
    BY <1>1, <1>5, <2>3 DEF Register!Install, Granted1
  <2>5. LiveOwner(h) # None => LiveOwner(h).connectionId # c
    BY <1>5 DEF Granted1
  <2>6. Register!Grant(h, c) \/ Register!Replace(h, c)
    BY <2>4, <2>5 DEF Register!Grant, Register!Replace
  <2> QED
    BY <2>6 DEF Register!Next
<1>6. ASSUME NEW h \in Handle, NEW c \in Conn, Granted1(h, c), LiveOwner(h)' \in {LiveOwner(h), None}
      PROVE  \A k \in Handle : LiveOwner(k)' \in {LiveOwner(k), None}
  BY <1>2, <1>6 DEF Granted1
<1> QED
  BY <1>2, <1>4, <1>5, <1>6 DEF LeaseStep, Quiet

\* A step that moves processes makes new ones, which nobody owns.
LEMMA UngrantedRefines ==
    ASSUME Ungranted
    PROVE  Register!Next
<1>1. \A h \in Handle : LiveOwner(h)' = None \/ (LiveOwner(h)' = LiveOwner(h) /\ Life(h)' = Life(h))
  BY DEF Ungranted, LiveOwner, LeaseOwnerFor, Owned, Life
<1>2. Register!NewProcess
  BY <1>1 DEF Register!NewProcess, Ungranted
<1> QED
  BY <1>2 DEF Register!Next

\* LiveOwner, what assertLease accepts, behaves as a register per Session that a
\* free holder takes, another connection replaces, a new process clears, and that
\* gives each token once.
THEOREM LeaseImplementsRegister == Spec => ImplementsRegister
<1>1. Init => Register!Init
  BY DEF Init, Register!Init, LiveOwner, Life
<1>2. LeaseInv /\ [Next]_vars => [Register!Next]_(Register!vars)
  <2>1. ASSUME LeaseInv, Next PROVE Register!Next
    BY <2>1, ControlStepInvariant, IdentityStepInvariant, LeaseStepRefines, UngrantedRefines DEF Next
  <2>2. ASSUME UNCHANGED vars PROVE UNCHANGED Register!vars
    BY <2>2 DEF vars, Register!vars, LiveOwner, LeaseOwnerFor, Life
  <2> QED
    BY <2>1, <2>2
<1> QED
  BY LeaseInvariant, <1>1, <1>2, PTL DEF Spec, ImplementsRegister, Register!Spec

-----------------------------------------------------------------------------
(* How an entry may change: what orders the lease views of the clients.    *)

\* An entry is followed by itself, by one of the next revision, or by the one
\* that an exhausted revision leaves without an owner.
Follows(s, e) ==
    \/ e = s
    \/ /\ e.generation = s.generation /\ e.revision = s.revision + 1 /\ ~e.terminal
       /\ s.owner # None \/ e.owner # None
    \/ e.generation = s.generation /\ e.revision = s.revision /\ e.owner = None /\ e.terminal

\* The current entry of a tracked Session is never dropped, and no entry of a
\* generation is replaced but by one that follows it.
EntryStep(h) ==
    leases[h] # None =>
        /\ runtimes[h] # None /\ leases[h].generation = generation[runtimes[h]] =>
             leases'[h] # None /\ leases'[h].generation = leases[h].generation
        /\ leases'[h] # None /\ leases'[h].generation = leases[h].generation =>
             Follows(leases[h], leases'[h])

EntriesStep == \A h \in Handle : EntryStep(h)

LEMMA CommitFollows ==
    ASSUME NEW s \in LeaseState, NEW o \in Owner \union {None}, s.owner # None \/ o # None
    PROVE  Follows(s, CommitLeaseTransition(s, o))
<1>1. Follows(s, Advanced(s, o)) /\ Follows(s, Exhausted(s))
  BY DEF Follows, Advanced, Exhausted, LeaseState
<1> QED
  BY <1>1 DEF CommitLeaseTransition

\* Every write of the actor goes through leaseStateFor, at the generation of the
\* tracked runtime.
LEMMA EntryWritten ==
    ASSUME TypeOK, NEW h \in Handle, NEW g \in Nat,
           runtimes[h] # None => g = generation[runtimes[h]],
           \A k \in Handle \ {h} : leases'[k] = leases[k],
           leases'[h] # None, leases'[h].generation = g,
           Follows(LeaseStateFor(h, g), leases'[h])
    PROVE  EntriesStep
<1>1. leases[h] # None /\ leases[h].generation = g => LeaseStateFor(h, g) = leases[h]
  BY DEF LeaseStateFor
<1>2. EntryStep(h)
  BY <1>1 DEF EntryStep, TypeOK
<1>3. \A k \in Handle \ {h} : EntryStep(k)
  BY DEF EntryStep, TypeOK, Follows
<1> QED
  BY <1>2, <1>3 DEF EntriesStep

LEMMA EntryReconciled ==
    ASSUME TypeOK, NEW h \in Handle, NEW g \in Nat,
           runtimes[h] # None => g = generation[runtimes[h]],
           leases' = [leases EXCEPT ![h] = LeaseStateFor(h, g)]
    PROVE  EntriesStep
<1>1. LeaseStateFor(h, g) \in LeaseState /\ LeaseStateFor(h, g).generation = g
  BY StateFacts
<1>2. leases'[h] = LeaseStateFor(h, g) /\ \A k \in Handle \ {h} : leases'[k] = leases[k]
  BY DEF TypeOK
<1>3. leases'[h] # None /\ Follows(LeaseStateFor(h, g), leases'[h])
  BY <1>1, <1>2, NoneAssumption DEF Follows
<1> QED
  BY <1>1, <1>2, <1>3, EntryWritten

LEMMA EntryCommitted ==
    ASSUME TypeOK, NEW h \in Handle, NEW g \in Nat,
           runtimes[h] # None => g = generation[runtimes[h]],
           NEW o \in Owner \union {None}, LeaseStateFor(h, g).owner # None \/ o # None,
           leases' = [leases EXCEPT ![h] = CommitLeaseTransition(LeaseStateFor(h, g), o)]
    PROVE  EntriesStep
<1> DEFINE s == LeaseStateFor(h, g)
<1>1. s \in LeaseState /\ s.generation = g
  BY StateFacts
<1>2. leases'[h] = CommitLeaseTransition(s, o) /\ \A k \in Handle \ {h} : leases'[k] = leases[k]
  BY DEF TypeOK
<1>3. s.owner # None \/ o # None
  OBVIOUS
<1> HIDE DEF s
<1>4. leases'[h] # None /\ leases'[h].generation = g
  BY <1>1, <1>2, CommitFacts, NoneAssumption
<1>5. Follows(s, leases'[h])
  BY <1>1, <1>2, <1>3, CommitFollows
<1> QED
  BY <1>2, <1>4, <1>5, EntryWritten DEF s

LEMMA EntriesKept == UNCHANGED leases => EntriesStep
  BY DEF EntriesStep, EntryStep, Follows

LEMMA ReleaseWrites ==
    ASSUME TypeOK, NEW h \in Handle,
           \/ \E c \in Conn : leases' = ReleaseByConnection(c, h)
           \/ \E c \in Conn, t \in Nat : leases' = ReleaseByToken(c, h, t)
    PROVE  EntriesStep
<1> DEFINE g == IF runtimes[h] # None THEN generation[runtimes[h]] ELSE leases[h].generation
           state == LeaseStateFor(h, g)
<1>1. CASE leases[h] = None
  BY <1>1, EntriesKept DEF ReleaseByConnection, ReleaseByToken
<1>2. CASE leases[h] # None
  <2>1. g \in Nat
    BY <1>2 DEF TypeOK, LeaseState
  <2>2. \/ leases' = [leases EXCEPT ![h] = state]
        \/ /\ leases' = [leases EXCEPT ![h] = CommitLeaseTransition(state, None)]
           /\ state.owner # None
    BY <1>2 DEF ReleaseByConnection, ReleaseByToken
  <2>3. runtimes[h] # None => g = generation[runtimes[h]]
    OBVIOUS
  <2> HIDE DEF g
  <2> QED
    BY <2>1, <2>2, <2>3, EntryReconciled, EntryCommitted
<1> QED
  BY <1>1, <1>2

\* Of a connection's steps, those that write entries.
LEMMA ControlEntries ==
    ASSUME LeaseInv, NEW c \in Conn, ControlStep(c)
    PROVE  EntriesStep
<1> USE DEF LeaseInv
<1> DEFINE owner == [connectionId |-> c, fencingToken |-> nextToken]
<1>1. TypeOK /\ owner \in Owner /\ owner # None
  BY NewOwnerType, NoneAssumption DEF TypeOK
<1>2. CASE ClaimCommit(c)
  <2> DEFINE h == request[c].handle
             r == request[c].runtime
  <2>1. h \in Handle /\ generation[r] \in Nat /\ generation[r] = generation[runtimes[h]]
    BY <1>2 DEF RequestsGrounded, Grounded, ClaimCommit, TypeOK, Request
  <2>2. PICK e : /\ leases' = [leases EXCEPT ![h] = e]
                 /\ \/ e = LeaseStateFor(h, generation[r])
                    \/ e = CommitLeaseTransition(LeaseStateFor(h, generation[r]), owner)
    BY <1>2 DEF ClaimCommit
  <2> HIDE DEF owner, h, r
  <2> QED
    <3>1. CASE leases' = [leases EXCEPT ![h] = LeaseStateFor(h, generation[r])]
      BY <1>1, <2>1, <3>1, EntryReconciled
    <3>2. CASE leases' = [leases EXCEPT ![h] =
                 CommitLeaseTransition(LeaseStateFor(h, generation[r]), owner)]
      BY <1>1, <2>1, <3>2, EntryCommitted
    <3> QED
      BY <2>2, <3>1, <3>2
<1>3. CASE TakeoverCommit(c)
  <2> DEFINE h == request[c].handle
             g == generation[runtimes[h]]
  <2>1. h \in Handle /\ runtimes[h] \in Runtime /\ g \in Nat
    BY <1>3 DEF RequestsGrounded, Grounded, TakeoverCommit, TypeOK, Request
  <2>2. PICK e : /\ leases' = [leases EXCEPT ![h] = e]
                 /\ \/ e = LeaseStateFor(h, g)
                    \/ e = CommitLeaseTransition(LeaseStateFor(h, g), owner)
    BY <1>3 DEF TakeoverCommit
  <2>3. runtimes[h] # None => g = generation[runtimes[h]]
    OBVIOUS
  <2> HIDE DEF owner, h, g
  <2> QED
    <3>1. CASE leases' = [leases EXCEPT ![h] = LeaseStateFor(h, g)]
      BY <1>1, <2>1, <2>3, <3>1, EntryReconciled
    <3>2. CASE leases' = [leases EXCEPT ![h] =
                 CommitLeaseTransition(LeaseStateFor(h, g), owner)]
      BY <1>1, <2>1, <2>3, <3>2, EntryCommitted
    <3> QED
      BY <2>2, <3>1, <3>2
<1>4. CASE Continue(c)
  <2>1. request[c].handle \in Handle /\ request[c].token \in Nat
    BY <1>4 DEF RequestsGrounded, Grounded, Continue, TypeOK, Request, Token
  <2> QED
    BY <1>4, <2>1, ReleaseWrites, EntriesKept DEF Continue
<1>5. ASSUME NEW h \in Handle, Release(c, h) \/ Unsubscribe(c, h) PROVE EntriesStep
  BY <1>5, ReleaseWrites DEF Release, Unsubscribe
<1>6. CASE Sweep(c)
  <2>1. \A h \in Handle :
          \/ leases'[h] = leases[h]
          \/ h \in OwnedBy(c) /\ leases'[h] \in {Advanced(leases[h], None), Exhausted(leases[h])}
    BY <1>6 DEF Sweep
  <2>2. \A h \in OwnedBy(c) :
          /\ leases[h] \in LeaseState /\ leases[h].owner # None
          /\ Advanced(leases[h], None) \in LeaseState /\ Exhausted(leases[h]) \in LeaseState
    BY DEF OwnedBy, TypeOK, Advanced, Exhausted, LeaseState
  <2>3. \A h \in OwnedBy(c) :
          /\ Follows(leases[h], Advanced(leases[h], None))
          /\ Follows(leases[h], Exhausted(leases[h]))
    BY <2>2 DEF Follows, Advanced, Exhausted, LeaseState
  <2>4. \A h \in OwnedBy(c) :
          /\ Advanced(leases[h], None).generation = leases[h].generation
          /\ Exhausted(leases[h]).generation = leases[h].generation
    BY <2>2 DEF Advanced, Exhausted
  <2>5. SUFFICES ASSUME NEW h \in Handle PROVE EntryStep(h)
    BY DEF EntriesStep
  <2>6. CASE leases'[h] = leases[h]
    BY <2>6 DEF EntryStep, Follows
  <2>7. CASE h \in OwnedBy(c) /\ leases'[h] \in {Advanced(leases[h], None), Exhausted(leases[h])}
    BY <2>2, <2>3, <2>4, <2>7, NoneAssumption DEF EntryStep
  <2> QED
    BY <2>1, <2>6, <2>7
<1>7. CASE UNCHANGED leases
  BY <1>7, EntriesKept
<1> QED
  BY <1>2, <1>3, <1>4, <1>5, <1>6, <1>7
  DEF ControlStep, ClaimAdmit, TakeoverAdmit, Disconnect, ClaimRequest, TakeoverRequest, Restart

\* Of the others, the actor half of a rekey alone moves entries between Sessions.
LEMMA IdentityEntries ==
    ASSUME LeaseInv, IdentityStep, ~RekeyLease, ~ForgetLease
    PROVE  EntriesStep
<1> USE DEF LeaseInv
<1>1. ASSUME NEW h \in Handle, Reconcile(h) PROVE EntriesStep
  <2>1. generation[runtimes[h]] \in Nat
    BY <1>1 DEF Reconcile, TypeOK
  <2>2. leases' = [leases EXCEPT ![h] = LeaseStateFor(h, generation[runtimes[h]])]
    BY <1>1 DEF Reconcile
  <2> QED
    BY <2>1, <2>2, EntryReconciled
<1>2. CASE UNCHANGED leases
  BY <1>2, EntriesKept
<1> QED
  BY <1>1, <1>2 DEF IdentityStep, Crash, Evict, Respawn, ReserveDeletion, AbortDeletion,
                    FinishDeletion, Track, RekeyRuntime, processVars

\* Within a generation of a tracked runtime, commitLeaseTransition takes the next
\* revision whenever it changes the owner, or ends the lease; no other write
\* changes one.  Clients order the lease views they receive by it.
THEOREM RevisionsOrderOwners == Spec => RevisionOrdersOwners
<1> DEFINE Ordered(h) ==
             /\ runtimes[h] # None /\ runtimes'[h] = runtimes[h]
             /\ leases[h] # None /\ leases'[h] # None
             /\ leases[h].generation = leases'[h].generation
             /\ leases'[h].owner # leases[h].owner
             => leases'[h].revision > leases[h].revision \/ leases'[h].terminal
<1>1. ASSUME LeaseInv, EntriesStep, NEW h \in Handle PROVE Ordered(h)
  BY <1>1 DEF EntriesStep, EntryStep, Follows, LeaseInv, TypeOK, LeaseState
<1>2. ASSUME LeaseInv, RekeyLease \/ ForgetLease, NEW h \in Handle PROVE Ordered(h)
  <2>1. pool \in Rekeying /\ runtimes[pool.from] = None /\ runtimes' = runtimes
    BY <1>2 DEF RekeyLease, ForgetLease, LeaseInv, RekeyInProgress, processVars
  <2>2. CASE h # pool.from /\ ~(RekeyLease /\ h = pool.to)
    BY <1>2, <2>1, <2>2 DEF RekeyLease, ForgetLease, LeaseInv, TypeOK, Rekeying
  <2>3. CASE RekeyLease /\ h = pool.to
    <3>1. ~Owned(h) /\ h # pool.from
      BY <1>2, <2>1, <2>3 DEF RekeyLease, LeaseInv, RekeyInProgress
    <3>2. leases[pool.from] # None => leases[pool.from] \in LeaseState
      BY <1>2, <2>1 DEF LeaseInv, TypeOK, Rekeying
    <3>3. Owned(pool.from) => leases[pool.from].generation # generation[pool.runtime]
      <4>1. pool.runtime \in Runtime
        BY <1>2, <2>1, <2>3 DEF RekeyLease, LeaseInv, RekeyInProgress, Rekeying
      <4> QED
        BY <1>2, <2>1, <2>3, <3>2, <4>1
        DEF RekeyLease, LeaseInv, RekeyInProgress, Owned, TypeOK, LeaseState
    <3>4. leases'[h] = Rekeyed(leases[pool.from], generation[pool.runtime])
      BY <1>2, <2>1, <2>3, <3>1 DEF RekeyLease, LeaseInv, TypeOK
    <3>5. leases'[h].owner = None
      BY <3>2, <3>3, <3>4 DEF Rekeyed, Owned, Fresh
    <3> QED
      BY <3>1, <3>5 DEF Owned
  <2> QED
    BY <2>1, <2>2, <2>3
<1>3. ASSUME LeaseInv, [Next]_vars PROVE \A h \in Handle : Ordered(h)
  <2>1. CASE EntriesStep
    BY <1>1, <1>3, <2>1
  <2>2. CASE RekeyLease \/ ForgetLease
    BY <1>2, <1>3, <2>2
  <2>3. CASE UNCHANGED vars
    BY <1>1, <1>3, <2>3, EntriesKept DEF vars
  <2> QED
    BY <1>3, <2>1, <2>2, <2>3, ControlEntries, IdentityEntries DEF Next
<1> HIDE DEF Ordered
<1>4. LeaseInv /\ [Next]_vars => [\A h \in Handle : Ordered(h)]_vars
  BY <1>3
<1>5. Spec => [][\A h \in Handle : Ordered(h)]_vars
  BY LeaseInvariant, <1>4, PTL DEF Spec
<1> QED
  BY <1>5 DEF RevisionOrdersOwners, Ordered

-----------------------------------------------------------------------------
(* What a takeover in flight may rely on.                                   *)

TakeoverStages == {"takingOver", "takeoverAdmitted"}

\* The step leaves the request the view and the stage it has, or ends it.
SameView(c) ==
    request'[c].stage \in TakeoverStages =>
        /\ request'[c].stage = request[c].stage
        /\ request'[c].runtime = request[c].runtime
        /\ request'[c].handle = request[c].handle
        /\ request'[c].generation = request[c].generation
        /\ request'[c].revision = request[c].revision
        /\ request'[c].observed = request[c].observed

\* A request that has the pool lock is the only one, and no rekey is pending.
LEMMA AdmittedHolds ==
    ASSUME RequestsGrounded, NEW c \in Conn, request[c].stage = "takeoverAdmitted"
    PROVE  pool = c /\ pool # None /\ pool \notin Rekeying
  BY NoneAssumption, HolderAssumption DEF RequestsGrounded, Grounded

LEMMA NobodyAdmitted ==
    ASSUME RequestsGrounded, pool = None \/ pool \in Rekeying, NEW c \in Conn
    PROVE  request[c].stage # "takeoverAdmitted"
  BY AdmittedHolds

\* Writes of the lease actor keep the view behind: an owner changes together
\* with the revision, and whoever is granted meanwhile has the pool lock.
LEMMA ViewKept ==
    ASSUME LeaseInv, LeaseInv', LeaseStep, EntriesStep,
           NEW c \in Conn, Viewed(c), SameView(c)
    PROVE  Viewed(c)'
<1> DEFINE q == request[c]
           h == q.handle
           r == q.runtime
<1> SUFFICES ASSUME request'[c].stage \in TakeoverStages PROVE Viewed(c)'
  BY DEF Viewed, TakeoverStages
<1>1. /\ TypeOK /\ RequestsGrounded /\ RequestsGrounded'
      /\ q \in Request /\ q.stage \in TakeoverStages
      /\ UNCHANGED <<runtimes, generation>>
      /\ \A s \in Runtime : phase'[s] = "unborn" => phase[s] = "unborn"
  BY DEF LeaseInv, TypeOK, SameView, LeaseStep
<1>2. h \in Handle
  BY <1>1 DEF RequestsGrounded, Grounded, TakeoverStages, Request
<1>3. /\ r # None /\ phase[r] # "unborn" /\ q.generation <= generation[r]
      /\ r \in Runtime
  BY <1>1 DEF Viewed, TakeoverStages, Request
<1>4. ASSUME runtimes[h] = r, generation[r] = q.generation
      PROVE  /\ leases'[h] # None /\ leases'[h].generation = q.generation
             /\ leases'[h].revision >= q.revision
             /\ leases'[h].revision = q.revision /\ ~leases'[h].terminal =>
                  leases'[h].owner = q.observed
  <2>1. /\ leases[h] # None /\ leases[h].generation = q.generation
        /\ leases[h].revision >= q.revision
        /\ leases[h].revision = q.revision /\ ~leases[h].terminal =>
             leases[h].owner = q.observed
    BY <1>1, <1>4 DEF Viewed, TakeoverStages
  <2>2. /\ leases'[h] # None /\ leases'[h].generation = q.generation
        /\ Follows(leases[h], leases'[h])
    BY <1>2, <1>3, <1>4, <2>1 DEF EntriesStep, EntryStep
  <2>3. leases[h].revision \in Nat /\ q.revision \in Nat
    BY <1>1, <1>2, <2>1 DEF TypeOK, LeaseState, Request
  <2> QED
    BY <2>1, <2>2, <2>3 DEF Follows
<1>5. ASSUME pool' \in Rekeying, pool'.to # None, pool'.runtime = r
      PROVE  q.generation < generation[r]
  <2>1. pool \in Rekeying /\ pool' = pool
    BY <1>5 DEF LeaseStep
  <2> QED
    BY <1>1, <1>5, <2>1 DEF Viewed, TakeoverStages
<1>6. ASSUME request'[c].stage = "takeoverAdmitted", runtimes[h] = r,
             generation[r] # q.generation, NEW k \in Handle, k = h
      PROVE  LiveOwner(k)' = None
  <2>1. q.stage = "takeoverAdmitted" /\ LiveOwner(k) = None
    BY <1>1, <1>6 DEF Viewed, TakeoverStages, SameView
  <2>2. pool' # None
    BY <1>1, <1>6, NoneAssumption DEF RequestsGrounded, Grounded
  <2>3. leases'[k] = leases[k] \/ ~Owned(k)'
    BY <2>2 DEF LeaseStep, Quiet, Granted1
  <2> QED
    BY <1>1, <2>1, <2>3 DEF LiveOwner, LeaseOwnerFor, Owned
<1>7. /\ request'[c].stage = q.stage /\ request'[c].runtime = r /\ request'[c].handle = h
      /\ request'[c].generation = q.generation /\ request'[c].revision = q.revision
      /\ request'[c].observed = q.observed
  BY DEF SameView
<1>8. phase'[r] # "unborn"
  BY <1>1, <1>3
<1> QED
  BY <1>1, <1>2, <1>3, <1>4, <1>5, <1>6, <1>7, <1>8 DEF Viewed

\* session_takeover carries the view the client has of the live owner.
LEMMA ViewTaken ==
    ASSUME LeaseInv, NEW c \in Conn, NEW h \in Handle, TakeoverRequest(c, h)
    PROVE  Viewed(c)'
<1> USE DEF LeaseInv
<1>1. /\ runtimes[h] # None /\ Owned(h) /\ LiveOwner(h) = leases[h].owner
      /\ leases[h].generation = generation[runtimes[h]]
  BY LiveOwnerFacts DEF TakeoverRequest
<1>2. /\ runtimes[h] \in Runtime /\ phase[runtimes[h]] # "unborn"
      /\ generation[runtimes[h]] \in Nat
      /\ sessionHandle[runtimes[h]] = h
  BY <1>1 DEF TypeOK, TrackedAtHome
<1>3. /\ request'[c].stage = "takingOver" /\ request'[c].runtime = runtimes[h]
      /\ request'[c].handle = h /\ request'[c].generation = leases[h].generation
      /\ request'[c].revision = leases[h].revision /\ request'[c].observed = LiveOwner(h)
  BY DEF TakeoverRequest, Idle, TypeOK
<1>4. UNCHANGED <<processVars, leases, pool>>
  BY DEF TakeoverRequest
<1>5. ~(pool \in Rekeying /\ pool.to # None /\ pool.runtime = runtimes[h])
  <2>1. ASSUME pool \in Rekeying, pool.to # None, pool.runtime = runtimes[h] PROVE FALSE
    <3>1. pool.to \in Handle /\ runtimes[pool.to] = runtimes[h] /\ ~Owned(pool.to)
      BY <2>1 DEF RekeyInProgress, Rekeying
    <3>2. sessionHandle[runtimes[h]] = pool.to
      BY <1>1, <3>1 DEF TrackedAtHome
    <3> QED
      BY <1>1, <1>2, <3>1, <3>2
  <2> QED
    BY <2>1
<1>6. leases[h] # None /\ leases[h].revision \in Nat
  BY <1>1 DEF Owned, TypeOK, LeaseState
<1> QED
  BY <1>1, <1>2, <1>3, <1>4, <1>5, <1>6 DEF Viewed, processVars

\* The checks under the pool lock leave the view of a live generation.
LEMMA ViewAdmitted ==
    ASSUME LeaseInv, NEW c \in Conn, TakeoverAdmit(c), Viewed(c)
    PROVE  Viewed(c)'
<1>1. /\ request \in [Conn -> Request] /\ UNCHANGED <<processVars, leases>>
      /\ request[c].stage = "takingOver" /\ request[c] \in Request
  BY DEF LeaseInv, TypeOK, TakeoverAdmit
<1>2. CASE request' = [request EXCEPT ![c] = Idle]
  BY <1>1, <1>2 DEF Viewed, Idle
<1>3. CASE /\ TakeoverAdmissible(request[c]) /\ pool' = c
           /\ request' = [request EXCEPT ![c].stage = "takeoverAdmitted"]
  <2>1. /\ request'[c].stage = "takeoverAdmitted" /\ request'[c].runtime = request[c].runtime
        /\ request'[c].handle = request[c].handle
        /\ request'[c].generation = request[c].generation
        /\ request'[c].revision = request[c].revision
        /\ request'[c].observed = request[c].observed
    BY <1>1, <1>3 DEF Request
  <2>2. generation[runtimes[request[c].handle]] = request[c].generation /\ pool' \notin Rekeying
    BY <1>3, HolderAssumption DEF TakeoverAdmissible
  <2> QED
    BY <1>1, <2>1, <2>2 DEF Viewed, processVars
<1> QED
  BY <1>2, <1>3 DEF TakeoverAdmit

\* A process that is started, replaced, turned into a child or forgotten takes
\* its Session to a runtime or a generation that no earlier view is of.
LEMMA ViewOutlived ==
    ASSUME LeaseInv, NEW c \in Conn, Viewed(c), UNCHANGED <<request, leases>>,
           request[c].stage = "takeoverAdmitted" => runtimes' = runtimes,
           \A r \in Runtime : phase[r] # "unborn" =>
             /\ phase'[r] # "unborn" /\ generation'[r] \in Nat
             /\ \/ generation'[r] > generation[r]
                \/ /\ generation'[r] = generation[r]
                   /\ \A h \in Handle : runtimes'[h] = r => runtimes[h] = r,
           pool' \in Rekeying /\ pool'.to # None =>
             pool' = pool \/ generation'[pool'.runtime] > generation[pool'.runtime]
    PROVE  Viewed(c)'
<1> DEFINE q == request[c]
           h == q.handle
           r == q.runtime
<1> SUFFICES ASSUME q.stage \in TakeoverStages PROVE Viewed(c)'
  BY DEF Viewed, TakeoverStages
<1>1. /\ q \in Request /\ h \in Handle /\ r \in Runtime /\ r # None /\ phase[r] # "unborn"
      /\ q.generation \in Nat /\ q.generation <= generation[r]
      /\ generation[r] \in Nat
  BY DEF LeaseInv, TypeOK, RequestsGrounded, Grounded, Viewed, Request, TakeoverStages
<1>2. /\ phase'[r] # "unborn" /\ generation'[r] \in Nat
      /\ \/ generation'[r] > generation[r]
         \/ generation'[r] = generation[r] /\ (runtimes'[h] = r => runtimes[h] = r)
  BY <1>1
<1>3. q.generation <= generation'[r]
  BY <1>1, <1>2
<1>4. ASSUME runtimes'[h] = r, generation'[r] = q.generation
      PROVE  /\ leases[h] # None /\ leases[h].generation = q.generation
             /\ leases[h].revision >= q.revision
             /\ leases[h].revision = q.revision /\ ~leases[h].terminal =>
                  leases[h].owner = q.observed
  <2>1. runtimes[h] = r /\ generation[r] = q.generation
    BY <1>1, <1>2, <1>4
  <2> QED
    BY <2>1 DEF Viewed, TakeoverStages
<1>5. ASSUME pool' \in Rekeying, pool'.to # None, pool'.runtime = r
      PROVE  q.generation < generation'[r]
  <2>1. CASE pool' = pool
    <3>1. q.generation < generation[r]
      BY <1>5, <2>1 DEF Viewed, TakeoverStages
    <3> QED
      BY <1>1, <1>2, <3>1
  <2>2. CASE generation'[r] > generation[r]
    BY <1>1, <1>2, <2>2
  <2> QED
    BY <1>5, <2>1, <2>2
<1>6. ASSUME q.stage = "takeoverAdmitted", runtimes'[h] = r, generation'[r] # q.generation
      PROVE  LiveOwner(h)' = None
  <2>1. runtimes[h] = r /\ runtimes'[h] = runtimes[h]
    BY <1>6
  <2>2. CASE generation'[r] = generation[r]
    <3>1. LiveOwner(h) = None
      BY <1>6, <2>1, <2>2 DEF Viewed, TakeoverStages
    <3> QED
      BY <2>1, <2>2, <3>1 DEF LiveOwner, LeaseOwnerFor
  <2>3. CASE generation'[r] > generation[r]
    <3>1. Owned(h) => leases[h].generation \in Nat /\ leases[h].generation <= generation[r]
      BY <1>1, <2>1 DEF LeaseInv, OwnersNotAhead, TypeOK, LeaseState, Owned
    <3>2. Owned(h) => leases[h].generation # generation'[r]
      BY <1>1, <1>2, <2>3, <3>1
    <3> QED
      BY <1>6, <2>1, <3>2 DEF LiveOwner, LeaseOwnerFor, Owned
  <2> QED
    BY <1>2, <2>2, <2>3
<1> QED
  BY <1>1, <1>2, <1>3, <1>4, <1>5, <1>6 DEF Viewed

\* The actor half of a rekey drops entries of no runtime, or of a generation
\* that the child process has left.
LEMMA ViewRekeyed ==
    ASSUME LeaseInv, RekeyLease \/ ForgetLease, NEW c \in Conn, Viewed(c)
    PROVE  Viewed(c)'
<1> DEFINE q == request[c]
           h == q.handle
           r == q.runtime
<1> SUFFICES ASSUME q.stage \in TakeoverStages PROVE Viewed(c)'
  BY DEF Viewed, TakeoverStages, RekeyLease, ForgetLease, connVars
<1>1. /\ pool \in Rekeying /\ pool' = None /\ UNCHANGED <<processVars, request>>
      /\ runtimes[pool.from] = None
  BY DEF RekeyLease, ForgetLease, LeaseInv, RekeyInProgress, connVars
<1>2. h \in Handle /\ r # None /\ q.stage # "takeoverAdmitted" /\ pool' \notin Rekeying
  BY <1>1, NobodyAdmitted, NoneAssumption
  DEF LeaseInv, TypeOK, RequestsGrounded, Grounded, Viewed, Request, TakeoverStages
<1>3. ASSUME runtimes[h] = r, generation[r] = q.generation PROVE leases'[h] = leases[h]
  <2>1. h # pool.from
    BY <1>1, <1>2, <1>3
  <2>2. ~(RekeyLease /\ h = pool.to)
    <3>1. ASSUME RekeyLease, h = pool.to PROVE FALSE
      <4>1. pool.to # None /\ pool.runtime = r
        BY <1>1, <1>3, <3>1 DEF RekeyLease, LeaseInv, RekeyInProgress
      <4>2. q.generation < generation[r] /\ q.generation \in Nat
        BY <1>1, <4>1 DEF Viewed, TakeoverStages, LeaseInv, TypeOK, Request
      <4> QED
        BY <1>3, <4>2
    <3> QED
      BY <3>1
  <2> QED
    BY <1>1, <1>2, <2>1, <2>2 DEF RekeyLease, ForgetLease, LeaseInv, TypeOK, Rekeying
<1> QED
  BY <1>1, <1>2, <1>3 DEF Viewed, TakeoverStages, processVars

LEMMA ControlViews ==
    ASSUME LeaseInv, NEW c \in Conn, ControlStep(c), TakeoversViewed
    PROVE  TakeoversViewed'
<1> SUFFICES ASSUME NEW d \in Conn PROVE Viewed(d)'
  BY DEF TakeoversViewed
<1>1. LeaseInv' /\ EntriesStep /\ Viewed(d) /\ TypeOK
  BY ControlStepInvariant, ControlEntries DEF TakeoversViewed, LeaseInv
<1>2. ASSUME d # c, LeaseStep, request'[d] = request[d] PROVE Viewed(d)'
  BY <1>1, <1>2, ViewKept DEF SameView
<1>3. CASE ClaimAdmit(c)
  <2>1. request'[c].stage \notin TakeoverStages /\ (d # c => request'[d] = request[d])
    BY <1>1, <1>3 DEF ClaimAdmit, TypeOK, Request, TakeoverStages, Idle
  <2>2. SameView(d) /\ LeaseStep
    BY <1>3, <2>1, ClaimAdmitStep DEF SameView
  <2> QED
    BY <1>1, <2>2, ViewKept
<1>4. CASE ClaimCommit(c)
  <2>3. PICK t : \/ request' = [request EXCEPT ![c] = Idle]
                 \/ request' = [request EXCEPT ![c] = Granted(request[c], t)]
    BY <1>4 DEF ClaimCommit
  <2>4. Idle.stage = "idle" /\ Granted(request[c], t).stage = "granted"
    BY DEF Idle, Granted
  <2>1. request'[c].stage \notin TakeoverStages /\ (d # c => request'[d] = request[d])
    BY <1>1, <2>3, <2>4 DEF TypeOK, TakeoverStages
  <2>2. SameView(d) /\ LeaseStep
    BY <1>4, <2>1, ClaimCommitStep DEF SameView
  <2> QED
    BY <1>1, <2>2, ViewKept
<1>5. CASE TakeoverAdmit(c)
  <2>1. d # c => request'[d] = request[d]
    BY <1>1, <1>5 DEF TakeoverAdmit, TypeOK
  <2> QED
    BY <1>1, <1>2, <1>5, <2>1, TakeoverAdmitStep, ViewAdmitted
<1>6. CASE TakeoverCommit(c)
  <2>3. PICK t : \/ request' = [request EXCEPT ![c] = Idle]
                 \/ request' = [request EXCEPT ![c] = Granted(request[c], t)]
    BY <1>6 DEF TakeoverCommit
  <2>4. Idle.stage = "idle" /\ Granted(request[c], t).stage = "granted"
    BY DEF Idle, Granted
  <2>1. request'[c].stage \notin TakeoverStages /\ (d # c => request'[d] = request[d])
    BY <1>1, <2>3, <2>4 DEF TypeOK, TakeoverStages
  <2>2. SameView(d) /\ LeaseStep
    BY <1>6, <2>1, TakeoverCommitStep DEF SameView
  <2> QED
    BY <1>1, <2>2, ViewKept
<1>7. CASE Continue(c)
  <2>1. SameView(d) /\ LeaseStep
    BY <1>1, <1>7, ContinueStep DEF SameView, Continue, TypeOK, TakeoverStages, Idle
  <2> QED
    BY <1>1, <2>1, ViewKept
<1>8. CASE Disconnect(c) \/ Sweep(c)
  <2>1. SameView(d) /\ LeaseStep
    BY <1>1, <1>8, DisconnectStep, SweepStep DEF SameView, Disconnect, Sweep
  <2> QED
    BY <1>1, <2>1, ViewKept
<1>9. ASSUME NEW h \in Handle, ClaimRequest(c, h) PROVE Viewed(d)'
  <2>1. SameView(d) /\ LeaseStep
    BY <1>1, <1>9, ClaimRequestStep DEF SameView, ClaimRequest, TypeOK, TakeoverStages, Idle
  <2> QED
    BY <1>1, <2>1, ViewKept
<1>10. ASSUME NEW h \in Handle, TakeoverRequest(c, h) PROVE Viewed(d)'
  <2>1. d # c => request'[d] = request[d]
    BY <1>1, <1>10 DEF TakeoverRequest, TypeOK
  <2> QED
    BY <1>1, <1>2, <1>10, <2>1, TakeoverRequestStep, ViewTaken
<1>11. ASSUME NEW h \in Handle, Release(c, h) \/ Unsubscribe(c, h) PROVE Viewed(d)'
  <2>1. PICK w \in BOOLEAN : request' = [request EXCEPT ![c].wanted = w]
    BY <1>1, <1>11 DEF Release, Unsubscribe, TypeOK, Request
  <2>2. SameView(d) /\ LeaseStep
    BY <1>1, <1>11, <2>1, ReleaseStep DEF SameView, TypeOK, Request
  <2> QED
    BY <1>1, <2>2, ViewKept
<1>12. ASSUME NEW h \in Handle, NEW r \in Runtime, Restart(c, h, r) PROVE Viewed(d)'
  <2>1. /\ pool = None /\ UNCHANGED <<request, leases>> /\ pool' \notin Rekeying
        /\ phase[r] = "unborn" \/ r = runtimes[h]
        /\ runtimes[h] \in Runtime /\ phase[runtimes[h]] # "unborn"
        /\ runtimes' = [runtimes EXCEPT ![h] = r]
        /\ generation' = [generation EXCEPT ![r] = generation[runtimes[h]] + 1]
        /\ phase' = [phase EXCEPT ![runtimes[h]] = "dormant", ![r] = "running"]
    BY <1>12, NoneAssumption DEF Restart, PhaseAt, LeaseInv, TypeOK, connVars
  <2>2. request[d].stage # "takeoverAdmitted"
    BY <2>1, NobodyAdmitted DEF LeaseInv
  <2>3. \A s \in Runtime : phase[s] # "unborn" =>
          /\ phase'[s] # "unborn" /\ generation'[s] \in Nat
          /\ \/ generation'[s] > generation[s]
             \/ generation'[s] = generation[s] /\ \A k \in Handle : runtimes'[k] = s => runtimes[k] = s
    BY <1>1, <2>1 DEF TypeOK
  <2> QED
    BY <1>1, <2>1, <2>2, <2>3, ViewOutlived
<1> QED
  BY <1>3, <1>4, <1>5, <1>6, <1>7, <1>8, <1>9, <1>10, <1>11, <1>12 DEF ControlStep

LEMMA IdentityViews ==
    ASSUME LeaseInv, IdentityStep, TakeoversViewed
    PROVE  TakeoversViewed'
<1> SUFFICES ASSUME NEW d \in Conn PROVE Viewed(d)'
  BY DEF TakeoversViewed
<1>1. LeaseInv' /\ Viewed(d) /\ TypeOK /\ RequestsGrounded
  BY IdentityStepInvariant DEF TakeoversViewed, LeaseInv
<1>2. ASSUME LeaseStep, UNCHANGED request, EntriesStep PROVE Viewed(d)'
  BY <1>1, <1>2, ViewKept DEF SameView
<1>3. CASE RekeyLease \/ ForgetLease
  BY <1>1, <1>3, ViewRekeyed
<1>4. ASSUME NEW h \in Handle, Crash(h) \/ Evict(h) \/ ReserveDeletion(h) \/ AbortDeletion(h)
      PROVE  Viewed(d)'
  BY <1>2, <1>4, PhaseStep, EntriesKept DEF Crash, Evict, ReserveDeletion, AbortDeletion, connVars
<1>5. ASSUME NEW h \in Handle, Reconcile(h) PROVE Viewed(d)'
  <2>1. /\ generation[runtimes[h]] \in Nat
        /\ leases' = [leases EXCEPT ![h] = LeaseStateFor(h, generation[runtimes[h]])]
    BY <1>1, <1>5 DEF Reconcile, TypeOK
  <2>2. EntriesStep
    BY <1>1, <2>1, EntryReconciled
  <2> QED
    BY <1>2, <1>5, <2>2, ReconcileStep DEF Reconcile, connVars
<1>6. ASSUME NEW h \in Handle, Respawn(h) PROVE Viewed(d)'
  <2>1. /\ UNCHANGED <<request, leases, runtimes, pool>>
        /\ runtimes[h] \in Runtime
        /\ generation' = [generation EXCEPT ![runtimes[h]] = @ + 1]
        /\ phase' = [phase EXCEPT ![runtimes[h]] = "running"]
    BY <1>1, <1>6 DEF Respawn, PhaseAt, TypeOK, connVars
  <2>2. \A s \in Runtime : phase[s] # "unborn" =>
          /\ phase'[s] # "unborn" /\ generation'[s] \in Nat
          /\ generation'[s] > generation[s] \/ generation'[s] = generation[s]
    BY <1>1, <2>1 DEF TypeOK
  <2> QED
    BY <1>1, <2>1, <2>2, ViewOutlived
<1>7. ASSUME NEW h \in Handle, NEW r \in Runtime, Track(h, r) PROVE Viewed(d)'
  <2>1. /\ UNCHANGED <<request, leases, pool>> /\ pool = None /\ phase[r] = "unborn"
        /\ runtimes' = [runtimes EXCEPT ![h] = r]
        /\ generation' = [generation EXCEPT ![r] = 1]
        /\ phase' = [phase EXCEPT ![r] = "running"]
    BY <1>7 DEF Track, connVars
  <2>2. request[d].stage # "takeoverAdmitted" /\ pool' \notin Rekeying
    BY <1>1, <2>1, NobodyAdmitted, NoneAssumption
  <2>3. \A s \in Runtime : phase[s] # "unborn" =>
          /\ phase'[s] # "unborn" /\ generation'[s] \in Nat /\ generation'[s] = generation[s]
          /\ \A k \in Handle : runtimes'[k] = s => runtimes[k] = s
    BY <1>1, <2>1 DEF TypeOK
  <2> QED
    BY <1>1, <2>1, <2>2, <2>3, ViewOutlived
<1>8. ASSUME NEW h \in Handle, NEW child \in Handle, RekeyRuntime(h, child) PROVE Viewed(d)'
  <2>1. /\ UNCHANGED <<request, leases, phase>> /\ pool = None
        /\ runtimes[h] \in Runtime /\ runtimes[child] = None /\ h # child
        /\ runtimes' = [runtimes EXCEPT ![h] = None, ![child] = runtimes[h]]
        /\ generation' = [generation EXCEPT ![runtimes[h]] = @ + 1]
        /\ pool' = [from |-> h, to |-> child, runtime |-> runtimes[h]]
    BY <1>1, <1>8, NoneAssumption DEF RekeyRuntime, PhaseAt, TypeOK, connVars
  <2>2. request[d].stage # "takeoverAdmitted"
    BY <1>1, <2>1, NobodyAdmitted
  <2>3. \A s \in Runtime : phase[s] # "unborn" =>
          /\ phase'[s] # "unborn" /\ generation'[s] \in Nat
          /\ \/ generation'[s] > generation[s]
             \/ generation'[s] = generation[s] /\ \A k \in Handle : runtimes'[k] = s => runtimes[k] = s
    <3>1. ASSUME NEW s \in Runtime, s # runtimes[h], NEW k \in Handle, runtimes'[k] = s
          PROVE  runtimes[k] = s
      BY <1>1, <2>1, <3>1, NoneAssumption DEF TypeOK
    <3> QED
      BY <1>1, <2>1, <3>1 DEF TypeOK
  <2>4. pool'.runtime = runtimes[h] /\ generation'[runtimes[h]] > generation[runtimes[h]]
    BY <1>1, <2>1 DEF TypeOK
  <2> QED
    BY <1>1, <2>1, <2>2, <2>3, <2>4, ViewOutlived
<1>9. ASSUME NEW h \in Handle, FinishDeletion(h) PROVE Viewed(d)'
  <2>1. /\ UNCHANGED <<request, leases, phase, generation>> /\ pool = None
        /\ runtimes' = [runtimes EXCEPT ![h] = None]
        /\ pool'.to = None
    BY <1>9 DEF FinishDeletion, connVars
  <2>2. request[d].stage # "takeoverAdmitted"
    BY <1>1, <2>1, NobodyAdmitted
  <2>3. \A s \in Runtime :
          /\ phase'[s] = phase[s] /\ generation'[s] \in Nat /\ generation'[s] = generation[s]
          /\ \A k \in Handle : runtimes'[k] = s => runtimes[k] = s
    BY <1>1, <2>1, NoneAssumption DEF TypeOK
  <2> QED
    BY <1>1, <2>1, <2>2, <2>3, ViewOutlived
<1> QED
  BY <1>3, <1>4, <1>5, <1>6, <1>7, <1>8, <1>9 DEF IdentityStep

\* What a takeover in flight may rely on, in every state.
LEMMA TakeoverViews == Spec => []TakeoversViewed
<1>1. Init => TakeoversViewed
  BY DEF Init, TakeoversViewed, Viewed, Idle
<1>2. LeaseInv /\ TakeoversViewed /\ [Next]_vars => TakeoversViewed'
  <2>1. ASSUME LeaseInv, TakeoversViewed, Next PROVE TakeoversViewed'
    BY <2>1, ControlViews, IdentityViews DEF Next
  <2>2. ASSUME TakeoversViewed, UNCHANGED vars PROVE TakeoversViewed'
    BY <2>2 DEF vars, TakeoversViewed, Viewed, LiveOwner, LeaseOwnerFor
  <2> QED
    BY <2>1, <2>2
<1> QED
  BY LeaseInvariant, <1>1, <1>2, PTL DEF Spec

\* A takeover that swaps finds the entry its view names, which is live.
LEMMA SwapsViewed ==
    ASSUME LeaseInv, NEW c \in Conn, Viewed(c), TakeoverCommit(c), Replaces(c),
           runtimes[request[c].handle] = request[c].runtime
    PROVE  LiveOwner(request[c].handle) = request[c].observed
<1> DEFINE q == request[c]
           h == q.handle
           state == LeaseStateFor(h, generation[runtimes[h]])
<1>1. /\ h \in Handle /\ runtimes[h] # None /\ runtimes[h] \in Runtime
      /\ generation[runtimes[h]] \in Nat
  BY DEF LeaseInv, TypeOK, RequestsGrounded, Grounded, Request, Replaces
<1>2. Takeable(state, q, c)
  <2>1. request' # [request EXCEPT ![c] = Idle]
    BY DEF LeaseInv, TypeOK, Replaces, Idle
  <2> QED
    BY <2>1 DEF TakeoverCommit
<1>3. /\ ~state.terminal /\ state.revision = q.revision /\ state.owner # None
      /\ state = leases[h] /\ leases[h] # None
      /\ leases[h].generation = generation[runtimes[h]]
  BY <1>1, <1>2, StateFacts DEF LeaseInv, Takeable
<1>4. LiveOwner(h) = leases[h].owner /\ LiveOwner(h) # None
  BY <1>1, <1>3 DEF LiveOwner, LeaseOwnerFor
<1>5. generation[runtimes[h]] = q.generation
  BY <1>4 DEF Viewed, Replaces
<1> QED
  BY <1>3, <1>4, <1>5 DEF Viewed, Replaces

\* No other step grants an admitted takeover.
LEMMA OnlyCommitsReplace ==
    ASSUME TypeOK, Next, NEW c \in Conn, Replaces(c)
    PROVE  TakeoverCommit(c)
<1>1. request'[c] # request[c]
  BY DEF Replaces
<1>2. ASSUME NEW d \in Conn, ControlStep(d), d # c PROVE request'[c] = request[c]
  BY <1>2 DEF ControlStep, ClaimAdmit, ClaimCommit, TakeoverAdmit, TakeoverCommit, Continue,
     Disconnect, Sweep, ClaimRequest, TakeoverRequest, Release, Unsubscribe, Restart, connVars,
     TypeOK
<1>3. ASSUME IdentityStep PROVE request'[c] = request[c]
  BY <1>3 DEF IdentityStep, RekeyLease, ForgetLease, Crash, Evict, Respawn, Reconcile,
     ReserveDeletion, AbortDeletion, FinishDeletion, Track, RekeyRuntime, connVars
<1>4. ASSUME NEW h \in Handle, Release(c, h) \/ Unsubscribe(c, h)
      PROVE  request'[c].stage = request[c].stage
  <2>1. PICK w \in BOOLEAN : request' = [request EXCEPT ![c].wanted = w]
    BY <1>4 DEF Release, Unsubscribe, TypeOK, Request
  <2> QED
    BY <2>1 DEF TypeOK, Request
<1>5. ControlStep(c)
  BY <1>1, <1>2, <1>3 DEF Next
<1> QED
  BY <1>1, <1>4, <1>5
  DEF Replaces, ControlStep, ClaimAdmit, ClaimCommit, TakeoverAdmit, Continue, Disconnect, Sweep,
      ClaimRequest, TakeoverRequest, Restart, connVars

\* A takeover that commits replaces the very owner its requester saw: the actor
\* body of takeover() compares the exact revision, and the checks under the pool
\* lock compare the generation.
THEOREM TakeoversReplaceObserved == Spec => TakeoverReplacesObserved
<1> DEFINE Exact(c) == Replaces(c) /\ runtimes[request[c].handle] = request[c].runtime
                       => LiveOwner(request[c].handle) = request[c].observed
<1>1. LeaseInv /\ TakeoversViewed /\ [Next]_vars => [\A c \in Conn : Exact(c)]_vars
  <2>1. ASSUME LeaseInv, TakeoversViewed, Next, NEW c \in Conn, Replaces(c),
               runtimes[request[c].handle] = request[c].runtime
        PROVE  LiveOwner(request[c].handle) = request[c].observed
    <3>1. TakeoverCommit(c) /\ Viewed(c)
      BY <2>1, OnlyCommitsReplace DEF LeaseInv, TakeoversViewed
    <3> QED
      BY <2>1, <3>1, SwapsViewed
  <2> QED
    BY <2>1
<1> QED
  BY LeaseInvariant, TakeoverViews, <1>1, PTL DEF Spec, TakeoverReplacesObserved

-----------------------------------------------------------------------------
(* What disconnecting releases.                                             *)

\* The revision of an entry is at most what n tokens pay for.
Paid(e, n) ==
    e # None => e.revision <= 2 * n /\ (e.owner # None => e.revision < 2 * n)

LEMMA PaidWritten ==
    ASSUME TypeOK, TypeOK', RevisionsPaid, nextToken' \in {nextToken, nextToken + 1},
           \A h \in Handle : leases'[h] = leases[h] \/ Paid(leases'[h], nextToken')
    PROVE  RevisionsPaid'
<1> SUFFICES ASSUME NEW h \in Handle, leases'[h] # None
             PROVE  leases'[h].revision <= 2 * nextToken' /\
                    (leases'[h].owner # None => leases'[h].revision < 2 * nextToken')
  BY DEF RevisionsPaid, Owned
<1>1. CASE leases'[h] = leases[h]
  <2>1. /\ leases[h].revision \in Nat /\ nextToken \in Nat
        /\ leases[h].revision <= 2 * nextToken
        /\ leases[h].owner # None => leases[h].revision < 2 * nextToken
    BY <1>1 DEF TypeOK, LeaseState, RevisionsPaid, Owned
  <2> QED
    BY <1>1, <2>1
<1> QED
  BY <1>1 DEF Paid

\* What LeaseStateFor and a transition are paid by.
LEMMA PaidFacts ==
    ASSUME TypeOK, RevisionsPaid, NEW h \in Handle, NEW g \in Nat
    PROVE  /\ Paid(LeaseStateFor(h, g), nextToken)
           /\ \A o \in Owner : Paid(CommitLeaseTransition(LeaseStateFor(h, g), o), nextToken + 1)
           /\ LeaseStateFor(h, g).owner # None =>
                Paid(CommitLeaseTransition(LeaseStateFor(h, g), None), nextToken)
<1> DEFINE s == LeaseStateFor(h, g)
<1>1. s \in LeaseState /\ s.revision \in Nat /\ nextToken \in Nat
  BY StateFacts DEF LeaseState, TypeOK
<1>2. s.revision <= 2 * nextToken /\ (s.owner # None => s.revision < 2 * nextToken)
  BY <1>1 DEF LeaseStateFor, RevisionsPaid, Fresh, Owned
<1> HIDE DEF s
<1>3. \A o \in Owner : Paid(Advanced(s, o), nextToken + 1) /\ Paid(Exhausted(s), nextToken + 1)
  BY <1>1, <1>2 DEF Paid, Advanced, Exhausted
<1>4. Paid(Exhausted(s), nextToken)
  BY <1>1, <1>2 DEF Paid, Exhausted
<1>5. s.owner # None => Paid(Advanced(s, None), nextToken)
  BY <1>1, <1>2 DEF Paid, Advanced
<1>6. Paid(s, nextToken)
  BY <1>2 DEF Paid
<1> QED
  BY <1>3, <1>4, <1>5, <1>6 DEF CommitLeaseTransition, s

\* One entry is written: the stored one, or a transition of it.
LEMMA PaidEntry ==
    ASSUME TypeOK, TypeOK', RevisionsPaid, NEW h \in Handle, NEW g \in Nat,
           \/ /\ leases' = [leases EXCEPT ![h] = LeaseStateFor(h, g)]
              /\ nextToken' = nextToken
           \/ /\ leases' = [leases EXCEPT ![h] = CommitLeaseTransition(LeaseStateFor(h, g), None)]
              /\ LeaseStateFor(h, g).owner # None /\ nextToken' = nextToken
           \/ /\ \E o \in Owner :
                   leases' = [leases EXCEPT ![h] = CommitLeaseTransition(LeaseStateFor(h, g), o)]
              /\ nextToken' = nextToken + 1
    PROVE  RevisionsPaid'
<1>1. leases \in [Handle -> LeaseState \union {None}]
  BY DEF TypeOK
<1>2. Paid(leases'[h], nextToken') /\ \A k \in Handle \ {h} : leases'[k] = leases[k]
  BY <1>1, PaidFacts
<1> QED
  BY <1>2, PaidWritten

LEMMA PaidRelease ==
    ASSUME TypeOK, TypeOK', RevisionsPaid, NEW h \in Handle, UNCHANGED nextToken,
           \/ \E c \in Conn : leases' = ReleaseByConnection(c, h)
           \/ \E c \in Conn, t \in Nat : leases' = ReleaseByToken(c, h, t)
    PROVE  RevisionsPaid'
<1> DEFINE g == IF runtimes[h] # None THEN generation[runtimes[h]] ELSE leases[h].generation
           state == LeaseStateFor(h, g)
<1>1. CASE leases[h] = None
  BY <1>1 DEF ReleaseByConnection, ReleaseByToken, RevisionsPaid, Owned
<1>2. CASE leases[h] # None
  <2>1. g \in Nat
    BY <1>2 DEF TypeOK, LeaseState
  <2>2. \/ leases' = [leases EXCEPT ![h] = state]
        \/ /\ leases' = [leases EXCEPT ![h] = CommitLeaseTransition(state, None)]
           /\ state.owner # None
    BY <1>2 DEF ReleaseByConnection, ReleaseByToken
  <2> HIDE DEF g
  <2> QED
    BY <2>1, <2>2, PaidEntry
<1> QED
  BY <1>1, <1>2

\* Two transitions at most go with a token that claimWithTransition or takeover
\* drew: its grant and its release.
LEMMA RevisionsStayPaid ==
    ASSUME LeaseInv, LeaseInv', Next, RevisionsPaid
    PROVE  RevisionsPaid'
<1>1. TypeOK /\ TypeOK' /\ RequestsGrounded
  BY DEF LeaseInv
<1>2. CASE UNCHANGED <<leases, nextToken>>
  BY <1>2 DEF RevisionsPaid, Owned
<1>3. ASSUME NEW c \in Conn, ClaimCommit(c) PROVE RevisionsPaid'
  <2> DEFINE owner == [connectionId |-> c, fencingToken |-> nextToken]
             h == request[c].handle
             g == generation[request[c].runtime]
  <2>1. h \in Handle /\ g \in Nat /\ owner \in Owner
    BY <1>1, <1>3, NewOwnerType DEF RequestsGrounded, Grounded, ClaimCommit, TypeOK, Request
  <2>2. \/ /\ leases' = [leases EXCEPT ![h] = LeaseStateFor(h, g)]
           /\ nextToken' = nextToken
        \/ /\ leases' = [leases EXCEPT ![h] = CommitLeaseTransition(LeaseStateFor(h, g), owner)]
           /\ nextToken' = nextToken + 1
    BY <1>3 DEF ClaimCommit
  <2> HIDE DEF owner, h, g
  <2> QED
    BY <1>1, <2>1, <2>2, PaidEntry
<1>4. ASSUME NEW c \in Conn, TakeoverCommit(c) PROVE RevisionsPaid'
  <2> DEFINE owner == [connectionId |-> c, fencingToken |-> nextToken]
             h == request[c].handle
             g == generation[runtimes[h]]
  <2>1. h \in Handle /\ g \in Nat /\ owner \in Owner
    BY <1>1, <1>4, NewOwnerType DEF RequestsGrounded, Grounded, TakeoverCommit, TypeOK, Request
  <2>2. \/ /\ leases' = [leases EXCEPT ![h] = LeaseStateFor(h, g)]
           /\ nextToken' = nextToken
        \/ /\ leases' = [leases EXCEPT ![h] = CommitLeaseTransition(LeaseStateFor(h, g), owner)]
           /\ nextToken' = nextToken + 1
    BY <1>4 DEF TakeoverCommit
  <2> HIDE DEF owner, h, g
  <2> QED
    BY <1>1, <2>1, <2>2, PaidEntry
<1>5. ASSUME NEW c \in Conn, Continue(c) PROVE RevisionsPaid'
  <2>1. request[c].handle \in Handle /\ request[c].token \in Nat
    BY <1>1, <1>5 DEF RequestsGrounded, Grounded, Continue, TypeOK, Request, Token
  <2> QED
    BY <1>1, <1>2, <1>5, <2>1, PaidRelease DEF Continue
<1>6. ASSUME NEW c \in Conn, NEW h \in Handle, Release(c, h) \/ Unsubscribe(c, h)
      PROVE  RevisionsPaid'
  BY <1>1, <1>6, PaidRelease DEF Release, Unsubscribe
<1>7. ASSUME NEW c \in Conn, Sweep(c) PROVE RevisionsPaid'
  <2>1. nextToken \in Nat /\ nextToken' = nextToken
    BY <1>1, <1>7 DEF Sweep, TypeOK
  <2>2. \A h \in Handle :
          \/ leases'[h] = leases[h]
          \/ h \in OwnedBy(c) /\ leases'[h] \in {Advanced(leases[h], None), Exhausted(leases[h])}
    BY <1>7 DEF Sweep
  <2>3. ASSUME NEW h \in OwnedBy(c)
        PROVE  Paid(Advanced(leases[h], None), nextToken) /\ Paid(Exhausted(leases[h]), nextToken)
    <3>1. leases[h].revision \in Nat /\ leases[h].revision < 2 * nextToken
      BY <1>1 DEF OwnedBy, TypeOK, LeaseState, RevisionsPaid, Owned
    <3> QED
      BY <2>1, <3>1 DEF Paid, Advanced, Exhausted
  <2> QED
    BY <1>1, <2>1, <2>2, <2>3, PaidWritten
<1>8. ASSUME NEW h \in Handle, Reconcile(h) PROVE RevisionsPaid'
  <2>1. generation[runtimes[h]] \in Nat
    BY <1>1, <1>8 DEF Reconcile, TypeOK
  <2> QED
    BY <1>1, <1>8, <2>1, PaidEntry DEF Reconcile
<1>9. CASE RekeyLease \/ ForgetLease
  <2>1. pool \in Rekeying /\ pool.from \in Handle /\ nextToken' = nextToken /\ nextToken \in Nat
    BY <1>1, <1>9 DEF RekeyLease, ForgetLease, Rekeying, TypeOK
  <2>2. ASSUME RekeyLease
        PROVE  Paid(Rekeyed(leases[pool.from], generation[pool.runtime]), nextToken)
    <3> DEFINE previous == leases[pool.from]
               g == generation[pool.runtime]
    <3>1. \/ Rekeyed(previous, g) = Fresh(g)
          \/ previous # None /\ previous.owner = None /\ Rekeyed(previous, g) = previous
      <4>1. ~(Owned(pool.from) /\ previous.generation = g)
        BY <2>1, <2>2 DEF RekeyLease, LeaseInv, RekeyInProgress, TypeOK, LeaseState, Owned
      <4> QED
        BY <4>1 DEF Rekeyed, Owned
    <3>2. previous # None => previous.revision <= 2 * nextToken
      BY <2>1 DEF RevisionsPaid
    <3> HIDE DEF previous, g
    <3>3. Paid(Fresh(g), nextToken)
      BY <2>1 DEF Paid, Fresh
    <3> QED
      BY <3>1, <3>2, <3>3 DEF Paid, previous, g
  <2>3. \A h \in Handle : \/ leases'[h] = leases[h]
                          \/ leases'[h] = None
                          \/ RekeyLease /\ leases'[h] = Rekeyed(leases[pool.from], generation[pool.runtime])
    BY <1>1, <1>9 DEF RekeyLease, ForgetLease, TypeOK
  <2> QED
    BY <1>1, <2>1, <2>2, <2>3, PaidWritten DEF Paid
<1> QED
  BY <1>2, <1>3, <1>4, <1>5, <1>6, <1>7, <1>8, <1>9, ZenonT(100)
  DEF Next, ControlStep, IdentityStep, ClaimAdmit, TakeoverAdmit, Disconnect, ClaimRequest,
      TakeoverRequest, Restart, Crash, Evict, Respawn, ReserveDeletion, AbortDeletion,
      FinishDeletion, Track, RekeyRuntime

\* What a connection owns, the continuation of its request gives back.
Left(c) ==
    \A h \in OwnedBy(c) :
        /\ request[c].stage = "granted" /\ request[c].handle = h
        /\ request[c].token = leases[h].owner.fencingToken

\* A step that draws no token, or draws it for another connection, gives a
\* connection nothing.
LEMMA NothingGained ==
    ASSUME LeaseStep \/ Ungranted, NEW c \in Conn, nextToken' = nextToken \/ pool # c, TypeOK
    PROVE  \A h \in Handle : h \in OwnedBy(c)' => h \in OwnedBy(c) /\ leases'[h] = leases[h]
<1> SUFFICES ASSUME NEW h \in Handle, h \in OwnedBy(c)'
             PROVE  h \in OwnedBy(c) /\ leases'[h] = leases[h]
  OBVIOUS
<1>1. Owned(h)' /\ leases'[h].owner.connectionId = c
  BY DEF OwnedBy, Owned
<1>2. leases'[h] = leases[h]
  <2>1. CASE Ungranted \/ Quiet
    BY <1>1, <2>1 DEF Ungranted, Quiet
  <2>2. ASSUME NEW k \in Handle, NEW d \in Conn, Granted1(k, d) PROVE leases'[h] = leases[h]
    <3>1. d # c
      BY <2>2 DEF Granted1, TypeOK
    <3> QED
      BY <1>1, <2>2, <3>1 DEF Granted1
  <2> QED
    BY <2>1, <2>2 DEF LeaseStep
<1> QED
  BY <1>2 DEF OwnedBy

LEMMA LeftKept ==
    ASSUME LeaseStep \/ Ungranted, TypeOK, NEW c \in Conn, Left(c),
           nextToken' = nextToken \/ pool # c,
           request'[c] = request[c] \/ request[c].stage # "granted"
    PROVE  Left(c)'
<1> SUFFICES ASSUME NEW h \in OwnedBy(c)'
             PROVE  /\ request'[c].stage = "granted" /\ request'[c].handle = h
                    /\ request'[c].token = leases'[h].owner.fencingToken
  BY DEF Left
<1>1. h \in OwnedBy(c) /\ leases'[h] = leases[h]
  BY NothingGained DEF OwnedBy
<1> QED
  BY <1>1 DEF Left

\* A grant is what its continuation will find.
LEMMA CommitLeaves ==
    ASSUME LeaseInv, NEW c \in Conn, ClaimCommit(c) \/ TakeoverCommit(c), Left(c)
    PROVE  Left(c)'
<1>1. TypeOK /\ LeaseStep /\ request[c].stage # "granted"
  BY ClaimCommitStep, TakeoverCommitStep DEF LeaseInv, ClaimCommit, TakeoverCommit
<1>2. CASE nextToken' = nextToken
  BY <1>1, <1>2, LeftKept
<1>3. CASE nextToken' # nextToken
  <2> DEFINE owner == [connectionId |-> c, fencingToken |-> nextToken]
             q == request[c]
  <2>1. PICK g \in Nat, h \in Handle :
          LET state == LeaseStateFor(h, g)
          IN  /\ h = q.handle
              /\ leases' = [leases EXCEPT ![h] = CommitLeaseTransition(state, owner)]
              /\ request' = [request EXCEPT ![c] = IF state.revision >= MaxRevision THEN Idle
                                                   ELSE Granted(q, nextToken)]
    <3>1. CASE ClaimCommit(c)
      <4>1. q.handle \in Handle /\ generation[q.runtime] \in Nat
        BY <3>1 DEF LeaseInv, TypeOK, RequestsGrounded, Grounded, ClaimCommit, Request
      <4> QED
        BY <1>3, <3>1, <4>1 DEF ClaimCommit
    <3>2. CASE TakeoverCommit(c)
      <4>1. q.handle \in Handle /\ generation[runtimes[q.handle]] \in Nat
        BY <3>2 DEF LeaseInv, TypeOK, RequestsGrounded, Grounded, TakeoverCommit, Request
      <4> QED
        BY <1>3, <3>2, <4>1 DEF TakeoverCommit
    <3> QED
      BY <3>1, <3>2
  <2> DEFINE state == LeaseStateFor(h, g)
             e == CommitLeaseTransition(state, owner)
  <2>2. state \in LeaseState /\ owner \in Owner
    BY <1>1, StateFacts, NewOwnerType DEF TypeOK
  <2>3. e.owner \in {owner, None} /\ (state.revision >= MaxRevision => e.owner = None)
    BY <2>2, CommitFacts DEF CommitLeaseTransition, Exhausted
  <2>4. /\ leases'[h] = e /\ \A k \in Handle \ {h} : leases'[k] = leases[k]
        /\ request'[c] = IF state.revision >= MaxRevision THEN Idle ELSE Granted(q, nextToken)
    BY <1>1, <2>1 DEF TypeOK
  <2>5. owner.fencingToken = nextToken
    OBVIOUS
  <2> HIDE DEF state, e, owner
  <2>6. ASSUME NEW k \in Handle, k \in OwnedBy(c)' PROVE k = h /\ e.owner # None
    BY <1>1, <2>4, <2>6 DEF Left, OwnedBy
  <2>7. e.owner # None => /\ request'[c].stage = "granted" /\ request'[c].handle = h
                          /\ request'[c].token = leases'[h].owner.fencingToken
    <3>1. /\ Granted(q, nextToken).stage = "granted" /\ Granted(q, nextToken).handle = q.handle
          /\ Granted(q, nextToken).token = nextToken
      BY DEF Granted, Idle
    <3> QED
      BY <2>1, <2>3, <2>4, <2>5, <3>1
  <2> QED
    BY <2>6, <2>7 DEF Left, OwnedBy
<1> QED
  BY <1>2, <1>3

\* releaseExact takes the grant back, whatever became of the runtime.
LEMMA ContinueLeaves ==
    ASSUME LeaseInv, NEW c \in Conn, c \in closed, Continue(c), Left(c)
    PROVE  Left(c)'
<1> DEFINE h == request[c].handle
           t == request[c].token
           g == IF runtimes[h] # None THEN generation[runtimes[h]] ELSE leases[h].generation
           state == LeaseStateFor(h, g)
<1>1. /\ TypeOK /\ LeaseStep /\ nextToken' = nextToken /\ h \in Handle /\ t \in Nat
      /\ leases' = ReleaseByToken(c, h, t)
  BY ContinueStep
  DEF LeaseInv, TypeOK, RequestsGrounded, Grounded, Continue, GivesBack, Request, Token
<1>2. ASSUME NEW k \in Handle, k \in OwnedBy(c)' PROVE FALSE
  <2>1. k \in OwnedBy(c) /\ leases'[k] = leases[k]
    BY <1>1, <1>2, NothingGained
  <2>2. k = h /\ leases[h].owner.fencingToken = t /\ leases[h].owner.connectionId = c
    BY <2>1 DEF Left, OwnedBy
  <2>3. /\ leases[h] # None /\ leases[h].owner \in Owner /\ leases[h] \in LeaseState
        /\ ~leases[h].terminal
    BY <1>1, <2>1, <2>2 DEF OwnedBy, TypeOK, LeaseState
  <2>4. g \in Nat
    BY <1>1, <2>3 DEF TypeOK, LeaseState
  <2>5. leases[h].owner = [connectionId |-> c, fencingToken |-> t]
    BY <2>2, <2>3 DEF Owner
  <2>9. leases' = [leases EXCEPT ![h] =
                IF state.terminal \/ state.owner = None
                   \/ state.owner # [connectionId |-> c, fencingToken |-> t]
                THEN state ELSE CommitLeaseTransition(state, None)]
    BY <1>1, <2>3 DEF ReleaseByToken
  <2>7. /\ state \in LeaseState
        /\ state.owner # None => state = leases[h]
        /\ CommitLeaseTransition(state, None).owner = None
    BY <1>1, <2>4, StateFacts, CommitFacts
  <2>10. leases[h].owner # None
    BY <2>3, NoneAssumption
  <2> HIDE DEF state
  <2>6. /\ leases'[h] \in {state, CommitLeaseTransition(state, None)}
        /\ state = leases[h] => leases'[h] = CommitLeaseTransition(state, None)
    BY <1>1, <2>3, <2>5, <2>9, <2>10 DEF TypeOK
  <2>8. leases'[h].owner = None
    BY <2>6, <2>7
  <2> QED
    BY <1>2, <2>2, <2>8 DEF OwnedBy
<1> QED
  BY <1>2 DEF Left, OwnedBy

\* A cleanup that meets no exhausted revision visits every lease.
LEMMA SweepLeaves ==
    ASSUME LeaseInv, NEW c \in Conn, Sweep(c), RevisionsPaid, Unexhausted
    PROVE  OwnedBy(c)' = {}
<1>1. \A h \in OwnedBy(c) : ~(leases[h].revision >= MaxRevision)
  <2> SUFFICES ASSUME NEW h \in OwnedBy(c) PROVE ~(leases[h].revision >= MaxRevision)
    OBVIOUS
  <2>1. leases[h].revision \in Nat /\ leases[h].revision < 2 * nextToken /\ nextToken \in Nat
    BY DEF OwnedBy, LeaseInv, TypeOK, LeaseState, RevisionsPaid, Owned
  <2> QED
    BY <2>1, MaxRevisionAssumption DEF Unexhausted
<1>2. leases' = [h \in Handle |-> IF h \in OwnedBy(c) THEN Advanced(leases[h], None) ELSE leases[h]]
  BY <1>1 DEF Sweep
<1> QED
  BY <1>2 DEF OwnedBy, Advanced

LEMMA GrantsStayGivenBack ==
    ASSUME LeaseInv, LeaseInv', Next, GrantsGivenBack
    PROVE  GrantsGivenBack'
<1>1. TypeOK /\ TypeOK' /\ RevisionsPaid /\ RevisionsPaid'
  BY RevisionsStayPaid DEF GrantsGivenBack, LeaseInv
<1>2. LeaseStep \/ Ungranted
  BY ControlStepInvariant, IdentityStepInvariant DEF Next
<1>3. nextToken \in Nat /\ nextToken' \in {nextToken, nextToken + 1}
  BY <1>1, <1>2 DEF TypeOK, LeaseStep, Ungranted
<1> SUFFICES ASSUME Unexhausted', NEW c \in swept', NEW h \in OwnedBy(c)'
             PROVE  /\ request'[c].stage = "granted" /\ request'[c].handle = h
                    /\ request'[c].token = leases'[h].owner.fencingToken
  BY <1>1 DEF GrantsGivenBack, OnlyGrantsLeft
<1>4. Unexhausted
  <2>1. 2 * nextToken' <= MaxRevision /\ MaxRevision \in Nat
    BY MaxRevisionAssumption DEF Unexhausted
  <2>2. CASE nextToken' = nextToken
    BY <2>1, <2>2 DEF Unexhausted
  <2>3. CASE nextToken' = nextToken + 1
    <3>1. 2 * (nextToken + 1) <= MaxRevision /\ 2 * nextToken <= 2 * (nextToken + 1)
      BY <1>3, <2>1, <2>3
    <3> QED
      BY <1>3, <2>1, <3>1 DEF Unexhausted
  <2> QED
    BY <1>3, <2>2, <2>3
<1>5. CASE c \notin swept
  <2>1. Sweep(c) /\ c \in Conn
    <3>1. ASSUME NEW d \in Conn, ControlStep(d), ~Sweep(d) PROVE swept' = swept
      BY <3>1 DEF ControlStep, ClaimAdmit, ClaimCommit, TakeoverAdmit, TakeoverCommit, Continue,
         Disconnect, ClaimRequest, TakeoverRequest, Release, Unsubscribe, Restart, connVars
    <3>2. ASSUME IdentityStep PROVE swept' = swept
      BY <3>2 DEF IdentityStep, RekeyLease, ForgetLease, Crash, Evict, Respawn, Reconcile,
         ReserveDeletion, AbortDeletion, FinishDeletion, Track, RekeyRuntime, connVars
    <3>3. ASSUME NEW d \in Conn, Sweep(d) PROVE swept' = swept \union {d}
      BY <3>3 DEF Sweep
    <3> QED
      BY <1>5, <3>1, <3>2, <3>3 DEF Next
  <2> QED
    BY <1>1, <1>4, <2>1, SweepLeaves
<1>6. CASE c \in swept
  <2>1. c \in Conn /\ c \in closed /\ Left(c)
    BY <1>1, <1>4, <1>6 DEF TypeOK, GrantsGivenBack, OnlyGrantsLeft, Left
  <2>2. ASSUME nextToken' = nextToken \/ pool # c,
               request'[c] = request[c] \/ request[c].stage # "granted"
        PROVE  Left(c)'
    BY <1>1, <1>2, <2>1, <2>2, LeftKept
  <2>3. ASSUME ClaimCommit(c) \/ TakeoverCommit(c) PROVE Left(c)'
    BY <2>1, <2>3, CommitLeaves
  <2>4. ASSUME NEW d \in Conn, ClaimCommit(d) \/ TakeoverCommit(d), d # c PROVE Left(c)'
    <3>1. pool # c
      BY <2>4 DEF LeaseInv, RequestsGrounded, Grounded, ClaimCommit, TakeoverCommit
    <3>2. request'[c] = request[c]
      BY <1>1, <2>1, <2>4 DEF ClaimCommit, TakeoverCommit, TypeOK
    <3> QED
      BY <2>2, <3>1, <3>2
  <2>5. ASSUME NEW d \in Conn, Continue(d) PROVE Left(c)'
    <3>1. CASE d = c
      BY <2>1, <2>5, <3>1, ContinueLeaves
    <3>2. CASE d # c
      BY <1>1, <2>1, <2>2, <2>5, <3>2 DEF Continue, TypeOK
    <3> QED
      BY <3>1, <3>2
  <2>6. ASSUME NEW d \in Conn, ControlStep(d), ~ClaimCommit(d), ~TakeoverCommit(d), ~Continue(d)
        PROVE  Left(c)'
    <3>1. nextToken' = nextToken
      BY <2>6 DEF ControlStep, ClaimAdmit, TakeoverAdmit, Disconnect, Sweep, ClaimRequest,
         TakeoverRequest, Release, Unsubscribe, Restart, connVars
    <3>2. request'[c] = request[c] \/ request[c].stage # "granted"
      BY <1>1, <2>1, <2>6 DEF ControlStep, ClaimAdmit, TakeoverAdmit, Disconnect, Sweep,
         ClaimRequest, TakeoverRequest, Release, Unsubscribe, Restart, connVars, TypeOK
    <3> QED
      BY <2>2, <3>1, <3>2
  <2>7. ASSUME IdentityStep PROVE Left(c)'
    <3>1. UNCHANGED <<nextToken, request>>
      BY <2>7 DEF IdentityStep, RekeyLease, ForgetLease, Crash, Evict, Respawn, Reconcile,
         ReserveDeletion, AbortDeletion, FinishDeletion, Track, RekeyRuntime, connVars
    <3> QED
      BY <2>2, <3>1
  <2>8. Left(c)'
    BY <2>3, <2>4, <2>5, <2>6, <2>7 DEF Next
  <2> QED
    BY <2>8 DEF Left
<1> QED
  BY <1>5, <1>6

LEMMA GrantsAreGivenBack == Spec => []GrantsGivenBack
<1>1. Init => GrantsGivenBack
  BY DEF Init, GrantsGivenBack, RevisionsPaid, OnlyGrantsLeft
<1>2. LeaseInv /\ LeaseInv' /\ GrantsGivenBack /\ [Next]_vars => GrantsGivenBack'
  <2>1. ASSUME GrantsGivenBack, UNCHANGED vars PROVE GrantsGivenBack'
    BY <2>1 DEF vars, GrantsGivenBack, RevisionsPaid, Unexhausted, OnlyGrantsLeft, OwnedBy, Owned
  <2> QED
    BY <2>1, GrantsStayGivenBack
<1> QED
  BY LeaseInvariant, <1>1, <1>2, PTL DEF Spec

\* ADR 0003: a connection whose cleanup ran and whose last request settled owns
\* nothing.  releaseConnectionWithTransitions throws at an exhausted revision and
\* leaves the rest, so the promise holds until half of them have been drawn.
THEOREM DisconnectsReleaseAll == Spec => [](Unexhausted => DisconnectReleasesAll)
<1>1. GrantsGivenBack => (Unexhausted => DisconnectReleasesAll)
  <2> SUFFICES ASSUME OnlyGrantsLeft, NEW c \in swept, request[c].stage = "idle"
               PROVE  OwnedBy(c) = {}
    BY DEF GrantsGivenBack, DisconnectReleasesAll
  <2> QED
    BY DEF OnlyGrantsLeft
<1> QED
  BY GrantsAreGivenBack, <1>1, PTL

=============================================================================
