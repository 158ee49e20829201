-------------------------- MODULE SessionDirectory --------------------------
(***************************************************************************)
(* What one browser shows of the workspaces and Sessions, and what it does *)
(* with the Sessions it created and nobody used                            *)
(* (ui/src/stores/session-directory.ts, ui/src/lib/session-controller.ts). *)
(*                                                                         *)
(* Everything the browser knows is the record b; the operators from        *)
(* ReleaseChannel on are the functions of the source on that record, and   *)
(* an action is one task of the event loop: a click, the answer of a       *)
(* request, a message of the gateway.                                      *)
(*                                                                         *)
(* A Session is transient until its file exists.  The directory keeps what *)
(* it has been told of that (b.fact of the Session it shows or retains,    *)
(* b.hot of those that run), and the transport what its channel was told   *)
(* (b.runtime); the three need not agree.                                  *)
(*                                                                         *)
(* Left out: other browsers (BrowserControl), the identity of a runtime    *)
(* (a generation per Session), removal of a workspace by this browser,     *)
(* renaming, unread marks, the search field.                               *)
(***************************************************************************)
EXTENDS Naturals, FiniteSets, Sequences

CONSTANTS
  Session, Workspace, None,
  Durable,              \* the Session with a file from the beginning,
  Opened,               \* in this workspace, the one shown first
  Earlier,              \* Sessions without a file left by an earlier page
  MaxMoves,             \* bounds: navigations and reconnections,
  MaxRequests           \* and requests of the directory

ASSUME DirectoryAssumption ==
  /\ None \notin Session \union Workspace \union {"begin"} /\ "begin" \notin Workspace
  /\ Durable \in Session /\ Earlier \subseteq Session /\ Opened \in Workspace

VARIABLES
  server,   \* [files, runtimes, home, version, workspaces] of the gateway
  b,        \* the browser
  inventories \* inventories of running Sessions on their way to the browser

vars == <<server, b, inventories>>

-----------------------------------------------------------------------------
Fact == {"unknown", "unpersisted", "persisted"}
NoFlight == [pc |-> "none", token |-> 0, session |-> None, chained |-> 0]
Home(s) == server.home[s]
Files(w) == {s \in server.files : Home(s) = w}

\* resolveHotSessionPersistence on a running Session of the list.
HotFact(d, s) == IF s \in d.listed[Home(s)] THEN "persisted" ELSE d.hot[s]

\* hasLocalTransientContent is s \in d.content; releasableSessionState is
\* s \notin d.busy.
Baselined(d, s) == d.channel[s] \in {"viewer", "controller"}

ReleaseChannel(d, s) ==
  IF \/ ~Baselined(d, s) \/ s \in d.busy
     \/ d.runtime[s] = "unpersisted" /\ s \in d.content
  THEN d
  ELSE [d EXCEPT !.channel[s] = IF d.hot[s] = "absent" THEN "none" ELSE "viewer",
                 !.claims = @ \ {s}]

\* transientManagement: this browser may abandon the Session.
Managed(d, s) ==
  /\ d.channel[s] = "controller" /\ d.runtime[s] = "unpersisted"
  /\ s \in d.local /\ s \notin d.busy

AbandonChannel(d, s) ==
  IF d.asked[s] # "none" THEN d ELSE [d EXCEPT !.asked[s] = "sent"]

Abandonable(d, s) == Managed(d, s) /\ s \notin d.content

ReconciledNever(d, s) == d

\* reconcileHiddenSessionLifecycle of a Session that is hidden.
Reconciled(d, s) ==
  IF s = d.current \/ ~Baselined(d, s) THEN d
  ELSE IF Abandonable(d, s) THEN AbandonChannel(d, s)
  ELSE ReleaseChannel(d, s)

ReleaseDormant(d, s, next) ==
  IF s \in {None, next} THEN d
  ELSE IF Abandonable(d, s) THEN AbandonChannel(d, s)
  ELSE ReleaseChannel(d, s)

Subscribed(d, s) == [d EXCEPT !.channel[s] = IF @ = "none" THEN "joining" ELSE @]
Claimed(d, s) == [d EXCEPT !.claims = IF d.channel[s] = "controller" THEN @ ELSE @ \union {s}]

ClaimWhenFree(d, s) ==
  IF d.channel[s] = "joining" THEN [d EXCEPT !.claiming = s] ELSE Claimed(d, s)

ActivateView(d, s) ==
  LET c == [d EXCEPT !.claiming = None]
  IN IF s = None THEN c
     ELSE IF d.fact[s] = "unpersisted" THEN Claimed(Subscribed(c, s), s)
     ELSE ClaimWhenFree(Subscribed(c, s), s)

\* retainLocalTransient: what was typed into a Session without a file keeps it.
RetainLocal(d, prev, next) ==
  IF /\ prev \notin {None, next}
     /\ d.fact[prev] # "persisted" /\ prev \in d.content
  THEN [d EXCEPT !.retained[Home(prev)] = prev] ELSE d

Reload(d, w, connection) ==
  [d EXCEPT !.counter = @ + 1, !.latest[w] = d.counter + 1,
            !.loading = @ \/ d.workspace = w,
            !.lists = @ \union {[workspace |-> w, request |-> d.counter + 1, version |-> 0,
                                 files |-> {}, connection |-> connection]}]

\* Where a navigation leads: the token of every later answer.
NavigatedTo(d, w, s) ==
  [d EXCEPT !.workspace = w, !.current = s, !.nav = @ + 1, !.creation = 0]

SelectSession(d, s, fact) ==
  LET n == NavigatedTo(RetainLocal(d, d.current, s), Home(s), s)
      c == [n EXCEPT !.fact[s] = fact, !.retained[Home(s)] = IF @ = s THEN None ELSE @]
  IN ActivateView(ReleaseDormant(c, d.current, s), s)

\* The workspace alone is shown.
ShowWorkspace(d, w) ==
  ActivateView(ReleaseDormant(NavigatedTo(d, w, None), d.current, None), None)

LeaveSession(d, w) == ShowWorkspace(RetainLocal(d, d.current, None), w)

RemoveSession(d, s) ==
  LET c == [d EXCEPT !.listed[Home(s)] = @ \ {s}, !.hot[s] = "absent",
                     !.local = @ \ {s}, !.content = @ \ {s}, !.fact[s] = "unknown",
                     !.retained[Home(s)] = IF @ = s THEN None ELSE @]
  IN IF d.current = s THEN ActivateView([c EXCEPT !.current = None], None) ELSE c

\* forgetSession of the transport.
Forget(d, s) ==
  [d EXCEPT !.channel[s] = "none", !.claims = @ \ {s}, !.runtime[s] = "unknown"]

-----------------------------------------------------------------------------
(* Creation of a Session. *)

Unpersisted(d, w) == {s \in Session : Home(s) = w /\ d.hot[s] # "absent" /\ HotFact(d, s) = "unpersisted"}
Pending(d, w) == \E s \in Session : Home(s) = w /\ d.hot[s] # "absent" /\ HotFact(d, s) = "unknown"

\* The results of resumeTransientSession: {} when there is nothing to resume.
Resumed(d, w) ==
  LET held == d.retained[w] IN
  IF /\ d.current # None /\ Home(d.current) = w
     /\ d.fact[d.current] = "unpersisted" /\ d.current \in d.content
  THEN {d}
  ELSE IF held # None /\ d.fact[held] = "unpersisted"
  THEN {SelectSession(d, held, "unpersisted")}
  ELSE {SelectSession(d, s, "unpersisted") : s \in Unpersisted(d, w)}

BeginCreation(d, w) ==
  LET c == ShowWorkspace(d, w)
  IN [c EXCEPT !.creation = c.nav,
               !.flight[w] = [NoFlight EXCEPT !.pc = "asked", !.token = c.nav]]

Joined(d, w) ==
  LET f == d.flight[w] IN d.workspace = w /\ d.nav = f.token /\ d.creation = f.token

\* newSession, with performSessionCreation when no creation is in flight.
NewSession(d, w) ==
  IF d.flight[w].pc = "none"
  THEN IF Resumed(d, w) # {} THEN Resumed(d, w) ELSE {BeginCreation(d, w)}
  ELSE IF Joined(d, w) THEN {d}
  ELSE {[d EXCEPT !.flight[w].chained = d.nav]}

\* A creation that no navigation has overtaken.
OwnCreationAlways(d, w, token) == d.workspace = w
OwnCreation(d, w, token) == d.nav = token /\ d.creation = token /\ d.workspace = w

\* discardStaleCreatedSession, up to the wait for control.
DiscardStale(d, s) ==
  LET c == Claimed(Subscribed(d, s), s)
  IN IF Managed(c, s) THEN AbandonChannel(c, s) ELSE [c EXCEPT !.waiting = @ \union {s}]

CompleteCreation(d, w, token, s) ==
  LET c == [d EXCEPT !.local = @ \union {s}] IN
  IF OwnCreation(d, w, token) THEN SelectSession(c, s, "unpersisted") ELSE DiscardStale(c, s)

\* The flight f has ended; whoever called newSession meanwhile calls it again,
\* unless the user went elsewhere.
Ended(d, w) == [d EXCEPT !.flight[w] = NoFlight]
Settle(d, w, f) ==
  IF f.chained # 0 /\ d.workspace = w /\ d.nav = f.chained THEN NewSession(d, w) ELSE {d}

-----------------------------------------------------------------------------
(* The bounds: room for a move, and for requests. *)
MayMove == b'.nav + b'.connection <= MaxMoves
MayAsk(n) == b.counter + n <= MaxRequests

(* What the user does. *)

Visible == {s \in Session : Home(s) # None /\ (s \in b.listed[Home(s)] \/ b.hot[s] # "absent")}

\* openSession.
Open(s) ==
  /\ MayAsk(1) /\ s \in Visible /\ b.asked[s] = "none"
  /\ b' = Reload(SelectSession(b, s, HotFact(b, s)), Home(s), 0)
  /\ MayMove /\ UNCHANGED <<server, inventories>>

SelectWorkspace(w) ==
  /\ MayAsk(1) /\ w \in b.workspaces
  /\ b' = Reload(LeaveSession(b, w), w, 0)
  /\ MayMove /\ UNCHANGED <<server, inventories>>

\* The sidebar unfolds a workspace.
Unfold(w) ==
  /\ MayAsk(1) /\ w \in b.workspaces
  /\ b' = Reload(b, w, 0)
  /\ UNCHANGED <<server, inventories>>

ClickNew ==
  /\ b.workspace # None
  /\ b' \in NewSession(b, b.workspace)
  /\ MayMove /\ UNCHANGED <<server, inventories>>

Type ==
  /\ b.current # None /\ b.current \notin b.content
  /\ b' = [b EXCEPT !.content = @ \union {b.current}]
  /\ UNCHANGED <<server, inventories>>

\* The draft is deleted; a Session that has run has its conversation.
Erase ==
  /\ b.current \in b.content /\ b.current \notin server.files
  /\ b' = [b EXCEPT !.content = @ \ {b.current}]
  /\ UNCHANGED <<server, inventories>>

\* The first prompt: Pi writes the file of the Session.
Submit ==
  /\ b.current \in b.content \ server.files /\ b.channel[b.current] = "controller"
  /\ b.current \in server.runtimes
  /\ server' = [server EXCEPT !.files = @ \union {b.current}, !.version = @ + 1]
  /\ b' = [b EXCEPT !.busy = @ \union {b.current}]
  /\ UNCHANGED inventories

-----------------------------------------------------------------------------
(* What the gateway does and says. *)

\* A list is read at some moment between its request and its answer.
ServeList(x) ==
  /\ x \in b.lists /\ x.version = 0
  /\ b' = [b EXCEPT !.lists = (@ \ {x}) \union
        {[x EXCEPT !.version = server.version, !.files = Files(x.workspace)]}]
  /\ UNCHANGED <<server, inventories>>

IsLatest(x) == b.latest[x.workspace] = x.request
IsCurrent(x) == x.connection = 0 \/ x.connection = b.connection
Loaded(d, w) == [d EXCEPT !.loading = @ /\ d.workspace # w]

Listed(d, x) ==
  [Loaded(d, x.workspace) EXCEPT
     !.listed[x.workspace] = x.files, !.version[x.workspace] = x.version,
     !.retained[x.workspace] = IF @ \in x.files THEN None ELSE @,
     !.fact = [s \in Session |-> IF s = d.current /\ s \in x.files THEN "persisted" ELSE @[s]]]

ListAnswered(x) ==
  /\ x \in b.lists /\ x.version > 0
  /\ LET c == [b EXCEPT !.lists = @ \ {x}] IN
     b' = IF ~IsLatest(x) THEN c
          ELSE IF ~IsCurrent(x) THEN Loaded(c, x.workspace)
          ELSE Listed(c, x)
  /\ UNCHANGED <<server, inventories>>

ListFailed(x) ==
  /\ x \in b.lists
  /\ LET c == [b EXCEPT !.lists = @ \ {x}] IN
     b' = IF IsLatest(x) THEN Loaded(c, x.workspace) ELSE c
  /\ UNCHANGED <<server, inventories>>

Announced(set) == Append(inventories, set)

\* The gateway creates the Session a request asked for.
Create(w, s) ==
  /\ b.flight[w].pc = "asked" /\ Home(s) = None /\ Len(inventories) < 2
  /\ server' = [server EXCEPT !.home[s] = w, !.runtimes = @ \union {s}]
  /\ b' = [b EXCEPT !.flight[w].pc = "created", !.flight[w].session = s]
  /\ inventories' = Announced(server.runtimes \union {s})

CreateAnswered(w) ==
  /\ b.flight[w].pc = "created" /\ MayAsk(1)
  /\ LET f == b.flight[w]
         c == CompleteCreation(Ended(b, w), w, f.token, f.session)
     IN b' \in Settle(Reload(c, w, 0), w, f)
  /\ MayMove /\ UNCHANGED <<server, inventories>>

CreateFailed(w) ==
  /\ b.flight[w].pc = "asked"
  /\ LET f == b.flight[w]
         mark == IF b.nav = f.token /\ b.creation = f.token THEN 0 ELSE b.creation
     IN b' \in Settle([Ended(b, w) EXCEPT !.creation = mark], w, f)
  /\ MayMove /\ UNCHANGED <<server, inventories>>

\* abandonTransient of the gateway stops what has no file.
Abandon(s) ==
  /\ b.asked[s] = "sent" /\ Len(inventories) < 2
  /\ IF s \in server.runtimes \ server.files
     THEN /\ server' = [server EXCEPT !.runtimes = @ \ {s}]
          /\ b' = [b EXCEPT !.asked[s] = "done"]
          /\ inventories' = Announced(server.runtimes \ {s})
     ELSE /\ b' = [b EXCEPT !.asked[s] = "refused"]
          /\ UNCHANGED <<server, inventories>>

AbandonAnswered(s) ==
  /\ b.asked[s] \in {"done", "refused"} /\ MayAsk(1)
  /\ LET c == [b EXCEPT !.asked[s] = "none", !.stale = @ \ {s}] IN
     b' = IF b.asked[s] = "done" THEN RemoveSession(Forget(c, s), s)
          ELSE IF s \in b.stale THEN Reload(ReleaseChannel(c, s), Home(s), 0)
          ELSE ReleaseChannel(c, s)
  /\ UNCHANGED <<server, inventories>>

\* applyHotRuntimeInventory.
Inventory ==
  /\ inventories # <<>>
  /\ b' = [b EXCEPT !.hot = [s \in Session |->
        IF s \notin Head(inventories) THEN "absent"
        ELSE IF s \in b.listed[Home(s)] THEN "persisted"
        ELSE IF s = b.current THEN b.fact[s]
        ELSE IF @[s] = "absent" THEN "unknown" ELSE @[s]]]
  /\ inventories' = Tail(inventories)
  /\ UNCHANGED server

\* routeRuntime: the state of a subscribed Session, settled.
ApplyRuntime(d, s, fact) ==
  [d EXCEPT !.runtime[s] = fact, !.busy = @ \ {s},
            !.local = IF fact = "persisted" THEN @ \ {s} ELSE @,
            !.hot[s] = IF @ = "absent" THEN @ ELSE fact,
            !.fact[s] = IF s = d.current \/ s \in {d.retained[w] : w \in Workspace} THEN fact ELSE @]

Told(s) == IF s \in server.files THEN "persisted" ELSE "unpersisted"

\* The state of a Session after its work has settled.
Runtime(s) ==
  /\ Baselined(b, s) /\ s \in server.runtimes /\ (b.runtime[s] # Told(s) \/ s \in b.busy)
  /\ b' = Reconciled(ApplyRuntime(b, s, Told(s)), s)
  /\ UNCHANGED <<server, inventories>>

\* The snapshot of a subscription, its lease free for this browser.
Baseline(s) ==
  /\ b.channel[s] = "joining" /\ s \in server.runtimes \union server.files
  /\ LET c == ApplyRuntime([b EXCEPT !.channel[s] = "viewer"], s, Told(s))
         d == Reconciled(c, s)
     IN b' = IF b.claiming = s THEN Claimed([c EXCEPT !.claiming = None], s)
             ELSE IF s \in b.claims THEN c ELSE d
  /\ UNCHANGED <<server, inventories>>

\* A claim is granted; a Session found stale is abandoned as soon as it can be.
Granted(s) ==
  /\ b.channel[s] = "viewer" /\ s \in b.claims /\ s \in server.runtimes \union server.files
  /\ LET c == [b EXCEPT !.channel[s] = "controller", !.claims = @ \ {s}]
     IN b' = IF s \in b.waiting /\ Managed(c, s)
             THEN [AbandonChannel(c, s) EXCEPT !.waiting = @ \ {s},
                     !.stale = IF b.asked[s] = "none" THEN @ \union {s} ELSE @]
             ELSE Reconciled(c, s)
  /\ UNCHANGED <<server, inventories>>

\* waitForTransientControl gives up.
WaitExpires(s) ==
  /\ s \in b.waiting /\ MayAsk(1)
  /\ b' = Reload(ReleaseChannel([b EXCEPT !.waiting = @ \ {s}], s), Home(s), 0)
  /\ UNCHANGED <<server, inventories>>

-----------------------------------------------------------------------------
(* The list of workspaces, the first Session and a new connection. *)

LoadWorkspaces(d, connection) ==
  [d EXCEPT !.loads = @ \union {[nav |-> d.nav, connection |-> connection, request |-> d.wcounter + 1]},
            !.wcounter = @ + 1, !.loadingWorkspaces = TRUE]

\* Another browser removes a workspace from the list.
OtherRemoves(w) ==
  /\ w \in server.workspaces /\ Cardinality(server.workspaces) > 1
  /\ server' = [server EXCEPT !.workspaces = @ \ {w}]
  /\ UNCHANGED <<b, inventories>>

\* After the list of workspaces, a new connection reads the Sessions again.
Refreshed(d, x) ==
  IF x.connection # 0 /\ IsCurrent(x) /\ d.workspace # None
  THEN Reload(d, d.workspace, x.connection) ELSE d

Unmoved(x) == b.nav = x.nav

WorkspacesAnswered(x) ==
  /\ x \in b.loads /\ MayAsk(2)
  /\ LET c == [b EXCEPT !.loads = @ \ {x}]
         quiet == [c EXCEPT !.loadingWorkspaces = FALSE]
         shown == [quiet EXCEPT !.workspaces = server.workspaces]
     IN IF x.request # b.wcounter THEN b' = c
        ELSE IF ~IsCurrent(x) THEN b' = quiet
        ELSE IF ~Unmoved(x) THEN b' = Refreshed(quiet, x)
        ELSE IF b.workspace \in server.workspaces THEN b' = Refreshed(shown, x)
        ELSE \E w \in server.workspaces :
               b' = Reload([LeaveSession(shown, w) EXCEPT !.loading = TRUE], w, x.connection)
  /\ MayMove /\ UNCHANGED <<server, inventories>>

WorkspacesFailed(x) ==
  /\ x \in b.loads /\ MayAsk(1)
  /\ LET c == [b EXCEPT !.loads = @ \ {x}] IN
     b' = IF x.request # b.wcounter THEN c
          ELSE Refreshed([c EXCEPT !.loadingWorkspaces = FALSE], x)
  /\ UNCHANGED <<server, inventories>>

\* The socket comes back (watchDirectoryReconnect).
Reconnect ==
  /\ b.connection = 0
  /\ b' = LoadWorkspaces([b EXCEPT !.connection = @ + 1, !.wcounter = @ + 1,
            !.latest = [w \in Workspace |-> 0], !.loading = FALSE], b.connection + 1)
  /\ MayMove /\ UNCHANGED <<server, inventories>>

\* ensureInitialSession, and the wait of waitForHotTransientDecision in it.
EnsureInitial ==
  /\ b.initial = "begin" /\ b.workspace # None
  /\ LET w == b.workspace IN
     b' \in IF Resumed(b, w) # {} THEN {[d EXCEPT !.initial = None] : d \in Resumed(b, w)}
            ELSE {[b EXCEPT !.initial = w]}
  /\ MayMove /\ UNCHANGED <<server, inventories>>

InitialDecided ==
  /\ b.initial \in Workspace
  /\ LET w == b.initial
         c == [b EXCEPT !.initial = None]
     IN IF b.workspace # w \/ b.current # None \/ b.creation # 0 THEN b' = c
        ELSE ~Pending(b, w) /\ b' \in NewSession(c, w)
  /\ MayMove /\ UNCHANGED <<server, inventories>>

-----------------------------------------------------------------------------
\* The page has loaded; a Session created before it may still run.
Init ==
  \E left \in {{}, Earlier} :
    /\ server = [files |-> {Durable}, runtimes |-> left, version |-> 1, workspaces |-> Workspace,
                 home |-> [s \in Session |-> IF s \in left \union {Durable} THEN Opened ELSE None]]
    /\ b = [workspace |-> Opened, current |-> None, nav |-> 1, creation |-> 0,
            retained |-> [w \in Workspace |-> None], workspaces |-> Workspace,
            listed |-> [w \in Workspace |-> IF w = Opened THEN {Durable} ELSE {}],
            version |-> [w \in Workspace |-> IF w = Opened THEN 1 ELSE 0],
            hot |-> [s \in Session |-> IF s \in left THEN "unknown" ELSE "absent"],
            fact |-> [s \in Session |-> "unknown"],
            runtime |-> [s \in Session |-> "unknown"],
            channel |-> [s \in Session |-> IF s \in left THEN "joining" ELSE "none"],
            claims |-> {}, claiming |-> None, local |-> {}, content |-> {}, busy |-> {},
            asked |-> [s \in Session |-> "none"], stale |-> {}, waiting |-> {},
            flight |-> [w \in Workspace |-> NoFlight],
            counter |-> 0, latest |-> [w \in Workspace |-> 0], lists |-> {}, loading |-> FALSE,
            wcounter |-> 0, loads |-> {}, loadingWorkspaces |-> FALSE,
            connection |-> 0, initial |-> "begin"]
    /\ inventories = <<>>

\* The page is there once the first Session has been asked for.
Users ==
  /\ b.initial # "begin"
  /\ \/ \E s \in Session : Open(s)
     \/ \E w \in Workspace : SelectWorkspace(w) \/ Unfold(w)
     \/ ClickNew \/ Type \/ Erase \/ Submit

Next ==
  \/ Users
  \/ \E x \in b.lists : ServeList(x) \/ ListAnswered(x) \/ ListFailed(x)
  \/ \E w \in Workspace : CreateAnswered(w) \/ CreateFailed(w) \/ OtherRemoves(w)
  \/ \E w \in Workspace, s \in Session : Create(w, s)
  \/ \E s \in Session : Abandon(s) \/ AbandonAnswered(s) \/ Runtime(s) \/ Baseline(s)
                        \/ Granted(s) \/ WaitExpires(s)
  \/ \E x \in b.loads : WorkspacesAnswered(x) \/ WorkspacesFailed(x)
  \/ Inventory \/ Reconnect \/ EnsureInitial \/ InitialDecided

Spec == Init /\ [][Next]_vars

-----------------------------------------------------------------------------
TypeOK ==
  /\ server.files \subseteq Session /\ server.runtimes \subseteq Session
  /\ b.workspace \in Workspace \union {None} /\ b.current \in Session \union {None}
  /\ b.fact \in [Session -> Fact] /\ b.runtime \in [Session -> Fact]
  /\ b.hot \in [Session -> Fact \union {"absent"}]
  /\ b.channel \in [Session -> {"none", "joining", "viewer", "controller"}]
  /\ b.asked \in [Session -> {"none", "sent", "done", "refused"}]
  /\ b.retained \in [Workspace -> Session \union {None}]
  /\ b.claims \subseteq Session /\ b.content \subseteq Session /\ b.waiting \subseteq Session

\* The spinner turns only while an answer that will stop it is on its way.
LoadingExact ==
  /\ b.loading => \E x \in b.lists : x.workspace = b.workspace /\ b.latest[x.workspace] = x.request
  /\ b.loadingWorkspaces => \E x \in b.loads : x.request = b.wcounter

\* A Session this browser created and left untouched is not kept: hidden, it is
\* being abandoned, or its control has been given back.
NoneKept ==
  \A s \in b.local \ (b.content \union {b.current}) :
     Managed(b, s) => b.asked[s] # "none"

\* A Session in which something was typed and that has no file can be found
\* again: it is in the list of those that run, or will be when what is on its
\* way has arrived.  The exception is the one of AbandonsUntouched: the gateway
\* has stopped it, because this browser had asked for that.
DraftReachable ==
  \A s \in b.content : s \notin server.files /\ b.fact[s] = "unpersisted" =>
     \/ b.hot[s] # "absent"
     \/ \E i \in 1..Len(inventories) : s \in inventories[i]
     \/ b.asked[s] = "done"

DirectoryExact == TypeOK /\ LoadingExact /\ NoneKept /\ DraftReachable

\* No answer that was overtaken shows: nobody but the user leaves a Session in
\* which something was typed (unless it is being abandoned, see
\* AbandonsUntouched, or its workspace is gone), and what the sidebar lists of a
\* workspace never goes back.
DraftStays ==
  \/ b.current \notin b.content \/ b'.current = b.current
  \/ b.asked[b.current] = "done" \/ b.workspace \notin server.workspaces
  \/ Users \/ b.flight[b.workspace].chained = b.nav
ListsForward == \A w \in Workspace : b'.version[w] >= b.version[w]
OvertakenAnswersLost == [][DraftStays /\ ListsForward]_vars

\* Only what is untouched is abandoned: docs/decisions/0009, 11, "may use
\* transient abandon after exact baseline, lease, controller, idle, and
\* untouched checks succeed".  The code does not check a Session whose creation
\* was overtaken by a navigation (discardStaleCreatedSession), though the user
\* may have opened it from the list since.
AbandonsUntouched ==
  [][\A s \in Session : b.asked[s] = "none" /\ b'.asked[s] = "sent" => s \notin b.content]_vars
=============================================================================
