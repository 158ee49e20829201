----------------------- MODULE SessionDirectoryProofs -----------------------
(***************************************************************************)
(* Proofs about what a browser shows of the workspaces and Sessions        *)
(* (SessionDirectory).  The functions of the source work on one record, so *)
(* the parts of the invariant are stated of a record d of the directory    *)
(* and a state g of the gateway: a lemma says what one function makes of   *)
(* them, and a step is a composition of these.                             *)
(***************************************************************************)
EXTENDS SessionDirectory, SequenceTheorems, TLAPS

-----------------------------------------------------------------------------
(* The shape of the state                                                  *)

Flight == [pc : {"none", "asked", "created"}, token : Nat, session : Session \cup {None},
           chained : Nat]
List == [workspace : Workspace, request : Nat, version : Nat, files : SUBSET Session,
         connection : Nat]
Load == [nav : Nat, connection : Nat, request : Nat]
Channel == {"none", "joining", "viewer", "controller"}
Answer == {"none", "sent", "done", "refused"}

Directory ==
  [workspace : Workspace, current : Session \cup {None}, nav : Nat, creation : Nat,
   retained : [Workspace -> Session \cup {None}], workspaces : SUBSET Workspace,
   listed : [Workspace -> SUBSET Session], version : [Workspace -> Nat],
   hot : [Session -> Fact \cup {"absent"}], fact : [Session -> Fact],
   runtime : [Session -> Fact], channel : [Session -> Channel],
   claims : SUBSET Session, claiming : Session \cup {None}, local : SUBSET Session,
   content : SUBSET Session, busy : SUBSET Session, asked : [Session -> Answer],
   stale : SUBSET Session, waiting : SUBSET Session, flight : [Workspace -> Flight],
   counter : Nat, latest : [Workspace -> Nat], lists : SUBSET List, loading : BOOLEAN,
   wcounter : Nat, loads : SUBSET Load, loadingWorkspaces : BOOLEAN,
   connection : Nat, initial : Workspace \cup {None, "begin"}]

Gateway ==
  [files : SUBSET Session, runtimes : SUBSET Session, version : Nat,
   workspaces : SUBSET Workspace, home : [Session -> Workspace \cup {None}]]

-----------------------------------------------------------------------------
(* The inductive invariant                                                 *)

\* A request for a list is answered once; the latest for a workspace has read
\* nothing older than what is listed.
ListsInOrder(d, g) ==
  /\ \A x \in d.lists : x.request \in 1..d.counter /\ x.version <= g.version
  /\ \A x, y \in d.lists : x.request = y.request => x = y
  /\ \A w \in Workspace : d.latest[w] <= d.counter /\ d.version[w] <= g.version
  /\ \A x \in d.lists : d.latest[x.workspace] = x.request /\ x.version > 0 =>
       x.version >= d.version[x.workspace]

Turning(d) ==
  d.loading => \E x \in d.lists : x.workspace = d.workspace /\ d.latest[x.workspace] = x.request
Fetching(d) == d.loadingWorkspaces => \E x \in d.loads : x.request = d.wcounter
Spinning(d) == Turning(d) /\ Fetching(d)

\* What has no home is nothing to this browser.
Homes(d, g) ==
  /\ \A w \in Workspace : d.retained[w] # None => g.home[d.retained[w]] = w
  /\ \A s \in Session : g.home[s] = None =>
       /\ s \notin g.runtimes \cup g.files
       /\ d.channel[s] = "none" /\ d.asked[s] = "none" /\ s \notin d.waiting \cup d.local

\* What the directory holds for a running Session without a file is one, unless
\* the gateway has stopped it and the answer is on its way.
Exists(d, g, s) == s \in g.runtimes \cup g.files \/ d.asked[s] = "done"
Alive(d, g) ==
  \A s \in Session :
    /\ d.fact[s] = "unpersisted" \/ d.hot[s] = "unpersisted" => Exists(d, g, s)
    /\ d.asked[s] = "done" => s \notin g.runtimes

Kept(d) ==
  \A s \in d.local \ (d.content \cup {d.current}) : Managed(d, s) => d.asked[s] # "none"

\* The Session s was created for w and its answer is on its way.
Created(d, g, w, s) ==
  /\ s \in Session /\ g.home[s] = w /\ s \in g.runtimes
  /\ s \notin d.local /\ d.asked[s] = "none"

\* A creation is shown as such while no Session is, and what was created has
\* neither been shown nor abandoned before its answer.
Creating(d, g) ==
  /\ d.creation # 0 => d.current = None
  /\ d.initial = "begin" => d.content = {}
  /\ \A w \in Workspace : d.flight[w].pc # "none" => d.flight[w].token # 0
  /\ \A w \in Workspace : d.flight[w].pc = "created" => Created(d, g, w, d.flight[w].session)

Sessions(d, g) == Homes(d, g) /\ Alive(d, g) /\ Kept(d) /\ Creating(d, g)

\* What runs is in the last inventory, or in the list when none is on its way.
Runs(d, g, q) ==
  \A s \in g.runtimes : IF q = <<>> THEN d.hot[s] # "absent" ELSE s \in q[Len(q)]

DirectoryInv ==
  /\ b \in Directory /\ server \in Gateway /\ inventories \in Seq(SUBSET Session)
  /\ ListsInOrder(b, server) /\ Spinning(b) /\ Sessions(b, server) /\ Runs(b, server, inventories)

-----------------------------------------------------------------------------
(* What the functions of the channel leave alone                           *)

\* Only channels, claims and requests to abandon change: none becomes a
\* controller, only that of t is new, and only what is managed is abandoned.
SameView(d, e) ==
  /\ e.workspace = d.workspace /\ e.current = d.current /\ e.nav = d.nav
  /\ e.creation = d.creation /\ e.retained = d.retained /\ e.listed = d.listed
  /\ e.version = d.version /\ e.hot = d.hot /\ e.fact = d.fact /\ e.runtime = d.runtime
  /\ e.local = d.local /\ e.content = d.content /\ e.busy = d.busy /\ e.flight = d.flight
  /\ e.waiting = d.waiting
  /\ e.counter = d.counter /\ e.latest = d.latest /\ e.lists = d.lists
  /\ e.loading = d.loading /\ e.wcounter = d.wcounter /\ e.loads = d.loads
  /\ e.loadingWorkspaces = d.loadingWorkspaces /\ e.connection = d.connection
  /\ e.initial = d.initial

Quiet(d, e, t) ==
  /\ e \in Directory /\ SameView(d, e)
  /\ \A s \in Session :
       /\ e.channel[s] = "controller" => d.channel[s] = "controller"
       /\ e.channel[s] # "none" => d.channel[s] # "none" \/ s = t
       /\ e.asked[s] # d.asked[s] =>
            d.asked[s] = "none" /\ e.asked[s] = "sent" /\ Managed(d, s)

LEMMA QuietSelf ==
  ASSUME NEW d \in Directory, NEW t
  PROVE  Quiet(d, d, t)
BY DEF Quiet, SameView

LEMMA QuietSameManaged ==
  ASSUME NEW d \in Directory, NEW e, NEW t, Quiet(d, e, t), NEW s \in Session, Managed(e, s)
  PROVE  Managed(d, s)
BY DEF Quiet, SameView, Managed

LEMMA QuietThen ==
  ASSUME NEW d \in Directory, NEW e, NEW f, NEW t, Quiet(d, e, t), Quiet(e, f, t)
  PROVE  Quiet(d, f, t)
<1>1. \A s \in Session : Managed(e, s) => Managed(d, s)
  BY QuietSameManaged
<1>2. ASSUME NEW s \in Session
      PROVE  /\ f.channel[s] = "controller" => d.channel[s] = "controller"
             /\ f.channel[s] # "none" => d.channel[s] # "none" \/ s = t
             /\ f.asked[s] # d.asked[s] =>
                  d.asked[s] = "none" /\ f.asked[s] = "sent" /\ Managed(d, s)
  BY <1>1, <1>2 DEF Quiet, SameView
<1> QED
  BY <1>2 DEF Quiet, SameView

LEMMA QuietWider ==
  ASSUME NEW d, NEW e, NEW t, Quiet(d, e, None)
  PROVE  None \notin Session => Quiet(d, e, t)
BY DEF Quiet, SameView

LEMMA FactTyped ==
  ASSUME NEW d \in Directory, NEW x \in [Session -> Fact]
  PROVE  [d EXCEPT !.fact = x] \in Directory
BY DEF Directory

LEMMA ChannelTyped ==
  ASSUME NEW d \in Directory, NEW x \in [Session -> Channel], NEW y \in SUBSET Session
  PROVE  [d EXCEPT !.channel = x, !.claims = y] \in Directory
BY DEF Directory

LEMMA AskedTyped ==
  ASSUME NEW d \in Directory, NEW x \in [Session -> Answer], NEW y \in SUBSET Session
  PROVE  [d EXCEPT !.asked = x, !.stale = y] \in Directory
BY DEF Directory

LEMMA RuntimeTyped ==
  ASSUME NEW d \in Directory, NEW x \in [Session -> Fact], NEW y \in [Session -> Fact]
  PROVE  [d EXCEPT !.runtime = x, !.fact = y] \in Directory
BY DEF Directory

LEMMA ListedTyped ==
  ASSUME NEW d \in Directory, NEW x \in [Workspace -> SUBSET Session],
         NEW y \in [Session -> Fact \cup {"absent"}]
  PROVE  [d EXCEPT !.listed = x, !.hot = y] \in Directory
BY DEF Directory

LEMMA LocalTyped ==
  ASSUME NEW d \in Directory, NEW x \in SUBSET Session, NEW y \in SUBSET Session
  PROVE  [d EXCEPT !.local = x, !.content = y] \in Directory
BY DEF Directory

LEMMA ShownTyped ==
  ASSUME NEW d \in Directory, NEW x \in [Workspace -> Session \cup {None}],
         NEW y \in Session \cup {None}
  PROVE  [d EXCEPT !.retained = x, !.current = y] \in Directory
BY DEF Directory

LEMMA ChannelSet ==
  ASSUME NEW d \in Directory, NEW s \in Session, NEW t, NEW c \in Channel,
         c = "controller" => d.channel[s] = "controller",
         c # "none" => d.channel[s] # "none" \/ s = t,
         NEW claims \in SUBSET Session
  PROVE  Quiet(d, [d EXCEPT !.channel[s] = c, !.claims = claims], t)
<1>1. PICK ch : ch = [d.channel EXCEPT ![s] = c]
  OBVIOUS
<1>2. d.channel \in [Session -> Channel]
  BY DEF Directory
<1>3. ch \in [Session -> Channel] /\ \A x \in Session : ch[x] = IF x = s THEN c ELSE d.channel[x]
  BY <1>1, <1>2
<1>4. PICK e : e = [d EXCEPT !.channel = ch, !.claims = claims]
  OBVIOUS
<1>5. e \in Directory
  BY <1>3, <1>4, ZenonT(100) DEF Directory
<1>6. e = [d EXCEPT !.channel[s] = c, !.claims = claims]
  BY <1>1, <1>4 DEF Directory
<1>7. e.channel = ch /\ e.asked = d.asked
  BY <1>4 DEF Directory
<1>8. SameView(d, e)
  BY <1>4 DEF SameView, Directory
<1> QED
  BY <1>3, <1>5, <1>6, <1>7, <1>8 DEF Quiet

LEMMA AskedSet ==
  ASSUME NEW d \in Directory, NEW s \in Session, NEW t, Managed(d, s), d.asked[s] = "none"
  PROVE  Quiet(d, [d EXCEPT !.asked[s] = "sent"], t)
<1>1. PICK ask : ask = [d.asked EXCEPT ![s] = "sent"]
  OBVIOUS
<1>2. d.asked \in [Session -> Answer] /\ "sent" \in Answer
  BY DEF Directory, Answer
<1>3. /\ ask \in [Session -> Answer]
      /\ \A x \in Session : ask[x] = IF x = s THEN "sent" ELSE d.asked[x]
  BY <1>1, <1>2
<1>4. PICK e : e = [d EXCEPT !.asked = ask]
  OBVIOUS
<1>5. e \in Directory
  BY <1>3, <1>4, ZenonT(100) DEF Directory
<1>6. e = [d EXCEPT !.asked[s] = "sent"]
  BY <1>1, <1>4 DEF Directory
<1>7. e.asked = ask /\ e.channel = d.channel
  BY <1>4 DEF Directory
<1>8. SameView(d, e)
  BY <1>4 DEF SameView, Directory
<1> QED
  BY <1>3, <1>5, <1>6, <1>7, <1>8 DEF Quiet

LEMMA ReleaseQuiet ==
  ASSUME NEW d \in Directory, NEW s \in Session, NEW t
  PROVE  Quiet(d, ReleaseChannel(d, s), t)
<1>1. d.claims \in SUBSET Session
  BY DEF Directory
<1>2. PICK c : c = IF d.hot[s] = "absent" THEN "none" ELSE "viewer"
  OBVIOUS
<1>3. c \in Channel /\ c # "controller"
  BY <1>2 DEF Channel
<1>4. CASE ReleaseChannel(d, s) = d
  BY <1>4, QuietSelf
<1>5. CASE ReleaseChannel(d, s) # d
  <2>1. d.channel[s] # "none"
    BY <1>5 DEF ReleaseChannel, Baselined
  <2>2. ReleaseChannel(d, s) = [d EXCEPT !.channel[s] = c, !.claims = d.claims \ {s}]
    BY <1>2, <1>5 DEF ReleaseChannel
  <2>3. d.claims \ {s} \in SUBSET Session
    BY <1>1
  <2>4. Quiet(d, [d EXCEPT !.channel[s] = c, !.claims = d.claims \ {s}], t)
    BY <1>3, <2>1, <2>3, ChannelSet
  <2> QED
    BY <2>2, <2>4
<1> QED
  BY <1>4, <1>5

LEMMA AbandonQuiet ==
  ASSUME NEW d \in Directory, NEW s \in Session, NEW t, Managed(d, s)
  PROVE  Quiet(d, AbandonChannel(d, s), t)
BY QuietSelf, AskedSet DEF AbandonChannel

LEMMA ReconciledQuiet ==
  ASSUME NEW d \in Directory, NEW s \in Session, NEW t
  PROVE  Quiet(d, Reconciled(d, s), t)
<1>1. Abandonable(d, s) => Managed(d, s)
  BY DEF Abandonable
<1> QED
  BY <1>1, QuietSelf, ReleaseQuiet, AbandonQuiet DEF Reconciled

LEMMA DormantQuiet ==
  ASSUME NEW d \in Directory, NEW s \in Session \cup {None}, NEW next, NEW t
  PROVE  Quiet(d, ReleaseDormant(d, s, next), t)
<1>1. Abandonable(d, s) => Managed(d, s)
  BY DEF Abandonable
<1> QED
  BY <1>1, QuietSelf, ReleaseQuiet, AbandonQuiet DEF ReleaseDormant

LEMMA SubscribedQuiet ==
  ASSUME NEW d \in Directory, NEW s \in Session
  PROVE  Quiet(d, Subscribed(d, s), s)
<1>1. d.claims \in SUBSET Session /\ d.channel \in [Session -> Channel]
  BY DEF Directory
<1>2. PICK c : c = IF d.channel[s] = "none" THEN "joining" ELSE d.channel[s]
  OBVIOUS
<1>3. c \in Channel /\ (c = "controller" => d.channel[s] = "controller")
  BY <1>1, <1>2 DEF Channel
<1>4. Subscribed(d, s) = [d EXCEPT !.channel[s] = c, !.claims = d.claims]
  BY <1>1, <1>2 DEF Subscribed, Directory
<1>5. Quiet(d, [d EXCEPT !.channel[s] = c, !.claims = d.claims], s)
  BY <1>1, <1>3, ChannelSet
<1> QED
  BY <1>4, <1>5

LEMMA ClaimedQuiet ==
  ASSUME NEW d \in Directory, NEW s \in Session, NEW t
  PROVE  Quiet(d, Claimed(d, s), t)
<1>1. PICK cl : cl = IF d.channel[s] = "controller" THEN d.claims ELSE d.claims \cup {s}
  OBVIOUS
<1>2. cl \in SUBSET Session
  BY <1>1 DEF Directory
<1>3. PICK e : e = [d EXCEPT !.claims = cl]
  OBVIOUS
<1>4. e = Claimed(d, s)
  BY <1>1, <1>3 DEF Claimed, Directory
<1>5. e \in Directory
  BY <1>2, <1>3, ZenonT(100) DEF Directory
<1>6. SameView(d, e) /\ e.channel = d.channel /\ e.asked = d.asked
  BY <1>3 DEF SameView, Directory
<1> QED
  BY <1>4, <1>5, <1>6 DEF Quiet

LEMMA ClaimingQuiet ==
  ASSUME NEW d \in Directory, NEW s \in Session \cup {None}, NEW t
  PROVE  Quiet(d, [d EXCEPT !.claiming = s], t)
<1> DEFINE e == [d EXCEPT !.claiming = s]
<1>1. e \in Directory
  BY DEF Directory
<1>2. SameView(d, e) /\ e.channel = d.channel /\ e.asked = d.asked
  BY DEF SameView, Directory
<1> QED
  BY <1>1, <1>2 DEF Quiet

LEMMA ActivateQuiet ==
  ASSUME NEW d \in Directory, NEW s \in Session \cup {None}
  PROVE  Quiet(d, ActivateView(d, s), s)
<1> DEFINE c == [d EXCEPT !.claiming = None]
           j == Subscribed(c, s)
<1>1. Quiet(d, c, s) /\ c \in Directory
  BY ClaimingQuiet DEF Quiet, SameView
<1>2. CASE s = None
  BY <1>1, <1>2 DEF ActivateView
<1>3. CASE s # None
  <2>1. s \in Session
    BY <1>3
  <2>2. Quiet(c, j, s) /\ j \in Directory
    <3> HIDE DEF c
    <3> QED
      BY <1>1, <2>1, SubscribedQuiet DEF Quiet, SameView
  <2>3. Quiet(j, Claimed(j, s), s) /\ Quiet(j, [j EXCEPT !.claiming = s], s)
    BY <2>1, <2>2, ClaimedQuiet, ClaimingQuiet
  <2>4. ActivateView(d, s) \in {Claimed(j, s), [j EXCEPT !.claiming = s]}
    BY <1>3 DEF ActivateView, ClaimWhenFree
  <2> HIDE DEF c, j
  <2>5. Quiet(j, ActivateView(d, s), s)
    BY <2>3, <2>4
  <2>6. Quiet(d, j, s)
    BY <1>1, <2>2, QuietThen
  <2> QED
    BY <2>5, <2>6, QuietThen
<1> QED
  BY <1>2, <1>3

Rest(d, g) == Homes(d, g) /\ Alive(d, g) /\ Creating(d, g)

\* What has a home may be followed: the parts of the invariant survive.
LEMMA QuietRest ==
  ASSUME NEW d \in Directory, NEW g, NEW e, NEW t, Quiet(d, e, t), Rest(d, g),
         t \in Session => g.home[t] # None
  PROVE  Rest(e, g)
<1>1. Homes(e, g)
  BY DEF Rest, Homes, Quiet, SameView, Managed
<1>2. Alive(e, g)
  BY DEF Rest, Alive, Exists, Quiet, SameView
<1>3. Creating(e, g)
  <2>1. /\ e.creation # 0 => e.current = None
        /\ e.initial = "begin" => e.content = {}
        /\ \A w \in Workspace : e.flight[w].pc # "none" => e.flight[w].token # 0
    BY DEF Rest, Creating, Quiet, SameView
  <2>2. ASSUME NEW w \in Workspace, e.flight[w].pc = "created"
        PROVE  Created(e, g, w, e.flight[w].session)
    <3>1. e.flight = d.flight /\ e.local = d.local
      BY DEF Quiet, SameView
    <3>2. PICK s : s = d.flight[w].session
      OBVIOUS
    <3>3. Created(d, g, w, s)
      BY <2>2, <3>1, <3>2 DEF Rest, Creating
    <3>4. e.asked[s] = "none"
      BY <3>3 DEF Quiet, Managed, Created
    <3> QED
      BY <3>1, <3>2, <3>3, <3>4 DEF Created
  <2> QED
    BY <2>1, <2>2 DEF Creating
<1> QED
  BY <1>1, <1>2, <1>3 DEF Rest

LEMMA QuietKept ==
  ASSUME NEW d \in Directory, NEW e, NEW t, Quiet(d, e, t), Kept(d)
  PROVE  Kept(e)
<1> SUFFICES ASSUME NEW s \in e.local \ (e.content \cup {e.current}), Managed(e, s)
             PROVE  e.asked[s] # "none"
  BY DEF Kept
<1>1. s \in Session /\ s \in d.local \ (d.content \cup {d.current})
  BY DEF Quiet, SameView, Directory
<1>2. Managed(d, s)
  BY <1>1, QuietSameManaged
<1> QED
  BY <1>1, <1>2 DEF Kept, Quiet

LEMMA QuietSessions ==
  ASSUME NEW d \in Directory, NEW g, NEW e, NEW t, Quiet(d, e, t), Sessions(d, g),
         t \in Session => g.home[t] # None
  PROVE  Sessions(e, g)
<1>1. Rest(d, g) /\ Kept(d)
  BY DEF Sessions, Rest
<1>2. Rest(e, g) /\ Kept(e)
  BY <1>1, QuietRest, QuietKept
<1> QED
  BY <1>2 DEF Sessions, Rest

\* The lists, the spinners and the inventories know nothing of the channels.
Lists(d, g, q) == ListsInOrder(d, g) /\ Spinning(d) /\ Runs(d, g, q)

LEMMA QuietLists ==
  ASSUME NEW d, NEW g, NEW q, NEW e, NEW t, Quiet(d, e, t), Lists(d, g, q)
  PROVE  Lists(e, g, q)
BY DEF Lists, ListsInOrder, Spinning, Turning, Fetching, Runs, Quiet, SameView

-----------------------------------------------------------------------------
(* A navigation                                                            *)

\* What a navigation to s in w leaves alone, and that whoever leaves an
\* untouched Session of its own abandons it.
Navigated(d, e, w, s) ==
  /\ e \in Directory /\ e.workspace = w /\ e.current = s /\ e.nav = d.nav + 1 /\ e.creation = 0
  /\ e.listed = d.listed /\ e.version = d.version /\ e.hot = d.hot /\ e.runtime = d.runtime
  /\ e.local = d.local /\ e.content = d.content /\ e.busy = d.busy /\ e.flight = d.flight
  /\ e.waiting = d.waiting
  /\ e.counter = d.counter /\ e.latest = d.latest /\ e.lists = d.lists
  /\ e.loading = d.loading /\ e.wcounter = d.wcounter /\ e.loads = d.loads
  /\ e.loadingWorkspaces = d.loadingWorkspaces /\ e.connection = d.connection
  /\ e.initial = d.initial
  /\ \A x \in Session :
       /\ e.channel[x] = "controller" => d.channel[x] = "controller"
       /\ e.asked[x] # d.asked[x] =>
            d.asked[x] = "none" /\ e.asked[x] = "sent" /\ Managed(d, x)

RetainedFit(r, g) ==
  /\ r \in [Workspace -> Session \cup {None}]
  /\ \A w \in Workspace : r[w] # None => g.home[r[w]] = w

LEMMA RetainIs ==
  ASSUME NEW d \in Directory, Homes(d, server), NEW prev \in Session \cup {None}, NEW next
  PROVE  \E r : RetainedFit(r, server) /\ RetainLocal(d, prev, next) = [d EXCEPT !.retained = r]
<1>1. d.retained \in [Workspace -> Session \cup {None}] /\ RetainedFit(d.retained, server)
  BY DEF Directory, Homes, RetainedFit
<1>2. d = [d EXCEPT !.retained = d.retained]
  BY DEF Directory
<1>3. CASE RetainLocal(d, prev, next) = d
  BY <1>1, <1>2, <1>3
<1>4. CASE RetainLocal(d, prev, next) # d
  <2>1. PICK r : r = [d.retained EXCEPT ![Home(prev)] = prev]
    OBVIOUS
  <2>2. RetainLocal(d, prev, next) = [d EXCEPT !.retained = r]
    BY <1>4, <2>1 DEF RetainLocal
  <2>3. RetainedFit(r, server)
    BY <1>1, <2>1 DEF RetainedFit, Home
  <2> QED
    BY <2>2, <2>3
<1> QED
  BY <1>3, <1>4

MovedTo(d, w, s, r, f) ==
  [d EXCEPT !.retained = r, !.workspace = w, !.current = s, !.nav = d.nav + 1, !.creation = 0,
            !.fact = f]

Landing(d, c, r, f) ==
  c.retained = r /\ c.fact = f /\ c.channel = d.channel /\ c.asked = d.asked

LEMMA MovedIs ==
  ASSUME NEW d \in Directory, NEW w \in Workspace, NEW s \in Session \cup {None},
         NEW r \in [Workspace -> Session \cup {None}], NEW f \in [Session -> Fact],
         NEW c, c = MovedTo(d, w, s, r, f)
  PROVE  Navigated(d, c, w, s) /\ Landing(d, c, r, f)
<1>1. c \in Directory
  <2>1. PICK n : n = d.nav + 1
    OBVIOUS
  <2>2. n \in Nat /\ 0 \in Nat
    BY <2>1 DEF Directory
  <2>3. PICK c1 : c1 = [d EXCEPT !.retained = r, !.fact = f]
    OBVIOUS
  <2>4. c1 \in Directory
    BY <2>3, ZenonT(100) DEF Directory
  <2>5. PICK c2 : c2 = [c1 EXCEPT !.nav = n, !.creation = 0]
    OBVIOUS
  <2>6. c2 \in Directory
    BY <2>2, <2>4, <2>5, ZenonT(100) DEF Directory
  <2>7. [c2 EXCEPT !.workspace = w, !.current = s] \in Directory
    BY <2>6, ZenonT(100) DEF Directory
  <2>8. c = [c2 EXCEPT !.workspace = w, !.current = s]
    BY <2>1, <2>3, <2>5 DEF Directory, MovedTo
  <2> QED
    BY <2>7, <2>8
<1>2. c.retained = r /\ c.fact = f /\ c.channel = d.channel /\ c.asked = d.asked
  BY DEF Directory, MovedTo
<1>3. /\ c.workspace = w /\ c.current = s /\ c.nav = d.nav + 1 /\ c.creation = 0
      /\ c.listed = d.listed /\ c.version = d.version /\ c.hot = d.hot /\ c.runtime = d.runtime
      /\ c.local = d.local /\ c.content = d.content /\ c.busy = d.busy /\ c.flight = d.flight
      /\ c.waiting = d.waiting
      /\ c.counter = d.counter /\ c.latest = d.latest /\ c.lists = d.lists
      /\ c.loading = d.loading /\ c.wcounter = d.wcounter /\ c.loads = d.loads
      /\ c.loadingWorkspaces = d.loadingWorkspaces /\ c.connection = d.connection
      /\ c.initial = d.initial
  BY DEF Directory, MovedTo
<1> QED
  BY <1>1, <1>2, <1>3 DEF Navigated, Landing

LEMMA NavigatedQuiet ==
  ASSUME NEW d \in Directory, NEW c, NEW e, NEW w, NEW s, NEW t,
         Navigated(d, c, w, s), Quiet(c, e, t)
  PROVE  Navigated(d, e, w, s)
<1>1. \A x \in Session : Managed(c, x) => Managed(d, x)
  BY DEF Navigated, Managed
<1>2. ASSUME NEW x \in Session
      PROVE  /\ e.channel[x] = "controller" => d.channel[x] = "controller"
             /\ e.asked[x] # d.asked[x] =>
                  d.asked[x] = "none" /\ e.asked[x] = "sent" /\ Managed(d, x)
  BY <1>1, <1>2 DEF Navigated, Quiet
<1> QED
  BY <1>2 DEF Navigated, Quiet, SameView

\* Leaving: what is left untouched is being abandoned.
LEMMA DormantAbandons ==
  ASSUME NEW d \in Directory, NEW s \in Session, NEW next, s # next, s # None,
         NEW e, e = ReleaseDormant(d, s, next), Managed(e, s), s \notin d.content
  PROVE  e.asked[s] # "none"
<1>1. Quiet(d, e, s)
  BY DormantQuiet
<1>2. Managed(d, s)
  BY <1>1, QuietSameManaged
<1>3. e = AbandonChannel(d, s)
  BY <1>2 DEF ReleaseDormant, Abandonable
<1>4. d.asked \in [Session -> Answer]
  BY DEF Directory
<1> QED
  BY <1>3, <1>4 DEF AbandonChannel, Directory

\* Kept, but for what is about to be shown.
KeptBut(d, s) ==
  \A x \in d.local \ (d.content \cup {d.current, s}) : Managed(d, x) => d.asked[x] # "none"

LEMMA NavigationKeeps ==
  ASSUME NEW d \in Directory, NEW c, NEW e, NEW w, NEW s \in Session \cup {None}, KeptBut(d, s),
         Navigated(d, c, w, s), e = ReleaseDormant(c, d.current, s), c.asked = d.asked
  PROVE  Kept(e)
<1>1. c \in Directory /\ d.current \in Session \cup {None}
  BY DEF Navigated, Directory
<1>2. Quiet(c, e, None)
  BY <1>1, DormantQuiet
<1> SUFFICES ASSUME NEW x \in e.local \ (e.content \cup {e.current}), Managed(e, x)
             PROVE  e.asked[x] # "none"
  BY DEF Kept
<1>3. /\ e.local = d.local /\ e.content = d.content /\ e.current = s /\ c.content = d.content
      /\ x \in Session
  BY <1>2 DEF Quiet, SameView, Navigated, Directory
<1>4. Managed(c, x)
  BY <1>1, <1>2, <1>3, QuietSameManaged
<1>5. Managed(d, x)
  BY <1>3, <1>4 DEF Navigated, Managed
<1>6. CASE x = d.current
  <2>1. x # None
    BY <1>3, DirectoryAssumption
  <2> QED
    BY <1>1, <1>3, <1>6, <2>1, DormantAbandons
<1>7. CASE x # d.current
  <2>1. d.asked[x] # "none"
    BY <1>3, <1>5, <1>7 DEF KeptBut
  <2> QED
    BY <1>2, <1>3, <2>1 DEF Quiet
<1> QED
  BY <1>6, <1>7

LEMMA RestMoved ==
  ASSUME NEW d \in Directory, NEW g, NEW c, NEW w, NEW s, Rest(d, g), Navigated(d, c, w, s),
         RetainedFit(c.retained, g), c.channel = d.channel, c.asked = d.asked,
         \A y \in Session : c.fact[y] = "unpersisted" => Exists(d, g, y)
  PROVE  Rest(c, g)
<1>1. Homes(c, g)
  BY DEF Rest, Homes, RetainedFit, Navigated
<1>2. Alive(c, g)
  BY DEF Rest, Alive, Exists, Navigated
<1>3. Creating(c, g)
  <2>1. (c.creation # 0 => c.current = None) /\ (c.initial = "begin" => c.content = {})
    BY DEF Rest, Creating, Navigated
  <2>2. c.flight = d.flight /\ c.local = d.local
    BY DEF Navigated
  <2> QED
    BY <2>1, <2>2 DEF Rest, Creating, Created
<1> QED
  BY <1>1, <1>2, <1>3 DEF Rest

\* Wherever a navigation leads, what it leaves and what it opens fit.
LEMMA LandIs ==
  ASSUME NEW d \in Directory, NEW c, NEW w, NEW s \in Session \cup {None}, Rest(d, server),
         KeptBut(d, s),
         Navigated(d, c, w, s), RetainedFit(c.retained, server),
         Landing(d, c, c.retained, c.fact), \A y \in Session : c.fact[y] = "unpersisted" => Exists(d, server, y),
         s \in Session => server.home[s] # None,
         NEW e, e = ActivateView(ReleaseDormant(c, d.current, s), s)
  PROVE  Navigated(d, e, w, s) /\ Sessions(e, server)
<1>1. PICK x : x = ReleaseDormant(c, d.current, s)
  OBVIOUS
<1>2. c \in Directory /\ d.current \in Session \cup {None}
  BY DEF Navigated, Directory
<1>3. Quiet(c, x, s) /\ x \in Directory
  <2>1. Quiet(c, x, s)
    BY <1>1, <1>2, DormantQuiet
  <2> QED
    BY <2>1 DEF Quiet
<1>4. Quiet(x, e, s)
  BY <1>1, <1>3, ActivateQuiet
<1>5. Quiet(c, e, s)
  BY <1>2, <1>3, <1>4, QuietThen
<1>6. Rest(c, server)
  BY RestMoved DEF Landing
<1>7. Rest(e, server)
  BY <1>2, <1>5, <1>6, QuietRest
<1>8. Kept(x)
  BY <1>1, NavigationKeeps DEF Landing
<1>9. Kept(e)
  BY <1>3, <1>4, <1>8, QuietKept
<1>10. Navigated(d, e, w, s)
  BY <1>5, NavigatedQuiet
<1> QED
  BY <1>7, <1>9, <1>10 DEF Sessions, Rest

LEMMA SelectIs ==
  ASSUME NEW d \in Directory, NEW s \in Session, Rest(d, server), KeptBut(d, s),
         NEW w \in Workspace,
         server.home[s] = w, NEW fact \in Fact, fact = "unpersisted" => Exists(d, server, s)
  PROVE  /\ Navigated(d, SelectSession(d, s, fact), w, s)
         /\ Sessions(SelectSession(d, s, fact), server)
<1>1. PICK r : RetainedFit(r, server) /\ RetainLocal(d, d.current, s) = [d EXCEPT !.retained = r]
  <2>1. d.current \in Session \cup {None} /\ Homes(d, server)
    BY DEF Directory, Rest
  <2> QED
    BY <2>1, RetainIs
<1>2. PICK r2 : r2 = [r EXCEPT ![w] = IF r[w] = s THEN None ELSE r[w]]
  OBVIOUS
<1>3. RetainedFit(r2, server) /\ r \in [Workspace -> Session \cup {None}]
  BY <1>1, <1>2 DEF RetainedFit
<1>4. PICK f : f = [d.fact EXCEPT ![s] = fact]
  OBVIOUS
<1>5. /\ f \in [Session -> Fact] /\ d.fact \in [Session -> Fact]
      /\ \A y \in Session : f[y] = IF y = s THEN fact ELSE d.fact[y]
  BY <1>4 DEF Directory
<1>6. PICK n : n = NavigatedTo([d EXCEPT !.retained = r], w, s)
  OBVIOUS
<1>7. n = [d EXCEPT !.retained = r, !.workspace = w, !.current = s, !.nav = d.nav + 1,
                    !.creation = 0]
  BY <1>6 DEF NavigatedTo, Directory
<1>8. PICK c : c = [n EXCEPT !.fact = f, !.retained = r2]
  OBVIOUS
<1>9. c = MovedTo(d, w, s, r2, f)
  BY <1>7, <1>8 DEF Directory, MovedTo
<1>10. n.fact = d.fact /\ n.retained = r
  BY <1>7 DEF Directory
<1>11. c = [n EXCEPT !.fact[s] = fact,
                     !.retained[Home(s)] = IF n.retained[w] = s THEN None ELSE n.retained[w]]
  BY <1>2, <1>4, <1>8, <1>10 DEF Home
<1>12. SelectSession(d, s, fact) = ActivateView(ReleaseDormant(c, d.current, s), s)
  BY <1>1, <1>6, <1>11 DEF SelectSession, Home
<1>13. Navigated(d, c, w, s) /\ Landing(d, c, r2, f)
  <2>1. r2 \in [Workspace -> Session \cup {None}]
    BY <1>3 DEF RetainedFit
  <2>2. s \in Session \cup {None}
    OBVIOUS
  <2> QED
    BY <1>5, <1>9, <2>1, <2>2, MovedIs
<1>14. \A y \in Session : c.fact[y] = "unpersisted" => Exists(d, server, y)
  BY <1>5, <1>13 DEF Rest, Alive, Landing
<1>15. server.home[s] # None
  BY DirectoryAssumption
<1>16. RetainedFit(c.retained, server) /\ Landing(d, c, c.retained, c.fact)
  BY <1>3, <1>13 DEF Landing
<1> QED
  BY <1>12, <1>13, <1>14, <1>15, <1>16, LandIs

LEMMA ShowIs ==
  ASSUME NEW d \in Directory, Sessions(d, server), NEW w \in Workspace
  PROVE  /\ Navigated(d, ShowWorkspace(d, w), w, None)
         /\ Sessions(ShowWorkspace(d, w), server)
<1>1. PICK c : c = NavigatedTo(d, w, None)
  OBVIOUS
<1>2. d.retained \in [Workspace -> Session \cup {None}] /\ d.fact \in [Session -> Fact]
  BY DEF Directory
<1>3. c = MovedTo(d, w, None, d.retained, d.fact)
  BY <1>1 DEF NavigatedTo, Directory, MovedTo
<1>4. Navigated(d, c, w, None) /\ Landing(d, c, d.retained, d.fact)
  <2>1. PICK z \in Session \cup {None} : z = None
    OBVIOUS
  <2>2. PICK r \in [Workspace -> Session \cup {None}], f \in [Session -> Fact] :
          r = d.retained /\ f = d.fact
    BY <1>2
  <2>3. c = MovedTo(d, w, z, r, f)
    BY <1>3, <2>1, <2>2
  <2>4. Navigated(d, c, w, z) /\ Landing(d, c, r, f)
    BY <2>3, MovedIs
  <2> QED
    BY <2>1, <2>2, <2>4
<1>5. RetainedFit(c.retained, server)
  BY <1>2, <1>4 DEF RetainedFit, Sessions, Homes, Landing
<1>6. \A y \in Session : c.fact[y] = "unpersisted" => Exists(d, server, y)
  BY <1>4 DEF Sessions, Alive, Landing
<1>7. ShowWorkspace(d, w) = ActivateView(ReleaseDormant(c, d.current, None), None)
  BY <1>1 DEF ShowWorkspace
<1>8. None \notin Session
  BY DirectoryAssumption
<1>9. Landing(d, c, c.retained, c.fact)
  BY <1>4 DEF Landing
<1>10. Rest(d, server) /\ KeptBut(d, None)
  BY DEF Sessions, Rest, Kept, KeptBut
<1> QED
  BY <1>4, <1>5, <1>6, <1>7, <1>8, <1>9, <1>10, LandIs

LEMMA LeaveIs ==
  ASSUME NEW d \in Directory, Sessions(d, server), NEW w \in Workspace
  PROVE  /\ Navigated(d, LeaveSession(d, w), w, None)
         /\ Sessions(LeaveSession(d, w), server)
<1>1. PICK r : RetainedFit(r, server) /\ RetainLocal(d, d.current, None) = [d EXCEPT !.retained = r]
  <2>1. d.current \in Session \cup {None} /\ Homes(d, server)
    BY DEF Directory, Sessions
  <2> QED
    BY <2>1, RetainIs
<1>2. PICK c : c = [d EXCEPT !.retained = r]
  OBVIOUS
<1>3. c \in Directory
  BY <1>1, <1>2, ZenonT(100) DEF Directory, RetainedFit
<1>4. Sessions(c, server)
  <2>1. /\ c.retained = r /\ c.channel = d.channel /\ c.asked = d.asked /\ c.waiting = d.waiting
        /\ c.local = d.local /\ c.fact = d.fact /\ c.hot = d.hot /\ c.content = d.content
        /\ c.current = d.current /\ c.creation = d.creation /\ c.initial = d.initial
        /\ c.flight = d.flight /\ c.runtime = d.runtime /\ c.busy = d.busy
    BY <1>2 DEF Directory
  <2>2. Homes(c, server)
    BY <1>1, <2>1 DEF Sessions, Homes, RetainedFit
  <2>3. Alive(c, server)
    BY <2>1 DEF Sessions, Alive, Exists
  <2>4. Kept(c)
    BY <2>1 DEF Sessions, Kept, Managed
  <2>5. Creating(c, server)
    BY <2>1 DEF Sessions, Creating, Created
  <2> QED
    BY <2>2, <2>3, <2>4, <2>5 DEF Sessions
<1>5. Navigated(c, ShowWorkspace(c, w), w, None) /\ Sessions(ShowWorkspace(c, w), server)
  BY <1>3, <1>4, ShowIs
<1>6. LeaveSession(d, w) = ShowWorkspace(c, w)
  BY <1>1, <1>2 DEF LeaveSession
<1>7. Navigated(d, ShowWorkspace(c, w), w, None)
  <2>1. /\ c.nav = d.nav /\ c.listed = d.listed /\ c.version = d.version /\ c.hot = d.hot
        /\ c.runtime = d.runtime /\ c.local = d.local /\ c.content = d.content /\ c.busy = d.busy
        /\ c.flight = d.flight /\ c.waiting = d.waiting /\ c.counter = d.counter
        /\ c.latest = d.latest /\ c.lists = d.lists /\ c.loading = d.loading
        /\ c.wcounter = d.wcounter /\ c.loads = d.loads
        /\ c.loadingWorkspaces = d.loadingWorkspaces /\ c.connection = d.connection
        /\ c.initial = d.initial /\ c.channel = d.channel /\ c.asked = d.asked
    BY <1>2 DEF Directory
  <2>2. \A x \in Session : Managed(c, x) => Managed(d, x)
    BY <2>1 DEF Managed
  <2> QED
    BY <1>5, <2>1, <2>2 DEF Navigated
<1> QED
  BY <1>5, <1>6, <1>7

-----------------------------------------------------------------------------
(* The lists of Sessions                                                   *)

SameSessions(d, e) ==
  /\ e.workspace = d.workspace /\ e.current = d.current /\ e.nav = d.nav
  /\ e.creation = d.creation /\ e.retained = d.retained /\ e.hot = d.hot /\ e.fact = d.fact
  /\ e.runtime = d.runtime /\ e.channel = d.channel /\ e.asked = d.asked /\ e.local = d.local
  /\ e.content = d.content /\ e.busy = d.busy /\ e.waiting = d.waiting
  /\ e.flight = d.flight /\ e.initial = d.initial

LEMMA SessionsSame ==
  ASSUME NEW d, NEW e, NEW g, SameSessions(d, e), Sessions(d, g)
  PROVE  Sessions(e, g)
<1>1. Homes(e, g)
  BY DEF SameSessions, Sessions, Homes
<1>2. Alive(e, g)
  BY DEF SameSessions, Sessions, Alive, Exists
<1>3. Kept(e)
  BY DEF SameSessions, Sessions, Kept, Managed
<1>4. Creating(e, g)
  BY DEF SameSessions, Sessions, Creating, Created
<1> QED
  BY <1>1, <1>2, <1>3, <1>4 DEF Sessions

SameLists(d, e) ==
  /\ e.workspace = d.workspace /\ e.version = d.version
  /\ e.counter = d.counter /\ e.latest = d.latest /\ e.lists = d.lists
  /\ e.loading = d.loading /\ e.wcounter = d.wcounter /\ e.loads = d.loads
  /\ e.loadingWorkspaces = d.loadingWorkspaces

LEMMA ListsSame ==
  ASSUME NEW d, NEW e, NEW g, SameLists(d, e), ListsInOrder(d, g), Spinning(d)
  PROVE  ListsInOrder(e, g) /\ Spinning(e)
<1>1. ListsInOrder(e, g)
  BY DEF SameLists, ListsInOrder
<1>2. Spinning(e)
  BY DEF SameLists, Spinning, Turning, Fetching
<1> QED
  BY <1>1, <1>2

\* A request for the list of w: it is the latest, and nothing was read for it.
LEMMA ReloadIs ==
  ASSUME NEW d \in Directory, NEW g \in Gateway, NEW w \in Workspace, NEW connection \in Nat,
         NEW e, e = Reload(d, w, connection), ListsInOrder(d, g), Fetching(d),
         Turning(d) \/ d.workspace = w
  PROVE  /\ e \in Directory /\ SameSessions(d, e) /\ e.version = d.version
         /\ ListsInOrder(e, g) /\ Spinning(e)
<1>1. PICK n : n = d.counter + 1
  OBVIOUS
<1>2. n \in Nat /\ d.counter \in Nat
  BY <1>1 DEF Directory
<1>3. PICK x : x = [workspace |-> w, request |-> n, version |-> 0, files |-> {},
                    connection |-> connection]
  OBVIOUS
<1>4. x \in List /\ x.workspace = w /\ x.request = n /\ x.version = 0
  <2>1. 0 \in Nat /\ {} \in SUBSET Session
    OBVIOUS
  <2> QED
    BY <1>2, <1>3, <2>1 DEF List
<1>5. PICK lt : lt = [d.latest EXCEPT ![w] = n]
  OBVIOUS
<1>6. /\ lt \in [Workspace -> Nat] /\ d.latest \in [Workspace -> Nat]
      /\ \A y \in Workspace : lt[y] = IF y = w THEN n ELSE d.latest[y]
  BY <1>2, <1>5 DEF Directory
<1>7. PICK l : l = d.lists \cup {x}
  OBVIOUS
<1>8. l \in SUBSET List /\ x \in l
  BY <1>4, <1>7 DEF Directory
<1>9. PICK c : c = [d EXCEPT !.counter = n, !.latest = lt, !.lists = l]
  OBVIOUS
<1>10. c \in Directory
  BY <1>2, <1>6, <1>8, <1>9, ZenonT(100) DEF Directory
<1>11. e = [c EXCEPT !.loading = d.loading \/ d.workspace = w]
  BY <1>1, <1>3, <1>5, <1>7, <1>9 DEF Reload, Directory
<1>12. PICK spins \in BOOLEAN : spins = (d.loading \/ d.workspace = w)
  OBVIOUS
<1>13. e \in Directory
  <2>1. e = [c EXCEPT !.loading = spins]
    BY <1>11, <1>12
  <2> QED
    BY <1>10, <2>1, ZenonT(100) DEF Directory
<1>14. SameSessions(d, e) /\ e.version = d.version
  BY <1>9, <1>11 DEF SameSessions, Directory
<1>15. /\ e.counter = n /\ e.latest = lt /\ e.lists = l /\ e.wcounter = d.wcounter
       /\ e.loads = d.loads /\ e.loadingWorkspaces = d.loadingWorkspaces
       /\ e.loading => d.loading \/ d.workspace = w
  BY <1>9, <1>11 DEF Directory
<1>16. ListsInOrder(e, g)
  <2>1. ASSUME NEW y \in e.lists
        PROVE  y.request \in 1..e.counter /\ y.version <= g.version
    BY <1>1, <1>2, <1>4, <1>7, <1>15 DEF ListsInOrder, Gateway
  <2>2. ASSUME NEW y \in e.lists, NEW z \in e.lists, y.request = z.request
        PROVE  y = z
    BY <2>2, <1>1, <1>2, <1>4, <1>7, <1>15 DEF ListsInOrder
  <2>3. ASSUME NEW y \in Workspace
        PROVE  e.latest[y] <= e.counter /\ e.version[y] <= g.version
    BY <1>1, <1>2, <1>6, <1>14, <1>15 DEF ListsInOrder
  <2>4. ASSUME NEW y \in e.lists, e.latest[y.workspace] = y.request, y.version > 0
        PROVE  y.version >= e.version[y.workspace]
    <3>1. y # x
      BY <2>4, <1>4
    <3>2. y \in d.lists /\ y.workspace \in Workspace /\ y.request \in 1..d.counter
      BY <3>1, <1>7, <1>15 DEF Directory, List, ListsInOrder
    <3>3. d.latest[y.workspace] = y.request
      BY <2>4, <3>2, <1>1, <1>2, <1>6, <1>15
    <3> QED
      BY <2>4, <3>2, <3>3, <1>14 DEF ListsInOrder
  <2> QED
    BY <2>1, <2>2, <2>3, <2>4 DEF ListsInOrder
<1>17. Turning(e)
  <2>1. e.workspace = d.workspace
    BY <1>14 DEF SameSessions
  <2>2. CASE d.workspace = w
    BY <1>4, <1>6, <1>8, <1>15, <2>1, <2>2 DEF Turning
  <2>3. CASE d.workspace # w
    <3> SUFFICES ASSUME e.loading
                 PROVE  \E y \in e.lists : y.workspace = e.workspace /\ e.latest[y.workspace] = y.request
      BY DEF Turning
    <3>1. PICK y \in d.lists : y.workspace = d.workspace /\ d.latest[y.workspace] = y.request
      BY <1>15, <2>3 DEF Turning
    <3>2. d.workspace \in Workspace
      BY DEF Directory
    <3> QED
      BY <1>6, <1>7, <1>15, <2>1, <2>3, <3>1, <3>2
  <2> QED
    BY <2>2, <2>3
<1>18. Fetching(e)
  BY <1>15 DEF Fetching
<1> QED
  BY <1>13, <1>14, <1>16, <1>17, <1>18 DEF Spinning

-----------------------------------------------------------------------------
(* Creation                                                                *)

Fine(d, q) ==
  /\ d \in Directory /\ Sessions(d, server)
  /\ ListsInOrder(d, server) /\ Spinning(d) /\ Runs(d, server, q)

\* What a function leaves alone that moves the browser at most.
Still(d, e) ==
  e.version = d.version /\ e.initial = d.initial /\ e.content = d.content /\ e.local = d.local

LEMMA NavigatedLists ==
  ASSUME NEW d, NEW e, NEW g, NEW q, NEW w, NEW s, Navigated(d, e, w, s), ListsInOrder(d, g),
         Fetching(d), Runs(d, g, q)
  PROVE  /\ ListsInOrder(e, g) /\ Fetching(e) /\ Runs(e, g, q)
         /\ w = d.workspace /\ Turning(d) => Turning(e)
<1>1. ListsInOrder(e, g)
  BY DEF Navigated, ListsInOrder
<1>2. Fetching(e) /\ Runs(e, g, q)
  BY DEF Navigated, Fetching, Runs
<1>3. w = d.workspace /\ Turning(d) => Turning(e)
  BY DEF Navigated, Turning
<1> QED
  BY <1>1, <1>2, <1>3

LEMMA SelectFine ==
  ASSUME NEW d, NEW q, Fine(d, q), NEW s \in Session, server.home[s] = d.workspace,
         NEW fact \in Fact, fact = "unpersisted" => Exists(d, server, s)
  PROVE  /\ Fine(SelectSession(d, s, fact), q) /\ Still(d, SelectSession(d, s, fact))
         /\ SelectSession(d, s, fact).workspace = d.workspace
<1>1. d \in Directory /\ d.workspace \in Workspace /\ Sessions(d, server)
  BY DEF Fine, Directory
<1>2. PICK e : e = SelectSession(d, s, fact)
  OBVIOUS
<1>3. Navigated(d, e, d.workspace, s) /\ Sessions(e, server)
  <2>1. Rest(d, server) /\ KeptBut(d, s)
    BY <1>1 DEF Sessions, Rest, Kept, KeptBut
  <2> QED
    BY <1>1, <1>2, <2>1, SelectIs
<1>4. ListsInOrder(e, server) /\ Spinning(e) /\ Runs(e, server, q)
  BY <1>3, NavigatedLists DEF Fine, Spinning
<1>5. e \in Directory /\ Still(d, e) /\ e.workspace = d.workspace
  BY <1>3 DEF Navigated, Still
<1> QED
  BY <1>2, <1>3, <1>4, <1>5 DEF Fine

LEMMA ResumedFine ==
  ASSUME NEW d, NEW q, Fine(d, q), NEW e \in Resumed(d, d.workspace)
  PROVE  Fine(e, q) /\ Still(d, e) /\ e.workspace = d.workspace
<1>1. d \in Directory /\ Sessions(d, server) /\ d.workspace \in Workspace
  BY DEF Fine, Directory
<1>2. PICK held : held = d.retained[d.workspace]
  OBVIOUS
<1>3. held \in Session \cup {None} /\ "unpersisted" \in Fact
  BY <1>1, <1>2 DEF Directory, Fact
<1>4. CASE e = d
  BY <1>4 DEF Still
<1>5. CASE held # None /\ d.fact[held] = "unpersisted" /\ e = SelectSession(d, held, "unpersisted")
  <2>1. held \in Session /\ server.home[held] = d.workspace /\ Exists(d, server, held)
    BY <1>1, <1>2, <1>3, <1>5 DEF Sessions, Homes, Alive
  <2> QED
    BY <1>3, <1>5, <2>1, SelectFine
<1>6. CASE \E s \in Unpersisted(d, d.workspace) : e = SelectSession(d, s, "unpersisted")
  <2>1. PICK s \in Unpersisted(d, d.workspace) : e = SelectSession(d, s, "unpersisted")
    BY <1>6
  <2>2. s \in Session /\ server.home[s] = d.workspace /\ d.hot[s] = "unpersisted"
    BY <2>1 DEF Unpersisted, HotFact, Home
  <2>3. Exists(d, server, s)
    BY <1>1, <2>2 DEF Sessions, Alive
  <2> QED
    BY <1>3, <2>1, <2>2, <2>3, SelectFine
<1> QED
  BY <1>2, <1>4, <1>5, <1>6 DEF Resumed

\* A flight of w that has a token, and one created Session at most.
FlightFits(d, g, w, f) ==
  /\ f \in Flight
  /\ f.pc # "none" => f.token # 0
  /\ f.pc = "created" => Created(d, g, w, f.session)

Flown(d, w, f, n) == [d EXCEPT !.creation = n, !.flight[w] = f]

\* A creation takes its course: nothing else moves.
LEMMA FlightFine ==
  ASSUME NEW d, NEW q, Fine(d, q), NEW w \in Workspace, NEW f, FlightFits(d, server, w, f),
         NEW mark \in Nat, mark # 0 => d.current = None,
         NEW e, e = Flown(d, w, f, mark)
  PROVE  Fine(e, q) /\ Still(d, e) /\ e.workspace = d.workspace /\ e.nav = d.nav
<1>1. d \in Directory /\ Sessions(d, server) /\ d.flight \in [Workspace -> Flight]
  BY DEF Fine, Directory
<1>2. PICK fl : fl = [d.flight EXCEPT ![w] = f]
  OBVIOUS
<1>3. /\ fl \in [Workspace -> Flight]
      /\ \A x \in Workspace : fl[x] = IF x = w THEN f ELSE d.flight[x]
  BY <1>1, <1>2 DEF FlightFits
<1>4. e = [d EXCEPT !.creation = mark, !.flight = fl]
  BY <1>2 DEF Flown
<1>5. e \in Directory
  <2>1. PICK c : c = [d EXCEPT !.flight = fl]
    OBVIOUS
  <2>2. c \in Directory
    BY <1>1, <1>3, <2>1, ZenonT(100) DEF Directory
  <2>3. e = [c EXCEPT !.creation = mark]
    BY <1>1, <1>4, <2>1 DEF Directory
  <2> QED
    BY <2>2, <2>3, ZenonT(100) DEF Directory
<1>6. /\ e.workspace = d.workspace /\ e.current = d.current /\ e.nav = d.nav
      /\ e.retained = d.retained /\ e.hot = d.hot /\ e.fact = d.fact
      /\ e.runtime = d.runtime /\ e.channel = d.channel /\ e.asked = d.asked /\ e.local = d.local
      /\ e.content = d.content /\ e.busy = d.busy /\ e.waiting = d.waiting
      /\ e.initial = d.initial
      /\ e.creation = mark /\ e.flight = fl
  BY <1>1, <1>4 DEF Directory
<1>7. SameLists(d, e)
  BY <1>1, <1>4 DEF Directory, SameLists
<1>8. ListsInOrder(e, server) /\ Spinning(e) /\ Runs(e, server, q)
  BY <1>6, <1>7, ListsSame DEF Fine, Runs
<1>9. Homes(e, server) /\ Alive(e, server) /\ Kept(e)
  <2>1. Homes(e, server)
    BY <1>1, <1>6 DEF Sessions, Homes
  <2>2. Alive(e, server)
    BY <1>1, <1>6 DEF Sessions, Alive, Exists
  <2>3. Kept(e)
    BY <1>1, <1>6 DEF Sessions, Kept, Managed
  <2> QED
    BY <2>1, <2>2, <2>3
<1>10. Creating(e, server)
  <2>1. \A x \in Workspace : e.flight[x].pc # "none" => e.flight[x].token # 0
    BY <1>1, <1>3, <1>6 DEF Sessions, Creating, FlightFits
  <2>2. ASSUME NEW x \in Workspace, e.flight[x].pc = "created"
        PROVE  Created(e, server, x, e.flight[x].session)
    <3>1. Created(d, server, x, e.flight[x].session)
      BY <1>1, <1>3, <1>6, <2>2 DEF Sessions, Creating, FlightFits
    <3> QED
      BY <1>6, <3>1 DEF Created
  <2> QED
    BY <1>1, <1>6, <2>1, <2>2 DEF Sessions, Creating
<1>11. Still(d, e)
  BY <1>1, <1>4 DEF Still, Directory
<1> QED
  BY <1>5, <1>6, <1>8, <1>9, <1>10, <1>11 DEF Fine, Sessions

LEMMA NewSessionFine ==
  ASSUME NEW d, NEW q, Fine(d, q), NEW e \in NewSession(d, d.workspace)
  PROVE  Fine(e, q) /\ Still(d, e) /\ e.workspace = d.workspace
<1>1. d \in Directory /\ Sessions(d, server) /\ d.workspace \in Workspace /\ d.nav \in Nat
  BY DEF Fine, Directory
<1>2. PICK w \in Workspace : w = d.workspace
  BY <1>1
<1>3. d.flight \in [Workspace -> Flight] /\ d.flight[w] \in Flight
  BY <1>1 DEF Directory
<1>4. CASE e = d
  BY <1>4 DEF Still
<1>5. CASE e \in Resumed(d, d.workspace)
  BY <1>5, ResumedFine
<1>6. CASE e = BeginCreation(d, w)
  <2>1. PICK c : c = ShowWorkspace(d, w)
    OBVIOUS
  <2>2. Navigated(d, c, w, None) /\ Sessions(c, server)
    BY <1>1, <2>1, ShowIs
  <2>3. ListsInOrder(c, server) /\ Spinning(c) /\ Runs(c, server, q)
    BY <1>2, <2>2, NavigatedLists DEF Fine, Spinning
  <2>4. /\ c \in Directory /\ Still(d, c) /\ c.workspace = d.workspace /\ c.nav = d.nav + 1
        /\ c.current = None
    BY <1>2, <2>2 DEF Navigated, Still
  <2>5. Fine(c, q)
    BY <2>2, <2>3, <2>4 DEF Fine
  <2>6. PICK n : n = c.nav
    OBVIOUS
  <2>7. n \in Nat /\ n # 0
    BY <1>1, <2>4, <2>6
  <2>8. PICK f : f = [NoFlight EXCEPT !.pc = "asked", !.token = n]
    OBVIOUS
  <2>9. f = [pc |-> "asked", token |-> n, session |-> None, chained |-> 0]
    BY <2>8 DEF NoFlight
  <2>10. 0 \in Nat /\ None \in Session \cup {None}
    OBVIOUS
  <2>11. f \in Flight /\ f.pc = "asked" /\ f.token = n
    BY <2>7, <2>9, <2>10 DEF Flight
  <2>12. FlightFits(c, server, w, f)
    BY <2>7, <2>11 DEF FlightFits
  <2>13. e = Flown(c, w, f, n)
    BY <1>6, <2>1, <2>6, <2>8 DEF BeginCreation, Flown
  <2>14. Fine(e, q) /\ Still(c, e) /\ e.workspace = c.workspace
    BY <2>4, <2>5, <2>7, <2>12, <2>13, FlightFine
  <2> QED
    BY <2>4, <2>14 DEF Still
<1>7. CASE e = [d EXCEPT !.flight[w].chained = d.nav]
  <2>1. PICK f : f = [d.flight[w] EXCEPT !.chained = d.nav]
    OBVIOUS
  <2>2. f \in Flight /\ f.pc = d.flight[w].pc /\ f.token = d.flight[w].token
        /\ f.session = d.flight[w].session
    BY <1>1, <1>3, <2>1 DEF Flight
  <2>3. FlightFits(d, server, w, f)
    BY <1>1, <2>2 DEF FlightFits, Sessions, Creating
  <2>4. PICK n : n = d.creation
    OBVIOUS
  <2>5. n \in Nat /\ (n # 0 => d.current = None)
    BY <1>1, <2>4 DEF Directory, Sessions, Creating
  <2>6. e = Flown(d, w, f, n)
    BY <1>1, <1>3, <1>7, <2>1, <2>4 DEF Directory, Flown
  <2> QED
    BY <2>3, <2>5, <2>6, FlightFine
<1> QED
  BY <1>2, <1>4, <1>5, <1>6, <1>7 DEF NewSession

LEMMA EndedFine ==
  ASSUME NEW d, NEW q, Fine(d, q), NEW w \in Workspace, NEW n \in Nat, n # 0 => d.current = None,
         NEW e, e = Flown(d, w, NoFlight, n)
  PROVE  Fine(e, q) /\ Still(d, e) /\ e.workspace = d.workspace /\ e.nav = d.nav
<1>1. PICK f : f = NoFlight
  OBVIOUS
<1>2. 0 \in Nat /\ None \in Session \cup {None}
  OBVIOUS
<1>3. FlightFits(d, server, w, f)
  BY <1>1, <1>2 DEF FlightFits, NoFlight, Flight
<1>4. e = Flown(d, w, f, n)
  BY <1>1
<1> QED
  BY <1>3, <1>4, FlightFine

LEMMA SettleFine ==
  ASSUME NEW d, NEW q, Fine(d, q), NEW w, NEW f, NEW e \in Settle(d, w, f)
  PROVE  /\ Fine(e, q) /\ Still(d, e) /\ e.workspace = d.workspace
         /\ (e = d \/ (d.workspace = w /\ f.chained = d.nav))
<1>1. CASE e = d
  BY <1>1 DEF Still
<1>2. CASE d.workspace = w /\ f.chained = d.nav /\ e \in NewSession(d, w)
  BY <1>2, NewSessionFine
<1> QED
  BY <1>1, <1>2 DEF Settle

\* The Session s, created for w: nobody has been told of it.
Fresh(d, w, s) ==
  Created(d, server, w, s) /\ \A x \in Workspace : d.flight[x].session = s => d.flight[x].pc # "created"

LEMMA LocalIs ==
  ASSUME NEW d, NEW q, Fine(d, q), NEW w \in Workspace, NEW s \in Session, Fresh(d, w, s),
         NEW c, c = [d EXCEPT !.local = @ \cup {s}]
  PROVE  /\ c \in Directory /\ Rest(c, server) /\ KeptBut(c, s) /\ SameLists(d, c)
         /\ c.current = d.current /\ c.nav = d.nav /\ c.creation = d.creation /\ c.hot = d.hot
         /\ c.content = d.content /\ c.initial = d.initial /\ c.asked = d.asked
         /\ c.runtime = d.runtime /\ c.channel = d.channel
<1>1. d \in Directory /\ Sessions(d, server)
  BY DEF Fine
<1>2. c \in Directory
  BY <1>1, ZenonT(100) DEF Directory
<1>3. /\ c.workspace = d.workspace /\ c.current = d.current /\ c.nav = d.nav
      /\ c.creation = d.creation /\ c.retained = d.retained /\ c.hot = d.hot /\ c.fact = d.fact
      /\ c.runtime = d.runtime /\ c.channel = d.channel /\ c.asked = d.asked
      /\ c.content = d.content /\ c.busy = d.busy /\ c.waiting = d.waiting
      /\ c.flight = d.flight /\ c.initial = d.initial
      /\ c.local = d.local \cup {s}
  BY <1>1 DEF Directory
<1>4. SameLists(d, c)
  BY <1>1 DEF Directory, SameLists
<1>5. server.home[s] = w /\ w # None /\ s \in server.runtimes
  BY DirectoryAssumption DEF Fresh, Created
<1>6. Homes(c, server)
  BY <1>1, <1>3, <1>5 DEF Sessions, Homes
<1>7. Alive(c, server)
  BY <1>1, <1>3 DEF Sessions, Alive, Exists
<1>8. Creating(c, server)
  <2>1. /\ c.creation # 0 => c.current = None
        /\ c.initial = "begin" => c.content = {}
        /\ \A x \in Workspace : c.flight[x].pc # "none" => c.flight[x].token # 0
    BY <1>1, <1>3 DEF Sessions, Creating
  <2>2. ASSUME NEW x \in Workspace, c.flight[x].pc = "created"
        PROVE  Created(c, server, x, c.flight[x].session)
    <3>1. Created(d, server, x, d.flight[x].session)
      BY <1>1, <1>3, <2>2 DEF Sessions, Creating
    <3>2. d.flight[x].session # s
      BY <1>3, <2>2 DEF Fresh
    <3> QED
      BY <1>3, <3>1, <3>2 DEF Created
  <2> QED
    BY <2>1, <2>2 DEF Creating
<1>9. KeptBut(c, s)
  BY <1>1, <1>3 DEF Sessions, Kept, KeptBut, Managed
<1> QED
  BY <1>2, <1>3, <1>4, <1>6, <1>7, <1>8, <1>9 DEF Rest

LEMMA WaitingIs ==
  ASSUME NEW d \in Directory, Sessions(d, server), NEW s \in Session, server.home[s] # None,
         NEW e, e = [d EXCEPT !.waiting = @ \cup {s}]
  PROVE  /\ e \in Directory /\ Sessions(e, server) /\ SameLists(d, e)
         /\ e.current = d.current /\ e.nav = d.nav /\ e.hot = d.hot /\ Still(d, e)
<1>1. e \in Directory
  BY ZenonT(100) DEF Directory
<1>2. /\ e.workspace = d.workspace /\ e.current = d.current /\ e.nav = d.nav
      /\ e.creation = d.creation /\ e.retained = d.retained /\ e.hot = d.hot /\ e.fact = d.fact
      /\ e.runtime = d.runtime /\ e.channel = d.channel /\ e.asked = d.asked
      /\ e.content = d.content /\ e.busy = d.busy /\ e.local = d.local
      /\ e.flight = d.flight /\ e.initial = d.initial
      /\ e.waiting = d.waiting \cup {s}
  BY DEF Directory
<1>3. SameLists(d, e) /\ Still(d, e)
  BY DEF Directory, SameLists, Still
<1>4. Homes(e, server)
  BY <1>2 DEF Sessions, Homes
<1>5. Alive(e, server) /\ Kept(e) /\ Creating(e, server)
  BY <1>2 DEF Sessions, Alive, Exists, Kept, Managed, Creating, Created
<1> QED
  BY <1>1, <1>2, <1>3, <1>4, <1>5 DEF Sessions

\* A creation that a navigation has overtaken: what it created is abandoned,
\* or will be when the browser controls it.
LEMMA DiscardIs ==
  ASSUME NEW d \in Directory, NEW s \in Session, Rest(d, server), KeptBut(d, s),
         server.home[s] # None, d.asked[s] = "none",
         NEW e, e = DiscardStale(d, s)
  PROVE  /\ e \in Directory /\ Sessions(e, server) /\ SameLists(d, e)
         /\ e.current = d.current /\ e.nav = d.nav /\ e.hot = d.hot /\ Still(d, e)
<1>1. PICK j : j = Subscribed(d, s)
  OBVIOUS
<1>2. Quiet(d, j, s) /\ j \in Directory
  BY <1>1, SubscribedQuiet DEF Quiet
<1>3. PICK c : c = Claimed(j, s)
  OBVIOUS
<1>4. Quiet(j, c, s)
  BY <1>2, <1>3, ClaimedQuiet
<1>5. Quiet(d, c, s)
  BY <1>2, <1>4, QuietThen
<1>6. c \in Directory /\ SameView(d, c)
  BY <1>5 DEF Quiet
<1>7. Rest(c, server)
  BY <1>5, QuietRest
<1>8. KeptBut(c, s)
  <2> SUFFICES ASSUME NEW x \in c.local \ (c.content \cup {c.current, s}), Managed(c, x)
               PROVE  c.asked[x] # "none"
    BY DEF KeptBut
  <2>1. x \in Session /\ x \in d.local \ (d.content \cup {d.current, s})
    BY <1>6 DEF SameView, Directory
  <2>2. Managed(d, x)
    BY <1>5, <2>1, QuietSameManaged
  <2> QED
    BY <1>5, <2>1, <2>2 DEF KeptBut, Quiet
<1>9. SameLists(d, c) /\ Still(d, c) /\ c.current = d.current /\ c.nav = d.nav /\ c.hot = d.hot
  BY <1>6 DEF SameView, SameLists, Still
<1>10. CASE Managed(c, s)
  <2>1. e = AbandonChannel(c, s)
    BY <1>1, <1>3, <1>10 DEF DiscardStale
  <2>2. Quiet(c, e, s)
    BY <1>6, <1>10, <2>1, AbandonQuiet
  <2>3. e \in Directory /\ SameView(c, e)
    BY <2>2 DEF Quiet
  <2>4. Rest(e, server)
    BY <1>6, <1>7, <2>2, QuietRest
  <2>5. e.asked[s] # "none"
    <3>1. c.asked \in [Session -> Answer]
      BY <1>6 DEF Directory
    <3> QED
      BY <1>6, <2>1, <3>1 DEF AbandonChannel, Directory
  <2>6. Kept(e)
    <3> SUFFICES ASSUME NEW x \in e.local \ (e.content \cup {e.current}), Managed(e, x)
                 PROVE  e.asked[x] # "none"
      BY DEF Kept
    <3>1. x \in Session /\ x \in c.local \ (c.content \cup {c.current})
      BY <2>3 DEF SameView, Directory
    <3>2. Managed(c, x)
      BY <1>6, <2>2, <3>1, QuietSameManaged
    <3> QED
      BY <1>8, <2>2, <2>5, <3>1, <3>2 DEF KeptBut, Quiet
  <2>7. /\ SameLists(c, e) /\ Still(c, e) /\ e.current = c.current /\ e.nav = c.nav
        /\ e.hot = c.hot
    BY <2>3 DEF SameView, SameLists, Still
  <2> QED
    BY <1>9, <2>3, <2>4, <2>6, <2>7 DEF Sessions, Rest, SameLists, Still
<1>11. CASE ~Managed(c, s)
  <2>1. e = [c EXCEPT !.waiting = @ \cup {s}]
    BY <1>1, <1>3, <1>11 DEF DiscardStale
  <2>2. Kept(c)
    BY <1>8, <1>11 DEF Kept, KeptBut
  <2>3. Sessions(c, server)
    BY <1>7, <2>2 DEF Sessions, Rest
  <2>4. /\ e \in Directory /\ Sessions(e, server) /\ SameLists(c, e)
        /\ e.current = c.current /\ e.nav = c.nav /\ e.hot = c.hot /\ Still(c, e)
    BY <1>6, <2>1, <2>3, WaitingIs
  <2> QED
    BY <1>9, <2>4 DEF SameLists, Still
<1> QED
  BY <1>10, <1>11

LEMMA CompleteFine ==
  ASSUME NEW d, NEW q, Fine(d, q), NEW w \in Workspace, NEW s \in Session, Fresh(d, w, s),
         NEW token \in Nat, token # 0,
         NEW e, e = CompleteCreation(d, w, token, s)
  PROVE  /\ Fine(e, q) /\ e.version = d.version /\ e.workspace = d.workspace
         /\ (d.current = None \/ (e.current = d.current /\ e.nav = d.nav))
<1>1. PICK c : c = [d EXCEPT !.local = @ \cup {s}]
  OBVIOUS
<1>2. c \in Directory /\ Rest(c, server) /\ KeptBut(c, s)
  BY <1>1, LocalIs
<1>3. SameLists(d, c) /\ c.current = d.current /\ c.nav = d.nav /\ c.creation = d.creation
      /\ c.hot = d.hot /\ c.asked = d.asked
  BY <1>1, LocalIs
<1>4. server.home[s] = w /\ w # None /\ s \in server.runtimes /\ d.asked[s] = "none"
  BY DirectoryAssumption DEF Fresh, Created
<1>5. ListsInOrder(c, server) /\ Spinning(c) /\ Runs(c, server, q)
  BY <1>3, ListsSame DEF Fine, Runs
<1>6. c.workspace = d.workspace /\ c.version = d.version
  BY <1>3 DEF SameLists
<1>7. CASE OwnCreation(d, w, token)
  <2>1. d.current = None /\ d.workspace = w
    BY <1>7 DEF OwnCreation, Fine, Sessions, Creating
  <2>2. e = SelectSession(c, s, "unpersisted")
    BY <1>1, <1>7 DEF CompleteCreation
  <2>3. "unpersisted" \in Fact /\ Exists(c, server, s)
    BY <1>4 DEF Fact, Exists
  <2>4. Navigated(c, e, w, s) /\ Sessions(e, server)
    BY <1>2, <1>4, <2>2, <2>3, SelectIs
  <2>5. ListsInOrder(e, server) /\ Spinning(e) /\ Runs(e, server, q)
    BY <1>5, <1>6, <2>1, <2>4, NavigatedLists DEF Spinning
  <2>6. e \in Directory /\ e.version = d.version /\ e.workspace = d.workspace
    BY <1>6, <2>1, <2>4 DEF Navigated
  <2> QED
    BY <2>1, <2>4, <2>5, <2>6 DEF Fine
<1>8. CASE ~OwnCreation(d, w, token)
  <2>1. e = DiscardStale(c, s)
    BY <1>1, <1>8 DEF CompleteCreation
  <2>2. /\ e \in Directory /\ Sessions(e, server) /\ SameLists(c, e)
        /\ e.current = c.current /\ e.nav = c.nav /\ e.hot = c.hot /\ Still(c, e)
    BY <1>2, <1>3, <1>4, <2>1, DiscardIs
  <2>3. ListsInOrder(e, server) /\ Spinning(e) /\ Runs(e, server, q)
    BY <1>5, <2>2, ListsSame DEF Runs
  <2> QED
    BY <1>3, <1>6, <2>2, <2>3 DEF Fine, Still, SameLists
<1> QED
  BY <1>7, <1>8

-----------------------------------------------------------------------------
(* What the gateway says of a Session                                      *)

LEMMA KeptFrom ==
  ASSUME NEW d \in Directory, NEW s \in Session, KeptBut(d, s), NEW e, NEW t, Quiet(d, e, t),
         s \in d.local \ (d.content \cup {d.current}) /\ Managed(e, s) => e.asked[s] # "none"
  PROVE  Kept(e)
<1> SUFFICES ASSUME NEW x \in e.local \ (e.content \cup {e.current}), Managed(e, x)
             PROVE  e.asked[x] # "none"
  BY DEF Kept
<1>1. x \in Session /\ x \in d.local \ (d.content \cup {d.current})
  BY DEF Quiet, SameView, Directory
<1>2. Managed(d, x)
  BY <1>1, QuietSameManaged
<1>3. CASE x = s
  BY <1>1, <1>3
<1>4. CASE x # s
  BY <1>1, <1>2, <1>4 DEF KeptBut, Quiet
<1> QED
  BY <1>3, <1>4

LEMMA ReleasedKept ==
  ASSUME NEW d \in Directory, NEW s \in Session, KeptBut(d, s)
  PROVE  Kept(ReleaseChannel(d, s))
<1>1. PICK e : e = ReleaseChannel(d, s)
  OBVIOUS
<1>2. Quiet(d, e, s)
  BY <1>1, ReleaseQuiet
<1>3. ASSUME s \notin d.content, Managed(e, s)
      PROVE  FALSE
  <2>1. Managed(d, s)
    BY <1>2, <1>3, QuietSameManaged
  <2>2. e = [d EXCEPT !.channel[s] = IF d.hot[s] = "absent" THEN "none" ELSE "viewer",
                      !.claims = @ \ {s}]
    BY <1>1, <1>3, <2>1 DEF ReleaseChannel, Managed, Baselined
  <2>3. d.channel \in [Session -> Channel]
    BY DEF Directory
  <2>4. e.channel[s] # "controller"
    BY <2>2, <2>3 DEF Directory
  <2> QED
    BY <1>3, <2>4 DEF Managed
<1>4. Kept(e)
  BY <1>2, <1>3, KeptFrom
<1> QED
  BY <1>1, <1>4

LEMMA ReconciledKept ==
  ASSUME NEW d \in Directory, NEW s \in Session, KeptBut(d, s)
  PROVE  Kept(Reconciled(d, s))
<1>1. PICK e : e = Reconciled(d, s)
  OBVIOUS
<1>2. Quiet(d, e, s)
  BY <1>1, ReconciledQuiet
<1>3. CASE e = ReleaseChannel(d, s)
  BY <1>1, <1>3, ReleasedKept
<1>4. CASE e # ReleaseChannel(d, s)
  <2>1. ASSUME s \in d.local \ (d.content \cup {d.current}), Managed(e, s)
        PROVE  e.asked[s] # "none"
    <3>1. Managed(d, s)
      BY <1>2, <2>1, QuietSameManaged
    <3>2. e = AbandonChannel(d, s)
      BY <1>1, <2>1, <3>1 DEF Reconciled, Abandonable, Baselined, Managed
    <3>3. d.asked \in [Session -> Answer]
      BY DEF Directory
    <3> QED
      BY <3>2, <3>3 DEF AbandonChannel, Directory
  <2>2. Kept(e)
    BY <1>2, <2>1, KeptFrom
  <2> QED
    BY <1>1, <2>2
<1> QED
  BY <1>3, <1>4

\* A task that ends with reconcileHiddenSessionLifecycle.
LEMMA ReconciledFine ==
  ASSUME NEW d \in Directory, NEW q, NEW s \in Session, Rest(d, server), KeptBut(d, s),
         ListsInOrder(d, server), Spinning(d), Runs(d, server, q), server.home[s] # None
  PROVE  /\ Fine(Reconciled(d, s), q) /\ Reconciled(d, s).version = d.version
         /\ Reconciled(d, s).current = d.current
<1>1. PICK e : e = Reconciled(d, s)
  OBVIOUS
<1>2. Quiet(d, e, s)
  BY <1>1, ReconciledQuiet
<1>3. Lists(e, server, q)
  BY <1>2, QuietLists DEF Lists
<1>4. Rest(e, server)
  BY <1>2, QuietRest
<1>5. Kept(e)
  BY <1>1, ReconciledKept
<1>6. e \in Directory /\ e.version = d.version /\ e.current = d.current
  BY <1>2 DEF Quiet, SameView
<1> QED
  BY <1>1, <1>3, <1>4, <1>5, <1>6 DEF Fine, Lists, Sessions, Rest

LEMMA ApplyIs ==
  ASSUME NEW d \in Directory, NEW s \in Session, NEW v \in {"persisted", "unpersisted"},
         Rest(d, server), KeptBut(d, s), v = "unpersisted" => Exists(d, server, s),
         NEW e, e = ApplyRuntime(d, s, v)
  PROVE  /\ e \in Directory /\ Rest(e, server) /\ KeptBut(e, s) /\ SameLists(d, e)
         /\ e.channel = d.channel /\ e.current = d.current
         /\ \A x \in Session : d.hot[x] # "absent" => e.hot[x] # "absent"
<1>1. PICK ru : ru = [d.runtime EXCEPT ![s] = v]
  OBVIOUS
<1>2. PICK ho : ho = [d.hot EXCEPT ![s] = IF d.hot[s] = "absent" THEN d.hot[s] ELSE v]
  OBVIOUS
<1>3. PICK fa : fa = [d.fact EXCEPT ![s] = IF s = d.current \/ s \in {d.retained[w] : w \in Workspace}
                                           THEN v ELSE d.fact[s]]
  OBVIOUS
<1>4. PICK lo : lo = IF v = "persisted" THEN d.local \ {s} ELSE d.local
  OBVIOUS
<1>5. v \in Fact /\ v # "absent"
  BY DEF Fact
<1>6. /\ d.runtime \in [Session -> Fact] /\ d.hot \in [Session -> Fact \cup {"absent"}]
      /\ d.fact \in [Session -> Fact] /\ d.local \in SUBSET Session
  BY DEF Directory
<1>7. ru \in [Session -> Fact] /\ \A x \in Session : x # s => ru[x] = d.runtime[x]
  BY <1>1, <1>5, <1>6
<1>8. /\ ho \in [Session -> Fact \cup {"absent"}]
      /\ \A x \in Session : x # s => ho[x] = d.hot[x]
      /\ ho[s] = IF d.hot[s] = "absent" THEN d.hot[s] ELSE v
  BY <1>2, <1>5, <1>6
<1>9. /\ fa \in [Session -> Fact] /\ \A x \in Session : x # s => fa[x] = d.fact[x]
      /\ fa[s] \in {v, d.fact[s]}
  BY <1>3, <1>5, <1>6
<1>10. lo \in SUBSET Session /\ lo \subseteq d.local
  BY <1>4, <1>6
<1>11. PICK bu : bu = d.busy \ {s}
  OBVIOUS
<1>12. bu \in SUBSET Session
  BY <1>11 DEF Directory
<1>13. e = [d EXCEPT !.runtime = ru, !.busy = bu, !.local = lo, !.hot = ho, !.fact = fa]
  BY <1>1, <1>2, <1>3, <1>4, <1>11 DEF ApplyRuntime, Directory
<1>14. e \in Directory
  <2>1. PICK c : c = [d EXCEPT !.runtime = ru, !.busy = bu]
    OBVIOUS
  <2>2. c \in Directory
    BY <1>7, <1>12, <2>1, ZenonT(100) DEF Directory
  <2>3. PICK c2 : c2 = [c EXCEPT !.local = lo]
    OBVIOUS
  <2>4. c2 \in Directory
    BY <1>10, <2>2, <2>3, ZenonT(100) DEF Directory
  <2>5. PICK c3 : c3 = [c2 EXCEPT !.hot = ho]
    OBVIOUS
  <2>6. c3 \in Directory
    BY <1>8, <2>4, <2>5, ZenonT(100) DEF Directory
  <2>7. e = [c3 EXCEPT !.fact = fa]
    BY <1>13, <2>1, <2>3, <2>5 DEF Directory
  <2>8. fa \in [Session -> Fact]
    BY <1>9
  <2> QED
    BY <2>6, <2>7, <2>8, FactTyped
<1>15. /\ e.workspace = d.workspace /\ e.current = d.current /\ e.nav = d.nav
       /\ e.creation = d.creation /\ e.retained = d.retained /\ e.channel = d.channel
       /\ e.asked = d.asked /\ e.content = d.content /\ e.waiting = d.waiting
       /\ e.flight = d.flight /\ e.initial = d.initial
       /\ e.runtime = ru /\ e.busy = bu /\ e.local = lo /\ e.hot = ho /\ e.fact = fa
  BY <1>13 DEF Directory
<1>16. SameLists(d, e)
  BY <1>13 DEF Directory, SameLists
<1>17. Homes(e, server)
  BY <1>10, <1>15 DEF Rest, Homes
<1>18. Alive(e, server)
  <2> SUFFICES ASSUME NEW x \in Session
               PROVE  /\ e.fact[x] = "unpersisted" \/ e.hot[x] = "unpersisted" => Exists(e, server, x)
                      /\ e.asked[x] = "done" => x \notin server.runtimes
    BY DEF Alive
  <2>1. Exists(d, server, x) => Exists(e, server, x)
    BY <1>15 DEF Exists
  <2>2. /\ d.fact[x] = "unpersisted" \/ d.hot[x] = "unpersisted" => Exists(d, server, x)
        /\ d.asked[x] = "done" => x \notin server.runtimes
    BY DEF Rest, Alive
  <2>3. CASE x = s
    BY <1>8, <1>9, <1>15, <2>1, <2>2, <2>3
  <2>4. CASE x # s
    BY <1>8, <1>9, <1>15, <2>1, <2>2, <2>4
  <2> QED
    BY <2>3, <2>4
<1>19. Creating(e, server)
  BY <1>10, <1>15 DEF Rest, Creating, Created
<1>20. KeptBut(e, s)
  <2> SUFFICES ASSUME NEW x \in e.local \ (e.content \cup {e.current, s}), Managed(e, x)
               PROVE  e.asked[x] # "none"
    BY DEF KeptBut
  <2>1. x \in Session /\ x \in d.local \ (d.content \cup {d.current, s}) /\ x # s
    BY <1>10, <1>15
  <2>2. Managed(d, x)
    BY <1>7, <1>11, <1>15, <2>1 DEF Managed
  <2> QED
    BY <1>15, <2>1, <2>2 DEF KeptBut
<1>21. \A x \in Session : d.hot[x] # "absent" => e.hot[x] # "absent"
  BY <1>5, <1>8, <1>15
<1> QED
  BY <1>14, <1>15, <1>16, <1>17, <1>18, <1>19, <1>20, <1>21 DEF Rest

-----------------------------------------------------------------------------
(* The steps.  Told of a Session's state:                                  *)

InvNow == Fine(b, inventories) /\ server \in Gateway /\ inventories \in Seq(SUBSET Session)

\* What a step of the browser alone achieves.
StepGood == Fine(b', inventories) /\ \A w \in Workspace : b'.version[w] >= b.version[w]

LEMMA VersionsStay ==
  ASSUME InvNow, b'.version = b.version
  PROVE  \A w \in Workspace : b'.version[w] >= b.version[w]
<1>1. \A w \in Workspace : b.version[w] \in Nat
  BY DEF InvNow, Fine, Directory
<1> QED
  BY <1>1

LEMMA HomeOf ==
  ASSUME NEW d, Homes(d, server), NEW s \in Session,
         \/ d.channel[s] # "none" \/ d.asked[s] # "none" \/ s \in d.waiting \cup d.local
         \/ s \in server.runtimes \cup server.files
  PROVE  server.home[s] # None
BY DEF Homes

LEMMA ToldIs ==
  ASSUME NEW d, NEW s \in Session, s \in server.runtimes \cup server.files
  PROVE  Told(s) \in {"persisted", "unpersisted"} /\ Exists(d, server, s)
BY DEF Told, Exists

LEMMA RuntimeStep ==
  ASSUME InvNow, NEW s \in Session, Runtime(s)
  PROVE  StepGood /\ b'.current = b.current
<1>1. PICK c : c = ApplyRuntime(b, s, Told(s))
  OBVIOUS
<1>2. b \in Directory /\ Rest(b, server) /\ KeptBut(b, s) /\ s \in server.runtimes
  BY DEF InvNow, Fine, Sessions, Rest, Kept, KeptBut, Runtime
<1>3. PICK fact \in {"persisted", "unpersisted"} : fact = Told(s)
  BY <1>2, ToldIs
<1>4. Exists(b, server, s) /\ server.home[s] # None
  BY <1>2, ToldIs, HomeOf DEF Rest
<1>5. /\ c \in Directory /\ Rest(c, server) /\ KeptBut(c, s) /\ SameLists(b, c)
      /\ c.channel = b.channel /\ c.current = b.current
      /\ \A x \in Session : b.hot[x] # "absent" => c.hot[x] # "absent"
  BY <1>1, <1>2, <1>3, <1>4, ApplyIs
<1>6. ListsInOrder(c, server) /\ Spinning(c)
  BY <1>5, ListsSame DEF InvNow, Fine
<1>7. Runs(c, server, inventories)
  BY <1>5 DEF InvNow, Fine, Runs, Gateway
<1>8. /\ Fine(Reconciled(c, s), inventories) /\ Reconciled(c, s).version = c.version
      /\ Reconciled(c, s).current = c.current
  BY <1>4, <1>5, <1>6, <1>7, ReconciledFine
<1>9. b' = Reconciled(c, s)
  BY <1>1 DEF Runtime
<1>10. b'.version = b.version
  BY <1>5, <1>8, <1>9 DEF SameLists
<1> QED
  BY <1>5, <1>8, <1>9, <1>10, VersionsStay DEF StepGood

ChannelTo(d, s, c, cl) == [d EXCEPT !.channel[s] = c, !.claims = cl]

\* A channel set, and only that: the lists and the inventories do not care.
LEMMA JoinedIs ==
  ASSUME NEW d, NEW q, Fine(d, q), NEW s \in Session, NEW c \in Channel,
         NEW cl \in SUBSET Session, server.home[s] # None,
         NEW e, e = ChannelTo(d, s, c, cl)
  PROVE  /\ e \in Directory /\ Rest(e, server) /\ KeptBut(e, s) /\ SameLists(d, e)
         /\ ListsInOrder(e, server) /\ Spinning(e) /\ Runs(e, server, q)
         /\ e.hot = d.hot /\ e.current = d.current /\ e.waiting = d.waiting /\ e.channel[s] = c
<1>1. d \in Directory /\ d.channel \in [Session -> Channel] /\ Sessions(d, server)
  BY DEF Fine, Directory
<1>2. PICK ch : ch = [d.channel EXCEPT ![s] = c]
  OBVIOUS
<1>3. ch \in [Session -> Channel] /\ \A x \in Session : ch[x] = IF x = s THEN c ELSE d.channel[x]
  BY <1>1, <1>2
<1>4. e = [d EXCEPT !.channel = ch, !.claims = cl]
  BY <1>2 DEF ChannelTo
<1>5. e \in Directory
  <2>1. d \in Directory /\ ch \in [Session -> Channel]
    BY <1>1, <1>3
  <2>2. [d EXCEPT !.channel = ch, !.claims = cl] \in Directory
    BY <2>1, ChannelTyped
  <2> QED
    BY <1>4, <2>2
<1>6. /\ e.workspace = d.workspace /\ e.current = d.current /\ e.nav = d.nav
      /\ e.creation = d.creation /\ e.retained = d.retained /\ e.hot = d.hot /\ e.fact = d.fact
      /\ e.runtime = d.runtime /\ e.asked = d.asked
      /\ e.content = d.content /\ e.busy = d.busy /\ e.local = d.local
      /\ e.flight = d.flight /\ e.initial = d.initial /\ e.waiting = d.waiting
      /\ e.channel = ch
  BY <1>1, <1>4 DEF Directory
<1>7. SameLists(d, e)
  BY <1>1, <1>4 DEF Directory, SameLists
<1>8. ListsInOrder(e, server) /\ Spinning(e) /\ Runs(e, server, q)
  BY <1>6, <1>7, ListsSame DEF Fine, Runs
<1>9. Homes(e, server)
  BY <1>1, <1>3, <1>6 DEF Sessions, Homes
<1>10. Alive(e, server) /\ Creating(e, server)
  BY <1>1, <1>6 DEF Sessions, Alive, Exists, Creating, Created
<1>11. KeptBut(e, s)
  <2> SUFFICES ASSUME NEW x \in e.local \ (e.content \cup {e.current, s}), Managed(e, x)
               PROVE  e.asked[x] # "none"
    BY DEF KeptBut
  <2>1. x \in Session /\ x \in d.local \ (d.content \cup {d.current}) /\ x # s
    BY <1>1, <1>6 DEF Directory
  <2>2. Managed(d, x)
    BY <1>3, <1>6, <2>1 DEF Managed
  <2> QED
    BY <1>1, <1>6, <2>1, <2>2 DEF Sessions, Kept
<1> QED
  BY <1>3, <1>5, <1>6, <1>7, <1>8, <1>9, <1>10, <1>11 DEF Rest

LEMMA QuietFine ==
  ASSUME NEW d, NEW q, Fine(d, q), NEW e, NEW t, Quiet(d, e, t),
         t \in Session => server.home[t] # None
  PROVE  Fine(e, q) /\ e.version = d.version /\ e.current = d.current
<1>1. Sessions(e, server)
  BY QuietSessions DEF Fine
<1>2. Lists(e, server, q)
  BY QuietLists DEF Fine, Lists
<1>3. e \in Directory /\ e.version = d.version /\ e.current = d.current
  BY DEF Quiet, SameView
<1> QED
  BY <1>1, <1>2, <1>3 DEF Fine, Lists

LEMMA BaselineStep ==
  ASSUME InvNow, NEW s \in Session, Baseline(s)
  PROVE  StepGood /\ b'.current = b.current
<1>1. /\ b \in Directory /\ Sessions(b, server) /\ b.channel[s] = "joining"
      /\ s \in server.runtimes \cup server.files /\ Fine(b, inventories)
  BY DEF InvNow, Fine, Baseline
<1>2. server.home[s] # None
  BY <1>1, HomeOf DEF Sessions
<1>3. PICK cl \in SUBSET Session : cl = b.claims
  BY <1>1 DEF Directory
<1>4. PICK v \in Channel : v = "viewer"
  BY DEF Channel
<1>5. PICK d : d = ChannelTo(b, s, v, cl)
  OBVIOUS
<1>6. d = [b EXCEPT !.channel[s] = "viewer"]
  BY <1>1, <1>3, <1>4, <1>5 DEF ChannelTo, Directory
<1>7. /\ d \in Directory /\ Rest(d, server) /\ KeptBut(d, s) /\ SameLists(b, d)
      /\ ListsInOrder(d, server) /\ Spinning(d) /\ Runs(d, server, inventories)
      /\ d.hot = b.hot /\ d.current = b.current /\ d.waiting = b.waiting /\ d.channel[s] = v
  BY <1>1, <1>2, <1>5, JoinedIs
<1>8. PICK c : c = ApplyRuntime(d, s, Told(s))
  OBVIOUS
<1>9. PICK fact \in {"persisted", "unpersisted"} : fact = Told(s)
  BY <1>1, ToldIs
<1>10. Exists(d, server, s)
  BY <1>1, ToldIs
<1>11. /\ c \in Directory /\ Rest(c, server) /\ KeptBut(c, s) /\ SameLists(d, c)
       /\ c.channel = d.channel /\ c.current = d.current
       /\ \A x \in Session : d.hot[x] # "absent" => c.hot[x] # "absent"
  BY <1>7, <1>8, <1>9, <1>10, ApplyIs
<1>12. ListsInOrder(c, server) /\ Spinning(c)
  BY <1>7, <1>11, ListsSame
<1>13. Runs(c, server, inventories)
  BY <1>7, <1>11 DEF InvNow, Runs, Gateway
<1>14. Kept(c)
  BY <1>4, <1>7, <1>11 DEF Kept, KeptBut, Managed
<1>15. Fine(c, inventories) /\ c.version = b.version /\ c.current = b.current
  BY <1>7, <1>11, <1>12, <1>13, <1>14 DEF Fine, Sessions, Rest, SameLists
<1>16. PICK x : x = [c EXCEPT !.claiming = None]
  OBVIOUS
<1>17. Quiet(c, x, s)
  BY <1>11, <1>16, ClaimingQuiet
<1>18. Quiet(x, Claimed(x, s), s) /\ x \in Directory
  <2>1. x \in Directory
    BY <1>17 DEF Quiet
  <2> QED
    BY <2>1, ClaimedQuiet
<1>19. Quiet(c, Claimed(x, s), s)
  BY <1>11, <1>17, <1>18, QuietThen
<1>20. Quiet(c, Reconciled(c, s), s)
  BY <1>11, ReconciledQuiet
<1>21. b' \in {Claimed(x, s), c, Reconciled(c, s)}
  BY <1>6, <1>8, <1>16 DEF Baseline
<1>22. Quiet(c, b', s)
  BY <1>11, <1>19, <1>20, <1>21, QuietSelf
<1>23. Fine(b', inventories) /\ b'.version = b.version /\ b'.current = b.current
  BY <1>2, <1>15, <1>22, QuietFine
<1> QED
  BY <1>23, VersionsStay DEF StepGood

Alike(d, e) == e.hot = d.hot /\ e.current = d.current
WaitTo(d, wa, st) == [d EXCEPT !.waiting = wa, !.stale = st]

\* Neither what is stale nor what is waited for but s matters to the rest.
LEMMA WaitedIs ==
  ASSUME NEW d \in Directory, Rest(d, server), NEW wa \in SUBSET Session, NEW st \in SUBSET Session,
         \A x \in wa : server.home[x] # None,
         NEW e, e = WaitTo(d, wa, st)
  PROVE  /\ e \in Directory /\ Rest(e, server) /\ SameLists(d, e)
         /\ Alike(d, e)
         /\ Kept(d) => Kept(e)
         /\ \A s \in Session : KeptBut(d, s) => KeptBut(e, s)
<1>1. e \in Directory
  BY ZenonT(100) DEF Directory, WaitTo
<1>2. /\ e.workspace = d.workspace /\ e.current = d.current /\ e.nav = d.nav
      /\ e.creation = d.creation /\ e.retained = d.retained /\ e.hot = d.hot /\ e.fact = d.fact
      /\ e.runtime = d.runtime /\ e.channel = d.channel /\ e.asked = d.asked
      /\ e.content = d.content /\ e.busy = d.busy /\ e.local = d.local
      /\ e.flight = d.flight /\ e.initial = d.initial
      /\ e.waiting = wa
  BY DEF Directory, WaitTo
<1>3. SameLists(d, e)
  BY DEF Directory, SameLists, WaitTo
<1>4. Homes(e, server)
  BY <1>2 DEF Rest, Homes
<1>5. Alive(e, server) /\ Creating(e, server)
  BY <1>2 DEF Rest, Alive, Exists, Creating, Created
<1>6. (Kept(d) => Kept(e)) /\ \A s \in Session : KeptBut(d, s) => KeptBut(e, s)
  BY <1>2 DEF Kept, KeptBut, Managed
<1> QED
  BY <1>1, <1>2, <1>3, <1>4, <1>5, <1>6 DEF Rest, Alike

LEMMA GrantedStep ==
  ASSUME InvNow, NEW s \in Session, Granted(s)
  PROVE  StepGood /\ b'.current = b.current
<1>1. /\ b \in Directory /\ Sessions(b, server) /\ Fine(b, inventories)
      /\ s \in server.runtimes \cup server.files
  BY DEF InvNow, Fine, Granted
<1>2. server.home[s] # None
  BY <1>1, HomeOf DEF Sessions
<1>3. PICK cl \in SUBSET Session : cl = b.claims \ {s}
  BY <1>1 DEF Directory
<1>4. PICK v \in Channel : v = "controller"
  BY DEF Channel
<1>5. PICK c : c = ChannelTo(b, s, v, cl)
  OBVIOUS
<1>6. c = [b EXCEPT !.channel[s] = "controller", !.claims = @ \ {s}]
  BY <1>3, <1>4, <1>5 DEF ChannelTo
<1>7. /\ c \in Directory /\ Rest(c, server) /\ KeptBut(c, s) /\ SameLists(b, c)
      /\ ListsInOrder(c, server) /\ Spinning(c) /\ Runs(c, server, inventories)
      /\ c.hot = b.hot /\ c.current = b.current /\ c.waiting = b.waiting
  BY <1>1, <1>2, <1>5, JoinedIs
<1>8. CASE s \in b.waiting /\ Managed(c, s)
  <2>1. PICK a : a = AbandonChannel(c, s)
    OBVIOUS
  <2>2. Quiet(c, a, s)
    BY <1>7, <1>8, <2>1, AbandonQuiet
  <2>3. a.asked[s] # "none"
    <3>1. c.asked \in [Session -> Answer]
      BY <1>7 DEF Directory
    <3> QED
      BY <1>7, <2>1, <3>1 DEF AbandonChannel, Directory
  <2>4. Kept(a)
    BY <1>7, <2>2, <2>3, KeptFrom
  <2>5. Rest(a, server) /\ Lists(a, server, inventories)
    <3>1. Lists(c, server, inventories)
      BY <1>7 DEF Lists
    <3> QED
      BY <1>2, <1>7, <2>2, <3>1, QuietRest, QuietLists
  <2>6. a \in Directory /\ a.version = c.version /\ a.current = c.current /\ a.waiting = c.waiting
    BY <2>2 DEF Quiet, SameView
  <2>7. PICK st : st = IF b.asked[s] = "none" THEN a.stale \cup {s} ELSE a.stale
    OBVIOUS
  <2>8. st \in SUBSET Session
    BY <2>6, <2>7 DEF Directory
  <2>9. PICK wa : wa = a.waiting \ {s}
    OBVIOUS
  <2>10. wa \in SUBSET Session /\ \A x \in wa : server.home[x] # None
    BY <2>5, <2>6, <2>9 DEF Directory, Rest, Homes
  <2>11. PICK e : e = WaitTo(a, wa, st)
    OBVIOUS
  <2>12. e = b'
    BY <1>6, <1>8, <2>1, <2>7, <2>9, <2>11 DEF Granted, WaitTo
  <2>13. /\ e \in Directory /\ Rest(e, server) /\ SameLists(a, e)
         /\ e.hot = a.hot /\ e.current = a.current /\ Kept(e)
    <3>1. a \in Directory /\ Rest(a, server) /\ wa \in SUBSET Session /\ st \in SUBSET Session
          /\ \A x \in wa : server.home[x] # None
      BY <2>5, <2>6, <2>8, <2>10
    <3>2. e \in Directory /\ Rest(e, server)
      BY <2>11, <3>1, WaitedIs
    <3>3. SameLists(a, e) /\ (Kept(a) => Kept(e))
      BY <2>11, <3>1, WaitedIs
    <3>4. Alike(a, e)
      BY <2>11, <3>1, WaitedIs
    <3> QED
      BY <2>4, <3>2, <3>3, <3>4 DEF Alike
  <2>14. ListsInOrder(e, server) /\ Spinning(e) /\ Runs(e, server, inventories)
    BY <2>5, <2>13, ListsSame DEF Lists, Runs
  <2>15. e.version = b.version
    BY <1>7, <2>6, <2>13 DEF SameLists
  <2>16. Fine(e, inventories)
    BY <2>13, <2>14 DEF Fine, Sessions, Rest
  <2> QED
    BY <1>7, <2>6, <2>12, <2>13, <2>15, <2>16, VersionsStay DEF StepGood
<1>9. CASE ~(s \in b.waiting /\ Managed(c, s))
  <2>1. b' = Reconciled(c, s)
    BY <1>6, <1>9 DEF Granted
  <2>2. Fine(b', inventories) /\ b'.version = c.version /\ b'.current = c.current
    BY <1>2, <1>7, <2>1, ReconciledFine
  <2>3. b'.version = b.version
    BY <1>7, <2>2 DEF SameLists
  <2> QED
    BY <1>7, <2>2, <2>3, VersionsStay DEF StepGood
<1> QED
  BY <1>8, <1>9

LEMMA ReloadFine ==
  ASSUME NEW d, NEW q, Fine(d, q), server \in Gateway, NEW w \in Workspace, NEW connection \in Nat
  PROVE  /\ Fine(Reload(d, w, connection), q)
         /\ Reload(d, w, connection).version = d.version
         /\ Alike(d, Reload(d, w, connection))
<1>1. PICK e : e = Reload(d, w, connection)
  OBVIOUS
<1>2. d \in Directory /\ ListsInOrder(d, server) /\ Turning(d) /\ Fetching(d) /\ Sessions(d, server)
  BY DEF Fine, Spinning
<1>3. /\ e \in Directory /\ SameSessions(d, e) /\ e.version = d.version
      /\ ListsInOrder(e, server) /\ Spinning(e)
  BY <1>1, <1>2, ReloadIs
<1>4. Sessions(e, server)
  BY <1>2, <1>3, SessionsSame
<1>5. Alike(d, e) /\ Runs(e, server, q)
  BY <1>3 DEF SameSessions, Alike, Fine, Runs
<1> QED
  BY <1>1, <1>3, <1>4, <1>5 DEF Fine

LEMMA ReleasedFine ==
  ASSUME NEW d \in Directory, NEW q, NEW s \in Session, Rest(d, server), KeptBut(d, s),
         ListsInOrder(d, server), Spinning(d), Runs(d, server, q), server.home[s] # None
  PROVE  /\ Fine(ReleaseChannel(d, s), q) /\ ReleaseChannel(d, s).version = d.version
         /\ Alike(d, ReleaseChannel(d, s))
<1>1. PICK e : e = ReleaseChannel(d, s)
  OBVIOUS
<1>2. Quiet(d, e, s)
  BY <1>1, ReleaseQuiet
<1>3. Lists(e, server, q)
  BY <1>2, QuietLists DEF Lists
<1>4. Rest(e, server)
  BY <1>2, QuietRest
<1>5. Kept(e)
  BY <1>1, ReleasedKept
<1>6. e \in Directory /\ e.version = d.version /\ Alike(d, e)
  BY <1>2 DEF Quiet, SameView, Alike
<1> QED
  BY <1>1, <1>3, <1>4, <1>5, <1>6 DEF Fine, Lists, Sessions, Rest

LEMMA WaitExpiresStep ==
  ASSUME InvNow, NEW s \in Session, WaitExpires(s)
  PROVE  StepGood /\ b'.current = b.current
<1>1. /\ b \in Directory /\ Rest(b, server) /\ KeptBut(b, s) /\ Fine(b, inventories)
      /\ s \in b.waiting /\ server \in Gateway
  BY DEF InvNow, Fine, Sessions, Rest, Kept, KeptBut, WaitExpires
<1>2. server.home[s] # None /\ server.home[s] \in Workspace
  <2>1. server.home[s] # None
    BY <1>1, HomeOf DEF Rest
  <2> QED
    BY <1>1, <2>1 DEF Gateway
<1>3. PICK st \in SUBSET Session : st = b.stale
  BY <1>1 DEF Directory
<1>4. PICK wa \in SUBSET Session : wa = b.waiting \ {s}
  BY <1>1 DEF Directory
<1>5. \A x \in wa : server.home[x] # None
  BY <1>1, <1>4 DEF Rest, Homes
<1>6. PICK c : c = WaitTo(b, wa, st)
  OBVIOUS
<1>7. c = [b EXCEPT !.waiting = @ \ {s}]
  BY <1>1, <1>3, <1>4, <1>6 DEF WaitTo, Directory
<1>8. c \in Directory /\ Rest(c, server) /\ SameLists(b, c) /\ Alike(b, c) /\ KeptBut(c, s)
  BY <1>1, <1>5, <1>6, WaitedIs
<1>9. ListsInOrder(c, server) /\ Spinning(c) /\ Runs(c, server, inventories)
  BY <1>1, <1>8, ListsSame DEF Fine, Runs, Alike
<1>10. PICK d : d = ReleaseChannel(c, s)
  OBVIOUS
<1>11. Fine(d, inventories) /\ d.version = c.version /\ Alike(c, d)
  BY <1>2, <1>8, <1>9, <1>10, ReleasedFine
<1>12. PICK w \in Workspace : w = server.home[s]
  BY <1>2
<1>13. b' = Reload(d, w, 0)
  BY <1>7, <1>10, <1>12 DEF WaitExpires, Home
<1>14. Fine(b', inventories) /\ b'.version = d.version /\ Alike(d, b')
  BY <1>1, <1>11, <1>13, ReloadFine
<1>15. b'.version = b.version /\ b'.current = b.current
  BY <1>8, <1>11, <1>14 DEF SameLists, Alike
<1> QED
  BY <1>14, <1>15, VersionsStay DEF StepGood

AnswerTo(d, s, st) == [d EXCEPT !.asked[s] = "none", !.stale = st]

LEMMA AnsweredIs ==
  ASSUME NEW d \in Directory, Sessions(d, server), NEW s \in Session, d.asked[s] = "refused",
         NEW st \in SUBSET Session, NEW e, e = AnswerTo(d, s, st)
  PROVE  /\ e \in Directory /\ Rest(e, server) /\ SameLists(d, e) /\ Alike(d, e) /\ KeptBut(e, s)
<1>1. PICK as : as = [d.asked EXCEPT ![s] = "none"]
  OBVIOUS
<1>2. d.asked \in [Session -> Answer] /\ "none" \in Answer
  BY DEF Directory, Answer
<1>3. as \in [Session -> Answer] /\ \A x \in Session : as[x] = IF x = s THEN "none" ELSE d.asked[x]
  BY <1>1, <1>2
<1>4. e = [d EXCEPT !.asked = as, !.stale = st]
  BY <1>1 DEF AnswerTo
<1>5. e \in Directory
  <2>1. [d EXCEPT !.asked = as, !.stale = st] \in Directory
    BY <1>3, AskedTyped
  <2> QED
    BY <1>4, <2>1
<1>6. /\ e.workspace = d.workspace /\ e.current = d.current /\ e.nav = d.nav
      /\ e.creation = d.creation /\ e.retained = d.retained /\ e.hot = d.hot /\ e.fact = d.fact
      /\ e.runtime = d.runtime /\ e.channel = d.channel
      /\ e.content = d.content /\ e.busy = d.busy /\ e.local = d.local /\ e.waiting = d.waiting
      /\ e.flight = d.flight /\ e.initial = d.initial
      /\ e.asked = as
  BY <1>4 DEF Directory
<1>7. SameLists(d, e)
  BY <1>4 DEF Directory, SameLists
<1>8. Homes(e, server)
  BY <1>3, <1>6, ZenonT(100) DEF Sessions, Homes
<1>9. Alive(e, server)
  BY <1>3, <1>6 DEF Sessions, Alive, Exists
<1>10. Creating(e, server)
  <2>1. /\ e.creation # 0 => e.current = None
        /\ e.initial = "begin" => e.content = {}
        /\ \A x \in Workspace : e.flight[x].pc # "none" => e.flight[x].token # 0
    BY <1>6 DEF Sessions, Creating
  <2>2. ASSUME NEW x \in Workspace, e.flight[x].pc = "created"
        PROVE  Created(e, server, x, e.flight[x].session)
    <3>1. Created(d, server, x, e.flight[x].session)
      BY <1>6, <2>2 DEF Sessions, Creating
    <3> QED
      BY <1>3, <1>6, <3>1 DEF Created
  <2> QED
    BY <2>1, <2>2 DEF Creating
<1>11. KeptBut(e, s)
  <2> SUFFICES ASSUME NEW x \in e.local \ (e.content \cup {e.current, s}), Managed(e, x)
               PROVE  e.asked[x] # "none"
    BY DEF KeptBut
  <2>1. x \in Session /\ x \in d.local \ (d.content \cup {d.current}) /\ x # s /\ Managed(d, x)
    BY <1>6 DEF Directory, Managed
  <2> QED
    BY <1>3, <1>6, <2>1 DEF Sessions, Kept
<1> QED
  BY <1>5, <1>6, <1>7, <1>8, <1>9, <1>10, <1>11 DEF Rest, Alike

\* A Session that is gone, in the directory and in the transport.
Gone(d, as, st, ch, cl, ru, fa, li, ho, lo, co, re, cu) ==
  [d EXCEPT !.asked = as, !.stale = st, !.channel = ch, !.claims = cl, !.runtime = ru,
            !.fact = fa, !.listed = li, !.hot = ho, !.local = lo, !.content = co,
            !.retained = re, !.current = cu]

LEMMA GoneTyped ==
  ASSUME NEW d \in Directory,
         NEW as \in [Session -> Answer], NEW st \in SUBSET Session,
         NEW ch \in [Session -> Channel], NEW cl \in SUBSET Session,
         NEW ru \in [Session -> Fact], NEW fa \in [Session -> Fact],
         NEW li \in [Workspace -> SUBSET Session], NEW ho \in [Session -> Fact \cup {"absent"}],
         NEW lo \in SUBSET Session, NEW co \in SUBSET Session,
         NEW re \in [Workspace -> Session \cup {None}], NEW cu \in Session \cup {None}
  PROVE  Gone(d, as, st, ch, cl, ru, fa, li, ho, lo, co, re, cu) \in Directory
<1>1. PICK d1 : d1 = [d EXCEPT !.asked = as, !.stale = st]
  OBVIOUS
<1>2. d1 \in Directory
  BY <1>1, AskedTyped
<1>3. PICK d2 : d2 = [d1 EXCEPT !.channel = ch, !.claims = cl]
  OBVIOUS
<1>4. d2 \in Directory
  BY <1>2, <1>3, ChannelTyped
<1>5. PICK d3 : d3 = [d2 EXCEPT !.runtime = ru, !.fact = fa]
  OBVIOUS
<1>6. d3 \in Directory
  BY <1>4, <1>5, RuntimeTyped
<1>7. PICK d4 : d4 = [d3 EXCEPT !.listed = li, !.hot = ho]
  OBVIOUS
<1>8. d4 \in Directory
  BY <1>6, <1>7, ListedTyped
<1>9. PICK d5 : d5 = [d4 EXCEPT !.local = lo, !.content = co]
  OBVIOUS
<1>10. d5 \in Directory
  BY <1>8, <1>9, LocalTyped
<1>11. PICK d6 : d6 = [d5 EXCEPT !.retained = re, !.current = cu]
  OBVIOUS
<1>12. d6 \in Directory
  BY <1>10, <1>11, ShownTyped
<1>13. d6 = Gone(d, as, st, ch, cl, ru, fa, li, ho, lo, co, re, cu)
  BY <1>1, <1>3, <1>5, <1>7, <1>9, <1>11 DEF Gone, Directory
<1> QED
  BY <1>12, <1>13

LEMMA GoneFine ==
  ASSUME NEW d, NEW q, Fine(d, q), NEW s \in Session, d.asked[s] = "done",
         NEW e, e = RemoveSession(Forget(AnswerTo(d, s, d.stale \ {s}), s), s),
         server \in Gateway
  PROVE  Fine(e, q) /\ e.version = d.version /\ (e.current = d.current \/ d.current = s)
<1>1. d \in Directory /\ Sessions(d, server)
  BY DEF Fine
<1>2. /\ d.asked \in [Session -> Answer] /\ d.channel \in [Session -> Channel]
      /\ d.runtime \in [Session -> Fact] /\ d.fact \in [Session -> Fact]
      /\ d.listed \in [Workspace -> SUBSET Session]
      /\ d.hot \in [Session -> Fact \cup {"absent"}]
      /\ d.retained \in [Workspace -> Session \cup {None}]
      /\ d.current \in Session \cup {None}
      /\ d.stale \in SUBSET Session /\ d.claims \in SUBSET Session
      /\ d.local \in SUBSET Session /\ d.content \in SUBSET Session
  BY <1>1 DEF Directory
<1>3. PICK h \in Workspace : h = Home(s)
  <2>1. server.home[s] # None
    BY <1>1, HomeOf DEF Sessions
  <2> QED
    BY <2>1 DEF Gateway, Home
<1>4. "none" \in Answer /\ "none" \in Channel /\ "unknown" \in Fact
  BY DEF Answer, Channel, Fact
<1>5. PICK as : as = [d.asked EXCEPT ![s] = "none"]
  OBVIOUS
<1>6. as \in [Session -> Answer] /\ \A x \in Session : as[x] = IF x = s THEN "none" ELSE d.asked[x]
  BY <1>2, <1>4, <1>5
<1>7. PICK ch : ch = [d.channel EXCEPT ![s] = "none"]
  OBVIOUS
<1>8. ch \in [Session -> Channel] /\ \A x \in Session : ch[x] = IF x = s THEN "none" ELSE d.channel[x]
  BY <1>2, <1>4, <1>7
<1>9. PICK ru : ru = [d.runtime EXCEPT ![s] = "unknown"]
  OBVIOUS
<1>10. ru \in [Session -> Fact] /\ \A x \in Session : x # s => ru[x] = d.runtime[x]
  BY <1>2, <1>4, <1>9
<1>11. PICK fa : fa = [d.fact EXCEPT ![s] = "unknown"]
  OBVIOUS
<1>12. fa \in [Session -> Fact] /\ \A x \in Session : fa[x] = IF x = s THEN "unknown" ELSE d.fact[x]
  BY <1>2, <1>4, <1>11
<1>13. PICK li : li = [d.listed EXCEPT ![h] = d.listed[h] \ {s}]
  OBVIOUS
<1>14. li \in [Workspace -> SUBSET Session]
  BY <1>2, <1>13
<1>15. PICK ho : ho = [d.hot EXCEPT ![s] = "absent"]
  OBVIOUS
<1>16. /\ ho \in [Session -> Fact \cup {"absent"}]
       /\ \A x \in Session : ho[x] = IF x = s THEN "absent" ELSE d.hot[x]
  BY <1>2, <1>15
<1>17. PICK lo : lo = d.local \ {s}
  OBVIOUS
<1>18. PICK co : co = d.content \ {s}
  OBVIOUS
<1>19. PICK re : re = [d.retained EXCEPT ![h] = IF d.retained[h] = s THEN None ELSE d.retained[h]]
  OBVIOUS
<1>20. /\ re \in [Workspace -> Session \cup {None}]
       /\ \A w \in Workspace : re[w] \in {None, d.retained[w]}
  BY <1>2, <1>19
<1>21. PICK st : st = d.stale \ {s}
  OBVIOUS
<1>22. PICK cl : cl = d.claims \ {s}
  OBVIOUS
<1>23. lo \in SUBSET Session /\ co \in SUBSET Session /\ st \in SUBSET Session /\ cl \in SUBSET Session
  BY <1>2, <1>17, <1>18, <1>21, <1>22
<1>24. PICK cu \in Session \cup {None} : cu = IF d.current = s THEN None ELSE d.current
  BY <1>2
<1>25. PICK r : r = Gone(d, as, st, ch, cl, ru, fa, li, ho, lo, co, re, cu)
  OBVIOUS
<1>26. r \in Directory
  BY <1>1, <1>6, <1>8, <1>10, <1>12, <1>14, <1>16, <1>20, <1>23, <1>24, <1>25, GoneTyped
<1>27. /\ r.workspace = d.workspace /\ r.nav = d.nav /\ r.creation = d.creation
       /\ r.busy = d.busy /\ r.waiting = d.waiting /\ r.flight = d.flight /\ r.initial = d.initial
       /\ r.asked = as /\ r.channel = ch /\ r.runtime = ru /\ r.fact = fa /\ r.hot = ho
       /\ r.local = lo /\ r.content = co /\ r.retained = re /\ r.current = cu
  BY <1>1, <1>25 DEF Gone, Directory
<1>28. SameLists(d, r)
  BY <1>1, <1>25 DEF Gone, Directory, SameLists
<1>29. PICK f : f = Forget(AnswerTo(d, s, st), s)
  OBVIOUS
<1>30. f = [d EXCEPT !.asked = as, !.stale = st, !.channel = ch, !.claims = cl, !.runtime = ru]
  BY <1>1, <1>5, <1>7, <1>9, <1>22, <1>29 DEF Forget, AnswerTo, Directory
<1>31. PICK c : c = [f EXCEPT !.listed = li, !.hot = ho, !.local = lo, !.content = co, !.fact = fa,
                              !.retained = re]
  OBVIOUS
<1>32. /\ f.current = d.current /\ f.listed = d.listed /\ f.hot = d.hot /\ f.fact = d.fact
       /\ f.local = d.local /\ f.content = d.content /\ f.retained = d.retained
  BY <1>1, <1>30 DEF Directory
<1>33. e = IF d.current = s THEN ActivateView([c EXCEPT !.current = None], None) ELSE c
  <2>1. c = [f EXCEPT !.listed[Home(s)] = @ \ {s}, !.hot[s] = "absent",
                      !.local = @ \ {s}, !.content = @ \ {s}, !.fact[s] = "unknown",
                      !.retained[Home(s)] = IF @ = s THEN None ELSE @]
    BY <1>3, <1>11, <1>13, <1>15, <1>17, <1>18, <1>19, <1>31, <1>32
  <2>2. e = RemoveSession(f, s)
    BY <1>21, <1>29
  <2> QED
    BY <1>32, <2>1, <2>2 DEF RemoveSession
<1>34. r = IF d.current = s THEN [c EXCEPT !.current = None] ELSE c
  BY <1>1, <1>24, <1>25, <1>30, <1>31, ZenonT(100) DEF Gone, Directory
<1>35. Quiet(r, e, None)
  <2>1. PICK z \in Session \cup {None} : z = None
    OBVIOUS
  <2>2. Quiet(r, ActivateView(r, z), z)
    BY <1>26, ActivateQuiet
  <2>3. e \in {r, ActivateView(r, z)}
    BY <1>33, <1>34, <2>1
  <2> QED
    BY <1>26, <2>1, <2>2, <2>3, QuietSelf
<1>36. s \notin server.runtimes /\ (d.creation # 0 => d.current = None)
  BY <1>1 DEF Sessions, Alive, Creating
<1>37. Homes(r, server)
  <2>1. ASSUME NEW w \in Workspace, r.retained[w] # None
        PROVE  server.home[r.retained[w]] = w
    <3>1. r.retained[w] = d.retained[w]
      BY <1>20, <1>27, <2>1
    <3> QED
      BY <1>1, <2>1, <3>1 DEF Sessions, Homes
  <2>2. ASSUME NEW x \in Session, server.home[x] = None
        PROVE  /\ x \notin server.runtimes \cup server.files
               /\ r.channel[x] = "none" /\ r.asked[x] = "none" /\ x \notin r.waiting \cup r.local
    <3>1. /\ x \notin server.runtimes \cup server.files
          /\ d.channel[x] = "none" /\ d.asked[x] = "none" /\ x \notin d.waiting \cup d.local
      BY <1>1, <2>2 DEF Sessions, Homes
    <3> QED
      BY <1>6, <1>8, <1>17, <1>27, <3>1
  <2> QED
    BY <2>1, <2>2 DEF Homes
<1>38. Alive(r, server)
  <2> SUFFICES ASSUME NEW x \in Session
               PROVE  /\ r.fact[x] = "unpersisted" \/ r.hot[x] = "unpersisted" => Exists(r, server, x)
                      /\ r.asked[x] = "done" => x \notin server.runtimes
    BY DEF Alive
  <2>1. CASE x = s
    BY <1>6, <1>12, <1>16, <1>27, <2>1
  <2>2. CASE x # s
    BY <1>1, <1>6, <1>12, <1>16, <1>27, <2>2 DEF Sessions, Alive, Exists
  <2> QED
    BY <2>1, <2>2
<1>39. Kept(r)
  <2> SUFFICES ASSUME NEW x \in r.local \ (r.content \cup {r.current}), Managed(r, x)
               PROVE  r.asked[x] # "none"
    BY DEF Kept
  <2>1. x \in Session /\ x # s /\ x \in d.local /\ x \notin d.content
    BY <1>2, <1>17, <1>18, <1>27
  <2>2. x # d.current
    BY <1>24, <1>27, <2>1
  <2>3. Managed(d, x)
    BY <1>8, <1>10, <1>17, <1>27, <2>1 DEF Managed
  <2> QED
    <3>1. d.asked[x] # "none"
      BY <1>1, <2>1, <2>2, <2>3 DEF Sessions, Kept
    <3> QED
      BY <1>6, <1>27, <2>1, <3>1
<1>40. Creating(r, server)
  <2>1. /\ r.creation # 0 => r.current = None
        /\ r.initial = "begin" => r.content = {}
        /\ \A x \in Workspace : r.flight[x].pc # "none" => r.flight[x].token # 0
    BY <1>1, <1>18, <1>24, <1>27 DEF Sessions, Creating
  <2>2. ASSUME NEW x \in Workspace, r.flight[x].pc = "created"
        PROVE  Created(r, server, x, r.flight[x].session)
    <3>1. Created(d, server, x, r.flight[x].session)
      BY <1>1, <1>27, <2>2 DEF Sessions, Creating
    <3> QED
      BY <1>6, <1>17, <1>27, <3>1 DEF Created
  <2> QED
    BY <2>1, <2>2 DEF Creating
<1>41. ListsInOrder(r, server) /\ Spinning(r)
  BY <1>28, ListsSame DEF Fine
<1>42. Runs(r, server, q)
  BY <1>16, <1>27, <1>36 DEF Fine, Runs, Gateway
<1>43. Fine(r, q) /\ r.version = d.version
  BY <1>26, <1>28, <1>37, <1>38, <1>39, <1>40, <1>41, <1>42 DEF Fine, Sessions, SameLists
<1>44. None \notin Session
  BY DirectoryAssumption
<1>45. Fine(e, q) /\ e.version = r.version /\ e.current = r.current
  BY <1>35, <1>43, <1>44, QuietFine
<1> QED
  BY <1>24, <1>27, <1>43, <1>45

LEMMA AbandonAnsweredStep ==
  ASSUME InvNow, NEW s \in Session, AbandonAnswered(s)
  PROVE  StepGood /\ (b'.current = b.current \/ b.asked[b.current] = "done")
<1>1. /\ b \in Directory /\ Sessions(b, server) /\ Fine(b, inventories) /\ server \in Gateway
      /\ b.asked[s] \in {"done", "refused"}
  BY DEF InvNow, Fine, AbandonAnswered
<1>2. PICK st \in SUBSET Session : st = b.stale \ {s}
  BY <1>1 DEF Directory
<1>3. PICK c : c = AnswerTo(b, s, st)
  OBVIOUS
<1>4. c = [b EXCEPT !.asked[s] = "none", !.stale = @ \ {s}]
  BY <1>2, <1>3 DEF AnswerTo
<1>5. CASE b.asked[s] = "done"
  <2>1. b' = RemoveSession(Forget(AnswerTo(b, s, b.stale \ {s}), s), s)
    BY <1>2, <1>3, <1>4, <1>5 DEF AbandonAnswered
  <2>2. /\ Fine(b', inventories) /\ b'.version = b.version
        /\ (b'.current = b.current \/ b.current = s)
    BY <1>1, <1>5, <2>1, GoneFine
  <2> QED
    BY <1>5, <2>2, VersionsStay DEF StepGood
<1>6. CASE b.asked[s] = "refused"
  <2>1. c \in Directory /\ Rest(c, server) /\ SameLists(b, c) /\ Alike(b, c) /\ KeptBut(c, s)
    BY <1>1, <1>3, <1>6, AnsweredIs
  <2>2. ListsInOrder(c, server) /\ Spinning(c) /\ Runs(c, server, inventories)
    BY <1>1, <2>1, ListsSame DEF Fine, Runs, Alike
  <2>3. server.home[s] # None /\ server.home[s] \in Workspace
    <3>1. server.home[s] # None
      BY <1>1, <1>6, HomeOf DEF Sessions
    <3> QED
      BY <1>1, <3>1 DEF Gateway
  <2>4. PICK d : d = ReleaseChannel(c, s)
    OBVIOUS
  <2>5. Fine(d, inventories) /\ d.version = c.version /\ Alike(c, d)
    BY <2>1, <2>2, <2>3, <2>4, ReleasedFine
  <2>6. PICK w \in Workspace : w = server.home[s]
    BY <2>3
  <2>7. /\ Fine(Reload(d, w, 0), inventories) /\ Reload(d, w, 0).version = d.version
        /\ Alike(d, Reload(d, w, 0))
    BY <1>1, <2>5, ReloadFine
  <2>8. b' \in {d, Reload(d, w, 0)}
    BY <1>4, <1>6, <2>4, <2>6 DEF AbandonAnswered, Home
  <2>9. Fine(b', inventories) /\ b'.version = d.version /\ Alike(d, b')
    BY <2>5, <2>7, <2>8 DEF Alike
  <2>10. b'.version = b.version /\ b'.current = b.current
    BY <2>1, <2>5, <2>9 DEF SameLists, Alike
  <2> QED
    BY <2>9, <2>10, VersionsStay DEF StepGood
<1> QED
  BY <1>1, <1>5, <1>6

-----------------------------------------------------------------------------
(* The steps of a list                                                     *)

ListsTo(d, l) == [d EXCEPT !.lists = l]

\* What the requests for lists of workspaces and the clock of the lists keep.
SameClock(d, e) ==
  /\ e.workspace = d.workspace /\ e.counter = d.counter /\ e.latest = d.latest
  /\ e.wcounter = d.wcounter /\ e.loads = d.loads /\ e.loadingWorkspaces = d.loadingWorkspaces

\* Only the lists on their way change.
OnlyLists(d, e, l) ==
  SameSessions(d, e) /\ SameClock(d, e) /\ e.version = d.version /\ e.loading = d.loading /\ e.lists = l

LEMMA ListsToIs ==
  ASSUME NEW d \in Directory, NEW l \in SUBSET List, NEW e, e = ListsTo(d, l)
  PROVE  e \in Directory /\ OnlyLists(d, e, l)
<1>1. e \in Directory
  BY ZenonT(100) DEF ListsTo, Directory
<1>2. SameSessions(d, e)
  BY DEF ListsTo, Directory, SameSessions
<1>3. SameClock(d, e) /\ e.version = d.version /\ e.loading = d.loading /\ e.lists = l
  BY DEF ListsTo, Directory, SameClock
<1> QED
  BY <1>1, <1>2, <1>3 DEF OnlyLists

LEMMA ServeListStep ==
  ASSUME InvNow, NEW x, ServeList(x)
  PROVE  StepGood /\ b'.current = b.current
<1>1. /\ b \in Directory /\ Sessions(b, server) /\ ListsInOrder(b, server) /\ Spinning(b)
      /\ server \in Gateway /\ x \in b.lists /\ x \in List
  BY DEF InvNow, Fine, ServeList, Directory
<1>2. PICK y : y = [x EXCEPT !.version = server.version, !.files = Files(x.workspace)]
  OBVIOUS
<1>3. Files(x.workspace) \in SUBSET Session /\ server.version \in Nat
  BY <1>1 DEF Files, Gateway
<1>4. /\ y \in List /\ y.workspace = x.workspace /\ y.request = x.request
      /\ y.version = server.version
  BY <1>1, <1>2, <1>3 DEF List
<1>5. PICK l : l = (b.lists \ {x}) \cup {y}
  OBVIOUS
<1>6. l \in SUBSET List
  BY <1>1, <1>4, <1>5 DEF Directory
<1>7. b' = ListsTo(b, l)
  BY <1>2, <1>5 DEF ServeList, ListsTo
<1>8. b' \in Directory /\ OnlyLists(b, b', l)
  BY <1>1, <1>6, <1>7, ListsToIs
<1>9. /\ SameSessions(b, b') /\ b'.version = b.version /\ b'.lists = l
      /\ b'.counter = b.counter /\ b'.latest = b.latest /\ b'.workspace = b.workspace
      /\ b'.loading = b.loading /\ b'.wcounter = b.wcounter /\ b'.loads = b.loads
      /\ b'.loadingWorkspaces = b.loadingWorkspaces
  BY <1>8 DEF OnlyLists, SameClock
<1>10. ListsInOrder(b', server)
  <2>1. ASSUME NEW z \in l
        PROVE  z.request \in 1..b.counter /\ z.version <= server.version
    BY <1>1, <1>3, <1>4, <1>5 DEF ListsInOrder
  <2>2. ASSUME NEW z \in l, NEW z2 \in l, z.request = z2.request
        PROVE  z = z2
    BY <2>2, <1>1, <1>4, <1>5 DEF ListsInOrder
  <2>3. ASSUME NEW z \in l, b.latest[z.workspace] = z.request, z.version > 0
        PROVE  z.version >= b.version[z.workspace]
    <3>1. CASE z = y
      <4>1. z.workspace \in Workspace
        BY <3>1, <1>4 DEF List
      <4>2. b.version[z.workspace] <= server.version /\ b.version[z.workspace] \in Nat
        BY <4>1, <1>1 DEF ListsInOrder, Directory
      <4> QED
        BY <1>3, <1>4, <3>1, <4>2
    <3>2. CASE z # y
      BY <2>3, <3>2, <1>1, <1>5 DEF ListsInOrder
    <3> QED
      BY <3>1, <3>2
  <2> QED
    BY <1>1, <1>9, <2>1, <2>2, <2>3 DEF ListsInOrder
<1>11. Spinning(b')
  <2>1. Turning(b')
    <3> SUFFICES ASSUME b.loading
                 PROVE  \E z \in l : z.workspace = b.workspace /\ b.latest[z.workspace] = z.request
      BY <1>9 DEF Turning
    <3>1. PICK z \in b.lists : z.workspace = b.workspace /\ b.latest[z.workspace] = z.request
      BY <1>1 DEF Spinning, Turning
    <3> QED
      BY <1>4, <1>5, <3>1
  <2> QED
    BY <1>1, <1>9, <2>1 DEF Spinning, Fetching
<1>12. Sessions(b', server)
  BY <1>1, <1>9, SessionsSame
<1>13. Runs(b', server, inventories) /\ b'.current = b.current
  BY <1>9 DEF InvNow, Fine, Runs, SameSessions
<1> QED
  BY <1>8, <1>9, <1>10, <1>11, <1>12, <1>13, VersionsStay DEF StepGood, Fine

\* The answer x has arrived: nothing waits for it, and what is listed is not
\* older than it was.
Later(d, ve, x) ==
  \/ ve = d.version
  \/ /\ ve = [d.version EXCEPT ![x.workspace] = x.version]
     /\ d.latest[x.workspace] = x.request /\ x.version > 0

Fewer(d, e, x) ==
  e.lists = d.lists \ {x} /\ e.counter = d.counter /\ e.latest = d.latest /\ Later(d, e.version, x)

LEMMA FewerLists ==
  ASSUME NEW d \in Directory, ListsInOrder(d, server), NEW x \in d.lists,
         NEW e \in Directory, Fewer(d, e, x)
  PROVE  ListsInOrder(e, server) /\ \A w \in Workspace : e.version[w] >= d.version[w]
<1>1. /\ x \in List /\ x.workspace \in Workspace /\ x.version \in Nat /\ x.version <= server.version
      /\ d.version \in [Workspace -> Nat]
  BY DEF Directory, List, ListsInOrder
<1>2. \A w \in Workspace :
        \/ e.version[w] = d.version[w]
        \/ /\ w = x.workspace /\ e.version[w] = x.version
           /\ d.latest[x.workspace] = x.request /\ x.version > 0
  BY <1>1 DEF Fewer, Later
<1>3. ASSUME NEW w \in Workspace
      PROVE  e.version[w] >= d.version[w] /\ e.version[w] <= server.version
  <2>1. d.version[w] \in Nat /\ d.version[w] <= server.version
    BY <1>1 DEF ListsInOrder
  <2>2. CASE e.version[w] = d.version[w]
    BY <2>1, <2>2
  <2>3. CASE /\ w = x.workspace /\ e.version[w] = x.version
             /\ d.latest[x.workspace] = x.request /\ x.version > 0
    BY <1>1, <2>3 DEF ListsInOrder
  <2> QED
    BY <1>2, <2>2, <2>3
<1>4. ASSUME NEW y \in e.lists, e.latest[y.workspace] = y.request, y.version > 0
      PROVE  y.version >= e.version[y.workspace]
  <2>1. y \in d.lists /\ y # x /\ y.workspace \in Workspace
    BY DEF Directory, List, Fewer
  <2>2. y.version >= d.version[y.workspace]
    BY <1>4, <2>1 DEF ListsInOrder, Fewer
  <2>3. CASE e.version[y.workspace] = d.version[y.workspace]
    BY <2>2, <2>3
  <2>4. CASE y.workspace = x.workspace /\ d.latest[x.workspace] = x.request
    <3>1. x.request = y.request
      BY <1>4, <2>4 DEF Fewer
    <3> QED
      BY <2>1, <3>1 DEF ListsInOrder
  <2> QED
    BY <1>2, <2>1, <2>3, <2>4
<1>5. \A w \in Workspace : e.latest[w] <= e.counter
  BY DEF ListsInOrder, Fewer
<1> QED
  BY <1>3, <1>4, <1>5 DEF ListsInOrder, Fewer
\* An answer of a list, whatever is made of it.
Answered(d, l, ld, ve, li, re, fa) ==
  [d EXCEPT !.lists = l, !.loading = ld, !.version = ve, !.listed = li, !.retained = re, !.fact = fa]

LEMMA AnsweredTyped ==
  ASSUME NEW d \in Directory, NEW l \in SUBSET List, NEW ld \in BOOLEAN,
         NEW ve \in [Workspace -> Nat], NEW li \in [Workspace -> SUBSET Session],
         NEW re \in [Workspace -> Session \cup {None}], NEW fa \in [Session -> Fact]
  PROVE  Answered(d, l, ld, ve, li, re, fa) \in Directory
<1>1. PICK d1 : d1 = [d EXCEPT !.lists = l, !.loading = ld, !.version = ve]
  OBVIOUS
<1>2. d1 \in Directory
  BY <1>1, ZenonT(100) DEF Directory
<1>3. PICK d2 : d2 = [d1 EXCEPT !.listed = li, !.retained = re, !.fact = fa]
  OBVIOUS
<1>4. d2 \in Directory
  BY <1>2, <1>3, ZenonT(100) DEF Directory
<1>5. d2 = Answered(d, l, ld, ve, li, re, fa)
  BY <1>1, <1>3 DEF Answered, Directory
<1> QED
  BY <1>4, <1>5

\* What an answer x may make of a record: nothing turns for it any more, and
\* what it has found in a file has one.
Answers(d, x, ld, ve, re, fa) ==
  /\ \A w \in Workspace : re[w] \in {None, d.retained[w]}
  /\ \A s \in Session : fa[s] = "unpersisted" => d.fact[s] = "unpersisted"
  /\ ld => d.loading /\ (d.workspace # x.workspace \/ d.latest[x.workspace] # x.request)
  /\ Later(d, ve, x)

Forward(d, e) == e.current = d.current /\ \A w \in Workspace : e.version[w] >= d.version[w]

LEMMA AnsweredFine ==
  ASSUME NEW d, NEW q, Fine(d, q), NEW x \in d.lists, NEW ld \in BOOLEAN,
         NEW ve \in [Workspace -> Nat], NEW li \in [Workspace -> SUBSET Session],
         NEW re \in [Workspace -> Session \cup {None}], NEW fa \in [Session -> Fact],
         Answers(d, x, ld, ve, re, fa),
         NEW e, e = Answered(d, d.lists \ {x}, ld, ve, li, re, fa)
  PROVE  Fine(e, q) /\ Forward(d, e)
<1>1. d \in Directory /\ Sessions(d, server) /\ ListsInOrder(d, server) /\ Spinning(d)
  BY DEF Fine
<1>2. PICK l \in SUBSET List : l = d.lists \ {x}
  BY <1>1 DEF Directory
<1>3. e = Answered(d, l, ld, ve, li, re, fa)
  BY <1>2
<1>4. e \in Directory
  BY <1>1, <1>3, AnsweredTyped
<1>5. /\ e.workspace = d.workspace /\ e.current = d.current /\ e.nav = d.nav
      /\ e.creation = d.creation /\ e.hot = d.hot
      /\ e.runtime = d.runtime /\ e.channel = d.channel /\ e.asked = d.asked /\ e.local = d.local
      /\ e.content = d.content /\ e.busy = d.busy /\ e.waiting = d.waiting
      /\ e.flight = d.flight /\ e.initial = d.initial
  BY <1>1, <1>3 DEF Answered, Directory
<1>6. /\ e.lists = l /\ e.loading = ld /\ e.version = ve /\ e.retained = re /\ e.fact = fa
      /\ SameClock(d, e)
  BY <1>1, <1>3, ZenonT(100) DEF Answered, Directory, SameClock
<1>7. e.counter = d.counter /\ e.latest = d.latest
  BY <1>6 DEF SameClock
<1>8. Fewer(d, e, x)
  BY <1>2, <1>6, <1>7 DEF Fewer, Answers
<1>9. ListsInOrder(e, server) /\ \A w \in Workspace : e.version[w] >= d.version[w]
  BY <1>1, <1>4, <1>8, FewerLists
<1>10. Spinning(e)
  <2>1. Turning(e)
    <3> SUFFICES ASSUME e.loading
                 PROVE  \E z \in e.lists : z.workspace = e.workspace /\ e.latest[z.workspace] = z.request
      BY DEF Turning
    <3>1. d.loading /\ (d.workspace # x.workspace \/ d.latest[x.workspace] # x.request)
      BY <1>6 DEF Answers
    <3>2. PICK z \in d.lists : z.workspace = d.workspace /\ d.latest[z.workspace] = z.request
      BY <1>1, <3>1 DEF Spinning, Turning
    <3>3. z # x
      BY <3>1, <3>2
    <3>4. z \in e.lists
      BY <1>2, <1>6, <3>3
    <3>5. z.workspace = e.workspace /\ e.latest[z.workspace] = z.request
      BY <1>5, <1>7, <3>2
    <3> QED
      BY <3>4, <3>5
  <2> QED
    BY <1>1, <1>6, <2>1 DEF Spinning, Fetching, SameClock
<1>11. Homes(e, server)
  <2>1. ASSUME NEW w \in Workspace, e.retained[w] # None
        PROVE  server.home[e.retained[w]] = w
    <3>1. e.retained[w] = d.retained[w]
      BY <1>6, <2>1 DEF Answers
    <3> QED
      BY <1>1, <2>1, <3>1 DEF Sessions, Homes
  <2> QED
    BY <1>1, <1>5, <2>1 DEF Sessions, Homes
<1>12. Alive(e, server)
  BY <1>1, <1>5, <1>6 DEF Sessions, Alive, Exists, Answers
<1>13. Kept(e)
  BY <1>1, <1>5 DEF Sessions, Kept, Managed
<1>14. Creating(e, server)
  <2>1. ASSUME NEW w \in Workspace, e.flight[w].pc = "created"
        PROVE  Created(e, server, w, e.flight[w].session)
    <3>1. Created(d, server, w, e.flight[w].session)
      BY <1>1, <1>5, <2>1 DEF Sessions, Creating
    <3> QED
      BY <1>5, <3>1 DEF Created
  <2> QED
    BY <1>1, <1>5, <2>1 DEF Sessions, Creating
<1>15. Runs(e, server, q)
  BY <1>5 DEF Fine, Runs
<1> QED
  BY <1>4, <1>5, <1>9, <1>10, <1>11, <1>12, <1>13, <1>14, <1>15 DEF Fine, Sessions, Forward

LEMMA ListFailedStep ==
  ASSUME InvNow, NEW x, ListFailed(x)
  PROVE  StepGood /\ b'.current = b.current
<1>1. b \in Directory /\ Fine(b, inventories) /\ x \in b.lists
  BY DEF InvNow, Fine, ListFailed
<1>2. PICK ld \in BOOLEAN :
        ld = IF IsLatest(x) THEN b.loading /\ b.workspace # x.workspace ELSE b.loading
  <2>1. b.loading \in BOOLEAN
    BY <1>1 DEF Directory
  <2>2. (b.loading /\ b.workspace # x.workspace) \in BOOLEAN
    OBVIOUS
  <2> QED
    BY <2>1, <2>2
<1>3. /\ b.version \in [Workspace -> Nat] /\ b.listed \in [Workspace -> SUBSET Session]
      /\ b.retained \in [Workspace -> Session \cup {None}] /\ b.fact \in [Session -> Fact]
  BY <1>1 DEF Directory
<1>4. b' = Answered(b, b.lists \ {x}, ld, b.version, b.listed, b.retained, b.fact)
  BY <1>1, <1>2 DEF ListFailed, Loaded, Answered, Directory
<1>5. ld => b.loading /\ (b.workspace # x.workspace \/ b.latest[x.workspace] # x.request)
  BY <1>2 DEF IsLatest
<1>6. Answers(b, x, ld, b.version, b.retained, b.fact)
  BY <1>5 DEF Answers, Later
<1>7. Fine(b', inventories) /\ Forward(b, b')
  BY <1>1, <1>3, <1>4, <1>6, AnsweredFine
<1> QED
  BY <1>7 DEF StepGood, Forward

LEMMA ListAnsweredStep ==
  ASSUME InvNow, NEW x, ListAnswered(x)
  PROVE  StepGood /\ b'.current = b.current
<1>1. b \in Directory /\ Fine(b, inventories) /\ x \in b.lists /\ x.version > 0
  BY DEF InvNow, Fine, ListAnswered
<1>2. x \in List /\ x.workspace \in Workspace /\ x.version \in Nat /\ x.files \in SUBSET Session
  BY <1>1 DEF Directory, List
<1>3. PICK ld \in BOOLEAN :
        ld = IF IsLatest(x) THEN b.loading /\ b.workspace # x.workspace ELSE b.loading
  <2>1. b.loading \in BOOLEAN
    BY <1>1 DEF Directory
  <2>2. (b.loading /\ b.workspace # x.workspace) \in BOOLEAN
    OBVIOUS
  <2> QED
    BY <2>1, <2>2
<1>4. /\ b.version \in [Workspace -> Nat] /\ b.listed \in [Workspace -> SUBSET Session]
      /\ b.retained \in [Workspace -> Session \cup {None}] /\ b.fact \in [Session -> Fact]
  BY <1>1 DEF Directory
<1>5. ld => b.loading /\ (b.workspace # x.workspace \/ b.latest[x.workspace] # x.request)
  BY <1>3 DEF IsLatest
<1>6. CASE ~IsLatest(x) \/ ~IsCurrent(x)
  <2>1. b' = Answered(b, b.lists \ {x}, ld, b.version, b.listed, b.retained, b.fact)
    BY <1>1, <1>3, <1>6 DEF ListAnswered, Loaded, Answered, Directory
  <2>2. Answers(b, x, ld, b.version, b.retained, b.fact)
    BY <1>5 DEF Answers, Later
  <2>3. Fine(b', inventories) /\ Forward(b, b')
    BY <1>1, <1>4, <2>1, <2>2, AnsweredFine
  <2> QED
    BY <2>3 DEF StepGood, Forward
<1>7. CASE IsLatest(x) /\ IsCurrent(x)
  <2>1. PICK ve : ve = [b.version EXCEPT ![x.workspace] = x.version]
    OBVIOUS
  <2>2. PICK li : li = [b.listed EXCEPT ![x.workspace] = x.files]
    OBVIOUS
  <2>3. PICK re : re = [b.retained EXCEPT ![x.workspace] =
                          IF b.retained[x.workspace] \in x.files THEN None ELSE b.retained[x.workspace]]
    OBVIOUS
  <2>4. PICK fa : fa = [s \in Session |-> IF s = b.current /\ s \in x.files THEN "persisted" ELSE b.fact[s]]
    OBVIOUS
  <2>5. ve \in [Workspace -> Nat] /\ li \in [Workspace -> SUBSET Session]
    BY <1>2, <1>4, <2>1, <2>2
  <2>6. /\ re \in [Workspace -> Session \cup {None}]
        /\ \A w \in Workspace : re[w] \in {None, b.retained[w]}
    BY <1>2, <1>4, <2>3
  <2>7. fa \in [Session -> Fact] /\ \A s \in Session : fa[s] = "unpersisted" => b.fact[s] = "unpersisted"
    BY <1>4, <2>4 DEF Fact
  <2>8. b' = Answered(b, b.lists \ {x}, ld, ve, li, re, fa)
    <3>1. PICK c : c = [b EXCEPT !.lists = @ \ {x}]
      OBVIOUS
    <3>2. b' = Listed(c, x)
      BY <1>7, <3>1 DEF ListAnswered
    <3>3. PICK m : m = Loaded(c, x.workspace)
      OBVIOUS
    <3>4. m = [b EXCEPT !.lists = b.lists \ {x}, !.loading = ld]
      BY <1>1, <1>3, <1>7, <3>1, <3>3 DEF Loaded, Directory
    <3>5. /\ m.version = b.version /\ m.listed = b.listed /\ m.retained = b.retained
          /\ m.fact = b.fact /\ c.current = b.current
      BY <1>1, <3>1, <3>4 DEF Directory
    <3>6. b' = [m EXCEPT !.listed = li, !.version = ve, !.retained = re, !.fact = fa]
      BY <2>1, <2>2, <2>3, <2>4, <3>2, <3>3, <3>5 DEF Listed
    <3> QED
      BY <1>1, <3>4, <3>6 DEF Answered, Directory
  <2>9. b.latest[x.workspace] = x.request
    BY <1>7 DEF IsLatest
  <2>10. Answers(b, x, ld, ve, re, fa)
    BY <1>1, <1>5, <2>1, <2>6, <2>7, <2>9 DEF Answers, Later
  <2>11. Fine(b', inventories) /\ Forward(b, b')
    BY <1>1, <2>5, <2>6, <2>7, <2>8, <2>10, AnsweredFine
  <2> QED
    BY <2>11 DEF StepGood, Forward
<1> QED
  BY <1>6, <1>7
\* What the next inventory, the last of q or not, makes of the running Sessions.
LEMMA InventoryStep ==
  ASSUME InvNow, Inventory
  PROVE  /\ Fine(b', inventories') /\ Forward(b, b')
         /\ inventories' \in Seq(SUBSET Session) /\ server' = server
<1>1. /\ b \in Directory /\ Sessions(b, server) /\ ListsInOrder(b, server) /\ Spinning(b)
      /\ Runs(b, server, inventories) /\ inventories \in Seq(SUBSET Session) /\ inventories # <<>>
      /\ inventories' = Tail(inventories) /\ server' = server
  BY DEF InvNow, Fine, Inventory
<1>2. /\ Head(inventories) \in SUBSET Session /\ Head(inventories) = inventories[1]
      /\ Tail(inventories) \in Seq(SUBSET Session) /\ Len(inventories) \in Nat \ {0}
      /\ Len(Tail(inventories)) = Len(inventories) - 1
      /\ \A i \in 1..(Len(inventories) - 1) : Tail(inventories)[i] = inventories[i + 1]
  BY <1>1
<1>3. PICK ho : ho = [s \in Session |->
        IF s \notin Head(inventories) THEN "absent"
        ELSE IF s \in b.listed[Home(s)] THEN "persisted"
        ELSE IF s = b.current THEN b.fact[s]
        ELSE IF b.hot[s] = "absent" THEN "unknown" ELSE b.hot[s]]
  OBVIOUS
<1>4. b.hot \in [Session -> Fact \cup {"absent"}] /\ b.fact \in [Session -> Fact]
  BY <1>1 DEF Directory
<1>5. /\ ho \in [Session -> Fact \cup {"absent"}]
      /\ \A s \in Session : s \in Head(inventories) => ho[s] # "absent"
      /\ \A s \in Session : ho[s] = "unpersisted" =>
           b.fact[s] = "unpersisted" \/ b.hot[s] = "unpersisted"
  BY <1>3, <1>4 DEF Fact
<1>6. b' = [b EXCEPT !.hot = ho]
  BY <1>3 DEF Inventory
<1>7. b' \in Directory
  BY <1>1, <1>5, <1>6, ZenonT(100) DEF Directory
<1>8. /\ b'.workspace = b.workspace /\ b'.current = b.current /\ b'.creation = b.creation
      /\ b'.retained = b.retained /\ b'.hot = ho /\ b'.fact = b.fact
      /\ b'.runtime = b.runtime /\ b'.channel = b.channel /\ b'.asked = b.asked /\ b'.local = b.local
      /\ b'.content = b.content /\ b'.busy = b.busy /\ b'.waiting = b.waiting
      /\ b'.flight = b.flight /\ b'.initial = b.initial
  BY <1>1, <1>6 DEF Directory
<1>9. SameLists(b, b')
  BY <1>1, <1>6 DEF SameLists, Directory
<1>10. ListsInOrder(b', server) /\ Spinning(b')
  BY <1>1, <1>9, ListsSame
<1>11. Homes(b', server)
  BY <1>1, <1>8 DEF Sessions, Homes
<1>12. Alive(b', server)
  BY <1>1, <1>5, <1>8 DEF Sessions, Alive, Exists
<1>13. Kept(b')
  BY <1>1, <1>8 DEF Sessions, Kept, Managed
<1>14. Creating(b', server)
  <2>1. ASSUME NEW w \in Workspace, b'.flight[w].pc = "created"
        PROVE  Created(b', server, w, b'.flight[w].session)
    <3>1. Created(b, server, w, b'.flight[w].session)
      BY <1>1, <1>8, <2>1 DEF Sessions, Creating
    <3> QED
      BY <1>8, <3>1 DEF Created
  <2> QED
    BY <1>1, <1>8, <2>1 DEF Sessions, Creating
<1>15. Runs(b', server, Tail(inventories))
  <2> SUFFICES ASSUME NEW s \in server.runtimes
               PROVE  IF Tail(inventories) = <<>> THEN b'.hot[s] # "absent"
                      ELSE s \in Tail(inventories)[Len(Tail(inventories))]
    BY DEF Runs
  <2>1. s \in inventories[Len(inventories)]
    BY <1>1 DEF Runs
  <2>2. s \in Session
    BY DEF InvNow, Gateway
  <2>3. CASE Tail(inventories) = <<>>
    <3>1. Len(inventories) = 1
      <4>1. Len(Tail(inventories)) = 0
        BY <2>3, EmptySeq
      <4>2. PICK n \in Nat \ {0} : n = Len(inventories)
        BY <1>2
      <4>3. n - 1 = 0
        BY <1>2, <4>1, <4>2
      <4>4. n = 1
        BY <4>3
      <4> QED
        BY <4>2, <4>4
    <3> QED
      BY <1>2, <1>5, <1>8, <2>1, <2>2, <2>3, <3>1
  <2>4. CASE Tail(inventories) # <<>>
    <3>1. Len(inventories) - 1 \in 1..(Len(inventories) - 1)
      BY <1>1, <1>2, <2>4
    <3>2. Tail(inventories)[Len(inventories) - 1] = inventories[(Len(inventories) - 1) + 1]
      BY <1>2, <3>1
    <3>3. (Len(inventories) - 1) + 1 = Len(inventories)
      BY <1>2
    <3> QED
      BY <1>2, <2>1, <2>4, <3>2, <3>3
  <2> QED
    BY <2>3, <2>4
<1>16. Fine(b', inventories')
  BY <1>1, <1>7, <1>10, <1>11, <1>12, <1>13, <1>14, <1>15 DEF Fine, Sessions
<1>17. Forward(b, b')
  <2>1. \A w \in Workspace : b.version[w] \in Nat
    BY <1>1 DEF Directory
  <2>2. b'.version = b.version
    BY <1>9 DEF SameLists
  <2> QED
    BY <1>8, <2>1, <2>2 DEF Forward
<1> QED
  BY <1>1, <1>2, <1>16, <1>17
-----------------------------------------------------------------------------
(* The list of workspaces and a new connection                             *)

LoadsTo(d, lo, lw, ws) == [d EXCEPT !.loads = lo, !.loadingWorkspaces = lw, !.workspaces = ws]

\* What only the requests for the list of workspaces change.
LoadsLeave(d, e) ==
  SameSessions(d, e) /\ e.version = d.version /\ e.counter = d.counter /\ e.latest = d.latest
  /\ e.lists = d.lists /\ e.loading = d.loading /\ e.wcounter = d.wcounter

LEMMA LoadsFine ==
  ASSUME NEW d, NEW q, Fine(d, q), NEW lo \in SUBSET Load, NEW lw \in BOOLEAN,
         NEW ws \in SUBSET Workspace, lw => \E x \in lo : x.request = d.wcounter,
         NEW e, e = LoadsTo(d, lo, lw, ws)
  PROVE  Fine(e, q) /\ e.version = d.version /\ Alike(d, e) /\ e.workspace = d.workspace
<1>1. d \in Directory /\ Sessions(d, server) /\ ListsInOrder(d, server) /\ Spinning(d)
  BY DEF Fine
<1>2. e \in Directory
  BY <1>1, ZenonT(100) DEF LoadsTo, Directory
<1>3. SameSessions(d, e)
  BY <1>1 DEF LoadsTo, Directory, SameSessions
<1>4. /\ e.version = d.version /\ e.counter = d.counter /\ e.latest = d.latest
      /\ e.lists = d.lists /\ e.loading = d.loading /\ e.wcounter = d.wcounter
      /\ e.loads = lo /\ e.loadingWorkspaces = lw
  BY <1>1 DEF LoadsTo, Directory
<1>5. e.workspace = d.workspace /\ Alike(d, e)
  BY <1>3 DEF SameSessions, Alike
<1>6. ListsInOrder(e, server)
  BY <1>1, <1>4 DEF ListsInOrder
<1>7. Spinning(e)
  BY <1>1, <1>4, <1>5 DEF Spinning, Turning, Fetching
<1>8. Sessions(e, server)
  BY <1>1, <1>3, SessionsSame
<1>9. Runs(e, server, q)
  BY <1>5 DEF Fine, Runs, Alike
<1> QED
  BY <1>2, <1>4, <1>5, <1>6, <1>7, <1>8, <1>9 DEF Fine

LEMMA RefreshedFine ==
  ASSUME NEW d, NEW q, Fine(d, q), server \in Gateway, NEW x \in Load
  PROVE  /\ Fine(Refreshed(d, x), q) /\ Refreshed(d, x).version = d.version
         /\ Alike(d, Refreshed(d, x))
<1>1. d \in Directory /\ x.connection \in Nat
  BY DEF Fine, Load
<1>2. CASE Refreshed(d, x) = d
  BY <1>2 DEF Alike
<1>3. CASE Refreshed(d, x) # d
  <2>1. Refreshed(d, x) = Reload(d, d.workspace, x.connection) /\ d.workspace # None
    BY <1>3 DEF Refreshed
  <2>2. d.workspace \in Workspace
    BY <1>1, <2>1 DEF Directory
  <2> QED
    BY <1>1, <2>1, <2>2, ReloadFine
<1> QED
  BY <1>2, <1>3

LEMMA WorkspacesFailedStep ==
  ASSUME InvNow, NEW x, WorkspacesFailed(x)
  PROVE  StepGood /\ b'.current = b.current
<1>1. /\ b \in Directory /\ Fine(b, inventories) /\ server \in Gateway /\ x \in b.loads
      /\ Spinning(b)
  BY DEF InvNow, Fine, WorkspacesFailed
<1>2. x \in Load /\ b.workspaces \in SUBSET Workspace /\ b.loadingWorkspaces \in BOOLEAN
  BY <1>1 DEF Directory
<1>3. PICK lo \in SUBSET Load : lo = b.loads \ {x}
  BY <1>1 DEF Directory
<1>6. PICK off \in BOOLEAN : off = FALSE /\ (off => \E y \in lo : y.request = b.wcounter)
  OBVIOUS
<1>4. CASE x.request # b.wcounter
  <2>1. b' = LoadsTo(b, lo, b.loadingWorkspaces, b.workspaces)
    BY <1>1, <1>3, <1>4 DEF WorkspacesFailed, LoadsTo, Directory
  <2>2. b.loadingWorkspaces => \E y \in lo : y.request = b.wcounter
    BY <1>1, <1>3, <1>4 DEF Spinning, Fetching
  <2>3. Fine(b', inventories) /\ b'.version = b.version /\ Alike(b, b')
    BY <1>1, <1>2, <2>1, <2>2, LoadsFine
  <2> QED
    BY <2>3, VersionsStay DEF StepGood, Alike
<1>5. CASE x.request = b.wcounter
  <2>1. PICK e : e = LoadsTo(b, lo, off, b.workspaces)
    OBVIOUS
  <2>2. Fine(e, inventories) /\ e.version = b.version /\ Alike(b, e)
    BY <1>1, <1>2, <1>6, <2>1, LoadsFine
  <2>3. b' = Refreshed(e, x)
    <3>1. e = [[b EXCEPT !.loads = @ \ {x}] EXCEPT !.loadingWorkspaces = FALSE]
      BY <1>1, <1>3, <1>6, <2>1 DEF LoadsTo, Directory
    <3> QED
      BY <1>5, <3>1 DEF WorkspacesFailed
  <2>4. Fine(b', inventories) /\ b'.version = e.version /\ Alike(e, b')
    BY <1>1, <1>2, <2>2, <2>3, RefreshedFine
  <2>5. b'.version = b.version /\ b'.current = b.current
    BY <2>2, <2>4 DEF Alike
  <2> QED
    BY <2>4, <2>5, VersionsStay DEF StepGood
<1> QED
  BY <1>4, <1>5

\* A navigation of the gateway's list: the workspace is gone.
LEMMA MovedAwayIs ==
  ASSUME NEW d, NEW q, Fine(d, q), server \in Gateway, NEW w \in Workspace, NEW connection \in Nat,
         NEW e, e = Reload([LeaveSession(d, w) EXCEPT !.loading = TRUE], w, connection)
  PROVE  Fine(e, q) /\ e.version = d.version
<1>1. d \in Directory /\ Sessions(d, server) /\ ListsInOrder(d, server) /\ Fetching(d) /\ Runs(d, server, q)
  BY DEF Fine, Spinning
<1>2. PICK l : l = LeaveSession(d, w)
  OBVIOUS
<1>3. Navigated(d, l, w, None) /\ Sessions(l, server)
  BY <1>1, <1>2, LeaveIs
<1>4. ListsInOrder(l, server) /\ Fetching(l) /\ Runs(l, server, q)
  BY <1>1, <1>3, NavigatedLists
<1>5. l \in Directory /\ l.workspace = w /\ l.version = d.version
  BY <1>3 DEF Navigated
<1>6. PICK c : c = [l EXCEPT !.loading = TRUE]
  OBVIOUS
<1>7. c \in Directory
  BY <1>5, <1>6, ZenonT(100) DEF Directory
<1>8. SameSessions(l, c)
  BY <1>5, <1>6 DEF SameSessions, Directory
<1>9. /\ c.version = l.version /\ c.counter = l.counter /\ c.latest = l.latest
      /\ c.lists = l.lists /\ c.wcounter = l.wcounter
      /\ c.loads = l.loads /\ c.loadingWorkspaces = l.loadingWorkspaces /\ c.workspace = w
  BY <1>5, <1>6 DEF Directory
<1>10. ListsInOrder(c, server) /\ Fetching(c)
  BY <1>4, <1>9 DEF ListsInOrder, Fetching
<1>11. Sessions(c, server)
  BY <1>3, <1>8, SessionsSame
<1>12. e = Reload(c, w, connection)
  BY <1>2, <1>6
<1>13. /\ e \in Directory /\ SameSessions(c, e) /\ e.version = c.version
       /\ ListsInOrder(e, server) /\ Spinning(e)
  BY <1>7, <1>9, <1>10, <1>12, ReloadIs
<1>14. Sessions(e, server)
  BY <1>11, <1>13, SessionsSame
<1>15. Runs(e, server, q)
  BY <1>4, <1>8, <1>13 DEF Runs, SameSessions
<1> QED
  BY <1>5, <1>9, <1>13, <1>14, <1>15 DEF Fine

LEMMA WorkspacesAnsweredStep ==
  ASSUME InvNow, NEW x, WorkspacesAnswered(x)
  PROVE  StepGood /\ (b'.current = b.current \/ b.workspace \notin server.workspaces)
<1>1. /\ b \in Directory /\ Fine(b, inventories) /\ server \in Gateway /\ x \in b.loads
      /\ Spinning(b)
  BY DEF InvNow, Fine, WorkspacesAnswered
<1>2. /\ x \in Load /\ b.workspaces \in SUBSET Workspace /\ b.loadingWorkspaces \in BOOLEAN
      /\ server.workspaces \in SUBSET Workspace
  BY <1>1 DEF Directory, Gateway
<1>3. PICK lo \in SUBSET Load : lo = b.loads \ {x}
  BY <1>1 DEF Directory
<1>6. PICK off \in BOOLEAN : off = FALSE /\ (off => \E y \in lo : y.request = b.wcounter)
  OBVIOUS
<1>4. CASE x.request # b.wcounter
  <2>1. b' = LoadsTo(b, lo, b.loadingWorkspaces, b.workspaces)
    BY <1>1, <1>3, <1>4 DEF WorkspacesAnswered, LoadsTo, Directory
  <2>2. b.loadingWorkspaces => \E y \in lo : y.request = b.wcounter
    BY <1>1, <1>3, <1>4 DEF Spinning, Fetching
  <2>3. Fine(b', inventories) /\ b'.version = b.version /\ Alike(b, b')
    BY <1>1, <1>2, <2>1, <2>2, LoadsFine
  <2> QED
    BY <2>3, VersionsStay DEF StepGood, Alike
<1>5. CASE x.request = b.wcounter
  <2>1. PICK quiet : quiet = LoadsTo(b, lo, off, b.workspaces)
    OBVIOUS
  <2>2. PICK shown : shown = LoadsTo(b, lo, off, server.workspaces)
    OBVIOUS
  <2>3. Fine(quiet, inventories) /\ quiet.version = b.version /\ Alike(b, quiet)
    BY <1>1, <1>2, <1>6, <2>1, LoadsFine
  <2>4. Fine(shown, inventories) /\ shown.version = b.version /\ Alike(b, shown)
    BY <1>1, <1>2, <1>6, <2>2, LoadsFine
  <2>5. quiet = [[b EXCEPT !.loads = @ \ {x}] EXCEPT !.loadingWorkspaces = FALSE]
    BY <1>1, <1>3, <1>6, <2>1 DEF LoadsTo, Directory
  <2>6. shown = [quiet EXCEPT !.workspaces = server.workspaces]
    BY <1>1, <2>1, <2>2 DEF LoadsTo, Directory
  <2>7. \/ b' = quiet
        \/ b' = Refreshed(quiet, x) \/ b' = Refreshed(shown, x)
        \/ /\ b.workspace \notin server.workspaces
           /\ \E w \in server.workspaces :
                b' = Reload([LeaveSession(shown, w) EXCEPT !.loading = TRUE], w, x.connection)
    BY <1>5, <2>5, <2>6 DEF WorkspacesAnswered
  <2>8. CASE b' = quiet
    BY <2>3, <2>8, VersionsStay DEF StepGood, Alike
  <2>9. CASE b' = Refreshed(quiet, x)
    <3>1. Fine(b', inventories) /\ b'.version = quiet.version /\ Alike(quiet, b')
      BY <1>1, <1>2, <2>3, <2>9, RefreshedFine
    <3>2. b'.version = b.version /\ b'.current = b.current
      BY <2>3, <3>1 DEF Alike
    <3> QED
      BY <3>1, <3>2, VersionsStay DEF StepGood
  <2>10. CASE b' = Refreshed(shown, x)
    <3>1. Fine(b', inventories) /\ b'.version = shown.version /\ Alike(shown, b')
      BY <1>1, <1>2, <2>4, <2>10, RefreshedFine
    <3>2. b'.version = b.version /\ b'.current = b.current
      BY <2>4, <3>1 DEF Alike
    <3> QED
      BY <3>1, <3>2, VersionsStay DEF StepGood
  <2>11. CASE /\ b.workspace \notin server.workspaces
              /\ \E w \in server.workspaces :
                   b' = Reload([LeaveSession(shown, w) EXCEPT !.loading = TRUE], w, x.connection)
    <3>1. PICK w \in server.workspaces :
            b' = Reload([LeaveSession(shown, w) EXCEPT !.loading = TRUE], w, x.connection)
      BY <2>11
    <3>2. w \in Workspace /\ x.connection \in Nat
      BY <1>2 DEF Load
    <3>3. Fine(b', inventories) /\ b'.version = shown.version
      BY <1>1, <2>4, <3>1, <3>2, MovedAwayIs
    <3>4. b'.version = b.version
      BY <2>4, <3>3
    <3> QED
      BY <2>11, <3>3, <3>4, VersionsStay DEF StepGood
  <2> QED
    BY <2>7, <2>8, <2>9, <2>10, <2>11
<1> QED
  BY <1>4, <1>5
Reconnected(d, co, wc, la, lo) ==
  [d EXCEPT !.connection = co, !.wcounter = wc, !.latest = la, !.loading = FALSE, !.loads = lo,
            !.loadingWorkspaces = TRUE]

\* A new connection: no answer of the last one is waited for.
LEMMA ReconnectStep ==
  ASSUME InvNow, Reconnect
  PROVE  StepGood /\ b'.current = b.current
<1>1. /\ b \in Directory /\ Sessions(b, server) /\ ListsInOrder(b, server)
      /\ Runs(b, server, inventories)
  BY DEF InvNow, Fine
<1>2. PICK c : c = [b EXCEPT !.connection = @ + 1, !.wcounter = @ + 1,
                      !.latest = [w \in Workspace |-> 0], !.loading = FALSE]
  OBVIOUS
<1>3. b.connection \in Nat /\ b.wcounter \in Nat /\ b.nav \in Nat /\ b.loads \in SUBSET Load
  BY <1>1 DEF Directory
<1>4. c.nav = b.nav /\ c.wcounter = b.wcounter + 1 /\ c.loads = b.loads
  BY <1>1, <1>2 DEF Directory
<1>5. PICK la : la = [w \in Workspace |-> 0]
  OBVIOUS
<1>6. la \in [Workspace -> Nat] /\ \A w \in Workspace : la[w] = 0
  BY <1>5
<1>7. PICK x : x = [nav |-> b.nav, connection |-> b.connection + 1, request |-> b.wcounter + 2]
  OBVIOUS
<1>8. PICK lo : lo = b.loads \cup {x}
  OBVIOUS
<1>9. x \in Load /\ lo \in SUBSET Load /\ x \in lo /\ x.request = b.wcounter + 2
  BY <1>3, <1>7, <1>8 DEF Load
<1>10. PICK co \in Nat : co = b.connection + 1
  BY <1>3
<1>11. PICK wc \in Nat : wc = b.wcounter + 2
  BY <1>3
<1>12. b' = Reconnected(b, co, wc, la, lo)
  <2>1. b' = LoadWorkspaces(c, b.connection + 1)
    BY <1>2 DEF Reconnect
  <2>2. (b.wcounter + 1) + 1 = wc
    BY <1>3, <1>11
  <2>3. LoadWorkspaces(c, b.connection + 1) =
          [c EXCEPT !.loads = lo, !.wcounter = wc, !.loadingWorkspaces = TRUE]
    BY <1>4, <1>7, <1>8, <1>11, <2>2 DEF LoadWorkspaces
  <2> QED
    BY <1>1, <1>2, <1>5, <1>10, <1>11, <2>1, <2>3 DEF Reconnected, Directory
<1>13. b' \in Directory
  <2>1. PICK e : e = [b EXCEPT !.connection = co, !.wcounter = wc, !.latest = la]
    OBVIOUS
  <2>2. e \in Directory
    BY <1>1, <1>6, <2>1, ZenonT(100) DEF Directory
  <2>3. PICK f : f = [e EXCEPT !.loading = FALSE, !.loads = lo, !.loadingWorkspaces = TRUE]
    OBVIOUS
  <2>4. f \in Directory
    BY <1>9, <2>2, <2>3, ZenonT(100) DEF Directory
  <2>5. b' = f
    BY <1>1, <1>12, <2>1, <2>3 DEF Reconnected, Directory
  <2> QED
    BY <2>4, <2>5
<1>14. SameSessions(b, b')
  BY <1>1, <1>12 DEF Reconnected, SameSessions, Directory
<1>15. /\ b'.version = b.version /\ b'.counter = b.counter /\ b'.lists = b.lists
       /\ b'.latest = la /\ b'.loading = FALSE /\ b'.loads = lo /\ b'.wcounter = wc
  BY <1>1, <1>12 DEF Reconnected, Directory
<1>16. ListsInOrder(b', server)
  <2>1. ASSUME NEW y \in b.lists, la[y.workspace] = y.request
        PROVE  FALSE
    <3>1. y.workspace \in Workspace /\ y.request \in 1..b.counter
      BY <1>1 DEF Directory, List, ListsInOrder
    <3> QED
      BY <1>6, <2>1, <3>1
  <2>2. \A w \in Workspace : la[w] <= b.counter
    BY <1>1, <1>6 DEF Directory
  <2> QED
    BY <1>1, <1>15, <2>1, <2>2 DEF ListsInOrder
<1>17. Spinning(b')
  BY <1>9, <1>11, <1>15 DEF Spinning, Turning, Fetching
<1>18. Sessions(b', server)
  BY <1>1, <1>14, SessionsSame
<1>19. Runs(b', server, inventories) /\ b'.current = b.current
  BY <1>1, <1>14 DEF Runs, SameSessions
<1> QED
  BY <1>13, <1>15, <1>16, <1>17, <1>18, <1>19, VersionsStay DEF StepGood, Fine

-----------------------------------------------------------------------------
(* The first Session                                                       *)

InitialTo(d, i) == [d EXCEPT !.initial = i]

\* The wait is over, or has begun: the page of the first Session is nobody's.
LEMMA InitialFine ==
  ASSUME NEW d, NEW q, Fine(d, q), NEW i \in Workspace \cup {None}, NEW e, e = InitialTo(d, i)
  PROVE  /\ Fine(e, q) /\ e.version = d.version /\ e.current = d.current /\ e.nav = d.nav
         /\ e.workspace = d.workspace /\ e.content = d.content
<1>1. d \in Directory /\ Sessions(d, server) /\ ListsInOrder(d, server) /\ Spinning(d)
  BY DEF Fine
<1>2. e \in Directory
  BY <1>1, ZenonT(100) DEF InitialTo, Directory
<1>3. /\ e.workspace = d.workspace /\ e.current = d.current /\ e.nav = d.nav
      /\ e.creation = d.creation /\ e.retained = d.retained /\ e.hot = d.hot /\ e.fact = d.fact
      /\ e.runtime = d.runtime /\ e.channel = d.channel /\ e.asked = d.asked /\ e.local = d.local
      /\ e.content = d.content /\ e.busy = d.busy /\ e.waiting = d.waiting
      /\ e.flight = d.flight /\ e.initial = i /\ e.version = d.version
  BY <1>1 DEF InitialTo, Directory
<1>4. SameLists(d, e)
  BY <1>1 DEF InitialTo, SameLists, Directory
<1>5. ListsInOrder(e, server) /\ Spinning(e)
  BY <1>1, <1>4, ListsSame
<1>6. Homes(e, server)
  BY <1>1, <1>3 DEF Sessions, Homes
<1>7. Alive(e, server)
  BY <1>1, <1>3 DEF Sessions, Alive, Exists
<1>8. Kept(e)
  BY <1>1, <1>3 DEF Sessions, Kept, Managed
<1>9. Creating(e, server)
  <2>1. ASSUME NEW w \in Workspace, e.flight[w].pc = "created"
        PROVE  Created(e, server, w, e.flight[w].session)
    <3>1. Created(d, server, w, e.flight[w].session)
      BY <1>1, <1>3, <2>1 DEF Sessions, Creating
    <3> QED
      BY <1>3, <3>1 DEF Created
  <2>2. i # "begin" \/ d.initial = "begin"
    BY <1>2, <1>3, DirectoryAssumption
  <2> QED
    BY <1>1, <1>3, <2>1, <2>2 DEF Sessions, Creating
<1>10. Runs(e, server, q)
  BY <1>3 DEF Fine, Runs
<1> QED
  BY <1>2, <1>3, <1>5, <1>6, <1>7, <1>8, <1>9, <1>10 DEF Fine, Sessions

LEMMA EnsureInitialStep ==
  ASSUME InvNow, EnsureInitial
  PROVE  StepGood /\ b.content = {}
<1>1. /\ b \in Directory /\ Fine(b, inventories) /\ Sessions(b, server)
      /\ b.initial = "begin" /\ b.workspace # None
  BY DEF InvNow, Fine, EnsureInitial
<1>2. b.content = {}
  BY <1>1 DEF Sessions, Creating
<1>3. b.workspace \in Workspace
  BY <1>1 DEF Directory
<1>4. PICK i \in Workspace \cup {None} : i = b.workspace
  BY <1>3
<1>5. PICK z \in Workspace \cup {None} : z = None
  OBVIOUS
<1>6. \/ \E d \in Resumed(b, b.workspace) : b' = InitialTo(d, z)
      \/ b' = InitialTo(b, i)
  BY <1>4, <1>5 DEF EnsureInitial, InitialTo
<1>7. CASE \E d \in Resumed(b, b.workspace) : b' = InitialTo(d, z)
  <2>1. PICK d \in Resumed(b, b.workspace) : b' = InitialTo(d, z)
    BY <1>7
  <2>2. Fine(d, inventories) /\ Still(b, d)
    BY <1>1, ResumedFine
  <2>3. Fine(b', inventories) /\ b'.version = d.version
    BY <2>1, <2>2, InitialFine
  <2>4. b'.version = b.version
    BY <2>2, <2>3 DEF Still
  <2> QED
    BY <1>2, <2>3, <2>4, VersionsStay DEF StepGood
<1>8. CASE b' = InitialTo(b, i)
  <2>1. Fine(b', inventories) /\ b'.version = b.version
    BY <1>1, <1>8, InitialFine
  <2> QED
    BY <1>2, <2>1, VersionsStay DEF StepGood
<1> QED
  BY <1>6, <1>7, <1>8

LEMMA InitialDecidedStep ==
  ASSUME InvNow, InitialDecided
  PROVE  StepGood /\ (b'.current = b.current \/ b.current = None)
<1>1. b \in Directory /\ Fine(b, inventories)
  BY DEF InvNow, Fine
<1>2. PICK z \in Workspace \cup {None} : z = None
  OBVIOUS
<1>3. PICK c : c = InitialTo(b, z)
  OBVIOUS
<1>4. /\ Fine(c, inventories) /\ c.version = b.version /\ c.current = b.current
      /\ c.workspace = b.workspace
  BY <1>1, <1>3, InitialFine
<1>5. c = [b EXCEPT !.initial = None]
  BY <1>2, <1>3 DEF InitialTo
<1>6. \/ b' = c
      \/ b.workspace = b.initial /\ b.current = None /\ b' \in NewSession(c, c.workspace)
  BY <1>4, <1>5 DEF InitialDecided
<1>7. CASE b' = c
  BY <1>4, <1>7, VersionsStay DEF StepGood
<1>8. CASE b.current = None /\ b' \in NewSession(c, c.workspace)
  <2>1. Fine(b', inventories) /\ Still(c, b')
    BY <1>4, <1>8, NewSessionFine
  <2>2. b'.version = b.version
    BY <1>4, <2>1 DEF Still
  <2> QED
    BY <1>8, <2>1, <2>2, VersionsStay DEF StepGood
<1> QED
  BY <1>6, <1>7, <1>8
-----------------------------------------------------------------------------
(* What the user does                                                      *)

\* A navigation that reads the list of where it leads.
LEMMA ArrivedFine ==
  ASSUME NEW d, NEW q, Fine(d, q), server \in Gateway, NEW w \in Workspace, NEW s, NEW l,
         Navigated(d, l, w, s), Sessions(l, server), NEW e, e = Reload(l, w, 0)
  PROVE  Fine(e, q) /\ e.version = d.version
<1>1. ListsInOrder(d, server) /\ Fetching(d) /\ Runs(d, server, q)
  BY DEF Fine, Spinning
<1>2. ListsInOrder(l, server) /\ Fetching(l) /\ Runs(l, server, q)
  BY <1>1, NavigatedLists
<1>3. l \in Directory /\ l.workspace = w /\ l.version = d.version
  BY DEF Navigated
<1>4. /\ e \in Directory /\ SameSessions(l, e) /\ e.version = l.version
      /\ ListsInOrder(e, server) /\ Spinning(e)
  <2>1. PICK n \in Nat : n = 0
    OBVIOUS
  <2>2. e = Reload(l, w, n)
    BY <2>1
  <2> QED
    BY <1>2, <1>3, <2>2, ReloadIs
<1>5. Sessions(e, server)
  BY <1>4, SessionsSame
<1>6. Runs(e, server, q)
  BY <1>2, <1>4 DEF Runs, SameSessions
<1> QED
  BY <1>3, <1>4, <1>5, <1>6 DEF Fine

LEMMA OpenStep ==
  ASSUME InvNow, NEW s \in Session, Open(s)
  PROVE  StepGood
<1>1. /\ b \in Directory /\ Fine(b, inventories) /\ server \in Gateway /\ Rest(b, server)
      /\ KeptBut(b, s) /\ s \in Visible
  BY DEF InvNow, Fine, Sessions, Rest, Kept, KeptBut, Open
<1>2. PICK w \in Workspace : w = server.home[s]
  BY <1>1 DEF Visible, Home, Gateway
<1>3. PICK f \in Fact : f = HotFact(b, s)
  <2>1. b.hot[s] \in Fact \cup {"absent"}
    BY <1>1 DEF Directory
  <2>2. s \in b.listed[Home(s)] \/ b.hot[s] # "absent"
    BY <1>1 DEF Visible
  <2>3. HotFact(b, s) \in Fact
    BY <2>1, <2>2 DEF HotFact, Fact
  <2> QED
    BY <2>3
<1>4. f = "unpersisted" => Exists(b, server, s)
  BY <1>1, <1>3 DEF HotFact, Rest, Alive
<1>5. PICK l : l = SelectSession(b, s, f)
  OBVIOUS
<1>6. Navigated(b, l, w, s) /\ Sessions(l, server)
  BY <1>1, <1>2, <1>4, <1>5, SelectIs
<1>7. b' = Reload(l, w, 0)
  BY <1>2, <1>3, <1>5 DEF Open, Home
<1>8. Fine(b', inventories) /\ b'.version = b.version
  BY <1>1, <1>6, <1>7, ArrivedFine
<1> QED
  BY <1>8, VersionsStay DEF StepGood

LEMMA SelectWorkspaceStep ==
  ASSUME InvNow, NEW w \in Workspace, SelectWorkspace(w)
  PROVE  StepGood
<1>1. /\ b \in Directory /\ Fine(b, inventories) /\ server \in Gateway /\ Sessions(b, server)
  BY DEF InvNow, Fine
<1>2. PICK l : l = LeaveSession(b, w)
  OBVIOUS
<1>3. Navigated(b, l, w, None) /\ Sessions(l, server)
  BY <1>1, <1>2, LeaveIs
<1>4. b' = Reload(l, w, 0)
  BY <1>2 DEF SelectWorkspace
<1>5. Fine(b', inventories) /\ b'.version = b.version
  BY <1>1, <1>3, <1>4, ArrivedFine
<1> QED
  BY <1>5, VersionsStay DEF StepGood

LEMMA UnfoldStep ==
  ASSUME InvNow, NEW w \in Workspace, Unfold(w)
  PROVE  StepGood
<1>1. Fine(b, inventories) /\ server \in Gateway
  BY DEF InvNow
<1>2. PICK n \in Nat : n = 0
  OBVIOUS
<1>3. b' = Reload(b, w, n)
  BY <1>2 DEF Unfold
<1>4. Fine(b', inventories) /\ b'.version = b.version
  BY <1>1, <1>3, ReloadFine
<1> QED
  BY <1>4, VersionsStay DEF StepGood

LEMMA ClickNewStep ==
  ASSUME InvNow, ClickNew
  PROVE  StepGood
<1>1. Fine(b, inventories) /\ b' \in NewSession(b, b.workspace)
  BY DEF InvNow, ClickNew
<1>2. Fine(b', inventories) /\ Still(b, b')
  BY <1>1, NewSessionFine
<1> QED
  BY <1>2, VersionsStay DEF StepGood, Still

ContentTo(d, co) == [d EXCEPT !.content = co]

\* What is typed, and what is erased in the Session that is shown.
LEMMA ContentFine ==
  ASSUME NEW d, NEW q, Fine(d, q), d.initial # "begin", NEW co \in SUBSET Session,
         \A x \in d.content : x \in co \/ x = d.current,
         NEW e, e = ContentTo(d, co)
  PROVE  Fine(e, q) /\ e.version = d.version
<1>1. d \in Directory /\ Sessions(d, server) /\ ListsInOrder(d, server) /\ Spinning(d)
  BY DEF Fine
<1>2. e \in Directory
  BY <1>1, ZenonT(100) DEF ContentTo, Directory
<1>3. /\ e.workspace = d.workspace /\ e.current = d.current /\ e.nav = d.nav
      /\ e.creation = d.creation /\ e.retained = d.retained /\ e.hot = d.hot /\ e.fact = d.fact
      /\ e.runtime = d.runtime /\ e.channel = d.channel /\ e.asked = d.asked /\ e.local = d.local
      /\ e.content = co /\ e.busy = d.busy /\ e.waiting = d.waiting
      /\ e.flight = d.flight /\ e.initial = d.initial /\ e.version = d.version
  BY <1>1 DEF ContentTo, Directory
<1>4. SameLists(d, e)
  BY <1>1 DEF ContentTo, SameLists, Directory
<1>5. ListsInOrder(e, server) /\ Spinning(e)
  BY <1>1, <1>4, ListsSame
<1>6. Homes(e, server)
  BY <1>1, <1>3 DEF Sessions, Homes
<1>7. Alive(e, server)
  BY <1>1, <1>3 DEF Sessions, Alive, Exists
<1>8. Kept(e)
  <2> SUFFICES ASSUME NEW x \in e.local \ (e.content \cup {e.current}), Managed(e, x)
               PROVE  e.asked[x] # "none"
    BY DEF Kept
  <2>1. x \in d.local \ (d.content \cup {d.current}) /\ Managed(d, x)
    BY <1>3 DEF Managed
  <2> QED
    BY <1>1, <1>3, <2>1 DEF Sessions, Kept
<1>9. Creating(e, server)
  <2>1. ASSUME NEW w \in Workspace, e.flight[w].pc = "created"
        PROVE  Created(e, server, w, e.flight[w].session)
    <3>1. Created(d, server, w, e.flight[w].session)
      BY <1>1, <1>3, <2>1 DEF Sessions, Creating
    <3> QED
      BY <1>3, <3>1 DEF Created
  <2> QED
    BY <1>1, <1>3, <2>1 DEF Sessions, Creating
<1>10. Runs(e, server, q)
  BY <1>3 DEF Fine, Runs
<1> QED
  BY <1>2, <1>3, <1>5, <1>6, <1>7, <1>8, <1>9, <1>10 DEF Fine, Sessions

LEMMA TypeStep ==
  ASSUME InvNow, b.initial # "begin", Type \/ Erase
  PROVE  StepGood
<1>1. b \in Directory /\ Fine(b, inventories)
  BY DEF InvNow, Fine
<1>2. b.content \in SUBSET Session /\ b.current \in Session \cup {None}
  BY <1>1 DEF Directory
<1>3. CASE Type
  <2>1. PICK co \in SUBSET Session : co = b.content \cup {b.current}
    BY <1>2, <1>3 DEF Type
  <2>2. b' = ContentTo(b, co)
    BY <1>3, <2>1 DEF Type, ContentTo
  <2>3. \A x \in b.content : x \in co \/ x = b.current
    BY <2>1
  <2>4. Fine(b', inventories) /\ b'.version = b.version
    BY <1>1, <2>2, <2>3, ContentFine
  <2> QED
    BY <2>4, VersionsStay DEF StepGood
<1>4. CASE Erase
  <2>1. PICK co \in SUBSET Session : co = b.content \ {b.current}
    BY <1>2
  <2>2. b' = ContentTo(b, co)
    BY <1>4, <2>1 DEF Erase, ContentTo
  <2>3. \A x \in b.content : x \in co \/ x = b.current
    BY <2>1
  <2>4. Fine(b', inventories) /\ b'.version = b.version
    BY <1>1, <2>2, <2>3, ContentFine
  <2> QED
    BY <2>4, VersionsStay DEF StepGood
<1> QED
  BY <1>3, <1>4
-----------------------------------------------------------------------------
(* The end of a creation                                                   *)

\* Whoever asked again meanwhile is served, or nobody moves.
Followed(d, e, w) ==
  \/ d.current = None \/ e.current = d.current
  \/ d.workspace = w /\ d.flight[w].chained = d.nav

LEMMA CreateFailedStep ==
  ASSUME InvNow, NEW w \in Workspace, CreateFailed(w)
  PROVE  StepGood /\ Followed(b, b', w)
<1>1. b \in Directory /\ Fine(b, inventories) /\ Sessions(b, server)
  BY DEF InvNow, Fine
<1>2. PICK f : f = b.flight[w]
  OBVIOUS
<1>3. PICK n \in Nat : n = IF b.nav = f.token /\ b.creation = f.token THEN 0 ELSE b.creation
  <2>1. b.creation \in Nat
    BY <1>1 DEF Directory
  <2> QED
    BY <2>1
<1>4. n # 0 => b.current = None
  BY <1>1, <1>3 DEF Sessions, Creating
<1>5. PICK d : d = Flown(b, w, NoFlight, n)
  OBVIOUS
<1>6. Fine(d, inventories) /\ Still(b, d) /\ d.workspace = b.workspace /\ d.nav = b.nav
  BY <1>1, <1>4, <1>5, EndedFine
<1>7. d = [Ended(b, w) EXCEPT !.creation = n]
  BY <1>1, <1>5 DEF Ended, Flown, Directory
<1>8. b' \in Settle(d, w, f)
  BY <1>2, <1>3, <1>7 DEF CreateFailed
<1>9. /\ Fine(b', inventories) /\ Still(d, b')
      /\ (b' = d \/ (d.workspace = w /\ f.chained = d.nav))
  BY <1>6, <1>8, SettleFine
<1>10. d.current = b.current
  BY <1>1, <1>5 DEF Flown, Directory
<1>11. Followed(b, b', w)
  BY <1>2, <1>6, <1>9, <1>10 DEF Followed
<1>12. b'.version = b.version
  BY <1>6, <1>9 DEF Still
<1> QED
  BY <1>9, <1>11, <1>12, VersionsStay DEF StepGood

LEMMA CreateAnsweredStep ==
  ASSUME InvNow, NEW w \in Workspace, CreateAnswered(w)
  PROVE  StepGood /\ Followed(b, b', w)
<1>1. /\ b \in Directory /\ Fine(b, inventories) /\ Sessions(b, server) /\ server \in Gateway
      /\ b.flight[w].pc = "created"
  BY DEF InvNow, Fine, CreateAnswered
<1>2. PICK f : f = b.flight[w]
  OBVIOUS
<1>3. f \in Flight /\ f.token \in Nat /\ f.token # 0 /\ Created(b, server, w, f.session)
  <2>1. f \in Flight
    BY <1>1, <1>2 DEF Directory
  <2>2. f.token # 0 /\ Created(b, server, w, f.session)
    BY <1>1, <1>2 DEF Sessions, Creating
  <2> QED
    BY <2>1, <2>2 DEF Flight
<1>4. PICK n \in Nat : n = b.creation
  BY <1>1 DEF Directory
<1>5. n # 0 => b.current = None
  BY <1>1, <1>4 DEF Sessions, Creating
<1>6. PICK d : d = Flown(b, w, NoFlight, n)
  OBVIOUS
<1>7. Fine(d, inventories) /\ Still(b, d) /\ d.workspace = b.workspace /\ d.nav = b.nav
  BY <1>1, <1>5, <1>6, EndedFine
<1>8. d = Ended(b, w)
  BY <1>1, <1>4, <1>6 DEF Ended, Flown, Directory
<1>9. d.current = b.current /\ d.local = b.local /\ d.asked = b.asked
  BY <1>1, <1>6 DEF Flown, Directory
<1>10. \A x \in Workspace : d.flight[x] = IF x = w THEN NoFlight ELSE b.flight[x]
  <2>1. b.flight \in [Workspace -> Flight]
    BY <1>1 DEF Directory
  <2>2. PICK fl : fl = [b.flight EXCEPT ![w] = NoFlight]
    OBVIOUS
  <2>3. d.flight = fl
    BY <1>1, <1>6, <2>2 DEF Flown, Directory
  <2> QED
    BY <2>1, <2>2, <2>3
<1>11. PICK s \in Session : s = f.session
  BY <1>3 DEF Created
<1>12. Fresh(d, w, s)
  <2>1. Created(d, server, w, s)
    BY <1>3, <1>9, <1>11 DEF Created
  <2>2. ASSUME NEW x \in Workspace, d.flight[x].session = s, d.flight[x].pc = "created"
        PROVE  FALSE
    <3>1. CASE x = w
      BY <1>10, <2>2, <3>1 DEF NoFlight
    <3>2. CASE x # w
      <4>1. Created(b, server, x, s)
        BY <1>1, <1>10, <2>2, <3>2 DEF Sessions, Creating
      <4> QED
        BY <1>3, <1>11, <3>2, <4>1 DEF Created
    <3> QED
      BY <3>1, <3>2
  <2> QED
    BY <2>1, <2>2 DEF Fresh
<1>13. PICK c : c = CompleteCreation(d, w, f.token, s)
  OBVIOUS
<1>14. /\ Fine(c, inventories) /\ c.version = d.version /\ c.workspace = d.workspace
       /\ (d.current = None \/ (c.current = d.current /\ c.nav = d.nav))
  <2>1. PICK t \in Nat : t = f.token
    BY <1>3
  <2>2. t # 0 /\ c = CompleteCreation(d, w, t, s)
    BY <1>3, <1>13, <2>1
  <2> QED
    BY <1>7, <1>12, <2>2, CompleteFine
<1>15. PICK r : r = Reload(c, w, 0)
  OBVIOUS
<1>16. Fine(r, inventories) /\ r.version = c.version /\ Alike(c, r)
  <2>1. PICK z \in Nat : z = 0
    OBVIOUS
  <2>2. r = Reload(c, w, z)
    BY <1>15, <2>1
  <2> QED
    BY <1>1, <1>14, <2>2, ReloadFine
<1>17. r.nav = c.nav /\ r.workspace = c.workspace
  <2>1. c \in Directory
    BY <1>14 DEF Fine
  <2> QED
    BY <1>15, <2>1 DEF Reload, Directory
<1>18. b' \in Settle(r, w, f)
  BY <1>2, <1>8, <1>11, <1>13, <1>15 DEF CreateAnswered
<1>19. /\ Fine(b', inventories) /\ Still(r, b')
       /\ (b' = r \/ (r.workspace = w /\ f.chained = r.nav))
  BY <1>16, <1>18, SettleFine
<1>20. Followed(b, b', w)
  BY <1>2, <1>7, <1>9, <1>14, <1>16, <1>17, <1>19 DEF Followed, Alike
<1>21. b'.version = b.version
  BY <1>7, <1>14, <1>16, <1>19 DEF Still
<1> QED
  BY <1>19, <1>20, <1>21, VersionsStay DEF StepGood
-----------------------------------------------------------------------------
(* What happens at the gateway                                             *)

Holds(d, g, q) ==
  /\ d \in Directory /\ g \in Gateway /\ q \in Seq(SUBSET Session)
  /\ ListsInOrder(d, g) /\ Spinning(d) /\ Sessions(d, g) /\ Runs(d, g, q)

GatewayTo(g, fi, ru, ve, ws, ho) ==
  [g EXCEPT !.files = fi, !.runtimes = ru, !.version = ve, !.workspaces = ws, !.home = ho]

LEMMA GatewayIs ==
  ASSUME NEW g \in Gateway, NEW fi \in SUBSET Session, NEW ru \in SUBSET Session, NEW ve \in Nat,
         NEW ws \in SUBSET Workspace, NEW ho \in [Session -> Workspace \cup {None}],
         NEW h, h = GatewayTo(g, fi, ru, ve, ws, ho)
  PROVE  /\ h \in Gateway /\ h.files = fi /\ h.runtimes = ru /\ h.version = ve /\ h.home = ho
BY DEF GatewayTo, Gateway

LEMMA OtherRemovesStep ==
  ASSUME Holds(b, server, inventories), NEW w \in Workspace, OtherRemoves(w)
  PROVE  Holds(b', server', inventories') /\ b' = b
<1>1. server \in Gateway /\ b' = b /\ inventories' = inventories
  BY DEF Holds, OtherRemoves
<1>2. /\ server.files \in SUBSET Session /\ server.runtimes \in SUBSET Session
      /\ server.version \in Nat /\ server.home \in [Session -> Workspace \cup {None}]
  BY <1>1 DEF Gateway
<1>3. PICK ws \in SUBSET Workspace : ws = server.workspaces \ {w}
  BY <1>1 DEF Gateway
<1>4. server' = GatewayTo(server, server.files, server.runtimes, server.version, ws, server.home)
  BY <1>1, <1>3 DEF OtherRemoves, GatewayTo, Gateway
<1>5. /\ server' \in Gateway /\ server'.files = server.files /\ server'.runtimes = server.runtimes
      /\ server'.version = server.version /\ server'.home = server.home
  BY <1>1, <1>2, <1>4, GatewayIs
<1>6. Sessions(b, server')
  <2>1. Homes(b, server') /\ Alive(b, server')
    BY <1>5 DEF Holds, Sessions, Homes, Alive, Exists
  <2>2. Creating(b, server')
    <3>1. ASSUME NEW x \in Workspace, b.flight[x].pc = "created"
          PROVE  Created(b, server', x, b.flight[x].session)
      <4>1. Created(b, server, x, b.flight[x].session)
        BY <3>1 DEF Holds, Sessions, Creating
      <4> QED
        BY <1>5, <4>1 DEF Created
    <3> QED
      BY <3>1 DEF Holds, Sessions, Creating
  <2> QED
    BY <2>1, <2>2 DEF Holds, Sessions
<1>7. ListsInOrder(b, server') /\ Runs(b, server', inventories)
  BY <1>5 DEF Holds, ListsInOrder, Runs
<1> QED
  BY <1>1, <1>5, <1>6, <1>7 DEF Holds

BusyTo(d, bu) == [d EXCEPT !.busy = bu]

\* The file of a Session that runs: what was shown of it is not older than the list.
LEMMA SubmitStep ==
  ASSUME Holds(b, server, inventories), Submit
  PROVE  Holds(b', server', inventories') /\ b'.version = b.version
<1>1. /\ b \in Directory /\ server \in Gateway /\ inventories' = inventories
      /\ b.current \in server.runtimes
  BY DEF Holds, Submit
<1>2. /\ server.runtimes \in SUBSET Session /\ server.workspaces \in SUBSET Workspace
      /\ server.version \in Nat /\ server.home \in [Session -> Workspace \cup {None}]
  BY <1>1 DEF Gateway
<1>3. PICK s \in Session : s = b.current
  BY <1>1, <1>2
<1>4. PICK bu \in SUBSET Session : bu = b.busy \cup {s}
  BY <1>1 DEF Directory
<1>5. PICK fi \in SUBSET Session : fi = server.files \cup {s}
  BY <1>1 DEF Gateway
<1>6. PICK ve \in Nat : ve = server.version + 1
  BY <1>2
<1>7. server' = GatewayTo(server, fi, server.runtimes, ve, server.workspaces, server.home)
  BY <1>1, <1>3, <1>5, <1>6 DEF Submit, GatewayTo, Gateway
<1>8. /\ server' \in Gateway /\ server'.files = fi /\ server'.runtimes = server.runtimes
      /\ server'.version = ve /\ server'.home = server.home
  BY <1>1, <1>2, <1>7, GatewayIs
<1>9. b' = BusyTo(b, bu)
  BY <1>3, <1>4 DEF Submit, BusyTo
<1>10. b' \in Directory
  BY <1>1, <1>9, ZenonT(100) DEF BusyTo, Directory
<1>11. /\ b'.workspace = b.workspace /\ b'.current = b.current /\ b'.nav = b.nav
       /\ b'.creation = b.creation /\ b'.retained = b.retained /\ b'.hot = b.hot /\ b'.fact = b.fact
       /\ b'.runtime = b.runtime /\ b'.channel = b.channel /\ b'.asked = b.asked
       /\ b'.local = b.local /\ b'.content = b.content /\ b'.busy = bu /\ b'.waiting = b.waiting
       /\ b'.flight = b.flight /\ b'.initial = b.initial /\ b'.version = b.version
  BY <1>1, <1>9 DEF BusyTo, Directory
<1>12. SameLists(b, b')
  BY <1>1, <1>9 DEF BusyTo, SameLists, Directory
<1>13. ListsInOrder(b, server')
  <2>1. \A x \in b.lists : x.version \in Nat /\ x.version <= server.version
    BY <1>1 DEF Holds, ListsInOrder, Directory, List
  <2>2. \A x \in Workspace : b.version[x] \in Nat /\ b.version[x] <= server.version
    BY <1>1 DEF Holds, ListsInOrder, Directory
  <2>3. /\ \A x \in b.lists : x.version <= ve
        /\ \A x \in Workspace : b.version[x] <= ve
    BY <1>2, <1>6, <2>1, <2>2
  <2> QED
    BY <1>8, <2>3 DEF Holds, ListsInOrder
<1>14. ListsInOrder(b', server') /\ Spinning(b')
  BY <1>12, <1>13, ListsSame DEF Holds
<1>15. Homes(b', server')
  <2>1. server.home[s] # None
    BY <1>1, <1>3 DEF Holds, Sessions, Homes
  <2> QED
    BY <1>5, <1>8, <1>11, <2>1 DEF Holds, Sessions, Homes
<1>16. Alive(b', server')
  BY <1>5, <1>8, <1>11 DEF Holds, Sessions, Alive, Exists
<1>17. Kept(b')
  <2> SUFFICES ASSUME NEW x \in b'.local \ (b'.content \cup {b'.current}), Managed(b', x)
               PROVE  b'.asked[x] # "none"
    BY DEF Kept
  <2>1. x \in b.local \ (b.content \cup {b.current}) /\ Managed(b, x)
    BY <1>4, <1>11 DEF Managed
  <2> QED
    BY <1>11, <2>1 DEF Holds, Sessions, Kept
<1>18. Creating(b', server')
  <2>1. ASSUME NEW x \in Workspace, b'.flight[x].pc = "created"
        PROVE  Created(b', server', x, b'.flight[x].session)
    <3>1. Created(b, server, x, b'.flight[x].session)
      BY <1>11, <2>1 DEF Holds, Sessions, Creating
    <3> QED
      BY <1>8, <1>11, <3>1 DEF Created
  <2> QED
    BY <1>11, <2>1 DEF Holds, Sessions, Creating
<1>19. Runs(b', server', inventories)
  BY <1>8, <1>11 DEF Holds, Runs
<1> QED
  BY <1>1, <1>8, <1>10, <1>11, <1>14, <1>15, <1>16, <1>17, <1>18, <1>19 DEF Holds, Sessions
\* What an inventory on its way says last.
LEMMA AnnouncedRuns ==
  ASSUME NEW d, NEW g, g.runtimes \in SUBSET Session, inventories \in Seq(SUBSET Session)
  PROVE  /\ Announced(g.runtimes) \in Seq(SUBSET Session)
         /\ Runs(d, g, Announced(g.runtimes))
<1>0. PICK r \in SUBSET Session : r = g.runtimes
  OBVIOUS
<1>1. PICK q : q = Append(inventories, r)
  OBVIOUS
<1>2. /\ q \in Seq(SUBSET Session) /\ Len(q) = Len(inventories) + 1
      /\ q[Len(inventories) + 1] = r /\ q # <<>>
  BY <1>1, AppendProperties
<1>3. q # <<>> /\ q = Append(inventories, g.runtimes) /\ q \in Seq(SUBSET Session)
  BY <1>0, <1>1, <1>2
<1>4. q[Len(q)] = g.runtimes
  BY <1>0, <1>2
<1> QED
  BY <1>3, <1>4 DEF Announced, Runs

AskedTo(d, as) == [d EXCEPT !.asked = as]

\* The gateway stops what this browser has asked it to stop, or refuses.
LEMMA AbandonStep ==
  ASSUME Holds(b, server, inventories), NEW s \in Session, Abandon(s)
  PROVE  /\ Holds(b', server', inventories') /\ b'.version = b.version /\ b'.current = b.current
<1>1. /\ b \in Directory /\ server \in Gateway /\ inventories \in Seq(SUBSET Session)
      /\ b.asked[s] = "sent"
  BY DEF Holds, Abandon
<1>2. /\ server.files \in SUBSET Session /\ server.workspaces \in SUBSET Workspace
      /\ server.version \in Nat /\ server.home \in [Session -> Workspace \cup {None}]
      /\ server.runtimes \in SUBSET Session /\ b.asked \in [Session -> Answer]
  BY <1>1 DEF Gateway, Directory
<1>3. PICK a \in Answer : a = IF s \in server.runtimes \ server.files THEN "done" ELSE "refused"
  BY DEF Answer
<1>4. PICK as : as = [b.asked EXCEPT ![s] = a]
  OBVIOUS
<1>5. as \in [Session -> Answer] /\ \A x \in Session : as[x] = IF x = s THEN a ELSE b.asked[x]
  BY <1>2, <1>3, <1>4
<1>6. PICK ru \in SUBSET Session :
        ru = IF s \in server.runtimes \ server.files THEN server.runtimes \ {s} ELSE server.runtimes
  BY <1>2
<1>7. server' = GatewayTo(server, server.files, ru, server.version, server.workspaces, server.home)
  BY <1>1, <1>6 DEF Abandon, GatewayTo, Gateway
<1>8. /\ server' \in Gateway /\ server'.files = server.files /\ server'.runtimes = ru
      /\ server'.version = server.version /\ server'.home = server.home
  BY <1>1, <1>2, <1>7, GatewayIs
<1>9. b' = AskedTo(b, as)
  BY <1>3, <1>4 DEF Abandon, AskedTo
<1>10. b' \in Directory
  BY <1>1, <1>5, <1>9, ZenonT(100) DEF AskedTo, Directory
<1>11. /\ b'.workspace = b.workspace /\ b'.current = b.current /\ b'.nav = b.nav
       /\ b'.creation = b.creation /\ b'.retained = b.retained /\ b'.hot = b.hot /\ b'.fact = b.fact
       /\ b'.runtime = b.runtime /\ b'.channel = b.channel /\ b'.asked = as
       /\ b'.local = b.local /\ b'.content = b.content /\ b'.busy = b.busy /\ b'.waiting = b.waiting
       /\ b'.flight = b.flight /\ b'.initial = b.initial /\ b'.version = b.version
  BY <1>1, <1>9 DEF AskedTo, Directory
<1>12. SameLists(b, b')
  BY <1>1, <1>9 DEF AskedTo, SameLists, Directory
<1>13. ListsInOrder(b, server')
  BY <1>8 DEF Holds, ListsInOrder
<1>14. ListsInOrder(b', server') /\ Spinning(b')
  BY <1>12, <1>13, ListsSame DEF Holds
<1>15. Homes(b', server')
  <2>1. server.home[s] # None /\ ru \subseteq server.runtimes
    BY <1>1, <1>6 DEF Holds, Sessions, Homes
  <2>2. ASSUME NEW x \in Session, server.home[x] = None
        PROVE  /\ x \notin ru \cup server.files
               /\ b.channel[x] = "none" /\ as[x] = "none" /\ x \notin b.waiting \cup b.local
    <3>1. x # s
      BY <2>1, <2>2
    <3> QED
      BY <1>5, <2>1, <2>2, <3>1 DEF Holds, Sessions, Homes
  <2>3. \A x \in Workspace : b.retained[x] # None => server.home[b.retained[x]] = x
    BY DEF Holds, Sessions, Homes
  <2> QED
    BY <1>8, <1>11, <2>2, <2>3 DEF Homes
<1>16. Alive(b', server')
  <2> SUFFICES ASSUME NEW x \in Session
               PROVE  /\ b'.fact[x] = "unpersisted" \/ b'.hot[x] = "unpersisted"
                           => Exists(b', server', x)
                      /\ b'.asked[x] = "done" => x \notin server'.runtimes
    BY DEF Alive
  <2>1. /\ b.fact[x] = "unpersisted" \/ b.hot[x] = "unpersisted" => Exists(b, server, x)
        /\ b.asked[x] = "done" => x \notin server.runtimes
    BY DEF Holds, Sessions, Alive
  <2>2. CASE x = s
    <3>1. CASE s \in server.runtimes \ server.files
      BY <1>3, <1>5, <1>6, <1>8, <1>11, <2>2, <3>1 DEF Exists
    <3>2. CASE s \notin server.runtimes \ server.files
      BY <1>1, <1>3, <1>5, <1>6, <1>8, <1>11, <2>1, <2>2, <3>2 DEF Exists
    <3> QED
      BY <3>1, <3>2
  <2>3. CASE x # s
    BY <1>5, <1>6, <1>8, <1>11, <2>1, <2>3 DEF Exists
  <2> QED
    BY <2>2, <2>3
<1>17. Kept(b')
  <2> SUFFICES ASSUME NEW x \in b'.local \ (b'.content \cup {b'.current}), Managed(b', x)
               PROVE  b'.asked[x] # "none"
    BY DEF Kept
  <2>1. x \in b.local \ (b.content \cup {b.current}) /\ Managed(b, x) /\ x \in Session
    BY <1>1, <1>11 DEF Managed, Directory
  <2>2. b.asked[x] # "none"
    BY <2>1 DEF Holds, Sessions, Kept
  <2> QED
    BY <1>3, <1>5, <1>11, <2>1, <2>2
<1>18. Creating(b', server')
  <2>1. ASSUME NEW x \in Workspace, b'.flight[x].pc = "created"
        PROVE  Created(b', server', x, b'.flight[x].session)
    <3>1. Created(b, server, x, b'.flight[x].session)
      BY <1>11, <2>1 DEF Holds, Sessions, Creating
    <3>2. b'.flight[x].session # s
      BY <1>1, <3>1 DEF Created
    <3> QED
      BY <1>5, <1>6, <1>8, <1>11, <3>1, <3>2 DEF Created
  <2> QED
    BY <1>11, <2>1 DEF Holds, Sessions, Creating
<1>19. inventories' \in Seq(SUBSET Session) /\ Runs(b', server', inventories')
  <2>1. CASE s \in server.runtimes \ server.files
    <3>1. inventories' = Announced(ru)
      BY <1>6, <2>1 DEF Abandon
    <3>2. server'.runtimes \in SUBSET Session
      BY <1>8
    <3>3. /\ Announced(server'.runtimes) \in Seq(SUBSET Session)
          /\ Runs(b', server', Announced(server'.runtimes))
      BY <1>1, <3>2, AnnouncedRuns
    <3> QED
      BY <1>8, <3>1, <3>3
  <2>2. CASE s \notin server.runtimes \ server.files
    <3>1. inventories' = inventories /\ ru = server.runtimes
      BY <1>6, <2>2 DEF Abandon
    <3> QED
      BY <1>1, <1>8, <1>11, <3>1 DEF Holds, Runs
  <2> QED
    BY <2>1, <2>2
<1> QED
  BY <1>8, <1>10, <1>11, <1>14, <1>15, <1>16, <1>17, <1>18, <1>19 DEF Holds, Sessions

FlightTo(d, fl) == [d EXCEPT !.flight = fl]

LEMMA FlightTyped ==
  ASSUME NEW d \in Directory, NEW fl \in [Workspace -> Flight]
  PROVE  FlightTo(d, fl) \in Directory
BY DEF FlightTo, Directory

\* A Session is created at the gateway: it had no home, so nothing here knows it.
LEMMA CreateStep ==
  ASSUME Holds(b, server, inventories), NEW w \in Workspace, NEW s \in Session, Create(w, s)
  PROVE  /\ Holds(b', server', inventories') /\ b'.version = b.version /\ b'.current = b.current
<1>1. /\ b \in Directory /\ server \in Gateway /\ inventories \in Seq(SUBSET Session)
      /\ b.flight[w].pc = "asked" /\ server.home[s] = None
  BY DEF Holds, Create, Home
<1>2. /\ server.files \in SUBSET Session /\ server.workspaces \in SUBSET Workspace
      /\ server.version \in Nat /\ server.home \in [Session -> Workspace \cup {None}]
      /\ server.runtimes \in SUBSET Session /\ b.flight \in [Workspace -> Flight]
  BY <1>1 DEF Gateway, Directory
<1>3. PICK f : f = [[b.flight[w] EXCEPT !.pc = "created"] EXCEPT !.session = s]
  OBVIOUS
<1>4. f \in Flight /\ f.pc = "created" /\ f.session = s /\ f.token = b.flight[w].token
  <2>1. b.flight[w] \in Flight
    BY <1>2
  <2> QED
    BY <1>3, <2>1 DEF Flight
<1>5. PICK fl : fl = [b.flight EXCEPT ![w] = f]
  OBVIOUS
<1>6. fl \in [Workspace -> Flight] /\ \A x \in Workspace : fl[x] = IF x = w THEN f ELSE b.flight[x]
  BY <1>2, <1>4, <1>5
<1>7. PICK ho : ho = [server.home EXCEPT ![s] = w]
  OBVIOUS
<1>8. /\ ho \in [Session -> Workspace \cup {None}]
      /\ \A x \in Session : ho[x] = IF x = s THEN w ELSE server.home[x]
  BY <1>2, <1>7
<1>9. PICK ru \in SUBSET Session : ru = server.runtimes \cup {s}
  BY <1>2
<1>10. w # None
  BY DirectoryAssumption
<1>11. server' = GatewayTo(server, server.files, ru, server.version, server.workspaces, ho)
  BY <1>1, <1>7, <1>9 DEF Create, GatewayTo, Gateway
<1>12. /\ server' \in Gateway /\ server'.files = server.files /\ server'.runtimes = ru
       /\ server'.version = server.version /\ server'.home = ho
  BY <1>1, <1>2, <1>8, <1>11, GatewayIs
<1>13. b' = FlightTo(b, fl)
  <2>1. PICK f1 : f1 = [b.flight EXCEPT ![w] = [b.flight[w] EXCEPT !.pc = "created"]]
    OBVIOUS
  <2>2. f1[w] = [b.flight[w] EXCEPT !.pc = "created"]
    BY <1>2, <2>1
  <2>3. [f1 EXCEPT ![w] = [f1[w] EXCEPT !.session = s]] = fl
    BY <1>2, <1>3, <1>5, <2>1, <2>2
  <2>4. PICK e : e = [b EXCEPT !.flight = f1]
    OBVIOUS
  <2>5. e.flight = f1
    BY <1>1, <2>4 DEF Directory
  <2>6. b' = [[b EXCEPT !.flight[w].pc = "created"] EXCEPT !.flight[w].session = s]
    BY DEF Create
  <2>7. e = [b EXCEPT !.flight[w].pc = "created"]
    BY <2>1, <2>4
  <2>8. b' = [e EXCEPT !.flight = [f1 EXCEPT ![w] = [f1[w] EXCEPT !.session = s]]]
    BY <2>5, <2>6, <2>7
  <2> QED
    BY <1>1, <2>3, <2>4, <2>8 DEF FlightTo, Directory
<1>14. b' \in Directory
  BY <1>1, <1>6, <1>13, FlightTyped
<1>15. /\ b'.workspace = b.workspace /\ b'.current = b.current /\ b'.nav = b.nav
       /\ b'.creation = b.creation /\ b'.retained = b.retained /\ b'.hot = b.hot /\ b'.fact = b.fact
       /\ b'.runtime = b.runtime /\ b'.channel = b.channel /\ b'.asked = b.asked
       /\ b'.local = b.local /\ b'.content = b.content /\ b'.busy = b.busy /\ b'.waiting = b.waiting
       /\ b'.flight = fl /\ b'.initial = b.initial /\ b'.version = b.version
  BY <1>1, <1>13 DEF FlightTo, Directory
<1>16. SameLists(b, b')
  BY <1>1, <1>13 DEF FlightTo, SameLists, Directory
<1>17. ListsInOrder(b, server')
  BY <1>12 DEF Holds, ListsInOrder
<1>18. ListsInOrder(b', server') /\ Spinning(b')
  BY <1>16, <1>17, ListsSame DEF Holds
<1>19. b.asked[s] = "none" /\ s \notin b.local
  BY <1>1 DEF Holds, Sessions, Homes
<1>20. Homes(b', server')
  <2>1. ASSUME NEW x \in Workspace, b.retained[x] # None
        PROVE  ho[b.retained[x]] = x
    <3>1. server.home[b.retained[x]] = x /\ x # None
      BY <2>1, DirectoryAssumption DEF Holds, Sessions, Homes
    <3>2. b.retained[x] \in Session
      BY <1>1, <2>1 DEF Directory
    <3> QED
      BY <1>1, <1>8, <3>1, <3>2
  <2>2. ASSUME NEW x \in Session, ho[x] = None
        PROVE  /\ x \notin ru \cup server.files
               /\ b.channel[x] = "none" /\ b.asked[x] = "none" /\ x \notin b.waiting \cup b.local
    <3>1. x # s /\ server.home[x] = None
      BY <1>8, <1>10, <2>2
    <3> QED
      BY <1>9, <3>1 DEF Holds, Sessions, Homes
  <2> QED
    BY <1>12, <1>15, <2>1, <2>2 DEF Homes
<1>21. Alive(b', server')
  <2> SUFFICES ASSUME NEW x \in Session
               PROVE  /\ b'.fact[x] = "unpersisted" \/ b'.hot[x] = "unpersisted"
                           => Exists(b', server', x)
                      /\ b'.asked[x] = "done" => x \notin server'.runtimes
    BY DEF Alive
  <2>1. /\ b.fact[x] = "unpersisted" \/ b.hot[x] = "unpersisted" => Exists(b, server, x)
        /\ b.asked[x] = "done" => x \notin server.runtimes
    BY DEF Holds, Sessions, Alive
  <2> QED
    BY <1>9, <1>12, <1>15, <1>19, <2>1 DEF Exists
<1>22. Kept(b')
  BY <1>15 DEF Holds, Sessions, Kept, Managed
<1>23. Creating(b', server')
  <2>1. ASSUME NEW x \in Workspace, fl[x].pc = "created"
        PROVE  Created(b', server', x, fl[x].session)
    <3>1. CASE x = w
      BY <1>4, <1>6, <1>8, <1>9, <1>12, <1>15, <1>19, <3>1 DEF Created
    <3>2. CASE x # w
      <4>1. fl[x] = b.flight[x]
        BY <1>6, <3>2
      <4>2. Created(b, server, x, fl[x].session)
        BY <2>1, <4>1 DEF Holds, Sessions, Creating
      <4>3. fl[x].session # s
        BY <1>1, <4>2, DirectoryAssumption DEF Created
      <4> QED
        BY <1>8, <1>9, <1>12, <1>15, <4>2, <4>3 DEF Created
    <3> QED
      BY <3>1, <3>2
  <2>2. ASSUME NEW x \in Workspace, fl[x].pc # "none"
        PROVE  fl[x].token # 0
    <3>1. b.flight[x].pc # "none" => b.flight[x].token # 0
      BY DEF Holds, Sessions, Creating
    <3> QED
      BY <1>1, <1>4, <1>6, <2>2, <3>1
  <2>3. /\ b.creation # 0 => b.current = None
        /\ b.initial = "begin" => b.content = {}
    BY DEF Holds, Sessions, Creating
  <2> QED
    BY <1>15, <2>1, <2>2, <2>3 DEF Creating
<1>24. inventories' \in Seq(SUBSET Session) /\ Runs(b', server', inventories')
  <2>1. inventories' = Announced(ru)
    BY <1>9 DEF Create
  <2>2. server'.runtimes \in SUBSET Session
    BY <1>12
  <2>3. /\ Announced(server'.runtimes) \in Seq(SUBSET Session)
        /\ Runs(b', server', Announced(server'.runtimes))
    BY <1>1, <2>2, AnnouncedRuns
  <2> QED
    BY <1>12, <2>1, <2>3
<1> QED
  BY <1>12, <1>14, <1>15, <1>18, <1>20, <1>21, <1>22, <1>23, <1>24 DEF Holds, Sessions
-----------------------------------------------------------------------------
(* The invariant holds                                                     *)

LEMMA HoldsNow == Holds(b, server, inventories) <=> InvNow
BY DEF Holds, InvNow, Fine

LEMMA StepHolds ==
  ASSUME InvNow, StepGood, server' = server, inventories' = inventories
  PROVE  Holds(b', server', inventories')
BY DEF InvNow, StepGood, Holds, Fine

\* What no step but the user's does.
Calm == DraftStays /\ ListsForward

LEMMA CalmStep ==
  ASSUME InvNow, b'.current = b.current \/ b.current = None \/ DraftStays,
         \A w \in Workspace : b'.version[w] >= b.version[w]
  PROVE  Calm
<1>1. b.content \in SUBSET Session
  BY DEF InvNow, Fine, Directory
<1>2. b.current = None => b.current \notin b.content
  BY <1>1, DirectoryAssumption
<1> QED
  BY <1>2 DEF Calm, DraftStays, ListsForward

LEMMA FollowedStays ==
  ASSUME NEW w, Followed(b, b', w)
  PROVE  b'.current = b.current \/ b.current = None \/ DraftStays
BY DEF Followed, DraftStays

LEMMA UsersStep ==
  ASSUME InvNow, Users
  PROVE  Holds(b', server', inventories') /\ Calm
<1>1. DraftStays /\ b.initial # "begin"
  BY DEF DraftStays, Users
<1>2. CASE Submit
  <2>1. Holds(b', server', inventories') /\ b'.version = b.version
    BY <1>2, HoldsNow, SubmitStep
  <2> QED
    BY <1>1, <2>1, VersionsStay, CalmStep
<1>3. CASE ~Submit
  <2>1. \/ \E s \in Session : Open(s)
        \/ \E w \in Workspace : SelectWorkspace(w) \/ Unfold(w)
        \/ ClickNew \/ Type \/ Erase
    BY <1>3 DEF Users
  <2>2. StepGood
    BY <1>1, <2>1, OpenStep, SelectWorkspaceStep, UnfoldStep, ClickNewStep, TypeStep
  <2>3. server' = server /\ inventories' = inventories
    BY <2>1 DEF Open, SelectWorkspace, Unfold, ClickNew, Type, Erase
  <2>4. \A w \in Workspace : b'.version[w] >= b.version[w]
    BY <2>2 DEF StepGood
  <2> QED
    BY <1>1, <2>2, <2>3, <2>4, StepHolds, CalmStep
<1> QED
  BY <1>2, <1>3

LEMMA GoodStep ==
  ASSUME InvNow, StepGood, b'.current = b.current \/ b.current = None \/ DraftStays,
         server' = server, inventories' = inventories
  PROVE  Holds(b', server', inventories') /\ Calm
<1>1. \A w \in Workspace : b'.version[w] >= b.version[w]
  BY DEF StepGood
<1> QED
  BY <1>1, StepHolds, CalmStep

LEMMA NextStep ==
  ASSUME InvNow, Next
  PROVE  Holds(b', server', inventories') /\ Calm
<1>1. CASE Users
  BY <1>1, UsersStep
<1>2. ASSUME NEW x \in b.lists, ServeList(x) \/ ListAnswered(x) \/ ListFailed(x)
      PROVE  Holds(b', server', inventories') /\ Calm
  <2>1. StepGood /\ b'.current = b.current
    BY <1>2, ServeListStep, ListAnsweredStep, ListFailedStep
  <2>2. server' = server /\ inventories' = inventories
    BY <1>2 DEF ServeList, ListAnswered, ListFailed
  <2> QED
    BY <2>1, <2>2, GoodStep
<1>3. ASSUME NEW w \in Workspace, CreateAnswered(w) \/ CreateFailed(w)
      PROVE  Holds(b', server', inventories') /\ Calm
  <2>1. StepGood /\ Followed(b, b', w)
    BY <1>3, CreateAnsweredStep, CreateFailedStep
  <2>2. b'.current = b.current \/ b.current = None \/ DraftStays
    BY <2>1, FollowedStays
  <2>3. server' = server /\ inventories' = inventories
    BY <1>3 DEF CreateAnswered, CreateFailed
  <2> QED
    BY <2>1, <2>2, <2>3, GoodStep
<1>4. ASSUME NEW w \in Workspace, OtherRemoves(w)
      PROVE  Holds(b', server', inventories') /\ Calm
  <2>1. Holds(b', server', inventories') /\ b' = b
    BY <1>4, HoldsNow, OtherRemovesStep
  <2>2. b'.version = b.version /\ b'.current = b.current
    BY <2>1
  <2> QED
    BY <2>1, <2>2, VersionsStay, CalmStep
<1>5. ASSUME NEW s \in Session, Abandon(s) \/ \E w \in Workspace : Create(w, s)
      PROVE  Holds(b', server', inventories') /\ Calm
  <2>1. Holds(b', server', inventories') /\ b'.version = b.version /\ b'.current = b.current
    BY <1>5, HoldsNow, AbandonStep, CreateStep
  <2> QED
    BY <2>1, VersionsStay, CalmStep
<1>6. ASSUME NEW s \in Session, AbandonAnswered(s) \/ Runtime(s) \/ Baseline(s) \/ Granted(s) \/ WaitExpires(s)
      PROVE  Holds(b', server', inventories') /\ Calm
  <2>1. StepGood /\ (b'.current = b.current \/ b.asked[b.current] = "done")
    BY <1>6, AbandonAnsweredStep, RuntimeStep, BaselineStep, GrantedStep, WaitExpiresStep
  <2>2. b'.current = b.current \/ b.current = None \/ DraftStays
    BY <2>1 DEF DraftStays
  <2>3. server' = server /\ inventories' = inventories
    BY <1>6 DEF AbandonAnswered, Runtime, Baseline, Granted, WaitExpires
  <2> QED
    BY <2>1, <2>2, <2>3, GoodStep
<1>7. ASSUME NEW x \in b.loads, WorkspacesAnswered(x) \/ WorkspacesFailed(x)
      PROVE  Holds(b', server', inventories') /\ Calm
  <2>1. StepGood /\ (b'.current = b.current \/ b.workspace \notin server.workspaces)
    BY <1>7, WorkspacesAnsweredStep, WorkspacesFailedStep
  <2>2. b'.current = b.current \/ b.current = None \/ DraftStays
    BY <2>1 DEF DraftStays
  <2>3. server' = server /\ inventories' = inventories
    BY <1>7 DEF WorkspacesAnswered, WorkspacesFailed
  <2> QED
    BY <2>1, <2>2, <2>3, GoodStep
<1>8. CASE Inventory
  <2>1. /\ Fine(b', inventories') /\ Forward(b, b')
        /\ inventories' \in Seq(SUBSET Session) /\ server' = server
    BY <1>8, InventoryStep
  <2>2. Holds(b', server', inventories')
    BY <2>1 DEF InvNow, Holds, Fine
  <2>3. b'.current = b.current /\ \A w \in Workspace : b'.version[w] >= b.version[w]
    BY <2>1 DEF Forward
  <2> QED
    BY <2>2, <2>3, CalmStep
<1>9. CASE Reconnect
  <2>1. server' = server /\ inventories' = inventories
    BY <1>9 DEF Reconnect
  <2> QED
    BY <1>9, <2>1, ReconnectStep, GoodStep
<1>10. CASE EnsureInitial
  <2>1. StepGood /\ b.content = {}
    BY <1>10, EnsureInitialStep
  <2>2. DraftStays
    BY <2>1 DEF DraftStays
  <2>3. server' = server /\ inventories' = inventories
    BY <1>10 DEF EnsureInitial
  <2> QED
    BY <2>1, <2>2, <2>3, GoodStep
<1>11. CASE InitialDecided
  <2>1. server' = server /\ inventories' = inventories
    BY <1>11 DEF InitialDecided
  <2> QED
    BY <1>11, <2>1, InitialDecidedStep, GoodStep
<1> QED
  BY <1>1, <1>2, <1>3, <1>4, <1>5, <1>6, <1>7, <1>8, <1>9, <1>10, <1>11 DEF Next
LEMMA DirectoryInit ==
  ASSUME Init
  PROVE  DirectoryInv
<1>1. PICK left \in {{}, Earlier} :
        /\ server = [files |-> {Durable}, runtimes |-> left, version |-> 1, workspaces |-> Workspace,
                     home |-> [s \in Session |-> IF s \in left \union {Durable} THEN Opened ELSE None]]
        /\ b = [workspace |-> Opened, current |-> None, nav |-> 1, creation |-> 0,
            retained |-> [w \in Workspace |-> None], workspaces |-> Workspace,
            listed |-> [w \in Workspace |-> IF w = Opened THEN {Durable} ELSE {}],
            version |-> [w \in Workspace |-> IF w = Opened THEN 1 ELSE 0],
            hot |-> [s \in Session |-> IF s \in left THEN "unknown" ELSE "absent"],
            fact |-> [s \in Session |-> "unknown"],
            runtime |-> [s \in Session |-> "unknown"],
            channel |-> [s \in Session |-> IF s \in left THEN "joining" ELSE "none"],
            claims |-> {}, claiming |-> None, local |-> {}, content |-> {}, busy |-> {},
            asked |-> [s \in Session |-> "none"], stale |-> {}, waiting |-> {},
            flight |-> [w \in Workspace |-> NoFlight],
            counter |-> 0, latest |-> [w \in Workspace |-> 0], lists |-> {}, loading |-> FALSE,
            wcounter |-> 0, loads |-> {}, loadingWorkspaces |-> FALSE,
            connection |-> 0, initial |-> "begin"]
        /\ inventories = <<>>
  BY DEF Init
<1>2. left \in SUBSET Session /\ Durable \in Session /\ Opened \in Workspace /\ Opened # None
  BY DirectoryAssumption
<1>3. NoFlight \in Flight /\ NoFlight.pc = "none"
  BY DEF NoFlight, Flight
<1>4. /\ b.workspace = Opened /\ b.current = None /\ b.nav = 1 /\ b.creation = 0
      /\ b.retained = [w \in Workspace |-> None] /\ b.workspaces = Workspace
      /\ b.listed = [w \in Workspace |-> IF w = Opened THEN {Durable} ELSE {}]
      /\ b.version = [w \in Workspace |-> IF w = Opened THEN 1 ELSE 0]
      /\ b.hot = [s \in Session |-> IF s \in left THEN "unknown" ELSE "absent"]
      /\ b.fact = [s \in Session |-> "unknown"]
      /\ b.runtime = [s \in Session |-> "unknown"]
      /\ b.channel = [s \in Session |-> IF s \in left THEN "joining" ELSE "none"]
  BY <1>1
<1>5. /\ b.local = {} /\ b.content = {} /\ b.waiting = {}
      /\ b.asked = [s \in Session |-> "none"]
      /\ b.flight = [w \in Workspace |-> NoFlight]
      /\ b.counter = 0 /\ b.latest = [w \in Workspace |-> 0] /\ b.lists = {} /\ b.loading = FALSE
      /\ b.loadingWorkspaces = FALSE
  BY <1>1
<1>6. /\ server.files = {Durable} /\ server.runtimes = left /\ server.version = 1
      /\ server.home = [s \in Session |-> IF s \in left \union {Durable} THEN Opened ELSE None]
  BY <1>1
<1>7. server \in Gateway
  <2>1. [s \in Session |-> IF s \in left \union {Durable} THEN Opened ELSE None]
          \in [Session -> Workspace \cup {None}]
    BY <1>2
  <2>2. {Durable} \in SUBSET Session
    BY <1>2
  <2> QED
    BY <1>1, <1>2, <2>1, <2>2 DEF Gateway
<1>8. b \in Directory
  <2>1. /\ [w \in Workspace |-> None] \in [Workspace -> Session \cup {None}]
        /\ [w \in Workspace |-> IF w = Opened THEN {Durable} ELSE {}] \in [Workspace -> SUBSET Session]
        /\ [w \in Workspace |-> IF w = Opened THEN 1 ELSE 0] \in [Workspace -> Nat]
        /\ [w \in Workspace |-> NoFlight] \in [Workspace -> Flight]
        /\ [w \in Workspace |-> 0] \in [Workspace -> Nat]
    BY <1>2, <1>3
  <2>2. /\ [s \in Session |-> IF s \in left THEN "unknown" ELSE "absent"]
             \in [Session -> Fact \cup {"absent"}]
        /\ [s \in Session |-> "unknown"] \in [Session -> Fact]
        /\ [s \in Session |-> IF s \in left THEN "joining" ELSE "none"] \in [Session -> Channel]
        /\ [s \in Session |-> "none"] \in [Session -> Answer]
    BY DEF Fact, Channel, Answer
  <2> QED
    BY <1>1, <1>2, <2>1, <2>2 DEF Directory
<1>9. ListsInOrder(b, server) /\ Spinning(b)
  BY <1>4, <1>5, <1>6 DEF ListsInOrder, Spinning, Turning, Fetching
<1>10. Homes(b, server)
  <2>1. ASSUME NEW s \in Session, server.home[s] = None
        PROVE  s \notin left \cup {Durable}
    BY <1>2, <1>6, <2>1
  <2> QED
    BY <1>4, <1>5, <1>6, <2>1 DEF Homes
<1>11. Alive(b, server)
  BY <1>4, <1>5 DEF Alive
<1>12. Kept(b)
  BY <1>5 DEF Kept
<1>13. Creating(b, server)
  BY <1>3, <1>4, <1>5 DEF Creating
<1>14. inventories \in Seq(SUBSET Session) /\ Runs(b, server, inventories)
  BY <1>1, <1>2, <1>4, <1>6 DEF Runs
<1> QED
  BY <1>7, <1>8, <1>9, <1>10, <1>11, <1>12, <1>13, <1>14 DEF DirectoryInv, Sessions

LEMMA InvIsHolds == DirectoryInv <=> Holds(b, server, inventories)
BY DEF DirectoryInv, Holds

LEMMA DirectoryNext ==
  ASSUME DirectoryInv, [Next]_vars
  PROVE  DirectoryInv' /\ [Calm]_vars
<1>1. CASE Next
  <2>1. InvNow
    BY InvIsHolds, HoldsNow
  <2>2. Holds(b', server', inventories') /\ Calm
    BY <1>1, <2>1, NextStep
  <2> QED
    BY <2>2 DEF DirectoryInv, Holds
<1>2. CASE UNCHANGED vars
  <2>1. Holds(b', server', inventories')
    BY <1>2, InvIsHolds DEF vars
  <2> QED
    BY <1>2, <2>1 DEF DirectoryInv, Holds
<1> QED
  BY <1>1, <1>2

\* What runs without a file and is still wanted is announced.
LEMMA InvExact ==
  ASSUME DirectoryInv
  PROVE  DirectoryExact
<1>1. b \in Directory /\ server \in Gateway /\ inventories \in Seq(SUBSET Session)
  BY DEF DirectoryInv
<1>2. TypeOK
  BY <1>1 DEF TypeOK, Directory, Gateway, Channel, Answer
<1>3. LoadingExact
  BY DEF DirectoryInv, Spinning, Turning, Fetching, LoadingExact
<1>4. NoneKept
  BY DEF DirectoryInv, Sessions, Kept, NoneKept
<1>5. DraftReachable
  <2> SUFFICES ASSUME NEW s \in b.content, s \notin server.files, b.fact[s] = "unpersisted",
                      b.asked[s] # "done"
               PROVE  \/ b.hot[s] # "absent"
                      \/ \E i \in 1..Len(inventories) : s \in inventories[i]
    BY DEF DraftReachable
  <2>1. s \in Session
    BY <1>1 DEF Directory
  <2>2. s \in server.runtimes
    BY <2>1 DEF DirectoryInv, Sessions, Alive, Exists
  <2>3. CASE inventories = <<>>
    BY <2>2, <2>3 DEF DirectoryInv, Runs
  <2>4. CASE inventories # <<>>
    <3>1. s \in inventories[Len(inventories)]
      BY <2>2, <2>4 DEF DirectoryInv, Runs
    <3>2. Len(inventories) \in 1..Len(inventories)
      BY <1>1, <2>4
    <3> QED
      BY <3>1, <3>2
  <2> QED
    BY <2>3, <2>4
<1> QED
  BY <1>2, <1>3, <1>4, <1>5 DEF DirectoryExact

\* What the browser shows is exact whatever it is told in whatever order: the
\* spinners of the lists of Sessions and of workspaces turn only while an answer
\* that stops them is on its way, no Session it created and left untouched stays
\* under its control, and a draft without a file can be found again
\* (reloadSessions, loadWorkspaces, reconcileHiddenSessionLifecycle,
\* retainLocalTransient, applyHotRuntimeInventory).
THEOREM DirectoryTheorem == Spec => []DirectoryExact
<1>1. Init => DirectoryInv
  BY DirectoryInit
<1>2. DirectoryInv /\ [Next]_vars => DirectoryInv'
  BY DirectoryNext
<1>3. DirectoryInv => DirectoryExact
  BY InvExact
<1> QED
  BY <1>1, <1>2, <1>3, PTL DEF Spec

\* No answer that a navigation, a newer request or a new connection has
\* overtaken takes the user out of a Session in which something was typed, or
\* puts back an older list of Sessions (the tokens of openSession, newSession,
\* loadSessions and loadWorkspaces).
THEOREM OvertakenTheorem == Spec => OvertakenAnswersLost
<1>1. Init => DirectoryInv
  BY DirectoryInit
<1>2. DirectoryInv /\ [Next]_vars => DirectoryInv'
  BY DirectoryNext
<1>3. DirectoryInv /\ [Next]_vars => [DraftStays /\ ListsForward]_vars
  BY DirectoryNext DEF Calm
<1> QED
  BY <1>1, <1>2, <1>3, PTL DEF Spec, OvertakenAnswersLost
=============================================================================
