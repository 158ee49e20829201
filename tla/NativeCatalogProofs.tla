------------------------- MODULE NativeCatalogProofs -------------------------
(***************************************************************************)
(* Proofs about the catalog of native Sessions, for any files, directories *)
(* and callers, whatever happens to the files while they are read and      *)
(* wherever a scan meets an error or runs out of its budget.               *)
(***************************************************************************)
EXTENDS NativeCatalog, TLAPS

-----------------------------------------------------------------------------
(* What the variables hold.                                                *)

CatalogState ==
  [snapshot : Snapshot \cup {None}, fresh : BOOLEAN, scan : Scanned \cup {None}, drain : {"idle", "awaits", "scans"},
   requested : Nat, completed : Nat, covered : Nat, cache : [Dir -> CachedDir \cup {None}]]
Caller ==
  [pc : {"idle", "waits", "answered", "failed"}, forced : BOOLEAN, drains : BOOLEAN, from : [File -> Nat] \cup {None},
   answer : Snapshot \cup {None}]

CatalogTypeOK ==
  /\ disk \in [File -> FileState \cup {None}]
  /\ past \in [File -> Seq(FileState \cup {None})]
  /\ catalog \in CatalogState
  /\ asks \in [Ask -> Caller]
  /\ env.hints \in SUBSET Dir

-----------------------------------------------------------------------------
(* The inductive invariant.                                                *)

\* A file's revision is the place of its state in its history h, the last of
\* which is what is on disk; every state begins with a header.
HistoryOK(h) ==
  /\ Len(h) >= 1
  /\ \A i \in DOMAIN h : h[i] # None => h[i].rev = i /\ h[i].lines # <<>> /\ h[i].lines[1] = "header"
PastOK == \A f \in File : HistoryOK(past[f]) /\ disk[f] = past[f][Len(past[f])]

\* The entry says what one state of the file says, and not an earlier one than
\* the revision it is kept under.
ReadAt(h, e, v) == v \in DOMAIN h /\ h[v] # None /\ e.summary = Summary(h[v])
ReadSince(h, i, e) == \E v \in DOMAIN h : i <= v /\ ReadAt(h, e, v)
EntryOK(h, e) ==
  e # None => /\ ReadSince(h, e.revision, e)
              /\ e.summary # None => e.seen = e.summary
              /\ e.safe /\ e.summary # None => e.offset = 2 * Len(e.seen)

\* What a list says of a file with this entry.
Says(e) == IF e = None THEN None ELSE e.summary

\* A directory cached without a fault says what is true under its revision,
\* or of a file that came and went.
Visited(h, listed) ==
  \E i, j \in DOMAIN h : i < j /\ h[i] = None /\ h[j] # None /\ listed = Summary(h[j])
UnderRevision(h, revision, listed) ==
  IF revision = 0 THEN listed = None \/ Visited(h, listed)
  ELSE revision \in DOMAIN h /\ h[revision] # None /\ listed = Summary(h[revision])
CachedOK(p, d, c) ==
  c # None =>
    /\ \A f \in File : EntryOK(p[f], c.files[f])
    /\ ~c.retryable => \A f \in FilesOf(d) : UnderRevision(p[f], c.revision[f], Says(c.files[f]))

\* The scan of a file, whose directory was looked at when the file was in
\* state i of its history.
Looked(h, x, i) ==
  /\ x.meta \in FileState /\ x.now \in FileState
  /\ x.meta.rev <= x.now.rev /\ i <= x.now.rev
  /\ x.now.rev \in DOMAIN h /\ h[x.now.rev] = x.now
FileScanOK(h, x, i, c) ==
  /\ x.pc # "done" => ~x.budget
  /\ x.pc \in {"open", "read", "final"} => Looked(h, x, i)
  /\ x.pc \in {"read", "final"} => x.open = x.now
  /\ x.pc = "final" /\ x.now.rev = Len(h) =>
       x.seen = Complete(x.now) /\ x.safe = ~x.now.torn /\ HasHeader(x.now)
  /\ x.pc = "done" => /\ EntryOK(h, x.entry)
                      /\ ~x.retryable /\ ~x.budget => x.entry # None /\ ReadSince(h, i, x.entry)
                      /\ x.entry # None /\ x.budget => c # None

\* The scan of a directory.
Stood(h, revision, i) == IF revision = 0 THEN h[i] = None ELSE i = revision /\ h[i] # None
AbsentSince(h, i) == \E k \in DOMAIN h : i <= k /\ h[k] = None
EntrySince(h, i, e) == IF e = None THEN AbsentSince(h, i) ELSE ReadSince(h, i, e)
FileOK(h, f, r, i, c) ==
  /\ r.pc = "files" => IF f \in DOMAIN r.files THEN FileScanOK(h, r.files[f], i, c) ELSE AbsentSince(h, i)
  /\ r.pc = "after" /\ (~r.partial \/ (~r.stale /\ r.entries[f] # None)) => EntrySince(h, i, r.entries[f])
ScansFile(h, f, r, mark, c) ==
  \E i \in DOMAIN h : mark <= i /\ Stood(h, r.before[f], i) /\ FileOK(h, f, r, i, c)
DirScanOK(p, d, r, from, c) ==
  /\ r.pc \in {"list", "files", "after"} =>
       r.before \in [FilesOf(d) -> Nat] /\ \A f \in FilesOf(d) : ScansFile(p[f], f, r, from[f], c)
  /\ r.pc = "files" => DOMAIN r.files \subseteq FilesOf(d)
  /\ r.pc = "after" => \A f \in File : EntryOK(p[f], r.entries[f])
  /\ r.pc = "done" =>
       /\ r.covered => ~r.partial
       /\ \A f \in FilesOf(d) : ~r.partial \/ (~r.stale /\ Says(r.entries[f]) # None) =>
                                  Told(p[f], from[f], Says(r.entries[f]))

\* A scan, and what the rounds before this one found.
FoundOK(p, s) ==
  \A f \in File :
    IF DirOf[f] \in s.scanned \ s.pending
    THEN ~s.partial \/ DirOf[f] \in s.covered \/ (~s.stale /\ s.list[f] # None) =>
           Told(p[f], s.from[f], s.list[f])
    ELSE s.list[f] = None
ScanOK(p, s, cache) ==
  s # None =>
    /\ s.pending \subseteq s.scanned /\ s.covered \subseteq s.scanned \ s.pending
    /\ s.pc = "plan" => s.pending = {}
    /\ \A d \in s.pending : s.dir[d] # None /\ DirScanOK(p, d, s.dir[d], s.from, cache[d])
    /\ FoundOK(p, s)
    /\ \A f \in File : s.from[f] \in DOMAIN p[f]
CacheOK(p, cache) == \A d \in Dir : CachedOK(p, d, cache[d])

\* A list, as SnapshotTruthful has it, made after a mark in every history.
ListOK(p, s) ==
  s # None =>
    \A f \in File :
      /\ s.from[f] >= 1
      /\ ~s.partial /\ DirOf[f] \in s.planned => Told(p[f], s.from[f], s.list[f])
      /\ s.partial /\ s.previous[f] # None /\ s.list[f] = None => None \in Deserved(p[f], s.from[f])
      /\ s.partial /\ ~s.stale /\ s.list[f] # None => Told(p[f], s.from[f], s.list[f])

\* Whoever forced a refresh is answered from a scan that began afterwards: the
\* one that runs if no request was made since it began, or one that is owed.
CallerOK(p, c, x) ==
  /\ x.pc # "idle" => x.from # None /\ \A f \in File : x.from[f] <= Len(p[f])
  /\ x.pc = "waits" /\ x.forced =>
       /\ x.drains /\ c.drain # "idle"
       /\ c.drain = "scans" /\ c.covered = c.requested => \A f \in File : x.from[f] <= c.scan.from[f]
  /\ x.pc = "answered" /\ x.forced => x.answer # None /\ \A f \in File : x.from[f] <= x.answer.from[f]
DrainOK(c) ==
  /\ c.drain # "idle" => c.scan # None
  /\ c.drain = "scans" => c.covered <= c.requested

CatalogInv ==
  /\ CatalogTypeOK
  /\ PastOK
  /\ CacheOK(past, catalog.cache)
  /\ ScanOK(past, catalog.scan, catalog.cache)
  /\ DrainOK(catalog)
  /\ \A a \in Ask : CallerOK(past, catalog, asks[a])
  /\ ListOK(past, catalog.snapshot)

-----------------------------------------------------------------------------
(* Histories that grow.                                                    *)

History == Seq(FileState \cup {None})
Extends(h, g) ==
  /\ h \in History /\ g \in History
  /\ Len(h) <= Len(g) /\ \A i \in DOMAIN h : g[i] = h[i]

LEMMA ExtendsDomain == ASSUME NEW h, NEW g, Extends(h, g)
  PROVE /\ DOMAIN h = 1..Len(h) /\ DOMAIN g = 1..Len(g) /\ Len(h) \in Nat /\ Len(g) \in Nat
        /\ DOMAIN h \subseteq DOMAIN g
  BY DEF Extends, History

LEMMA EntryGrows == ASSUME NEW h, NEW g, Extends(h, g), NEW e, NEW i
  PROVE /\ ReadSince(h, i, e) => ReadSince(g, i, e)
        /\ AbsentSince(h, i) => AbsentSince(g, i)
        /\ EntrySince(h, i, e) => EntrySince(g, i, e)
        /\ EntryOK(h, e) => EntryOK(g, e)
<1>1. DOMAIN h \subseteq DOMAIN g /\ \A v \in DOMAIN h : g[v] = h[v]
  BY ExtendsDomain DEF Extends
<1>2. /\ \A j : ReadSince(h, j, e) => ReadSince(g, j, e)
      /\ AbsentSince(h, i) => AbsentSince(g, i)
  BY <1>1 DEF ReadSince, ReadAt, AbsentSince
<1> QED
  BY <1>2 DEF EntrySince, EntryOK

LEMMA ToldGrows == ASSUME NEW h, NEW g, Extends(h, g), NEW from \in Nat \ {0}, NEW listed
  PROVE /\ listed \in Deserved(h, from) => listed \in Deserved(g, from)
        /\ Told(h, from, listed) => Told(g, from, listed)
<1>1. DOMAIN h \subseteq DOMAIN g /\ \A v \in DOMAIN h : g[v] = h[v]
  BY ExtendsDomain DEF Extends
<1>2. CameAndWent(h, from, listed) => CameAndWent(g, from, listed)
  BY <1>1 DEF CameAndWent
<1>3. listed \in Deserved(h, from) => listed \in Deserved(g, from)
  <2>0. Len(h) \in Nat /\ Len(g) \in Nat /\ Len(h) <= Len(g) /\ DOMAIN h = 1..Len(h)
    BY ExtendsDomain DEF Extends
  <2>1. \A i \in from..Len(h) : i \in from..Len(g) /\ i \in DOMAIN h
    BY <2>0
  <2> QED
    BY <2>1, <1>1 DEF Deserved
<1> QED
  BY <1>2, <1>3 DEF Told

LEMMA CachedGrows ==
  ASSUME NEW p, NEW q, \A f \in File : Extends(p[f], q[f]), NEW d, NEW c, CachedOK(p, d, c)
  PROVE CachedOK(q, d, c)
<1>1. ASSUME NEW f \in File, NEW e, EntryOK(p[f], e) PROVE EntryOK(q[f], e)
  BY <1>1, EntryGrows
<1>2. ASSUME NEW f \in File, NEW R, NEW listed, UnderRevision(p[f], R, listed)
      PROVE UnderRevision(q[f], R, listed)
  <2>1. DOMAIN p[f] \subseteq DOMAIN q[f] /\ \A v \in DOMAIN p[f] : q[f][v] = p[f][v]
    BY ExtendsDomain DEF Extends
  <2>2. Visited(p[f], listed) => Visited(q[f], listed)
    BY <2>1 DEF Visited
  <2> QED
    BY <1>2, <2>1, <2>2 DEF UnderRevision
<1>3. FilesOf(d) \subseteq File
  BY DEF FilesOf
<1> QED
  BY <1>1, <1>2, <1>3 DEF CachedOK

LEMMA FileScanGrows ==
  ASSUME NEW h, NEW g, Extends(h, g), NEW x, NEW i, NEW c, FileScanOK(h, x, i, c)
  PROVE FileScanOK(g, x, i, c)
<1>1. DOMAIN h \subseteq DOMAIN g /\ \A v \in DOMAIN h : g[v] = h[v]
  BY ExtendsDomain DEF Extends
<1>2. Looked(h, x, i) => Looked(g, x, i)
  BY <1>1 DEF Looked
<1>3. Looked(h, x, i) /\ x.now.rev = Len(g) => x.now.rev = Len(h)
  BY ExtendsDomain DEF Looked, Extends
<1>4. /\ EntryOK(h, x.entry) => EntryOK(g, x.entry)
      /\ ReadSince(h, i, x.entry) => ReadSince(g, i, x.entry)
  BY EntryGrows
<1> QED
  BY <1>2, <1>3, <1>4 DEF FileScanOK

LEMMA DirScanGrows ==
  ASSUME NEW p, NEW q, \A f \in File : Extends(p[f], q[f]), NEW d, NEW r, NEW from,
         \A f \in File : from[f] \in DOMAIN p[f], NEW c, DirScanOK(p, d, r, from, c)
  PROVE DirScanOK(q, d, r, from, c)
<1>1. FilesOf(d) \subseteq File
  BY DEF FilesOf
<1>2. ASSUME NEW f \in FilesOf(d), ScansFile(p[f], f, r, from[f], c) PROVE ScansFile(q[f], f, r, from[f], c)
  <2>0. Extends(p[f], q[f])
    BY <1>1
  <2>1. DOMAIN p[f] \subseteq DOMAIN q[f] /\ \A v \in DOMAIN p[f] : q[f][v] = p[f][v]
    BY <2>0, ExtendsDomain DEF Extends
  <2>2. PICK i \in DOMAIN p[f] : from[f] <= i /\ Stood(p[f], r.before[f], i) /\ FileOK(p[f], f, r, i, c)
    BY <1>2 DEF ScansFile
  <2>3. Stood(q[f], r.before[f], i)
    BY <2>1, <2>2 DEF Stood
  <2>4. FileOK(q[f], f, r, i, c)
    BY <2>0, <2>2, FileScanGrows, EntryGrows DEF FileOK
  <2> QED
    BY <2>1, <2>2, <2>3, <2>4 DEF ScansFile
<1>3. ASSUME NEW f \in File PROVE EntryOK(p[f], r.entries[f]) => EntryOK(q[f], r.entries[f])
  BY EntryGrows
<1>4. ASSUME NEW f \in File, NEW listed PROVE Told(p[f], from[f], listed) => Told(q[f], from[f], listed)
  <2>1. from[f] \in Nat \ {0}
    BY ExtendsDomain
  <2> QED
    BY <2>1, ToldGrows
<1> QED
  BY <1>1, <1>2, <1>3, <1>4 DEF DirScanOK

LEMMA ScanGrows ==
  ASSUME NEW p, NEW q, \A f \in File : Extends(p[f], q[f]), NEW s, NEW cache, ScanOK(p, s, cache)
  PROVE ScanOK(q, s, cache)
<1> SUFFICES ASSUME s # None PROVE ScanOK(q, s, cache)
  BY DEF ScanOK
<1>1. \A f \in File : s.from[f] \in DOMAIN p[f] /\ s.from[f] \in DOMAIN q[f] /\ s.from[f] \in Nat \ {0}
  BY ExtendsDomain DEF ScanOK
<1>2. ASSUME NEW d \in s.pending PROVE s.dir[d] # None /\ DirScanOK(q, d, s.dir[d], s.from, cache[d])
  BY <1>1, DirScanGrows DEF ScanOK
<1>3. FoundOK(q, s)
  <2>1. FoundOK(p, s)
    BY DEF ScanOK
  <2>2. ASSUME NEW f \in File PROVE Told(p[f], s.from[f], s.list[f]) => Told(q[f], s.from[f], s.list[f])
    BY <1>1, ToldGrows
  <2> QED
    BY <2>1, <2>2 DEF FoundOK
<1> QED
  BY <1>1, <1>2, <1>3 DEF ScanOK

LEMMA ListGrows ==
  ASSUME NEW p, NEW q, \A f \in File : Extends(p[f], q[f]), NEW s, s # None => s \in Snapshot, ListOK(p, s)
  PROVE ListOK(q, s)
<1> SUFFICES ASSUME s # None, NEW f \in File
             PROVE /\ s.from[f] \in Nat \ {0}
                   /\ \A listed : /\ Told(p[f], s.from[f], listed) => Told(q[f], s.from[f], listed)
                                  /\ listed \in Deserved(p[f], s.from[f]) => listed \in Deserved(q[f], s.from[f])
  BY DEF ListOK
<1>1. s.from[f] \in Nat \ {0}
  BY DEF ListOK, Snapshot
<1> QED
  BY <1>1, ToldGrows

LEMMA CallerGrows ==
  ASSUME NEW p, NEW q, \A f \in File : Extends(p[f], q[f]), NEW c, NEW x \in Caller, CallerOK(p, c, x)
  PROVE CallerOK(q, c, x)
<1>1. ASSUME NEW f \in File, x.from # None PROVE x.from[f] <= Len(p[f]) => x.from[f] <= Len(q[f])
  <2>1. x.from[f] \in Nat /\ Len(p[f]) \in Nat /\ Len(q[f]) \in Nat /\ Len(p[f]) <= Len(q[f])
    BY <1>1, ExtendsDomain DEF Caller, Extends
  <2> QED
    BY <2>1
<1> QED
  BY <1>1 DEF CallerOK

-----------------------------------------------------------------------------
(* The beginning, and what happens to the files.                           *)

LEMMA NothingListed == Nothing \in Listing /\ Nothing \in Entries /\ \A f \in File : Nothing[f] = None
  BY DEF Nothing, Listing, Listed, Entries

LEMMA CatalogBegins == ASSUME CatalogAssumption, Init PROVE CatalogInv
<1>1. CatalogTypeOK
  <2>1. <<"header", "message">> \in Text
    BY DEF Text, Line
  <2>a. [ino |-> 1, rev |-> 1, lines |-> <<"header", "message">>, torn |-> FALSE] \in FileState
    BY <2>1 DEF FileState
  <2>2. disk \in [File -> FileState \cup {None}]
    BY <2>a DEF Init
  <2>3. past \in [File -> Seq(FileState \cup {None})]
    BY <2>2 DEF Init
  <2>4. catalog \in CatalogState
    BY DEF Init, CatalogState
  <2>5. asks \in [Ask -> Caller]
    BY DEF Init, Caller
  <2>6. env.hints \in SUBSET Dir
    BY DEF Init, CatalogAssumption
  <2> QED
    BY <2>2, <2>3, <2>4, <2>5, <2>6 DEF CatalogTypeOK
<1>2. PastOK
  <2> SUFFICES ASSUME NEW f \in File PROVE HistoryOK(past[f]) /\ disk[f] = past[f][Len(past[f])]
    BY DEF PastOK
  <2>1. past[f] = <<disk[f]>>
    BY DEF Init
  <2>2. disk[f] # None => disk[f].rev = 1 /\ disk[f].lines = <<"header", "message">>
    BY DEF Init
  <2> QED
    BY <2>1, <2>2 DEF HistoryOK
<1>3. CacheOK(past, catalog.cache) /\ ScanOK(past, catalog.scan, catalog.cache) /\ DrainOK(catalog)
      /\ ListOK(past, catalog.snapshot)
  BY DEF Init, CacheOK, CachedOK, ScanOK, DrainOK, ListOK
<1>4. \A a \in Ask : CallerOK(past, catalog, asks[a])
  BY DEF Init, CallerOK
<1> QED
  BY <1>1, <1>2, <1>3, <1>4 DEF CatalogInv

LEMMA WritesKeep ==
  ASSUME CatalogAssumption, CatalogInv, NEW f \in File, NEW x \in FileState \cup {None}, Written(f, x),
         x # None => x.rev = NextRev(f) /\ x.lines # <<>> /\ x.lines[1] = "header"
  PROVE CatalogInv'
<1>0. CatalogTypeOK /\ PastOK
  BY DEF CatalogInv
<1>1. /\ disk' = [disk EXCEPT ![f] = x] /\ past' = [past EXCEPT ![f] = Append(@, x)]
      /\ catalog' = catalog /\ asks' = asks /\ env'.hints = env.hints
  BY DEF Written
<1>2. past[f] \in History /\ past'[f] = Append(past[f], x) /\ past'[f] \in History
  BY <1>0, <1>1 DEF CatalogTypeOK, History
<1>3. \A g \in File : Extends(past[g], past'[g])
  <2> SUFFICES ASSUME NEW g \in File PROVE Extends(past[g], past'[g])
    OBVIOUS
  <2>1. CASE g = f
    BY <2>1, <1>2 DEF Extends, History
  <2>2. CASE g # f
    BY <2>2, <1>0, <1>1 DEF Extends, History, CatalogTypeOK
  <2> QED
    BY <2>1, <2>2
<1>4. CatalogTypeOK'
  BY <1>0, <1>1, <1>2 DEF CatalogTypeOK, History
<1>5. PastOK'
  <2> SUFFICES ASSUME NEW g \in File PROVE HistoryOK(past'[g]) /\ disk'[g] = past'[g][Len(past'[g])]
    BY DEF PastOK
  <2>1. CASE g # f
    BY <2>1, <1>0, <1>1 DEF PastOK, CatalogTypeOK
  <2>2. CASE g = f
    <3>1. /\ Len(past[f]) \in Nat /\ Len(past'[f]) = Len(past[f]) + 1 /\ DOMAIN past'[f] = 1..(Len(past[f]) + 1)
          /\ past'[f][Len(past[f]) + 1] = x /\ \A i \in 1..Len(past[f]) : past'[f][i] = past[f][i]
          /\ DOMAIN past[f] = 1..Len(past[f])
      BY <1>2 DEF History
    <3>2. HistoryOK(past[f])
      BY <1>0 DEF PastOK
    <3>3. x # None => x.rev = Len(past[f]) + 1
      BY <3>1 DEF NextRev
    <3> QED
      BY <2>2, <1>0, <1>1, <3>1, <3>2, <3>3 DEF HistoryOK, CatalogTypeOK
  <2> QED
    BY <2>1, <2>2
<1>6. CacheOK(past', catalog'.cache)
  BY <1>1, <1>3, CachedGrows, ZenonT(100) DEF CatalogInv, CacheOK
<1>7. ScanOK(past', catalog'.scan, catalog'.cache)
  BY <1>1, <1>3, ScanGrows, ZenonT(100) DEF CatalogInv
<1>8. ListOK(past', catalog'.snapshot)
  <2>1. catalog.snapshot # None => catalog.snapshot \in Snapshot
    BY <1>0 DEF CatalogTypeOK, CatalogState
  <2> QED
    BY <2>1, <1>1, <1>3, ListGrows DEF CatalogInv
<1>9. DrainOK(catalog') /\ \A a \in Ask : CallerOK(past', catalog', asks'[a])
  <2>1. \A a \in Ask : asks[a] \in Caller /\ CallerOK(past, catalog, asks[a])
    BY <1>0 DEF CatalogInv, CatalogTypeOK
  <2>2. ASSUME NEW a \in Ask PROVE CallerOK(past', catalog, asks[a])
    BY <1>3, <2>1, CallerGrows
  <2> QED
    BY <2>2, <1>1 DEF CatalogInv
<1> QED
  BY <1>4, <1>5, <1>6, <1>7, <1>8, <1>9 DEF CatalogInv

LEMMA LinesWritten == ASSUME NEW x \in FileState, NEW l \in Line
  PROVE Append(x.lines, l) \in Text
  BY DEF FileState, Text

LEMMA AppendsKeep == ASSUME CatalogAssumption, CatalogInv, NEW f \in File, Appends(f) PROVE CatalogInv'
<1>0. /\ disk[f] \in FileState /\ Len(past[f]) \in Nat /\ NextRev(f) \in Nat
      /\ disk[f].lines # <<>> /\ disk[f].lines[1] = "header"
  <2>1. past[f] \in Seq(FileState \cup {None}) /\ HistoryOK(past[f]) /\ disk[f] = past[f][Len(past[f])]
        /\ disk[f] \in FileState \cup {None} /\ disk[f] # None
    BY DEF CatalogInv, CatalogTypeOK, PastOK, Appends
  <2>2. Len(past[f]) \in DOMAIN past[f] /\ Len(past[f]) \in Nat
    BY <2>1 DEF HistoryOK
  <2> QED
    BY <2>1, <2>2 DEF HistoryOK, NextRev
<1>1. CASE \E l \in Line, torn \in BOOLEAN :
             Written(f, [disk[f] EXCEPT !.rev = NextRev(f), !.lines = Append(@, l), !.torn = torn])
  <2>1. PICK l \in Line, torn \in BOOLEAN :
             Written(f, [disk[f] EXCEPT !.rev = NextRev(f), !.lines = Append(@, l), !.torn = torn])
    BY <1>1
  <2> DEFINE x == [disk[f] EXCEPT !.rev = NextRev(f), !.lines = Append(@, l), !.torn = torn]
  <2>2. Append(disk[f].lines, l) \in Text /\ disk[f].lines \in Seq(Line \cup {"header"})
    BY <1>0, LinesWritten DEF FileState, Text
  <2>3. Append(disk[f].lines, l) # <<>> /\ Append(disk[f].lines, l)[1] = "header"
    BY <1>0, <2>2
  <2>4. x \in FileState /\ x.rev = NextRev(f) /\ x.lines = Append(disk[f].lines, l)
    BY <1>0, <2>2 DEF FileState
  <2> QED
    BY <2>1, <2>3, <2>4, WritesKeep
<1>2. CASE Written(f, [disk[f] EXCEPT !.rev = NextRev(f), !.torn = FALSE])
  <2> DEFINE x == [disk[f] EXCEPT !.rev = NextRev(f), !.torn = FALSE]
  <2>1. x \in FileState /\ x.rev = NextRev(f) /\ x.lines = disk[f].lines
    BY <1>0 DEF FileState
  <2> QED
    BY <1>0, <1>2, <2>1, WritesKeep
<1> QED
  BY <1>1, <1>2 DEF Appends

LEMMA RewritesKeep == ASSUME CatalogAssumption, CatalogInv, NEW f \in File, Rewrites(f) PROVE CatalogInv'
<1>0. disk[f] \in FileState /\ NextRev(f) \in Nat
  BY DEF CatalogInv, CatalogTypeOK, Rewrites, NextRev
<1>1. PICK n \in 0..1 :
        Written(f, [disk[f] EXCEPT !.rev = NextRev(f), !.torn = FALSE,
                    !.lines = [i \in 1..(Len(disk[f].lines) + n) |-> IF i = 1 THEN "header" ELSE "other"]])
  BY DEF Rewrites
<1> DEFINE m == Len(disk[f].lines) + n
           lines == [i \in 1..m |-> IF i = 1 THEN "header" ELSE "other"]
           x == [disk[f] EXCEPT !.rev = NextRev(f), !.torn = FALSE, !.lines = lines]
<1>2. m \in Nat /\ m >= 1
  BY <1>0 DEF Rewrites, FileState, Text
<1>3. lines \in Text /\ lines # <<>> /\ lines[1] = "header"
  <2>1. lines \in [1..m -> Line \cup {"header"}]
    BY DEF Line
  <2>2. lines \in Seq(Line \cup {"header"}) /\ Len(lines) = m
    BY <1>2, <2>1
  <2> QED
    BY <1>2, <2>2 DEF Text
<1>4. x \in FileState /\ x.rev = NextRev(f) /\ x.lines = lines
  BY <1>0, <1>3 DEF FileState
<1> QED
  BY <1>1, <1>3, <1>4, WritesKeep

LEMMA AppearsKeeps == ASSUME CatalogAssumption, CatalogInv, NEW f \in File, Appears(f) PROVE CatalogInv'
<1>1. PICK torn \in BOOLEAN :
        Written(f, [ino |-> NextRev(f), rev |-> NextRev(f), lines |-> <<"header">>, torn |-> torn])
  BY DEF Appears
<1>2. NextRev(f) \in Nat /\ <<"header">> \in Text
  BY DEF CatalogInv, CatalogTypeOK, NextRev, Text
<1>3. [ino |-> NextRev(f), rev |-> NextRev(f), lines |-> <<"header">>, torn |-> torn] \in FileState
  BY <1>2 DEF FileState
<1> QED
  BY <1>1, <1>3, WritesKeep

LEMMA RemovedKeeps == ASSUME CatalogAssumption, CatalogInv, NEW f \in File, Removed(f) PROVE CatalogInv'
  BY WritesKeep DEF Removed

-----------------------------------------------------------------------------
(* Refreshes.                                                              *)

\* What a step that leaves the files alone has to keep.
LEMMA FilesLeft ==
  ASSUME CatalogInv, UNCHANGED <<disk, past>>, env'.hints = env.hints, catalog' \in CatalogState,
         asks' \in [Ask -> Caller], CacheOK(past, catalog'.cache),
         ScanOK(past, catalog'.scan, catalog'.cache), DrainOK(catalog'),
         \A a \in Ask : CallerOK(past, catalog', asks'[a]), ListOK(past, catalog'.snapshot)
  PROVE CatalogInv'
<1>1. CatalogTypeOK' /\ PastOK'
  BY DEF CatalogInv, CatalogTypeOK, PastOK
<1> QED
  BY <1>1 DEF CatalogInv

LEMMA PastKnown == ASSUME CatalogInv, NEW f \in File
  PROVE /\ past[f] \in History /\ HistoryOK(past[f]) /\ disk[f] = past[f][Len(past[f])]
        /\ Len(past[f]) \in Nat \ {0} /\ DOMAIN past[f] = 1..Len(past[f]) /\ Len(past[f]) \in DOMAIN past[f]
        /\ disk[f] \in FileState \cup {None}
        /\ disk[f] # None => disk[f] \in FileState /\ disk[f].rev = Len(past[f])
<1>1. past[f] \in Seq(FileState \cup {None}) /\ HistoryOK(past[f]) /\ disk[f] = past[f][Len(past[f])]
      /\ disk[f] \in FileState \cup {None}
  BY DEF CatalogInv, CatalogTypeOK, PastOK
<1>2. Len(past[f]) \in Nat \ {0} /\ DOMAIN past[f] = 1..Len(past[f]) /\ Len(past[f]) \in DOMAIN past[f]
  BY <1>1 DEF HistoryOK
<1> QED
  BY <1>1, <1>2 DEF History, HistoryOK

LEMMA ScanBegins == ASSUME CatalogAssumption, CatalogInv, NEW c \in CatalogState
  PROVE /\ Scan(c) \in Scanned /\ Scan(c) # None
        /\ \A cache : ScanOK(past, Scan(c), cache)
        /\ \A f \in File : Scan(c).from[f] = Len(past[f])
<1>1. \A f \in File : Len(past[f]) \in Nat /\ Len(past[f]) \in DOMAIN past[f]
  BY PastKnown
<1>2. env.hints \in SUBSET Dir
  BY DEF CatalogInv, CatalogTypeOK
<1>3. Scan(c) \in Scanned
  <2>1. c.snapshot \in Snapshot \cup {None}
    BY DEF CatalogState
  <2>2. [f \in File |-> Len(past[f])] \in [File -> Nat]
    BY <1>1
  <2>3. [d \in Dir |-> None] \in [Dir -> DirScanning \cup {None}]
    OBVIOUS
  <2> QED
    BY <1>2, <2>1, <2>2, <2>3, NothingListed DEF Scan, Scanned
<1>4. Scan(c) # None
  BY <1>3 DEF CatalogAssumption
<1>5. /\ Scan(c).pending = {} /\ Scan(c).scanned = {} /\ Scan(c).covered = {} /\ Scan(c).list = Nothing
      /\ Scan(c).from = [f \in File |-> Len(past[f])]
  BY DEF Scan
<1>6. FoundOK(past, Scan(c))
  BY <1>5, NothingListed DEF FoundOK
<1> QED
  BY <1>1, <1>3, <1>4, <1>5, <1>6 DEF ScanOK

LEMMA StartsRefresh == ASSUME CatalogAssumption, CatalogInv, NEW c \in CatalogState
  PROVE LET n == StartRefresh(c) IN
        /\ n \in CatalogState /\ n.scan # None /\ ScanOK(past, n.scan, n.cache)
        /\ \A f \in File : n.scan.from[f] = Len(past[f])
        /\ n.snapshot = c.snapshot /\ n.cache = c.cache /\ n.drain = c.drain /\ n.covered = c.covered
        /\ n.requested = c.requested
  BY ScanBegins DEF StartRefresh, CatalogState

LEMMA DrainsScans == ASSUME CatalogAssumption, CatalogInv, NEW c \in CatalogState
  PROVE LET n == DrainScans(c) IN
        /\ n \in CatalogState /\ n.scan # None /\ ScanOK(past, n.scan, n.cache)
        /\ \A f \in File : n.scan.from[f] = Len(past[f])
        /\ n.snapshot = c.snapshot /\ n.cache = c.cache /\ n.drain = "scans" /\ n.covered = n.requested
        /\ n.requested = c.requested
<1> DEFINE b == [c EXCEPT !.covered = c.requested, !.drain = "scans"]
<1>1. b \in CatalogState /\ b.covered = b.requested /\ b.drain = "scans" /\ b.snapshot = c.snapshot
      /\ b.cache = c.cache /\ b.requested = c.requested
  BY DEF CatalogState
<1> HIDE DEF b
<1>2. DrainScans(c) = StartRefresh(b)
  BY DEF DrainScans, b
<1> QED
  BY <1>1, <1>2, StartsRefresh

\* A caller, with a request of its own.
LEMMA CallerAsks == ASSUME CatalogInv, NEW a \in Ask, NEW forced \in BOOLEAN, NEW drains \in BOOLEAN
  PROVE LET n == Asked(a, forced, drains) IN
        /\ n \in [Ask -> Caller]
        /\ \A b \in Ask : b # a => n[b] = asks[b]
        /\ n[a].pc = "waits" /\ n[a].forced = forced /\ n[a].drains = drains
        /\ n[a].from = [f \in File |-> Len(past[f])] /\ n[a].from \in [File -> Nat]
<1>1. [f \in File |-> Len(past[f])] \in [File -> Nat]
  BY PastKnown
<1>2. asks \in [Ask -> Caller]
  BY DEF CatalogInv, CatalogTypeOK
<1> DEFINE mark == [f \in File |-> Len(past[f])]
           n == Asked(a, forced, drains)
           x == [asks[a] EXCEPT !.forced = forced, !.drains = drains, !.pc = "waits", !.from = mark]
<1>3. n = [asks EXCEPT ![a] = x]
  <2>1. n = [asks EXCEPT ![a].forced = forced, ![a].drains = drains, ![a].pc = "waits", ![a].from = mark]
    BY DEF Asked
  <2> HIDE DEF mark, n
  <2> QED
    BY <1>2, <2>1
<1>4. mark \in [File -> Nat]
  BY <1>1
<1> HIDE DEF mark
<1>5. x \in Caller /\ x.pc = "waits" /\ x.forced = forced /\ x.drains = drains /\ x.from = mark
  BY <1>2, <1>4 DEF Caller
<1> HIDE DEF n, x
<1>6. n \in [Ask -> Caller] /\ n[a] = x /\ \A b \in Ask : b # a => n[b] = asks[b]
  BY <1>2, <1>3, <1>5
<1>7. /\ n \in [Ask -> Caller]
      /\ \A b \in Ask : b # a => n[b] = asks[b]
      /\ n[a].pc = "waits" /\ n[a].forced = forced /\ n[a].drains = drains
      /\ n[a].from = mark /\ n[a].from \in [File -> Nat]
  BY <1>4, <1>5, <1>6
<1> QED
  BY <1>7 DEF n, mark

LEMMA RefreshKeeps == ASSUME CatalogAssumption, CatalogInv, NEW a \in Ask, Refresh(a) PROVE CatalogInv'
<1>0. /\ catalog \in CatalogState /\ asks \in [Ask -> Caller] /\ CacheOK(past, catalog.cache)
      /\ ScanOK(past, catalog.scan, catalog.cache) /\ DrainOK(catalog) /\ ListOK(past, catalog.snapshot)
      /\ \A b \in Ask : CallerOK(past, catalog, asks[b])
  BY DEF CatalogInv, CatalogTypeOK
<1>1. UNCHANGED <<disk, past>> /\ env'.hints = env.hints
  BY DEF Refresh
<1>2. /\ None \notin [File -> Nat]
      /\ \A f \in File : Len(past[f]) \in Nat /\ Len(past[f]) <= Len(past[f])
  BY PastKnown DEF CatalogAssumption
<1>3. CASE catalog' = ForcedAsked(catalog) /\ asks' = Asked(a, TRUE, TRUE)
  <2>1. /\ asks' \in [Ask -> Caller] /\ \A b \in Ask : b # a => asks'[b] = asks[b]
        /\ asks'[a].pc = "waits" /\ asks'[a].forced /\ asks'[a].drains
        /\ asks'[a].from = [f \in File |-> Len(past[f])] /\ asks'[a].from \in [File -> Nat]
    BY <1>3, CallerAsks
  <2> DEFINE asked == [catalog EXCEPT !.requested = @ + 1]
  <2>2. /\ asked \in CatalogState /\ asked.requested = catalog.requested + 1 /\ asked.snapshot = catalog.snapshot
        /\ asked.cache = catalog.cache /\ asked.drain = catalog.drain /\ asked.covered = catalog.covered
        /\ asked.scan = catalog.scan
    BY <1>0 DEF CatalogState
  <2>3. CASE catalog.drain # "idle"
    <3>1. catalog' = asked
      BY <1>3, <2>3 DEF ForcedAsked
    <3>2. catalog.drain = "scans" => catalog'.covered # catalog'.requested /\ catalog'.covered <= catalog'.requested
      BY <1>0, <2>2, <3>1 DEF DrainOK, CatalogState
    <3>3. DrainOK(catalog')
      BY <1>0, <2>2, <3>1, <3>2 DEF DrainOK
    <3>4. ASSUME NEW b \in Ask PROVE CallerOK(past, catalog', asks'[b])
      BY <1>0, <1>2, <2>1, <2>2, <2>3, <3>1, <3>2 DEF CallerOK
    <3> QED
      BY <1>0, <1>1, <2>1, <2>2, <3>1, <3>3, <3>4, FilesLeft
  <2>4. CASE catalog.drain = "idle" /\ catalog.scan # None
    <3> DEFINE n == [asked EXCEPT !.drain = "awaits"]
    <3>1. catalog' = n
      BY <1>3, <2>4 DEF ForcedAsked
    <3>2. /\ n \in CatalogState /\ n.snapshot = catalog.snapshot /\ n.cache = catalog.cache /\ n.drain = "awaits"
          /\ n.scan = catalog.scan
      BY <2>2 DEF CatalogState
    <3>3. DrainOK(n)
      BY <2>4, <3>2 DEF DrainOK
    <3>4. ASSUME NEW b \in Ask PROVE CallerOK(past, n, asks'[b])
      BY <1>0, <1>2, <2>1, <2>4, <3>2 DEF CallerOK
    <3> QED
      BY <1>0, <1>1, <2>1, <3>1, <3>2, <3>3, <3>4, FilesLeft
  <2>5. CASE catalog.drain = "idle" /\ catalog.scan = None
    <3> DEFINE n == DrainScans(asked)
    <3>1. catalog' = n
      BY <1>3, <2>5 DEF ForcedAsked
    <3>2. /\ n \in CatalogState /\ n.snapshot = catalog.snapshot /\ n.cache = catalog.cache /\ n.drain = "scans"
          /\ ScanOK(past, n.scan, n.cache) /\ n.scan # None /\ n.covered = n.requested
          /\ \A f \in File : n.scan.from[f] = Len(past[f])
      BY <2>2, DrainsScans
    <3> HIDE DEF n
    <3>3. DrainOK(n)
      BY <3>2 DEF DrainOK, CatalogState
    <3>4. ASSUME NEW b \in Ask PROVE CallerOK(past, n, asks'[b])
      BY <1>0, <1>2, <2>1, <2>5, <3>2 DEF CallerOK
    <3> QED
      BY <1>0, <1>1, <2>1, <3>1, <3>2, <3>3, <3>4, FilesLeft
  <2> QED
    BY <2>3, <2>4, <2>5
<1>4. CASE /\ catalog.snapshot # None /\ catalog.fresh
           /\ asks' = [Asked(a, FALSE, FALSE) EXCEPT ![a].pc = "answered", ![a].answer = catalog.snapshot]
           /\ UNCHANGED catalog
  <2> DEFINE n == Asked(a, FALSE, FALSE)
  <2>1. /\ n \in [Ask -> Caller] /\ \A b \in Ask : b # a => n[b] = asks[b]
        /\ n[a].forced = FALSE
        /\ n[a].from = [f \in File |-> Len(past[f])] /\ n[a].from \in [File -> Nat]
    BY CallerAsks
  <2> HIDE DEF n
  <2>2. catalog.snapshot \in Snapshot
    BY <1>0, <1>4 DEF CatalogState
  <2>3. /\ asks' \in [Ask -> Caller] /\ \A b \in Ask : b # a => asks'[b] = asks[b]
        /\ asks'[a].pc = "answered" /\ asks'[a].forced = FALSE /\ asks'[a].from = [f \in File |-> Len(past[f])]
    <3>1. asks' = [n EXCEPT ![a].pc = "answered", ![a].answer = catalog.snapshot]
      BY <1>4 DEF n
    <3>2. asks'[a] = [n[a] EXCEPT !.pc = "answered", !.answer = catalog.snapshot] /\ n[a] \in Caller
      BY <2>1, <3>1
    <3>3. asks'[a] \in Caller /\ asks'[a].pc = "answered" /\ asks'[a].forced = n[a].forced /\ asks'[a].from = n[a].from
      BY <2>2, <3>2 DEF Caller
    <3>4. \A b \in Ask : b # a => asks'[b] = asks[b] /\ asks'[b] \in Caller
      BY <2>1, <3>1
    <3>5. asks' = [b \in Ask |-> asks'[b]]
      BY <2>1, <3>1
    <3> QED
      BY <2>1, <3>3, <3>4, <3>5
  <2>4. ASSUME NEW b \in Ask PROVE CallerOK(past, catalog, asks'[b])
    BY <1>0, <1>2, <2>1, <2>3 DEF CallerOK
  <2> QED
    BY <1>0, <1>1, <1>4, <2>3, <2>4, FilesLeft
<1>5. CASE /\ catalog' = IF catalog.drain # "idle" \/ catalog.scan # None THEN catalog ELSE StartRefresh(catalog)
           /\ asks' = Asked(a, FALSE, catalog.drain # "idle")
  <2>1. /\ asks' \in [Ask -> Caller] /\ \A b \in Ask : b # a => asks'[b] = asks[b]
        /\ asks'[a].pc = "waits" /\ asks'[a].forced = FALSE
        /\ asks'[a].from = [f \in File |-> Len(past[f])] /\ asks'[a].from \in [File -> Nat]
    BY <1>5, CallerAsks
  <2>2. CASE catalog.drain # "idle" \/ catalog.scan # None
    <3>1. catalog' = catalog
      BY <1>5, <2>2
    <3>2. ASSUME NEW b \in Ask PROVE CallerOK(past, catalog, asks'[b])
      BY <1>0, <1>2, <2>1 DEF CallerOK
    <3> QED
      BY <1>0, <1>1, <2>1, <3>1, <3>2, FilesLeft
  <2>3. CASE catalog.drain = "idle" /\ catalog.scan = None
    <3> DEFINE n == StartRefresh(catalog)
    <3>1. catalog' = n
      BY <1>5, <2>3
    <3>2. /\ n \in CatalogState /\ n.snapshot = catalog.snapshot /\ n.cache = catalog.cache /\ n.drain = "idle"
          /\ ScanOK(past, n.scan, n.cache) /\ n.scan # None
      BY <1>0, <2>3, StartsRefresh
    <3> HIDE DEF n
    <3>3. DrainOK(n)
      BY <3>2 DEF DrainOK
    <3>4. ASSUME NEW b \in Ask PROVE CallerOK(past, n, asks'[b])
      BY <1>0, <1>2, <2>1, <2>3, <3>2 DEF CallerOK
    <3> QED
      BY <1>0, <1>1, <2>1, <3>1, <3>2, <3>3, <3>4, FilesLeft
  <2> QED
    BY <2>2, <2>3
<1> QED
  BY <1>3, <1>4, <1>5 DEF Refresh

LEMMA ExpiresKeeps == ASSUME CatalogInv, Expires PROVE CatalogInv'
<1>1. /\ catalog \in CatalogState /\ asks \in [Ask -> Caller] /\ CacheOK(past, catalog.cache)
      /\ ScanOK(past, catalog.scan, catalog.cache) /\ DrainOK(catalog) /\ ListOK(past, catalog.snapshot)
      /\ \A b \in Ask : CallerOK(past, catalog, asks[b])
  BY DEF CatalogInv, CatalogTypeOK
<1>2. /\ catalog' \in CatalogState /\ catalog'.cache = catalog.cache /\ catalog'.scan = catalog.scan
      /\ catalog'.snapshot = catalog.snapshot /\ catalog'.drain = catalog.drain
      /\ catalog'.covered = catalog.covered /\ catalog'.requested = catalog.requested
  BY <1>1 DEF Expires, CatalogState
<1>3. UNCHANGED <<disk, past, asks>> /\ env'.hints = env.hints
  BY DEF Expires
<1>4. DrainOK(catalog') /\ \A b \in Ask : CallerOK(past, catalog', asks[b])
  BY <1>1, <1>2 DEF DrainOK, CallerOK
<1> QED
  BY <1>1, <1>2, <1>3, <1>4, FilesLeft

\* The refresh settles with a list that is true, or with none.
LEMMA SettlesKeeps ==
  ASSUME CatalogAssumption, CatalogInv, catalog.scan # None, UNCHANGED <<disk, past>>, env'.hints = env.hints,
         NEW c \in CatalogState, c.drain = catalog.drain, c.requested = catalog.requested,
         c.covered = catalog.covered, c.snapshot = catalog.snapshot, CacheOK(past, c.cache),
         NEW snapshot \in Snapshot \cup {None}, ListOK(past, snapshot),
         snapshot # None => snapshot.from = catalog.scan.from,
         Settles(c, snapshot)
  PROVE CatalogInv'
<1>0. /\ catalog \in CatalogState /\ asks \in [Ask -> Caller]
      /\ DrainOK(catalog) /\ ListOK(past, catalog.snapshot)
      /\ \A b \in Ask : asks[b] \in Caller /\ CallerOK(past, catalog, asks[b])
  BY DEF CatalogInv, CatalogTypeOK
<1> DEFINE ok == snapshot # None
           forced == c.drain = "scans"
           cleared == [c EXCEPT !.scan = None, !.snapshot = IF ok THEN snapshot ELSE @, !.fresh = ok \/ @,
                                !.completed = IF ok /\ forced THEN c.covered ELSE @]
           owed == c.drain = "awaits" \/ (forced /\ c.requested > c.covered)
<1>1. /\ catalog' = IF owed THEN DrainScans(cleared) ELSE [cleared EXCEPT !.drain = "idle"]
      /\ asks' = [a \in Ask |->
                    IF asks[a].pc = "waits" /\ (asks[a].drains => ~owed)
                    THEN [asks[a] EXCEPT !.pc = IF ok THEN "answered" ELSE "failed", !.answer = snapshot]
                    ELSE asks[a]]
  BY DEF Settles
<1>2. /\ cleared \in CatalogState /\ cleared.scan = None /\ cleared.cache = c.cache
      /\ cleared.snapshot = (IF ok THEN snapshot ELSE catalog.snapshot)
      /\ cleared.requested = catalog.requested /\ cleared.covered = catalog.covered
  BY DEF CatalogState
<1>3. ListOK(past, cleared.snapshot)
  BY <1>0, <1>2
<1> HIDE DEF cleared
<1>4. ASSUME NEW a \in Ask
      PROVE /\ asks'[a] \in Caller /\ asks'[a].from = asks[a].from /\ asks'[a].forced = asks[a].forced
            /\ asks[a].pc = "waits" /\ (asks[a].drains => ~owed) =>
                 asks'[a].pc = (IF ok THEN "answered" ELSE "failed") /\ asks'[a].answer = snapshot
            /\ ~(asks[a].pc = "waits" /\ (asks[a].drains => ~owed)) => asks'[a] = asks[a]
  BY <1>0, <1>1 DEF Caller
<1>5. asks' \in [Ask -> Caller]
  BY <1>1, <1>4
<1>6. CASE owed
  <2> DEFINE n == DrainScans(cleared)
  <2>1. /\ n \in CatalogState /\ n.snapshot = cleared.snapshot /\ n.cache = c.cache /\ n.drain = "scans"
        /\ ScanOK(past, n.scan, n.cache) /\ n.scan # None /\ n.covered = n.requested
        /\ \A f \in File : n.scan.from[f] = Len(past[f])
    BY <1>2, DrainsScans
  <2>2. catalog' = n
    BY <1>1, <1>6
  <2> HIDE DEF n
  <2>3. DrainOK(n)
    BY <2>1 DEF DrainOK, CatalogState
  <2>4. ASSUME NEW a \in Ask PROVE CallerOK(past, n, asks'[a])
    <3>1. CallerOK(past, catalog, asks[a])
      BY <1>0
    <3>2. CASE asks[a].pc = "waits" /\ ~asks[a].drains
      BY <3>1, <3>2, <1>4 DEF CallerOK
    <3>3. CASE ~(asks[a].pc = "waits" /\ ~asks[a].drains)
      <4>1. asks'[a] = asks[a]
        BY <3>3, <1>4, <1>6
      <4> QED
        BY <3>1, <4>1, <2>1 DEF CallerOK
    <3> QED
      BY <3>2, <3>3
  <2> QED
    BY <1>3, <1>5, <2>1, <2>2, <2>3, <2>4, FilesLeft
<1>7. CASE ~owed
  <2> DEFINE n == [cleared EXCEPT !.drain = "idle"]
  <2>1. /\ n \in CatalogState /\ n.snapshot = cleared.snapshot /\ n.cache = c.cache /\ n.drain = "idle"
        /\ n.scan = None
    BY <1>2 DEF CatalogState
  <2>2. catalog' = n
    BY <1>1, <1>7
  <2> HIDE DEF n
  <2>3. DrainOK(n) /\ ScanOK(past, n.scan, n.cache)
    BY <2>1 DEF DrainOK, ScanOK
  <2>4. catalog.drain = "scans" => catalog.covered = catalog.requested
    BY <1>0, <1>7 DEF DrainOK, CatalogState
  <2>5. ASSUME NEW a \in Ask PROVE CallerOK(past, n, asks'[a])
    <3>1. CallerOK(past, catalog, asks[a])
      BY <1>0
    <3>2. CASE asks[a].pc = "waits"
      <4>1. asks[a].forced => catalog.drain = "scans" /\ catalog.covered = catalog.requested
        BY <3>1, <3>2, <1>7, <2>4, <1>0 DEF CallerOK, CatalogState
      <4>2. asks'[a].pc = (IF ok THEN "answered" ELSE "failed") /\ asks'[a].answer = snapshot
            /\ asks'[a].from = asks[a].from /\ asks'[a].forced = asks[a].forced
        BY <3>2, <1>4, <1>7
      <4> QED
        BY <3>1, <3>2, <4>1, <4>2 DEF CallerOK
    <3>3. CASE asks[a].pc # "waits"
      BY <3>1, <3>3, <1>4 DEF CallerOK
    <3> QED
      BY <3>2, <3>3
  <2> QED
    BY <1>3, <1>5, <2>1, <2>2, <2>3, <2>5, FilesLeft
<1> QED
  BY <1>6, <1>7

\* A scan that has found what is true publishes a list that is.
PublishedList(s) ==
  LET kept == {f \in File : /\ s.partial /\ s.previous # None /\ s.list[f] = None
                            /\ DirOf[f] \notin s.covered /\ s.previous.list[f] # None}
  IN [list |-> [f \in File |-> IF f \in kept THEN s.previous.list[f] ELSE s.list[f]],
      partial |-> s.partial, stale |-> s.stale \/ kept # {}, from |-> s.from,
      planned |-> s.scanned, previous |-> IF s.previous = None THEN Nothing ELSE s.previous.list]

LEMMA PublishedTrue ==
  ASSUME CatalogAssumption, CatalogInv, NEW s \in Scanned, s.pending = {}, s.covered \subseteq s.scanned,
         FoundOK(past, s), \A f \in File : s.from[f] \in DOMAIN past[f]
  PROVE PublishedList(s) \in Snapshot /\ ListOK(past, PublishedList(s))
<1> DEFINE kept == {f \in File : /\ s.partial /\ s.previous # None /\ s.list[f] = None
                                 /\ DirOf[f] \notin s.covered /\ s.previous.list[f] # None}
           n == PublishedList(s)
<1>1. /\ n.list = [f \in File |-> IF f \in kept THEN s.previous.list[f] ELSE s.list[f]]
      /\ n.partial = s.partial /\ n.stale = (s.stale \/ kept # {}) /\ n.from = s.from
      /\ n.planned = s.scanned /\ n.previous = (IF s.previous = None THEN Nothing ELSE s.previous.list)
  BY DEF PublishedList
<1>2. \A f \in kept : s.partial /\ s.previous.list[f] # None
  OBVIOUS
<1>3. n \in Snapshot
  <2>1. s.previous # None => s.previous.list \in Listing
    BY DEF Scanned, Snapshot
  <2>2. n.list \in Listing
    BY <1>1, <2>1 DEF Scanned, Listing
  <2>3. n.previous \in Listing
    BY <1>1, <2>1, NothingListed
  <2> QED
    BY <2>2, <2>3 DEF PublishedList, Snapshot, Scanned
<1> HIDE DEF n
<1>4. ASSUME NEW f \in File
      PROVE /\ n.from[f] >= 1
            /\ ~n.partial /\ DirOf[f] \in n.planned => Told(past[f], n.from[f], n.list[f])
            /\ n.partial /\ n.previous[f] # None /\ n.list[f] = None => None \in Deserved(past[f], n.from[f])
            /\ n.partial /\ ~n.stale /\ n.list[f] # None => Told(past[f], n.from[f], n.list[f])
  <2>1. n.from[f] \in DOMAIN past[f] /\ n.from[f] \in Nat \ {0}
    BY <1>1, PastKnown
  <2>2. f \notin kept => n.list[f] = s.list[f]
    BY <1>1
  <2>3. IF DirOf[f] \in s.scanned
        THEN ~s.partial \/ DirOf[f] \in s.covered \/ (~s.stale /\ s.list[f] # None) =>
               Told(past[f], s.from[f], s.list[f])
        ELSE s.list[f] = None
    BY DEF FoundOK
  <2>4. ~n.partial /\ DirOf[f] \in n.planned => Told(past[f], n.from[f], n.list[f])
    BY <1>1, <2>2, <2>3
  <2>5. n.partial /\ n.previous[f] # None /\ n.list[f] = None => None \in Deserved(past[f], n.from[f])
    <3> SUFFICES ASSUME n.partial, n.previous[f] # None, n.list[f] = None
                 PROVE None \in Deserved(past[f], n.from[f])
      OBVIOUS
    <3>1. f \notin kept
      BY <1>1, <1>2
    <3>2. s.previous # None /\ s.previous.list[f] # None
      BY <1>1, NothingListed
    <3>3. DirOf[f] \in s.covered /\ s.list[f] = None
      BY <1>1, <2>2, <3>1, <3>2
    <3>4. Told(past[f], n.from[f], None)
      BY <1>1, <2>3, <3>3
    <3>5. CameAndWent(past[f], n.from[f], None) => None \in Deserved(past[f], n.from[f])
      <4>1. Summary(None) = None
        BY DEF Summary
      <4>2. DOMAIN past[f] = 1..Len(past[f]) /\ Len(past[f]) \in Nat
        BY PastKnown
      <4> QED
        BY <2>1, <4>1, <4>2 DEF CameAndWent, Deserved
    <3> QED
      BY <3>4, <3>5 DEF Told
  <2>6. n.partial /\ ~n.stale /\ n.list[f] # None => Told(past[f], n.from[f], n.list[f])
    BY <1>1, <2>2, <2>3
  <2> QED
    BY <2>1, <2>4, <2>5, <2>6
<1> QED
  BY <1>3, <1>4 DEF ListOK, n

LEMMA PublishesKeep ==
  ASSUME CatalogAssumption, CatalogInv, UNCHANGED <<disk, past>>, env'.hints = env.hints,
         catalog.scan # None, NEW s \in Scanned, s.pending = {}, s.covered \subseteq s.scanned,
         FoundOK(past, s), \A f \in File : s.from[f] \in DOMAIN past[f],
         s.from = catalog.scan.from, Publish(s)
  PROVE CatalogInv'
<1> DEFINE c == [catalog EXCEPT !.cache = [d \in Dir |-> IF d \in s.scanned THEN @[d] ELSE None]]
<1>0. catalog \in CatalogState /\ CacheOK(past, catalog.cache)
  BY DEF CatalogInv, CatalogTypeOK
<1>1. /\ c \in CatalogState /\ c.drain = catalog.drain /\ c.requested = catalog.requested
      /\ c.covered = catalog.covered /\ c.snapshot = catalog.snapshot
      /\ \A d \in Dir : c.cache[d] = IF d \in s.scanned THEN catalog.cache[d] ELSE None
  BY <1>0 DEF CatalogState
<1>2. Settles(c, PublishedList(s))
  BY DEF Publish, PublishedList
<1> HIDE DEF c
<1>3. CacheOK(past, c.cache)
  BY <1>0, <1>1 DEF CacheOK, CachedOK
<1>4. PublishedList(s) \in Snapshot /\ ListOK(past, PublishedList(s))
  BY PublishedTrue
<1>5. PublishedList(s).from = s.from
  BY DEF PublishedList
<1> QED
  BY <1>1, <1>2, <1>3, <1>4, <1>5, SettlesKeeps

-----------------------------------------------------------------------------
(* A scan and its rounds.                                                  *)

LEMMA ScanKnown == ASSUME CatalogInv
  PROVE /\ catalog \in CatalogState /\ asks \in [Ask -> Caller] /\ CacheOK(past, catalog.cache)
        /\ ScanOK(past, catalog.scan, catalog.cache) /\ DrainOK(catalog) /\ ListOK(past, catalog.snapshot)
        /\ \A a \in Ask : CallerOK(past, catalog, asks[a])
        /\ catalog.scan # None =>
             /\ catalog.scan \in Scanned
             /\ \A f \in File : catalog.scan.from[f] \in DOMAIN past[f]
             /\ FoundOK(past, catalog.scan)
             /\ catalog.scan.pending \subseteq catalog.scan.scanned
             /\ catalog.scan.covered \subseteq catalog.scan.scanned \ catalog.scan.pending
  BY DEF CatalogInv, CatalogTypeOK, CatalogState, ScanOK

LEMMA ScansKeep ==
  ASSUME CatalogAssumption, CatalogInv, UNCHANGED <<disk, past>>, env'.hints = env.hints, catalog.scan # None,
         NEW s \in Scanned, s.from = catalog.scan.from, ScanOK(past, s, catalog.cache), Scans(s)
  PROVE CatalogInv'
<1>1. /\ catalog' \in CatalogState /\ catalog'.cache = catalog.cache /\ catalog'.scan = s
      /\ catalog'.snapshot = catalog.snapshot /\ catalog'.drain = catalog.drain
      /\ catalog'.covered = catalog.covered /\ catalog'.requested = catalog.requested /\ asks' = asks
  BY ScanKnown DEF Scans, CatalogState
<1>2. s # None
  BY DEF CatalogAssumption
<1>3. DrainOK(catalog') /\ \A a \in Ask : CallerOK(past, catalog', asks[a])
  BY <1>1, <1>2, ScanKnown DEF DrainOK, CallerOK
<1> QED
  BY <1>1, <1>3, ScanKnown, FilesLeft

LEMMA NoFiles == <<>> \in UNION {[F -> FileScanning] : F \in SUBSET File} /\ DOMAIN <<>> = {}
<1>1. <<>> \in [{} -> FileScanning]
  OBVIOUS
<1>2. [{} -> FileScanning] \in {[F -> FileScanning] : F \in SUBSET File}
  OBVIOUS
<1> QED
  BY <1>1, <1>2

LEMMA DirScanTyped == ASSUME CatalogAssumption PROVE DirScan \in DirScanning /\ DirScan # None
<1>1. DirScan \in DirScanning
  BY NoFiles, NothingListed DEF DirScan, DirScanning
<1> QED
  BY <1>1 DEF CatalogAssumption

LEMMA MetKeeps == ASSUME CatalogInv, NEW o, Met(o) PROVE env'.hints = env.hints
  BY DEF Met, CatalogInv, CatalogTypeOK

LEMMA PlanKeeps == ASSUME CatalogAssumption, CatalogInv, Plan PROVE CatalogInv'
<1> DEFINE s == catalog.scan
           pending == s.known \ s.scanned
<1>1. s # None /\ s.pc = "plan" /\ UNCHANGED <<disk, past>>
  BY DEF Plan
<1>2. PICK o \in Outcome :
        /\ Met(o)
        /\ CASE o = "error" -> Settles(catalog, None)
             [] o = "budget" -> Publish([s EXCEPT !.partial = TRUE, !.stale = @ \/ s.previous # None])
             [] OTHER -> IF pending = {} THEN Publish(s)
                         ELSE Scans([s EXCEPT !.pc = "scan", !.pending = pending, !.scanned = @ \cup pending,
                                              !.dir = [d \in Dir |-> IF d \in pending THEN DirScan ELSE None]])
  BY DEF Plan
<1>3. env'.hints = env.hints
  BY <1>2, MetKeeps
<1>4. /\ s \in Scanned /\ FoundOK(past, s) /\ s.pending = {} /\ s.covered \subseteq s.scanned
      /\ \A f \in File : s.from[f] \in DOMAIN past[f]
  BY <1>1, ScanKnown DEF ScanOK
<1>5. CASE o = "error"
  <2>1. Settles(catalog, None)
    BY <1>2, <1>5
  <2>2. ListOK(past, None)
    BY DEF ListOK
  <2> QED
    BY <1>1, <1>3, <2>1, <2>2, ScanKnown, SettlesKeeps
<1>6. CASE o = "budget"
  <2> DEFINE n == [s EXCEPT !.partial = TRUE, !.stale = @ \/ s.previous # None]
  <2>1. /\ n \in Scanned /\ n.partial /\ n.pending = s.pending /\ n.covered = s.covered /\ n.scanned = s.scanned
        /\ n.list = s.list /\ n.from = s.from /\ (n.stale = (s.stale \/ s.previous # None))
    BY <1>4 DEF Scanned
  <2>2. Publish(n)
    BY <1>2, <1>6
  <2> HIDE DEF n
  <2>3. FoundOK(past, n)
    BY <1>4, <2>1 DEF FoundOK
  <2> QED
    BY <1>1, <1>3, <1>4, <2>1, <2>2, <2>3, PublishesKeep
<1>7. CASE o \notin {"error", "budget"} /\ pending = {}
  <2>1. Publish(s)
    BY <1>2, <1>7
  <2> QED
    BY <1>1, <1>3, <1>4, <2>1, PublishesKeep
<1>8. CASE o \notin {"error", "budget"} /\ pending # {}
  <2> DEFINE n == [s EXCEPT !.pc = "scan", !.pending = pending, !.scanned = @ \cup pending,
                            !.dir = [d \in Dir |-> IF d \in pending THEN DirScan ELSE None]]
  <2>1. Scans(n)
    BY <1>2, <1>8
  <2>2. [d \in Dir |-> IF d \in pending THEN DirScan ELSE None] \in [Dir -> DirScanning \cup {None}]
    BY DirScanTyped
  <2>3. /\ n \in Scanned /\ n.pc = "scan" /\ n.pending = pending /\ n.scanned = s.scanned \cup pending
        /\ n.covered = s.covered /\ n.from = s.from /\ n.list = s.list /\ n.partial = s.partial /\ n.stale = s.stale
        /\ n.dir = [d \in Dir |-> IF d \in pending THEN DirScan ELSE None] /\ pending \subseteq Dir
    BY <1>4, <2>2 DEF Scanned
  <2> HIDE DEF n
  <2>4. n.scanned \ n.pending = s.scanned
    BY <2>3
  <2>5. FoundOK(past, n)
    BY <1>4, <2>3, <2>4 DEF FoundOK
  <2>6. ASSUME NEW d \in n.pending PROVE n.dir[d] # None /\ DirScanOK(past, d, n.dir[d], n.from, catalog.cache[d])
    <3>1. n.dir[d] = DirScan
      BY <2>3
    <3>2. DirScan.pc = "before"
      BY DEF DirScan
    <3> QED
      BY <3>1, <3>2, DirScanTyped DEF DirScanOK
  <2>7. ScanOK(past, n, catalog.cache)
    BY <1>4, <2>3, <2>4, <2>5, <2>6 DEF ScanOK
  <2> QED
    BY <1>1, <1>3, <2>1, <2>3, <2>7, ScansKeep
<1> QED
  BY <1>5, <1>6, <1>7, <1>8

LEMMA RoundEndsKeeps == ASSUME CatalogAssumption, CatalogInv, RoundEnds PROVE CatalogInv'
<1> DEFINE s == catalog.scan
           list == [f \in File |-> IF DirOf[f] \in s.pending THEN SessionsOf(s.dir[DirOf[f]].entries)[f]
                                   ELSE s.list[f]]
           known == s.known \cup ({Reveals[f] : f \in {g \in File : list[g] # None}} \ {None})
           covered == s.covered \cup {d \in s.pending : s.dir[d].covered}
           partial == s.partial \/ \E d \in s.pending : s.dir[d].partial
           stale == s.stale \/ \E d \in s.pending : s.dir[d].stale
           n == [s EXCEPT !.pending = {}, !.dir = [d \in Dir |-> None], !.list = list, !.partial = partial,
                          !.stale = stale, !.covered = covered, !.known = known]
<1>1. /\ s # None /\ s.pc = "scan" /\ UNCHANGED <<disk, past>> /\ env'.hints = env.hints
      /\ \A d \in s.pending : s.dir[d].pc = "done"
      /\ IF s.interrupted THEN Publish([n EXCEPT !.partial = TRUE])
         ELSE IF n.known \subseteq n.scanned THEN Publish(n) ELSE Scans([n EXCEPT !.pc = "plan"])
  BY DEF RoundEnds
<1>2. /\ s \in Scanned /\ FoundOK(past, s) /\ s.covered \subseteq s.scanned \ s.pending /\ s.pending \subseteq s.scanned
      /\ \A f \in File : s.from[f] \in DOMAIN past[f]
      /\ \A d \in s.pending : s.dir[d] # None /\ DirScanOK(past, d, s.dir[d], s.from, catalog.cache[d])
  BY <1>1, ScanKnown DEF ScanOK
<1>3. \A d \in s.pending : s.dir[d] \in DirScanning
  BY <1>2 DEF Scanned
<1>4. ASSUME NEW f \in File, DirOf[f] \in s.pending
      PROVE list[f] = Says(s.dir[DirOf[f]].entries[f]) /\ list[f] \in Listed
  <2>1. s.dir[DirOf[f]].entries[f] \in CacheEntry \cup {None}
    BY <1>3, <1>4 DEF DirScanning, Entries
  <2>2. list[f] = Says(s.dir[DirOf[f]].entries[f])
    BY <1>4 DEF SessionsOf, Says
  <2> QED
    BY <2>1, <2>2 DEF Says, CacheEntry, Listed
<1>5. list \in Listing
  BY <1>2, <1>4 DEF Listing, Scanned
<1>6. known \in SUBSET Dir /\ covered \in SUBSET Dir /\ partial \in BOOLEAN /\ stale \in BOOLEAN
  <2>1. \A f \in File : Reveals[f] \in Dir \cup {None}
    BY DEF CatalogAssumption
  <2>2. s.known \subseteq Dir /\ s.covered \subseteq Dir /\ s.pending \subseteq Dir
    BY <1>2 DEF Scanned
  <2>3. known \in SUBSET Dir
    <3> HIDE DEF list
    <3> QED
      BY <2>1, <2>2
  <2>4. s.partial \in BOOLEAN /\ s.stale \in BOOLEAN
    BY <1>2 DEF Scanned
  <2> QED
    BY <2>2, <2>3, <2>4
<1>7. /\ n \in Scanned /\ n.pc = "scan" /\ n.pending = {} /\ n.scanned = s.scanned /\ n.list = list
      /\ n.partial = partial /\ n.stale = stale /\ n.covered = covered
      /\ n.from = s.from /\ n.dir = [d \in Dir |-> None]
  <2>1. [d \in Dir |-> None] \in [Dir -> DirScanning \cup {None}]
    OBVIOUS
  <2> HIDE DEF list, known, covered, partial, stale
  <2> QED
    BY <1>1, <1>2, <1>5, <1>6, <2>1, ZenonT(100) DEF Scanned
<1> HIDE DEF n
<1>8. FoundOK(past, n)
  <2> SUFFICES ASSUME NEW f \in File
               PROVE IF DirOf[f] \in n.scanned \ n.pending
                     THEN ~n.partial \/ DirOf[f] \in n.covered \/ (~n.stale /\ n.list[f] # None) =>
                            Told(past[f], n.from[f], n.list[f])
                     ELSE n.list[f] = None
    BY DEF FoundOK
  <2>1. CASE DirOf[f] \in s.pending
    <3> DEFINE d == DirOf[f]
    <3>1. DirScanOK(past, d, s.dir[d], s.from, catalog.cache[d]) /\ s.dir[d].pc = "done" /\ f \in FilesOf(d)
      BY <1>1, <1>2, <2>1 DEF FilesOf
    <3>2. /\ s.dir[d].covered => ~s.dir[d].partial
          /\ ~s.dir[d].partial \/ (~s.dir[d].stale /\ Says(s.dir[d].entries[f]) # None) =>
               Told(past[f], s.from[f], Says(s.dir[d].entries[f]))
      BY <3>1 DEF DirScanOK
    <3>3. n.list[f] = Says(s.dir[d].entries[f])
      BY <1>4, <1>7, <2>1
    <3>4. d \in n.covered => s.dir[d].covered
      BY <1>2, <1>7, <2>1
    <3> QED
      BY <1>2, <1>7, <2>1, <3>2, <3>3, <3>4
  <2>2. CASE DirOf[f] \notin s.pending
    <3>1. n.list[f] = s.list[f] /\ (DirOf[f] \in n.covered => DirOf[f] \in s.covered)
          /\ (~n.partial => ~s.partial) /\ (~n.stale => ~s.stale)
      BY <1>7, <2>2
    <3> QED
      BY <1>2, <1>7, <2>2, <3>1 DEF FoundOK
  <2> QED
    BY <2>1, <2>2
<1>9. CASE s.interrupted
  <2> DEFINE m == [n EXCEPT !.partial = TRUE]
  <2>1. /\ m \in Scanned /\ m.partial /\ m.pending = {} /\ m.covered = n.covered /\ m.scanned = n.scanned
        /\ m.list = n.list /\ m.from = n.from /\ m.stale = n.stale
    BY <1>7 DEF Scanned
  <2>2. Publish(m)
    BY <1>1, <1>9
  <2> HIDE DEF m
  <2>3. FoundOK(past, m)
    BY <1>7, <1>8, <2>1 DEF FoundOK
  <2> QED
    BY <1>1, <1>2, <1>7, <2>1, <2>2, <2>3, PublishesKeep, SMTT(60)
<1>10. CASE ~s.interrupted /\ n.known \subseteq n.scanned
  <2>1. Publish(n)
    BY <1>1, <1>10
  <2> QED
    BY <1>1, <1>2, <1>7, <1>8, <2>1, PublishesKeep
<1>11. CASE ~s.interrupted /\ ~(n.known \subseteq n.scanned)
  <2> DEFINE m == [n EXCEPT !.pc = "plan"]
  <2>1. /\ m \in Scanned /\ m.pending = {} /\ m.covered = n.covered /\ m.scanned = n.scanned
        /\ m.list = n.list /\ m.from = n.from /\ m.stale = n.stale /\ m.partial = n.partial
    BY <1>7 DEF Scanned
  <2>2. Scans(m)
    BY <1>1, <1>11
  <2> HIDE DEF m
  <2>3. FoundOK(past, m)
    BY <1>7, <1>8, <2>1 DEF FoundOK
  <2>4. ScanOK(past, m, catalog.cache)
    BY <1>2, <1>7, <2>1, <2>3 DEF ScanOK
  <2> QED
    BY <1>1, <1>2, <1>7, <2>1, <2>2, <2>4, ScansKeep
<1> QED
  BY <1>9, <1>10, <1>11

-----------------------------------------------------------------------------
(* The scan of a directory.                                                *)

LEMMA DirKnown == ASSUME CatalogInv, catalog.scan # None, NEW d \in catalog.scan.pending
  PROVE LET s == catalog.scan IN
        /\ d \in Dir /\ s.dir[d] # None /\ s.dir[d] \in DirScanning
        /\ DirScanOK(past, d, s.dir[d], s.from, catalog.cache[d])
        /\ CachedOK(past, d, catalog.cache[d])
        /\ catalog.cache[d] # None => catalog.cache[d] \in CachedDir
        /\ FilesOf(d) \subseteq File
        /\ \A f \in File : s.from[f] \in DOMAIN past[f]
  BY ScanKnown DEF ScanOK, Scanned, CacheOK, CatalogState, FilesOf

LEMMA StepsKeep ==
  ASSUME CatalogAssumption, CatalogInv, UNCHANGED <<disk, past>>, env'.hints = env.hints, catalog.scan # None,
         NEW d \in catalog.scan.pending, NEW r \in DirScanning,
         DirScanOK(past, d, r, catalog.scan.from, catalog.cache[d]), NEW o, Steps(d, r, o)
  PROVE CatalogInv'
<1> DEFINE s == catalog.scan
           n == [s EXCEPT !.dir[d] = r, !.interrupted = @ \/ o = "budget"]
<1>1. s \in Scanned /\ d \in Dir /\ s.dir \in [Dir -> DirScanning \cup {None}]
  BY ScanKnown, DirKnown DEF Scanned
<1>2. /\ n \in Scanned /\ n.pc = s.pc /\ n.pending = s.pending /\ n.scanned = s.scanned /\ n.covered = s.covered
      /\ n.from = s.from /\ n.list = s.list /\ n.partial = s.partial /\ n.stale = s.stale
      /\ n.dir = [s.dir EXCEPT ![d] = r]
  BY <1>1 DEF Scanned
<1>3. Scans(n)
  BY DEF Steps
<1> HIDE DEF n
<1>4. r # None
  BY DEF CatalogAssumption
<1>5. FoundOK(past, n)
  BY <1>2, ScanKnown DEF FoundOK
<1>6. ASSUME NEW e \in n.pending PROVE n.dir[e] # None /\ DirScanOK(past, e, n.dir[e], n.from, catalog.cache[e])
  <2>1. CASE e = d
    BY <2>1, <1>1, <1>2, <1>4
  <2>2. CASE e # d
    BY <2>2, <1>1, <1>2, ScanKnown DEF ScanOK
  <2> QED
    BY <2>1, <2>2
<1>7. ScanOK(past, n, catalog.cache)
  BY <1>2, <1>5, <1>6, ScanKnown DEF ScanOK
<1> QED
  BY <1>2, <1>3, <1>7, ScansKeep

\* What is cached of a directory that has not changed is true of it.
LEMMA CachedTold ==
  ASSUME CatalogInv, catalog.scan # None, NEW d \in catalog.scan.pending, catalog.cache[d] # None,
         ~catalog.cache[d].retryable, catalog.cache[d].revision = Revision(d), NEW f \in FilesOf(d)
  PROVE Told(past[f], catalog.scan.from[f], Says(catalog.cache[d].files[f]))
<1> DEFINE c == catalog.cache[d]
           h == past[f]
           from == catalog.scan.from[f]
           listed == Says(c.files[f])
<1>1. f \in File /\ from \in DOMAIN h /\ DOMAIN h = 1..Len(h) /\ Len(h) \in Nat \ {0} /\ disk[f] = h[Len(h)]
      /\ (disk[f] # None => disk[f].rev = Len(h))
  BY DirKnown, PastKnown
<1>2. UnderRevision(h, c.revision[f], listed)
  BY DirKnown DEF CachedOK
<1>3. c.revision[f] = Rev(f)
  BY DEF Revision
<1>4. Len(h) \in from..Len(h) /\ Len(h) \in DOMAIN h
  BY <1>1
<1> HIDE DEF c, listed
<1>5. CASE disk[f] # None
  <2>1. c.revision[f] = Len(h) /\ c.revision[f] # 0
    BY <1>1, <1>3, <1>5 DEF Rev
  <2>2. listed = Summary(h[Len(h)])
    BY <1>2, <2>1 DEF UnderRevision
  <2> QED
    BY <1>4, <2>2 DEF Told, Deserved, listed, c
<1>6. CASE disk[f] = None
  <2>1. listed = None \/ Visited(h, listed)
    BY <1>2, <1>3, <1>6 DEF UnderRevision, Rev
  <2>2. CASE listed = None
    <3>1. Summary(h[Len(h)]) = None
      BY <1>1, <1>6 DEF Summary
    <3> QED
      BY <1>4, <2>2, <3>1 DEF Told, Deserved, listed, c
  <2>3. CASE Visited(h, listed)
    <3>1. PICK i, j \in DOMAIN h : i < j /\ h[i] = None /\ h[j] # None /\ listed = Summary(h[j])
      BY <2>3 DEF Visited
    <3>2. j < Len(h) /\ from <= Len(h)
      <4>1. j # Len(h) /\ j \in 1..Len(h) /\ from \in 1..Len(h) /\ Len(h) \in Nat
        BY <1>1, <1>6, <3>1
      <4> QED
        BY <4>1
    <3>3. CameAndWent(h, from, listed)
      BY <1>1, <1>4, <1>6, <3>1, <3>2 DEF CameAndWent
    <3> QED
      BY <3>3 DEF Told, listed, c
  <2> QED
    BY <2>1, <2>2, <2>3
<1> QED
  BY <1>5, <1>6

LEMMA RevisionTyped == ASSUME CatalogInv, NEW d \in Dir
  PROVE /\ Revision(d) \in [FilesOf(d) -> Nat] /\ Revision(d) \in DirRevision
        /\ \A f \in FilesOf(d) : Revision(d)[f] = Rev(f)
<1>1. \A f \in FilesOf(d) : Rev(f) \in Nat
  <2> SUFFICES ASSUME NEW f \in FilesOf(d) PROVE Rev(f) \in Nat
    OBVIOUS
  <2>1. f \in File
    BY DEF FilesOf
  <2> QED
    BY <2>1, PastKnown DEF Rev
<1>2. Revision(d) \in [FilesOf(d) -> Nat]
  BY <1>1 DEF Revision
<1>3. [FilesOf(d) -> Nat] \in {[FilesOf(e) -> Nat] : e \in Dir}
  OBVIOUS
<1> QED
  BY <1>2, <1>3 DEF DirRevision, Revision

\* What a directory's scan ends with.
LEMMA EndsOK ==
  ASSUME NEW r \in DirScanning, NEW entries \in Entries, NEW partial \in BOOLEAN, NEW stale \in BOOLEAN,
         NEW covered \in BOOLEAN, NEW p, NEW d, NEW from, NEW c, covered => ~partial,
         \A f \in FilesOf(d) : ~partial \/ (~stale /\ Says(entries[f]) # None) =>
                                 Told(p[f], from[f], Says(entries[f]))
  PROVE LET n == Ended(r, entries, partial, stale, covered) IN n \in DirScanning /\ DirScanOK(p, d, n, from, c)
<1> DEFINE n == Ended(r, entries, partial, stale, covered)
<1>1. /\ n \in DirScanning /\ n.pc = "done" /\ n.entries = entries /\ n.partial = partial /\ n.stale = stale
      /\ n.covered = covered
  BY DEF Ended, DirScanning
<1> HIDE DEF n
<1>2. DirScanOK(p, d, n, from, c)
  BY <1>1 DEF DirScanOK
<1> QED
  BY <1>1, <1>2 DEF n

LEMMA CachedEntry == ASSUME CatalogInv, catalog.scan # None, NEW d \in catalog.scan.pending
  PROVE /\ CachedFiles(d) \in Entries
        /\ \A f \in File : /\ EntryOK(past[f], CachedFiles(d)[f])
                           /\ CachedFiles(d)[f] # None => CachedFiles(d)[f] \in CacheEntry /\ catalog.cache[d] # None
<1>1. CASE catalog.cache[d] = None
  BY <1>1, NothingListed DEF CachedFiles, EntryOK
<1>2. CASE catalog.cache[d] # None
  BY <1>2, DirKnown DEF CachedFiles, CachedOK, CachedDir, Entries
<1> QED
  BY <1>1, <1>2

LEMMA BeforeKeeps ==
  ASSUME CatalogAssumption, CatalogInv, catalog.scan # None, NEW d \in catalog.scan.pending, Before(d)
  PROVE CatalogInv'
<1> DEFINE r == catalog.scan.dir[d]
           cached == catalog.cache[d]
           from == catalog.scan.from
<1>1. r.pc = "before" /\ UNCHANGED <<disk, past>>
  BY DEF Before
<1>2. PICK o \in Outcome :
        /\ Met(o)
        /\ Steps(d, CASE o = "budget" -> Ended(r, Nothing, TRUE, cached # None, FALSE)
                      [] o = "error" -> Ended(r, CachedFiles(d), TRUE, cached # None, FALSE)
                      [] OTHER -> IF cached # None /\ ~cached.retryable /\ cached.revision = Revision(d)
                                  THEN Ended(r, cached.files, FALSE, FALSE, TRUE)
                                  ELSE [r EXCEPT !.pc = "list", !.before = Revision(d)], o)
  BY DEF Before
<1>3. env'.hints = env.hints
  BY <1>2, MetKeeps
<1>4. /\ d \in Dir /\ r \in DirScanning /\ FilesOf(d) \subseteq File
      /\ cached # None => cached \in CachedDir
  BY DirKnown
<1>5. CASE o = "budget"
  <2> DEFINE n == Ended(r, Nothing, TRUE, cached # None, FALSE)
  <2>1. Steps(d, n, o)
    BY <1>2, <1>5
  <2>2. n \in DirScanning /\ DirScanOK(past, d, n, from, cached)
    <3>1. \A f \in FilesOf(d) : Says(Nothing[f]) = None
      BY <1>4, NothingListed DEF Says
    <3> QED
      BY <1>4, <3>1, NothingListed, EndsOK
  <2> HIDE DEF n
  <2> QED
    BY <1>1, <1>3, <2>1, <2>2, StepsKeep
<1>6. CASE o = "error"
  <2> DEFINE n == Ended(r, CachedFiles(d), TRUE, cached # None, FALSE)
  <2>1. Steps(d, n, o)
    BY <1>2, <1>6
  <2>2. n \in DirScanning /\ DirScanOK(past, d, n, from, cached)
    <3>1. cached = None => \A f \in FilesOf(d) : Says(CachedFiles(d)[f]) = None
      BY <1>4, NothingListed DEF Says, CachedFiles
    <3>2. CachedFiles(d) \in Entries
      BY CachedEntry
    <3> QED
      BY <1>4, <3>1, <3>2, EndsOK
  <2> HIDE DEF n
  <2> QED
    BY <1>1, <1>3, <2>1, <2>2, StepsKeep
<1>7. CASE /\ o \notin {"budget", "error"}
           /\ cached # None /\ ~cached.retryable /\ cached.revision = Revision(d)
  <2> DEFINE n == Ended(r, cached.files, FALSE, FALSE, TRUE)
  <2>1. Steps(d, n, o)
    BY <1>2, <1>7
  <2>2. n \in DirScanning /\ DirScanOK(past, d, n, from, cached)
    <3>1. \A f \in FilesOf(d) : Told(past[f], from[f], Says(cached.files[f]))
      BY <1>7, CachedTold
    <3>2. cached.files \in Entries
      BY <1>4, <1>7 DEF CachedDir
    <3> QED
      BY <1>4, <3>1, <3>2, EndsOK
  <2> HIDE DEF n
  <2> QED
    BY <1>1, <1>3, <2>1, <2>2, StepsKeep
<1>8. CASE /\ o \notin {"budget", "error"}
           /\ ~(cached # None /\ ~cached.retryable /\ cached.revision = Revision(d))
  <2> DEFINE n == [r EXCEPT !.pc = "list", !.before = Revision(d)]
  <2>1. Steps(d, n, o)
    BY <1>2, <1>8
  <2>2. n \in DirScanning /\ n.pc = "list" /\ n.before = Revision(d)
    BY <1>4, RevisionTyped DEF DirScanning
  <2> HIDE DEF n
  <2>3. ASSUME NEW f \in FilesOf(d) PROVE ScansFile(past[f], f, n, from[f], cached)
    <3>1. f \in File /\ from[f] \in DOMAIN past[f]
      BY <1>4, DirKnown
    <3>2. /\ Len(past[f]) \in DOMAIN past[f] /\ DOMAIN past[f] = 1..Len(past[f]) /\ Len(past[f]) \in Nat \ {0}
          /\ disk[f] = past[f][Len(past[f])] /\ (disk[f] # None => disk[f].rev = Len(past[f]))
      BY <3>1, PastKnown
    <3>3. Stood(past[f], n.before[f], Len(past[f]))
      BY <1>4, <2>2, <3>2, RevisionTyped DEF Stood, Rev
    <3>4. FileOK(past[f], f, n, Len(past[f]), cached)
      BY <2>2 DEF FileOK
    <3> QED
      BY <3>1, <3>2, <3>3, <3>4 DEF ScansFile
  <2>4. DirScanOK(past, d, n, from, cached)
    BY <1>4, <2>2, <2>3, RevisionTyped DEF DirScanOK
  <2> QED
    BY <1>1, <1>3, <2>1, <2>2, <2>4, StepsKeep
<1> QED
  BY <1>5, <1>6, <1>7, <1>8

\* A step of the scan of a directory that leaves what it is compared with.
LEMMA DirStepsOK ==
  ASSUME NEW p, NEW d, NEW from, NEW c, NEW r, NEW n, DirScanOK(p, d, r, from, c),
         r.pc \in {"list", "files", "after"}, n.pc \in {"list", "files", "after"}, n.before = r.before,
         \A f \in FilesOf(d) : \A i \in DOMAIN p[f] :
           from[f] <= i /\ FileOK(p[f], f, r, i, c) => FileOK(p[f], f, n, i, c),
         n.pc = "files" => DOMAIN n.files \subseteq FilesOf(d),
         n.pc = "after" => \A f \in File : EntryOK(p[f], n.entries[f])
  PROVE DirScanOK(p, d, n, from, c)
<1>1. ASSUME NEW f \in FilesOf(d) PROVE ScansFile(p[f], f, n, from[f], c)
  BY DEF DirScanOK, ScansFile
<1> QED
  BY <1>1 DEF DirScanOK

LEMMA ListKeeps ==
  ASSUME CatalogAssumption, CatalogInv, catalog.scan # None, NEW d \in catalog.scan.pending, List(d)
  PROVE CatalogInv'
<1> DEFINE r == catalog.scan.dir[d]
           cached == catalog.cache[d]
           from == catalog.scan.from
           there == {g \in FilesOf(d) : disk[g] # None}
           ok == [r EXCEPT !.pc = "files", !.files = [f \in there |-> FileScan]]
           failed(o) == [r EXCEPT !.pc = "after", !.entries = CachedFiles(d), !.retryable = o = "error",
                                  !.partial = TRUE, !.stale = cached # None]
<1>1. r.pc = "list" /\ UNCHANGED <<disk, past>>
  BY DEF List
<1>2. PICK o \in Outcome : Met(o) /\ Steps(d, IF o = "ok" THEN ok ELSE failed(o), o)
  BY DEF List
<1>3. env'.hints = env.hints
  BY <1>2, MetKeeps
<1>4. /\ d \in Dir /\ r \in DirScanning /\ FilesOf(d) \subseteq File /\ DirScanOK(past, d, r, from, cached)
      /\ \A f \in File : from[f] \in DOMAIN past[f]
  BY DirKnown
<1>5. CASE o = "ok"
  <2>1. Steps(d, ok, o)
    BY <1>2, <1>5
  <2>2. FileScan \in FileScanning /\ FileScan.pc = "meta" /\ ~FileScan.budget
    BY DEF FileScan, FileScanning, Listed
  <2>3. [f \in there |-> FileScan] \in UNION {[F -> FileScanning] : F \in SUBSET File}
    <3>1. there \in SUBSET File /\ [f \in there |-> FileScan] \in [there -> FileScanning]
      BY <1>4, <2>2
    <3> QED
      BY <3>1
  <2>4. ok \in DirScanning /\ ok.pc = "files" /\ ok.files = [f \in there |-> FileScan] /\ ok.before = r.before
    BY <1>4, <2>3 DEF DirScanning
  <2> HIDE DEF ok
  <2>5. ASSUME NEW f \in FilesOf(d), NEW i \in DOMAIN past[f] PROVE FileOK(past[f], f, ok, i, cached)
    <3>1. CASE f \in there
      <4>1. ok.files[f] = FileScan /\ f \in DOMAIN ok.files
        BY <2>4, <3>1
      <4>2. FileScanOK(past[f], FileScan, i, cached)
        BY <2>2 DEF FileScanOK
      <4> QED
        BY <2>4, <4>1, <4>2 DEF FileOK
    <3>2. CASE f \notin there
      <4>1. /\ Len(past[f]) \in DOMAIN past[f] /\ i <= Len(past[f]) /\ past[f][Len(past[f])] = None
            /\ f \notin DOMAIN ok.files
        BY <1>4, <2>4, <3>2, PastKnown
      <4> QED
        BY <2>4, <4>1 DEF FileOK, AbsentSince
    <3> QED
      BY <3>1, <3>2
  <2>6. DirScanOK(past, d, ok, from, cached)
    BY <1>1, <1>4, <2>4, <2>5, DirStepsOK
  <2> QED
    BY <1>1, <1>3, <2>1, <2>4, <2>6, StepsKeep
<1>6. CASE o # "ok"
  <2> DEFINE n == failed(o)
  <2>1. Steps(d, n, o)
    BY <1>2, <1>6
  <2>2. CachedFiles(d) \in Entries /\ \A f \in File : EntryOK(past[f], CachedFiles(d)[f])
    BY CachedEntry
  <2>3. /\ n \in DirScanning /\ n.pc = "after" /\ n.entries = CachedFiles(d) /\ n.before = r.before /\ n.partial
        /\ n.stale = (cached # None)
    BY <1>4, <2>2 DEF DirScanning
  <2> HIDE DEF n
  <2>4. ASSUME NEW f \in FilesOf(d), NEW i \in DOMAIN past[f] PROVE FileOK(past[f], f, n, i, cached)
    BY <1>4, <2>3, NothingListed DEF FileOK, CachedFiles
  <2>5. DirScanOK(past, d, n, from, cached)
    BY <1>1, <1>4, <2>2, <2>3, <2>4, DirStepsOK
  <2> QED
    BY <1>1, <1>3, <2>1, <2>3, <2>5, StepsKeep
<1> QED
  BY <1>5, <1>6

LEMMA FilesEndKeeps ==
  ASSUME CatalogAssumption, CatalogInv, catalog.scan # None, NEW d \in catalog.scan.pending, FilesEnd(d)
  PROVE CatalogInv'
<1> DEFINE r == catalog.scan.dir[d]
           x == r.files
           cached == catalog.cache[d]
           from == catalog.scan.from
           budget == \E f \in DOMAIN x : x[f].budget
           retryable == \E f \in DOMAIN x : x[f].retryable
           stale == \/ budget /\ cached # None
                    \/ \E f \in DOMAIN x : x[f].retryable /\ x[f].entry # None
           entries == [f \in File |-> IF f \in DOMAIN x THEN x[f].entry ELSE None]
           n == [r EXCEPT !.pc = "after", !.retryable = retryable, !.partial = budget \/ retryable,
                          !.entries = entries, !.stale = stale, !.files = <<>>]
<1>1. /\ r.pc = "files" /\ UNCHANGED <<disk, past>> /\ env' = env
      /\ \A f \in DOMAIN x : x[f].pc = "done"
      /\ Steps(d, n, "ok")
  BY DEF FilesEnd
<1>2. /\ d \in Dir /\ r \in DirScanning /\ FilesOf(d) \subseteq File /\ DirScanOK(past, d, r, from, cached)
      /\ \A f \in File : from[f] \in DOMAIN past[f]
  BY DirKnown
<1>3. DOMAIN x \subseteq FilesOf(d) /\ \A f \in DOMAIN x : x[f] \in FileScanning
  <2>1. x \in UNION {[F -> FileScanning] : F \in SUBSET File}
    BY <1>2 DEF DirScanning
  <2> QED
    BY <1>1, <1>2, <2>1 DEF DirScanOK
<1>4. ASSUME NEW f \in DOMAIN x, NEW i, FileScanOK(past[f], x[f], i, cached)
      PROVE /\ EntryOK(past[f], x[f].entry)
            /\ ~(budget \/ retryable) \/ (~stale /\ x[f].entry # None) =>
                 x[f].entry # None /\ ReadSince(past[f], i, x[f].entry)
  BY <1>1, <1>4 DEF FileScanOK
<1>5. ASSUME NEW f \in DOMAIN x PROVE \E i \in DOMAIN past[f] : FileScanOK(past[f], x[f], i, cached)
  <2>1. ScansFile(past[f], f, r, from[f], cached)
    BY <1>1, <1>2, <1>3 DEF DirScanOK
  <2> QED
    BY <1>1, <2>1 DEF ScansFile, FileOK
<1>6. entries \in Entries
  BY <1>3 DEF FileScanning, Entries
<1>7. /\ n \in DirScanning /\ n.pc = "after" /\ n.entries = entries /\ n.before = r.before
      /\ n.partial = (budget \/ retryable) /\ n.stale = stale
  <2> HIDE DEF entries, stale, budget, retryable
  <2>1. stale \in BOOLEAN /\ (budget \/ retryable) \in BOOLEAN /\ retryable \in BOOLEAN
    BY <1>3 DEF stale, budget, retryable, FileScanning
  <2> QED
    BY <1>2, <1>6, <2>1, NoFiles DEF DirScanning
<1> HIDE DEF n
<1>8. ASSUME NEW f \in File PROVE EntryOK(past[f], entries[f])
  BY <1>4, <1>5 DEF EntryOK
<1>9. ASSUME NEW f \in FilesOf(d), NEW i \in DOMAIN past[f], FileOK(past[f], f, r, i, cached)
      PROVE FileOK(past[f], f, n, i, cached)
  <2>1. f \in File
    BY <1>2
  <2>2. CASE f \in DOMAIN x
    <3>1. entries[f] = x[f].entry /\ FileScanOK(past[f], x[f], i, cached)
      BY <1>1, <1>9, <2>1, <2>2 DEF FileOK
    <3>2. ~n.partial \/ (~n.stale /\ n.entries[f] # None) =>
            n.entries[f] # None /\ ReadSince(past[f], i, n.entries[f])
      <4> HIDE DEF entries, stale, budget, retryable
      <4> QED
        BY <1>4, <1>7, <2>2, <3>1
    <3> QED
      BY <1>7, <3>2 DEF FileOK, EntrySince
  <2>3. CASE f \notin DOMAIN x
    <3>1. entries[f] = None /\ AbsentSince(past[f], i)
      BY <1>1, <1>9, <2>1, <2>3 DEF FileOK
    <3> QED
      BY <1>7, <3>1 DEF FileOK, EntrySince
  <2> QED
    BY <2>2, <2>3
<1>10. DirScanOK(past, d, n, from, cached)
  BY <1>1, <1>2, <1>7, <1>8, <1>9, DirStepsOK
<1> QED
  BY <1>1, <1>7, <1>10, StepsKeep

LEMMA SinceTold ==
  ASSUME CatalogInv, NEW f \in File, NEW i \in DOMAIN past[f], NEW from \in DOMAIN past[f], from <= i, NEW e,
         EntrySince(past[f], i, e)
  PROVE Told(past[f], from, Says(e))
<1>1. DOMAIN past[f] = 1..Len(past[f]) /\ Len(past[f]) \in Nat
  BY PastKnown
<1>2. PICK v \in DOMAIN past[f] : i <= v /\ Says(e) = Summary(past[f][v])
  BY DEF EntrySince, AbsentSince, ReadSince, ReadAt, Says, Summary
<1>3. v \in from..Len(past[f])
  BY <1>1, <1>2
<1> QED
  BY <1>2, <1>3 DEF Told, Deserved

\* What is cached of a directory that is as it was when its scan began.
LEMMA CachesTrue ==
  ASSUME CatalogInv, catalog.scan # None, NEW d \in catalog.scan.pending, NEW c,
         catalog.scan.dir[d].pc = "after", Revision(d) = catalog.scan.dir[d].before,
         c = [revision |-> catalog.scan.dir[d].before, files |-> catalog.scan.dir[d].entries,
              retryable |-> catalog.scan.dir[d].partial \/ catalog.scan.dir[d].retryable]
  PROVE c \in CachedDir /\ CachedOK(past, d, c)
<1> DEFINE r == catalog.scan.dir[d]
           from == catalog.scan.from
<1>1. /\ d \in Dir /\ r \in DirScanning /\ FilesOf(d) \subseteq File
      /\ DirScanOK(past, d, r, from, catalog.cache[d])
  BY DirKnown
<1>2. c \in CachedDir
  <2>1. r.before \in DirRevision
    BY <1>1, RevisionTyped
  <2> QED
    BY <1>1, <2>1 DEF CachedDir, DirScanning
<1>3. c.files = r.entries /\ c.revision = r.before /\ c.retryable = (r.partial \/ r.retryable)
  OBVIOUS
<1>4. \A f \in File : EntryOK(past[f], c.files[f])
  BY <1>1, <1>3 DEF DirScanOK
<1>5. ASSUME ~c.retryable, NEW f \in FilesOf(d) PROVE UnderRevision(past[f], c.revision[f], Says(c.files[f]))
  <2> DEFINE h == past[f]
             e == r.entries[f]
  <2>1. /\ Len(h) \in Nat \ {0} /\ DOMAIN h = 1..Len(h) /\ disk[f] = h[Len(h)]
        /\ (disk[f] # None => disk[f].rev = Len(h))
    BY <1>1, PastKnown
  <2>2. r.before[f] = Rev(f)
    BY <1>1, RevisionTyped
  <2>3. PICK i \in DOMAIN h : Stood(h, r.before[f], i) /\ EntrySince(h, i, e)
    BY <1>1, <1>3, <1>5 DEF DirScanOK, ScansFile, FileOK
  <2> HIDE DEF e, h
  <2>4. CASE disk[f] = None
    <3>1. r.before[f] = 0 /\ h[i] = None
      BY <2>2, <2>3, <2>4 DEF Rev, Stood
    <3>2. CASE e = None
      BY <1>3, <3>1, <3>2 DEF UnderRevision, Says, e
    <3>3. CASE e # None
      <4>1. PICK v \in DOMAIN h : i <= v /\ h[v] # None /\ e.summary = Summary(h[v])
        BY <2>3, <3>3 DEF EntrySince, ReadSince, ReadAt
      <4>2. i < v
        <5>1. i \in Nat /\ v \in Nat /\ i # v
          BY <2>1, <3>1, <4>1
        <5> QED
          BY <4>1, <5>1
      <4>3. Visited(h, e.summary)
        BY <3>1, <4>1, <4>2 DEF Visited
      <4> QED
        BY <1>3, <3>1, <3>3, <4>3 DEF UnderRevision, Says, e, h
    <3> QED
      BY <3>2, <3>3
  <2>5. CASE disk[f] # None
    <3>1. r.before[f] = Len(h) /\ Len(h) # 0
      BY <2>1, <2>2, <2>5 DEF Rev
    <3>2. i = Len(h)
      BY <2>3, <3>1 DEF Stood
    <3>3. \A k \in DOMAIN h : i <= k => k = Len(h)
      BY <2>1, <3>2
    <3>4. e # None /\ e.summary = Summary(h[Len(h)])
      BY <2>1, <2>3, <2>5, <3>3 DEF EntrySince, AbsentSince, ReadSince, ReadAt
    <3> QED
      BY <1>3, <2>1, <2>5, <3>1, <3>4 DEF UnderRevision, Says, e, h
  <2> QED
    BY <2>4, <2>5
<1> QED
  BY <1>2, <1>4, <1>5 DEF CachedOK

LEMMA AfterKeeps ==
  ASSUME CatalogAssumption, CatalogInv, catalog.scan # None, NEW d \in catalog.scan.pending, After(d)
  PROVE CatalogInv'
<1> DEFINE s == catalog.scan
           r == s.dir[d]
           cached == catalog.cache[d]
           from == s.from
           kept == [revision |-> r.before, files |-> r.entries, retryable |-> r.partial \/ r.retryable]
<1>1. r.pc = "after" /\ UNCHANGED <<disk, past, asks>>
  BY DEF After
<1>2. PICK o \in Outcome :
        /\ Met(o)
        /\ catalog' =
             [catalog EXCEPT
                !.scan.interrupted = @ \/ o = "budget",
                !.scan.dir[d] = IF o = "ok" THEN Ended(r, r.entries, r.partial, r.stale, ~r.partial)
                                ELSE Ended(r, r.entries, TRUE, r.stale \/ cached # None, FALSE),
                !.cache[d] = IF o = "ok" /\ Revision(d) = r.before THEN kept ELSE @]
  BY DEF After
<1>3. env'.hints = env.hints
  BY <1>2, MetKeeps
<1>4. /\ d \in Dir /\ r \in DirScanning /\ FilesOf(d) \subseteq File /\ DirScanOK(past, d, r, from, cached)
      /\ \A f \in File : from[f] \in DOMAIN past[f]
      /\ cached \in CachedDir \cup {None} /\ CachedOK(past, d, cached)
  BY DirKnown
<1> DEFINE n == IF o = "ok" THEN Ended(r, r.entries, r.partial, r.stale, ~r.partial)
                ELSE Ended(r, r.entries, TRUE, r.stale \/ cached # None, FALSE)
           new == IF o = "ok" /\ Revision(d) = r.before THEN kept ELSE cached
           interrupted == s.interrupted \/ o = "budget"
<1>5. new \in CachedDir \cup {None} /\ CachedOK(past, d, new)
  BY <1>1, <1>4, CachesTrue
<1>6. \A f \in FilesOf(d) :
        ~r.partial \/ (~r.stale /\ Says(r.entries[f]) # None) => Told(past[f], from[f], Says(r.entries[f]))
  <2> SUFFICES ASSUME NEW f \in FilesOf(d), ~r.partial \/ (~r.stale /\ Says(r.entries[f]) # None)
               PROVE Told(past[f], from[f], Says(r.entries[f]))
    OBVIOUS
  <2>1. PICK i \in DOMAIN past[f] : from[f] <= i /\ FileOK(past[f], f, r, i, cached)
    BY <1>1, <1>4 DEF DirScanOK, ScansFile
  <2>2. EntrySince(past[f], i, r.entries[f])
    BY <1>1, <2>1 DEF FileOK, Says
  <2> QED
    BY <1>4, <2>1, <2>2, SinceTold
<1>7. n \in DirScanning /\ \A c : DirScanOK(past, d, n, from, c)
  <2>1. r.entries \in Entries /\ r.partial \in BOOLEAN /\ r.stale \in BOOLEAN
    BY <1>4 DEF DirScanning
  <2> QED
    BY <1>4, <1>6, <2>1, EndsOK
<1> HIDE DEF n, new, kept
<1>8. /\ catalog \in CatalogState /\ s \in Scanned /\ s.dir \in [Dir -> DirScanning \cup {None}]
      /\ catalog.cache \in [Dir -> CachedDir \cup {None}]
  BY ScanKnown DEF CatalogState, Scanned
<1> DEFINE m == [s EXCEPT !.interrupted = interrupted, !.dir = [s.dir EXCEPT ![d] = n]]
           cache == [catalog.cache EXCEPT ![d] = new]
<1>9. catalog' = [catalog EXCEPT !.scan = m, !.cache = cache]
  <2>1. catalog' = [catalog EXCEPT !.scan.interrupted = interrupted, !.scan.dir[d] = n, !.cache[d] = new]
    BY <1>2 DEF n, new, kept
  <2> QED
    BY <2>1, <1>8 DEF CatalogState, Scanned
<1>10. /\ m \in Scanned /\ m.pc = s.pc /\ m.pending = s.pending /\ m.scanned = s.scanned /\ m.covered = s.covered
       /\ m.from = s.from /\ m.list = s.list /\ m.partial = s.partial /\ m.stale = s.stale
       /\ m.dir = [s.dir EXCEPT ![d] = n]
  BY <1>7, <1>8 DEF Scanned
<1>11. cache \in [Dir -> CachedDir \cup {None}] /\ CacheOK(past, cache)
  BY <1>5, <1>8, ScanKnown DEF CacheOK
<1> HIDE DEF m, cache
<1>12. /\ catalog' \in CatalogState /\ catalog'.cache = cache /\ catalog'.scan = m
       /\ catalog'.snapshot = catalog.snapshot /\ catalog'.drain = catalog.drain
       /\ catalog'.covered = catalog.covered /\ catalog'.requested = catalog.requested
  BY <1>8, <1>9, <1>10, <1>11 DEF CatalogState
<1>13. ASSUME NEW e \in m.pending PROVE m.dir[e] # None /\ DirScanOK(past, e, m.dir[e], m.from, cache[e])
  <2>1. CASE e = d
    <3>1. n # None
      BY <1>7 DEF CatalogAssumption
    <3> QED
      BY <2>1, <3>1, <1>4, <1>7, <1>8, <1>10
  <2>2. CASE e # d
    <3>1. cache[e] = catalog.cache[e] /\ m.dir[e] = s.dir[e]
      BY <2>2, <1>8, <1>10, ScanKnown DEF cache, Scanned
    <3> QED
      BY <3>1, <1>10, ScanKnown DEF ScanOK
  <2> QED
    BY <2>1, <2>2
<1>14. ScanOK(past, m, cache)
  <2>1. FoundOK(past, m)
    BY <1>10, ScanKnown DEF FoundOK
  <2> QED
    BY <1>10, <1>13, <2>1, ScanKnown DEF ScanOK
<1>15. m # None
  BY <1>10 DEF CatalogAssumption
<1>16. DrainOK(catalog') /\ \A a \in Ask : CallerOK(past, catalog', asks'[a])
  BY <1>1, <1>10, <1>12, <1>15, ScanKnown DEF DrainOK, CallerOK
<1> QED
  BY <1>1, <1>3, <1>11, <1>12, <1>14, <1>16, ScanKnown, FilesLeft

-----------------------------------------------------------------------------
(* The scan of a file.                                                     *)

LEMMA FirstLine == ASSUME NEW s \in Seq(Line \cup {"header"}), NEW u \in Seq(Line \cup {"header"}), s # <<>>
  PROVE s \o u # <<>> /\ (s \o u)[1] = s[1]
  OBVIOUS

LEMMA Halves == ASSUME NEW m \in Nat PROVE (2 * m + 1) \div 2 + 1 = m + 1
  OBVIOUS

\* What is read from the offset of the cached scan on, after what that scan
\* read, is what the file says.
LEMMA IncrementalRead ==
  ASSUME NEW file \in FileState, NEW seen \in Text, Len(seen) <= Len(file.lines),
         SubSeq(file.lines, 1, Len(seen)) = seen
  PROVE LET all == seen \o Added(file, 2 * Len(seen)) IN
        /\ all \in Text
        /\ Size(file) > 2 * Len(seen) => all = Complete(file)
<1> DEFINE lines == file.lines
           Kind == Line \cup {"header"}
           n == Len(lines)
           m == Len(seen)
           last == IF file.torn THEN n - 1 ELSE n
           added == SubSeq(lines, m + 1, last)
           all == seen \o added
<1>1. lines \in Seq(Kind) /\ seen \in Seq(Kind) /\ n \in Nat /\ m \in Nat /\ m <= n /\ last \in Int
  BY DEF FileState, Text
<1>2. (2 * m + 1) \div 2 + 1 = m + 1
  BY <1>1
<1>3. Added(file, 2 * Len(seen)) = added
  BY <1>2 DEF Added
<1>4. added \in Seq(Kind) /\ Len(added) = IF m + 1 <= last THEN last - m ELSE 0
  BY <1>1
<1>5. all \in Text /\ Len(all) = m + Len(added)
  BY <1>1, <1>4 DEF Text
<1>6. ASSUME Size(file) > 2 * m PROVE all = Complete(file)
  <2>1. m <= last
    BY <1>1, <1>6 DEF Size, FileState
  <2>2. Complete(file) = SubSeq(lines, 1, last) /\ SubSeq(lines, 1, last) \in Seq(Kind)
        /\ Len(SubSeq(lines, 1, last)) = last
    BY <1>1, <2>1 DEF Complete
  <2>3. Len(all) = last
    BY <1>1, <1>4, <1>5, <2>1
  <2>4. ASSUME NEW i \in 1..last PROVE all[i] = SubSeq(lines, 1, last)[i]
    <3>1. SubSeq(lines, 1, last)[i] = lines[i]
      BY <1>1, <2>1
    <3>2. CASE i <= m
      <4>1. all[i] = seen[i]
        BY <1>1, <1>4, <3>2
      <4>2. SubSeq(lines, 1, m)[i] = lines[i]
        BY <1>1, <3>2
      <4> QED
        BY <3>1, <4>1, <4>2
    <3>3. CASE i > m
      <4>1. all[i] = added[i - m]
        BY <1>1, <1>4, <2>1, <3>3
      <4>2. added[i - m] = lines[i]
        BY <1>1, <2>1, <3>3
      <4> QED
        BY <3>1, <4>1, <4>2
    <3> QED
      BY <1>1, <3>2, <3>3
  <2>5. all \in Seq(Kind)
    BY <1>5 DEF Text
  <2> HIDE DEF all
  <2> QED
    BY <2>2, <2>3, <2>4, <2>5
<1> QED
  BY <1>3, <1>5, <1>6

\* A step of the scan of f, whose directory was looked at in state i.
FileInv(h, x, i, c) == x \in FileScanning /\ FileScanOK(h, x, i, c)

LEMMA Endings ==
  ASSUME NEW h, NEW x \in FileScanning, NEW i, NEW c, NEW cached \in CacheEntry \cup {None}, EntryOK(h, cached),
         cached # None => c # None
  PROVE /\ FileInv(h, Retryable(x, cached), i, c)
        /\ FileInv(h, OverBudget(x, cached), i, c)
        /\ cached # None /\ ReadSince(h, i, cached) => FileInv(h, Keeps(x, cached), i, c)
<1>1. LET n == Retryable(x, cached) IN
      n \in FileScanning /\ n.pc = "done" /\ n.entry = cached /\ n.retryable /\ n.budget = x.budget
  BY DEF Retryable, FileScanning
<1>2. LET n == OverBudget(x, cached) IN
      n \in FileScanning /\ n.pc = "done" /\ n.entry = cached /\ n.budget
  BY DEF OverBudget, FileScanning
<1>3. LET n == Keeps(x, cached) IN n \in FileScanning /\ n.pc = "done" /\ n.entry = cached
  BY DEF Keeps, FileScanning
<1> QED
  BY <1>1, <1>2, <1>3 DEF FileInv, FileScanOK

\* The entry of a file that was read says what one of its states says.
LEMMA ReadsOK ==
  ASSUME NEW h \in History, NEW x \in FileScanning, NEW i \in DOMAIN h, NEW c, c # None \/ ~x.budget, Looked(h, x, i),
         NEW seen \in Text, NEW safe \in BOOLEAN, NEW summary \in Text \cup {None}, summary # None => seen = summary,
         safe /\ summary # None => Size(x.now) = 2 * Len(seen),
         NEW v \in DOMAIN h, x.now.rev <= v, h[v] # None, summary = Summary(h[v]), CatalogAssumption
  PROVE FileInv(h, Read(x, seen, safe, summary), i, c)
<1> DEFINE e == Entry(x, seen, safe, summary)
           n == Read(x, seen, safe, summary)
<1>1. /\ e \in CacheEntry /\ e.revision = x.meta.rev /\ e.seen = seen /\ e.safe = safe /\ e.summary = summary
      /\ e.offset = Size(x.now)
  <2>1. Size(x.meta) \in Int /\ Size(x.now) \in Int
    BY DEF Size, Looked, FileState, Text
  <2> QED
    BY <2>1 DEF Entry, CacheEntry, Looked, FileState
<1>2. n \in FileScanning /\ n.pc = "done" /\ n.entry = e /\ n.budget = x.budget
  BY <1>1 DEF Read, FileScanning
<1> HIDE DEF e, n
<1>3. e # None
  BY <1>1 DEF CatalogAssumption
<1>4. x.meta.rev <= v /\ i <= v
  <2>1. x.meta.rev \in Nat /\ x.now.rev \in Nat /\ v \in Nat /\ i \in Nat /\ x.meta.rev <= x.now.rev /\ i <= x.now.rev
    BY DEF Looked, FileState, History
  <2> QED
    BY <2>1
<1>5. ReadAt(h, e, v)
  BY <1>1 DEF ReadAt
<1>6. EntryOK(h, e) /\ ReadSince(h, i, e)
  BY <1>1, <1>4, <1>5 DEF EntryOK, ReadSince
<1> QED
  BY <1>2, <1>3, <1>6 DEF FileInv, FileScanOK, n

LEMMA FileStepKeeps ==
  ASSUME CatalogAssumption, CatalogInv, NEW f \in File, NEW x, NEW i \in DOMAIN past[f], NEW c,
         FileInv(past[f], x, i, c), x.pc # "done", NEW cached \in CacheEntry \cup {None},
         EntryOK(past[f], cached), cached # None => c # None
  PROVE FileInv(past[f], FileStep(f, x, cached), i, c)
<1> DEFINE h == past[f]
<1>1. /\ h \in History /\ HistoryOK(h) /\ disk[f] = h[Len(h)] /\ Len(h) \in Nat \ {0} /\ DOMAIN h = 1..Len(h)
      /\ Len(h) \in DOMAIN h
      /\ disk[f] # None => disk[f] \in FileState /\ disk[f].rev = Len(h)
  BY PastKnown
<1>2. x \in FileScanning /\ FileScanOK(h, x, i, c) /\ ~x.budget
  BY DEF FileInv, FileScanOK
<1>3. i <= Len(h) /\ Len(h) <= Len(h)
  BY <1>1
<1>4. FileInv(h, Retryable(x, cached), i, c)
  BY <1>2, Endings
<1> HIDE DEF h
\* A scan that begins, or begins again, with what the file is now.
<1>5. ASSUME disk[f] # None, NEW n \in FileScanning, n.pc = "open", n.now = disk[f], ~n.budget,
             n.meta \in FileState, n.meta.rev <= Len(h)
      PROVE FileInv(h, n, i, c)
  BY <1>1, <1>3, <1>5 DEF FileInv, FileScanOK, Looked
<1>6. ASSUME x.pc \in {"open", "read", "final"} PROVE FileInv(h, Retries(f, x, cached), i, c)
  <2>1. CASE x.attempt = 2 \/ disk[f] = None
    BY <1>4, <2>1 DEF Retries
  <2>2. CASE x.attempt # 2 /\ disk[f] # None
    <3> DEFINE n == [x EXCEPT !.pc = "open", !.attempt = 2, !.now = disk[f]]
    <3>0. 2 \in 1..2 /\ disk[f] \in FileState
      BY <1>1, <2>2
    <3>1. n \in FileScanning /\ n.pc = "open" /\ n.now = disk[f] /\ n.budget = x.budget /\ n.meta = x.meta
      BY <1>2, <3>0 DEF FileScanning
    <3> HIDE DEF n
    <3>2. x.meta \in FileState /\ x.meta.rev <= Len(h)
      <4>1. x.meta \in FileState /\ x.now \in FileState /\ x.meta.rev <= x.now.rev /\ x.now.rev \in 1..Len(h)
        BY <1>1, <1>2, <1>6 DEF FileScanOK, Looked
      <4> QED
        BY <1>1, <4>1 DEF FileState
    <3>3. FileInv(h, n, i, c)
      BY <1>2, <1>5, <2>2, <3>1, <3>2
    <3> QED
      BY <2>2, <3>3 DEF Retries, n
  <2> QED
    BY <2>1, <2>2
<1>7. CASE x.pc = "meta"
  <2>1. CASE disk[f] = None
    BY <1>4, <1>7, <2>1 DEF FileStep, Stat, h
  <2>2. CASE disk[f] # None /\ cached # None /\ cached.revision = disk[f].rev
    <3>1. ReadSince(h, i, cached)
      <4>1. PICK v \in DOMAIN h : Len(h) <= v /\ ReadAt(h, cached, v)
        BY <1>1, <2>2 DEF EntryOK, ReadSince, h
      <4>2. i <= v
        BY <1>1, <1>3, <4>1
      <4> QED
        BY <4>1, <4>2 DEF ReadSince
    <3>2. FileInv(h, Keeps(x, cached), i, c)
      BY <1>2, <2>2, <3>1, Endings DEF h
    <3> QED
      BY <1>7, <2>2, <3>2 DEF FileStep, Stat, h
  <2>3. CASE disk[f] # None /\ ~(cached # None /\ cached.revision = disk[f].rev)
    <3> DEFINE n == [x EXCEPT !.pc = "open", !.meta = disk[f], !.now = disk[f]]
    <3>1. n \in FileScanning /\ n.pc = "open" /\ n.now = disk[f] /\ n.budget = x.budget /\ n.meta = disk[f]
      BY <1>1, <1>2, <2>3 DEF FileScanning
    <3> HIDE DEF n
    <3>2. FileInv(h, n, i, c)
      BY <1>1, <1>2, <1>3, <1>5, <2>3, <3>1
    <3> QED
      BY <1>7, <2>3, <3>2 DEF FileStep, Stat, h, n
  <2> QED
    BY <2>1, <2>2, <2>3
<1>8. CASE x.pc = "open"
  <2>1. CASE disk[f] = None
    BY <1>4, <1>8, <2>1 DEF FileStep, Open, h
  <2>2. CASE disk[f] # None /\ disk[f].rev # x.now.rev
    BY <1>6, <1>8, <2>2 DEF FileStep, Open, h
  <2>3. CASE disk[f] # None /\ disk[f].rev = x.now.rev
    <3> DEFINE n == [x EXCEPT !.pc = "read", !.open = disk[f]]
    <3>1. n \in FileScanning /\ n.pc = "read" /\ n.open = disk[f] /\ n.now = x.now /\ n.meta = x.meta
          /\ n.budget = x.budget
      BY <1>1, <1>2, <2>3 DEF FileScanning
    <3> HIDE DEF n
    <3>2. Looked(h, x, i)
      BY <1>2, <1>8 DEF FileScanOK
    <3>3. disk[f] = x.now
      BY <1>1, <2>3, <3>2 DEF Looked
    <3>4. FileInv(h, n, i, c)
      BY <1>2, <3>1, <3>2, <3>3 DEF FileInv, FileScanOK, Looked
    <3> QED
      BY <1>8, <2>3, <3>4 DEF FileStep, Open, h, n
  <2> QED
    BY <2>1, <2>2, <2>3
<1>9. CASE x.pc = "read"
  <2> DEFINE file == Opened(f, x)
             v == file.rev
  <2>1. Looked(h, x, i) /\ x.open = x.now
    BY <1>2, <1>9 DEF FileScanOK
  <2>2. (file = disk[f] /\ disk[f] # None) \/ file = x.now
    BY <2>1 DEF Opened
  <2>3. /\ file \in FileState /\ v \in DOMAIN h /\ h[v] = file /\ x.now.rev <= v
        /\ x.now.rev = Len(h) => file = x.now
    <3>1. x.now \in FileState /\ x.now.rev \in 1..Len(h) /\ x.now.rev \in Nat /\ h[x.now.rev] = x.now
      BY <1>1, <2>1 DEF Looked, FileState
    <3>2. CASE file = disk[f] /\ disk[f] # None
      BY <1>1, <3>1, <3>2
    <3>3. CASE file = x.now
      BY <1>1, <3>1, <3>3
    <3> QED
      BY <2>2, <3>2, <3>3
  <2>4. file # None /\ file.lines # <<>> /\ file.lines[1] = "header"
    BY <1>1, <2>3 DEF HistoryOK, CatalogAssumption
  <2> HIDE DEF file
  <2>5. FileStep(f, x, cached) = Lines(f, x, cached)
    BY <1>9 DEF FileStep
  \* What a scan that goes on to the second stat has to know.
  <2>6. ASSUME NEW seen \in Text, NEW safe \in BOOLEAN,
               x.now.rev = Len(h) => seen = Complete(x.now) /\ safe = ~x.now.torn /\ HasHeader(x.now)
        PROVE FileInv(h, [x EXCEPT !.pc = "final", !.seen = seen, !.safe = safe], i, c)
    <3> DEFINE n == [x EXCEPT !.pc = "final", !.seen = seen, !.safe = safe]
    <3>1. n \in FileScanning /\ n.pc = "final" /\ n.open = x.open /\ n.now = x.now /\ n.meta = x.meta
          /\ n.budget = x.budget /\ n.seen = seen /\ n.safe = safe
      BY <1>2 DEF FileScanning, Listed
    <3> HIDE DEF n
    <3>2. FileInv(h, n, i, c)
      BY <1>2, <2>1, <2>6, <3>1 DEF FileInv, FileScanOK, Looked
    <3> QED
      BY <3>2 DEF n
  <2>7. CASE Incremental(x, file, cached)
    <3> DEFINE all == cached.seen \o Added(file, cached.offset)
    <3>1. /\ cached \in CacheEntry /\ cached.seen \in Text /\ cached.summary # None
          /\ Len(cached.seen) <= Len(file.lines) /\ SubSeq(file.lines, 1, Len(cached.seen)) = cached.seen
          /\ Size(x.now) > cached.offset
      BY <2>3, <2>7 DEF Incremental, CacheEntry, FileState, Text
    <3>2. cached.seen = cached.summary /\ cached.offset = 2 * Len(cached.seen)
      BY <2>7, <3>1 DEF Incremental, EntryOK
    <3>3. all \in Text /\ (Size(file) > cached.offset => all = Complete(file))
      BY <2>3, <3>1, <3>2, IncrementalRead
    <3>4. cached.seen # <<>> /\ cached.seen[1] = "header"
      <4>1. PICK w : cached.summary = Summary(past[f][w])
        BY <3>1 DEF EntryOK, ReadSince, ReadAt, CatalogAssumption
      <4> QED
        BY <3>1, <3>2, <4>1 DEF Summary, HasHeader
    <3>5. all # <<>> /\ all[1] = "header"
      <4> DEFINE m == Len(cached.seen)
                 last == IF file.torn THEN Len(file.lines) - 1 ELSE Len(file.lines)
      <4>1. m \in Nat /\ file.lines \in Seq(Line \cup {"header"}) /\ Len(file.lines) \in Nat
            /\ cached.seen \in Seq(Line \cup {"header"}) /\ m >= 1 /\ last \in Int /\ last <= Len(file.lines)
        BY <2>3, <3>1, <3>4 DEF FileState, Text
      <4>2. (2 * m + 1) \div 2 + 1 = m + 1
        BY <4>1, Halves
      <4>3. Added(file, cached.offset) = SubSeq(file.lines, m + 1, last)
        BY <3>2, <4>2 DEF Added
      <4>4. SubSeq(file.lines, m + 1, last) \in Seq(Line \cup {"header"})
        BY <4>1
      <4> QED
        BY <3>4, <4>1, <4>3, <4>4, FirstLine
    <3>6. x.now.rev = Len(h) => all = Complete(x.now) /\ (~file.torn) = (~x.now.torn) /\ HasHeader(x.now)
      BY <2>3, <3>1, <3>3, <3>5 DEF HasHeader
    <3>7. (~file.torn) \in BOOLEAN
      OBVIOUS
    <3> HIDE DEF all
    <3>8. FileInv(h, [x EXCEPT !.pc = "final", !.seen = all, !.safe = ~file.torn], i, c)
      BY <2>6, <3>3, <3>6, <3>7
    <3> QED
      BY <2>5, <2>7, <3>8 DEF Lines, all, file, h
  <2>8. CASE ~Incremental(x, file, cached) /\ ~HasHeader(file)
    <3>1. Summary(file) = None /\ <<>> \in Text
      BY <2>8 DEF Summary, Text
    <3>2. FileInv(h, Read(x, <<>>, FALSE, None), i, c)
      BY <1>1, <1>2, <2>1, <2>3, <2>4, <3>1, ReadsOK DEF h
    <3> QED
      BY <2>5, <2>8, <3>2 DEF Lines, file, h
  <2>9. CASE ~Incremental(x, file, cached) /\ HasHeader(file)
    <3>1. Complete(file) \in Text
      BY <2>3, <2>4 DEF Complete, FileState, Text
    <3>2. FileInv(h, [x EXCEPT !.pc = "final", !.seen = Complete(file), !.safe = ~file.torn], i, c)
      BY <2>3, <2>6, <2>9, <3>1
    <3> QED
      BY <2>5, <2>9, <3>2 DEF Lines, file, h
  <2> QED
    BY <2>7, <2>8, <2>9
<1>10. CASE x.pc = "final"
  <2>1. CASE disk[f] = None
    BY <1>4, <1>10, <2>1 DEF FileStep, Final, h
  <2>2. CASE disk[f] # None /\ disk[f].rev # x.now.rev
    BY <1>6, <1>10, <2>2 DEF FileStep, Final, h
  <2>3. CASE disk[f] # None /\ disk[f].rev = x.now.rev
    <3>1. Looked(h, x, i)
      BY <1>2, <1>10 DEF FileScanOK
    <3>2. x.now.rev = Len(h) /\ x.now = disk[f]
      BY <1>1, <2>3, <3>1 DEF Looked
    <3>3. x.seen = Complete(x.now) /\ x.safe = ~x.now.torn /\ HasHeader(x.now)
      BY <1>2, <1>10, <3>2 DEF FileScanOK
    <3>4. /\ x.now \in FileState /\ x.now # None /\ x.now.lines # <<>>
          /\ x.seen \in Text /\ Summary(x.now) = x.seen
      BY <1>1, <2>3, <3>1, <3>2, <3>3 DEF HistoryOK, Summary, Complete, FileState, Text
    <3>5. x.safe => Size(x.now) = 2 * Len(x.seen)
      <4>1. x.safe => ~x.now.torn /\ x.seen = x.now.lines
        BY <3>3 DEF Complete
      <4>2. Len(x.now.lines) \in Nat
        BY <3>4 DEF FileState, Text
      <4>3. ~x.now.torn => Size(x.now) = 2 * Len(x.now.lines)
        BY <4>2 DEF Size
      <4> QED
        BY <4>1, <4>3
    <3>6. x.safe \in BOOLEAN
      BY <1>2 DEF FileScanning
    <3>7. x.now.rev <= Len(h) /\ h[Len(h)] = x.now
      BY <1>1, <3>2
    <3>8. FileInv(h, Read(x, x.seen, x.safe, x.seen), i, c)
      BY <1>1, <1>2, <3>1, <3>4, <3>5, <3>6, <3>7, ReadsOK DEF h
    <3> QED
      BY <1>10, <2>3, <3>8 DEF FileStep, Final, h
  <2> QED
    BY <2>1, <2>2, <2>3
<1>11. x.pc \in {"meta", "open", "read", "final", "done"}
  BY <1>2 DEF FileScanning
<1> QED
  BY <1>7, <1>8, <1>9, <1>10, <1>11 DEF h

LEMMA ScanFileKeeps ==
  ASSUME CatalogAssumption, CatalogInv, catalog.scan # None, NEW d \in catalog.scan.pending, NEW f \in FilesOf(d),
         ScanFile(d, f)
  PROVE CatalogInv'
<1> DEFINE r == catalog.scan.dir[d]
           x == r.files[f]
           c == catalog.cache[d]
           cached == CachedFiles(d)[f]
           from == catalog.scan.from
           next(o) == CASE o = "budget" -> OverBudget(x, cached)
                        [] o = "error" -> Retryable(x, cached)
                        [] OTHER -> FileStep(f, x, cached)
<1>1. r.pc = "files" /\ f \in DOMAIN r.files /\ x.pc # "done" /\ UNCHANGED <<disk, past>>
  BY DEF ScanFile
<1>2. PICK o \in Outcome : Met(o) /\ Steps(d, [r EXCEPT !.files[f] =
                                                 CASE o = "budget" -> OverBudget(@, cached)
                                                   [] o = "error" -> Retryable(@, cached)
                                                   [] OTHER -> FileStep(f, @, cached)], o)
  BY DEF ScanFile
<1>3. env'.hints = env.hints
  BY <1>2, MetKeeps
<1>4. /\ d \in Dir /\ r \in DirScanning /\ FilesOf(d) \subseteq File /\ DirScanOK(past, d, r, from, c)
      /\ f \in File
  BY DirKnown
<1>5. PICK F \in SUBSET File : r.files \in [F -> FileScanning]
  BY <1>4 DEF DirScanning
<1>6. x \in FileScanning /\ cached \in CacheEntry \cup {None} /\ EntryOK(past[f], cached) /\ (cached # None => c # None)
  BY <1>1, <1>4, <1>5, CachedEntry DEF Entries
<1>7. ASSUME NEW i \in DOMAIN past[f], FileScanOK(past[f], x, i, c)
      PROVE FileInv(past[f], next(o), i, c)
  <2>1. FileInv(past[f], x, i, c)
    BY <1>6, <1>7 DEF FileInv
  <2>2. CASE o = "budget"
    BY <1>6, <2>2, Endings
  <2>3. CASE o = "error"
    BY <1>6, <2>3, Endings
  <2>4. CASE o \notin {"budget", "error"}
    BY <1>1, <1>4, <1>6, <2>1, <2>4, FileStepKeeps
  <2> QED
    BY <2>2, <2>3, <2>4
<1> DEFINE new == next(o)
           n == [r EXCEPT !.files = [r.files EXCEPT ![f] = new]]
<1>8. Steps(d, n, o)
  BY <1>2
<1>9. \E i \in DOMAIN past[f] : FileScanOK(past[f], x, i, c)
  BY <1>1, <1>4 DEF DirScanOK, ScansFile, FileOK
<1> HIDE DEF new
<1>10. new \in FileScanning
  BY <1>7, <1>9 DEF FileInv, new
<1>11. [r.files EXCEPT ![f] = new] \in UNION {[G -> FileScanning] : G \in SUBSET File}
  <2>1. [r.files EXCEPT ![f] = new] \in [F -> FileScanning]
    BY <1>5, <1>10
  <2> QED
    BY <2>1
<1>12. /\ n \in DirScanning /\ n.pc = "files" /\ n.before = r.before
       /\ n.files = [r.files EXCEPT ![f] = new] /\ DOMAIN n.files = DOMAIN r.files
  BY <1>1, <1>4, <1>11 DEF DirScanning
<1> HIDE DEF n
<1>13. ASSUME NEW g \in FilesOf(d), NEW i \in DOMAIN past[g], FileOK(past[g], g, r, i, c)
       PROVE FileOK(past[g], g, n, i, c)
  <2>1. CASE g = f
    <3>1. n.files[f] = new
      BY <1>1, <1>5, <1>12
    <3>2. FileScanOK(past[f], new, i, c)
      BY <1>1, <1>7, <1>13, <2>1 DEF FileOK, FileInv, new
    <3> QED
      BY <1>1, <1>12, <2>1, <3>1, <3>2 DEF FileOK
  <2>2. CASE g # f
    BY <1>1, <1>12, <1>13, <2>2 DEF FileOK
  <2> QED
    BY <2>1, <2>2
<1>14. DirScanOK(past, d, n, from, c)
  <2>1. DOMAIN n.files \subseteq FilesOf(d)
    BY <1>1, <1>4, <1>12 DEF DirScanOK
  <2> QED
    BY <1>1, <1>4, <1>12, <1>13, <2>1, DirStepsOK
<1> QED
  BY <1>1, <1>3, <1>8, <1>12, <1>14, StepsKeep

-----------------------------------------------------------------------------
(* The theorem.                                                            *)

LEMMA CatalogSteps == ASSUME CatalogAssumption, CatalogInv, Next PROVE CatalogInv'
  BY AppendsKeep, RewritesKeep, AppearsKeeps, RemovedKeeps, RefreshKeeps, ExpiresKeeps, PlanKeeps, RoundEndsKeeps,
     BeforeKeeps, ListKeeps, FilesEndKeeps, AfterKeeps, ScanFileKeeps DEF Next, Scanning

LEMMA CatalogStays == ASSUME CatalogInv, UNCHANGED vars PROVE CatalogInv'
<1>1. CatalogTypeOK' /\ PastOK'
  BY DEF CatalogInv, CatalogTypeOK, PastOK, vars
<1> QED
  BY <1>1 DEF CatalogInv, vars

LEMMA CatalogIsTruthful == ASSUME CatalogInv PROVE CatalogTruthful
<1>1. SnapshotTruthful
  BY DEF CatalogInv, ListOK, SnapshotTruthful
<1>2. ForcedIsFresh
  BY DEF CatalogInv, CallerOK, ForcedIsFresh
<1> QED
  BY <1>1, <1>2 DEF CatalogTruthful

\* native-session-catalog.ts: a list that does not call itself partial says of
\* every file of the directories it visited what was true of it since the scan
\* began, whatever was cached, read in part, appended, rewritten, replaced or
\* removed meanwhile; and a forced refresh is answered from a scan that began
\* after it was asked.
THEOREM CatalogTheorem == ASSUME CatalogAssumption PROVE Spec => []CatalogTruthful
<1>1. Init => CatalogInv
  BY CatalogBegins
<1>2. CatalogInv /\ [Next]_vars => CatalogInv'
  BY CatalogSteps, CatalogStays
<1>3. CatalogInv => CatalogTruthful
  BY CatalogIsTruthful
<1> QED
  BY <1>1, <1>2, <1>3, PTL DEF Spec
=============================================================================
