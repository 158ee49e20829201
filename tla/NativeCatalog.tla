--------------------------- MODULE NativeCatalog ---------------------------
(***************************************************************************)
(* native-session-catalog.ts: the list of Session files Pi has on disk.    *)
(*                                                                         *)
(* Pi and other programs write the files while they are read, so a scan    *)
(* stats, opens, reads and stats again, keeps what it read under the       *)
(* revision it saw, and reads only what was appended when it can.          *)
(* Refreshes are shared: a plain one joins whatever runs, a forced one is  *)
(* owed a scan that starts after it was asked.  A scan that runs out of    *)
(* its budget or meets a transient error publishes a partial list.         *)
(*                                                                         *)
(* A file is a sequence of lines, the first one its header; a line takes   *)
(* two units, a torn last line one.  A line is a value, so that a rewrite  *)
(* shows.  MaxLines keeps a file within the two checkpoints of an          *)
(* incremental scan (first and last 64 KiB): what a rewrite changes only   *)
(* between them the code does not compare.                                 *)
(*                                                                         *)
(* Errors are the retryable ones: a file that is gone, and the transient   *)
(* codes.  Left out are the permanent ones (ELOOP, EPERM, ENOTDIR, ...):   *)
(* they make a file, or with a diagnostic a whole source, count as having  *)
(* no Session in a list that does not call itself partial.                 *)
(***************************************************************************)
EXTENDS Integers, FiniteSets, Sequences

CONSTANTS
  File, Dir, None,
  DirOf,      \* the directory of a file
  Reveals,    \* the directory a file's Header.cwd adds to the plan
  Hints,      \* the sets of directories the layout and the preferences may name
  Ask,        \* bound: calls of refresh
  MaxLines,   \* bound: lines of a file
  MaxWrites,  \* bound: changes of the files
  MaxFaults   \* bound: budgets exhausted and transient errors

VARIABLES
  disk,       \* file -> None or [ino, rev, lines, torn]
  catalog,    \* NativeSessionCatalog
  asks,       \* the callers of refresh
  past,       \* file -> the states it has had (history)
  env         \* [writes, faults, hints]: what the world has done, and the hints

vars == <<disk, catalog, asks, past, env>>

Line == {"message", "other"}
FilesOf(d) == {f \in File : DirOf[f] = d}

Size(x) == 2 * Len(x.lines) - (IF x.torn THEN 1 ELSE 0)
Rev(f) == IF disk[f] = None THEN 0 ELSE disk[f].rev
Revision(d) == [f \in FilesOf(d) |-> Rev(f)]

\* parseNativeSessionLine: a torn line is no JSON and is skipped.
Complete(x) == IF x.torn THEN SubSeq(x.lines, 1, Len(x.lines) - 1) ELSE x.lines
HasHeader(x) == Complete(x) # <<>> /\ Complete(x)[1] = "header"
Summary(x) == IF x # None /\ x.lines # <<>> /\ HasHeader(x) THEN Complete(x) ELSE None

\* What is written in a file, what is known of one, and what is kept of a scan.
Text == Seq(Line \cup {"header"})
FileState == [ino : Nat, rev : Nat, lines : Text, torn : BOOLEAN]
CacheEntry == [revision : Nat, ino : Nat, size : Int, offset : Int, safe : BOOLEAN, seen : Text,
               summary : Text \cup {None}]
Listed == Text \cup {None}
Listing == [File -> Listed]
Entries == [File -> CacheEntry \cup {None}]
DirRevision == UNION {[FilesOf(d) -> Nat] : d \in Dir}
CachedDir == [revision : DirRevision, files : Entries, retryable : BOOLEAN]
Snapshot == [list : Listing, partial : BOOLEAN, stale : BOOLEAN, from : [File -> Nat], planned : SUBSET Dir,
             previous : Listing]

\* A scan, of its directories and of their files.
FileScanning ==
  [pc : {"meta", "open", "read", "final", "done"}, attempt : 1..2, meta : FileState \cup {None},
   now : FileState \cup {None}, open : FileState \cup {None}, seen : Listed, safe : BOOLEAN,
   entry : CacheEntry \cup {None}, retryable : BOOLEAN, budget : BOOLEAN]
DirScanning ==
  [pc : {"before", "list", "files", "after", "done"}, before : DirRevision \cup {None},
   files : UNION {[F -> FileScanning] : F \in SUBSET File}, entries : Entries, retryable : BOOLEAN,
   partial : BOOLEAN, stale : BOOLEAN, covered : BOOLEAN]
Scanned ==
  [pc : {"plan", "scan"}, previous : Snapshot \cup {None}, from : [File -> Nat], known : SUBSET Dir,
   scanned : SUBSET Dir, pending : SUBSET Dir, dir : [Dir -> DirScanning \cup {None}], list : Listing,
   covered : SUBSET Dir, partial : BOOLEAN, stale : BOOLEAN, interrupted : BOOLEAN]

\* Every file is in a directory, and None is nothing a file or the catalog holds.
CatalogAssumption ==
  /\ DirOf \in [File -> Dir] /\ Reveals \in [File -> Dir \cup {None}] /\ Hints \subseteq SUBSET Dir
  /\ None \notin Text \cup FileState \cup CacheEntry \cup CachedDir
  /\ None \notin Snapshot \cup DirScanning \cup Scanned \cup [File -> Nat]

Nothing == [f \in File |-> None]
FileScan == [pc |-> "meta", meta |-> None, now |-> None, attempt |-> 1, open |-> None, seen |-> None,
             safe |-> FALSE, entry |-> None, retryable |-> FALSE, budget |-> FALSE]
DirScan == [pc |-> "before", before |-> None, files |-> <<>>, entries |-> Nothing, retryable |-> FALSE,
            partial |-> FALSE, stale |-> FALSE, covered |-> FALSE]

Init ==
  /\ disk \in [File -> {None, [ino |-> 1, rev |-> 1, lines |-> <<"header", "message">>, torn |-> FALSE]}]
  /\ env \in [writes : {0}, faults : {0}, hints : Hints]
  /\ past = [f \in File |-> <<disk[f]>>]
  /\ asks = [a \in Ask |-> [pc |-> "idle", forced |-> FALSE, drains |-> FALSE, from |-> None, answer |-> None]]
  /\ catalog = [snapshot |-> None, fresh |-> FALSE, scan |-> None, drain |-> "idle", requested |-> 0,
                completed |-> 0, covered |-> 0, cache |-> [d \in Dir |-> None]]

-----------------------------------------------------------------------------
(* The files: Pi appends, a line at a time or a part of one; anything may   *)
(* rewrite, replace or remove them.                                         *)

Written(f, x) ==
  /\ env.writes < MaxWrites
  /\ disk' = [disk EXCEPT ![f] = x]
  /\ past' = [past EXCEPT ![f] = Append(@, x)]
  /\ env' = [env EXCEPT !.writes = @ + 1]
  /\ UNCHANGED <<catalog, asks>>

NextRev(f) == 1 + Len(past[f])

Appends(f) ==
  /\ disk[f] # None
  /\ \/ \E l \in Line, torn \in BOOLEAN :
          /\ ~disk[f].torn /\ Len(disk[f].lines) < MaxLines
          /\ Written(f, [disk[f] EXCEPT !.rev = NextRev(f), !.lines = Append(@, l), !.torn = torn])
     \/ /\ disk[f].torn
        /\ Written(f, [disk[f] EXCEPT !.rev = NextRev(f), !.torn = FALSE])

\* The same inode, other lines, possibly more of them.
Rewrites(f) ==
  /\ disk[f] # None /\ Len(disk[f].lines) > 1
  /\ \E n \in 0..1 :
       /\ Len(disk[f].lines) + n <= MaxLines
       /\ Written(f, [disk[f] EXCEPT !.rev = NextRev(f), !.torn = FALSE,
                      !.lines = [i \in 1..(Len(disk[f].lines) + n) |-> IF i = 1 THEN "header" ELSE "other"]])

\* Another inode at the path: a file appears, or is replaced by one being written.
Appears(f) ==
  \E torn \in BOOLEAN :
    Written(f, [ino |-> NextRev(f), rev |-> NextRev(f), lines |-> <<"header">>, torn |-> torn])

Removed(f) == disk[f] # None /\ Written(f, None)

-----------------------------------------------------------------------------
(* Refreshes.                                                               *)

\* startRefresh -> discover: what is listed before, and a history mark.
Scan(c) ==
  [pc |-> "plan", previous |-> c.snapshot, from |-> [f \in File |-> Len(past[f])], known |-> env.hints,
   scanned |-> {}, pending |-> {}, dir |-> [d \in Dir |-> None], list |-> Nothing, covered |-> {},
   partial |-> FALSE, stale |-> FALSE, interrupted |-> FALSE]
StartRefresh(c) == [c EXCEPT !.scan = Scan(c)]

\* drainForcedRefreshes from the moment no refresh is active.  Its early
\* return for a request already covered is never taken: it runs only while
\* the last request is not.
DrainScans(c) == StartRefresh([c EXCEPT !.covered = c.requested, !.drain = "scans"])

\* Fault: a forced refresh takes the scan that runs for its own.
ForcedAskedJoins(c) ==
  LET asked == [c EXCEPT !.requested = @ + 1] IN
  IF c.scan # None THEN [asked EXCEPT !.drain = "scans", !.covered = asked.requested]
  ELSE DrainScans(asked)

\* refresh({ force: true }): shares the drain that runs, or starts one.
ForcedAsked(c) ==
  LET asked == [c EXCEPT !.requested = @ + 1] IN
  IF c.drain # "idle" THEN asked
  ELSE IF c.scan # None THEN [asked EXCEPT !.drain = "awaits"]
  ELSE DrainScans(asked)

Asked(a, forced, drains) ==
  [asks EXCEPT ![a].forced = forced, ![a].drains = drains, ![a].pc = "waits",
               ![a].from = [f \in File |-> Len(past[f])]]

Refresh(a) ==
  /\ asks[a].pc = "idle"
  /\ \A b \in Ask : b < a => asks[b].pc # "idle"
  /\ UNCHANGED <<disk, past, env>>
  /\ \/ catalog' = ForcedAsked(catalog) /\ asks' = Asked(a, TRUE, TRUE)
     \/ /\ catalog.snapshot # None /\ catalog.fresh
        /\ asks' = [Asked(a, FALSE, FALSE) EXCEPT ![a].pc = "answered", ![a].answer = catalog.snapshot]
        /\ UNCHANGED catalog
     \/ /\ ~catalog.fresh
        /\ catalog' = IF catalog.drain # "idle" \/ catalog.scan # None THEN catalog ELSE StartRefresh(catalog)
        /\ asks' = Asked(a, FALSE, catalog.drain # "idle")

\* cacheTtlMs passes.
Expires ==
  /\ catalog.fresh
  /\ catalog' = [catalog EXCEPT !.fresh = FALSE]
  /\ UNCHANGED <<disk, asks, past, env>>

\* The refresh settles: whoever joined it is answered; the drain starts the
\* next scan if one is owed, or settles the forced refresh.
Settles(c, snapshot) ==
  LET ok == snapshot # None
      forced == c.drain = "scans"
      cleared == [c EXCEPT !.scan = None, !.snapshot = IF ok THEN snapshot ELSE @, !.fresh = ok \/ @,
                           !.completed = IF ok /\ forced THEN c.covered ELSE @]
      owed == c.drain = "awaits" \/ (forced /\ c.requested > c.covered)
  IN /\ catalog' = IF owed THEN DrainScans(cleared) ELSE [cleared EXCEPT !.drain = "idle"]
     /\ asks' = [a \in Ask |->
                   IF asks[a].pc = "waits" /\ (asks[a].drains => ~owed)
                   THEN [asks[a] EXCEPT !.pc = IF ok THEN "answered" ELSE "failed", !.answer = snapshot]
                   ELSE asks[a]]

-----------------------------------------------------------------------------
(* A scan.                                                                  *)

\* What a step of a scan may meet: a budget that has been exhausted once
\* may stop every later step.
Outcome ==
  {"ok"} \cup (IF env.faults < MaxFaults THEN {"budget", "error"} ELSE {})
         \cup (IF catalog.scan.interrupted THEN {"budget"} ELSE {})
Met(o) ==
  env' = [env EXCEPT !.faults = IF o = "ok" \/ @ = MaxFaults THEN @ ELSE @ + 1]

SessionsOf(entries) == [f \in File |-> IF entries[f] = None THEN None ELSE entries[f].summary]

\* The end of discover: what a partial scan did not cover stays listed, and
\* the cache forgets the directories it no longer visits.
Publish(s) ==
  LET kept == {f \in File : /\ s.partial /\ s.previous # None /\ s.list[f] = None
                            /\ DirOf[f] \notin s.covered /\ s.previous.list[f] # None}
  IN Settles([catalog EXCEPT !.cache = [d \in Dir |-> IF d \in s.scanned THEN @[d] ELSE None]],
             [list |-> [f \in File |-> IF f \in kept THEN s.previous.list[f] ELSE s.list[f]],
              partial |-> s.partial, stale |-> s.stale \/ kept # {}, from |-> s.from,
              planned |-> s.scanned, previous |-> IF s.previous = None THEN Nothing ELSE s.previous.list])

Scans(s) == catalog' = [catalog EXCEPT !.scan = s] /\ UNCHANGED asks

\* discoveryPlan over the known workspaces: the sources not scanned yet.
Plan ==
  LET s == catalog.scan
      pending == s.known \ s.scanned IN
  /\ s # None /\ s.pc = "plan"
  /\ UNCHANGED <<disk, past>>
  /\ \E o \in Outcome :
       /\ Met(o)
       /\ CASE o = "error" -> Settles(catalog, None)
            [] o = "budget" -> Publish([s EXCEPT !.partial = TRUE, !.stale = @ \/ s.previous # None])
            [] OTHER -> IF pending = {} THEN Publish(s)
                        ELSE Scans([s EXCEPT !.pc = "scan", !.pending = pending, !.scanned = @ \cup pending,
                                             !.dir = [d \in Dir |-> IF d \in pending THEN DirScan ELSE None]])

\* scanDirectDirectory, scanSessionDirectory: one step of a pending directory
\* turns its scan into r.
Steps(d, r, o) ==
  Scans([catalog.scan EXCEPT !.dir[d] = r, !.interrupted = @ \/ o = "budget"])

Ended(r, entries, partial, stale, covered) ==
  [r EXCEPT !.pc = "done", !.entries = entries, !.partial = partial, !.stale = stale, !.covered = covered]

CachedFiles(d) == IF catalog.cache[d] = None THEN Nothing ELSE catalog.cache[d].files

\* The first directoryRevision, and what is cached under it.
Before(d) ==
  LET r == catalog.scan.dir[d]
      cached == catalog.cache[d] IN
  /\ r.pc = "before"
  /\ UNCHANGED <<disk, past>>
  /\ \E o \in Outcome :
       /\ Met(o)
       /\ Steps(d, CASE o = "budget" -> Ended(r, Nothing, TRUE, cached # None, FALSE)
                     [] o = "error" -> Ended(r, CachedFiles(d), TRUE, cached # None, FALSE)
                     [] OTHER -> IF cached # None /\ ~cached.retryable /\ cached.revision = Revision(d)
                                 THEN Ended(r, cached.files, FALSE, FALSE, TRUE)
                                 ELSE [r EXCEPT !.pc = "list", !.before = Revision(d)], o)

\* readDirectoryEntries.
List(d) ==
  LET r == catalog.scan.dir[d] IN
  /\ r.pc = "list"
  /\ UNCHANGED <<disk, past>>
  /\ \E o \in Outcome :
       /\ Met(o)
       /\ Steps(d, IF o = "ok"
                   THEN [r EXCEPT !.pc = "files",
                         !.files = [f \in {g \in FilesOf(d) : disk[g] # None} |-> FileScan]]
                   ELSE [r EXCEPT !.pc = "after", !.entries = CachedFiles(d), !.retryable = o = "error",
                                  !.partial = TRUE, !.stale = catalog.cache[d] # None], o)

\* The results of a file's scan.
Keeps(x, cached) == [x EXCEPT !.pc = "done", !.entry = cached]
Retryable(x, cached) == [x EXCEPT !.pc = "done", !.entry = cached, !.retryable = TRUE]
OverBudget(x, cached) == [x EXCEPT !.pc = "done", !.entry = cached, !.budget = TRUE]
\* The entry is kept under the revision of the first stat, the offset is that
\* of the last one.
Entry(x, seen, safe, summary) ==
  [revision |-> x.meta.rev, ino |-> x.meta.ino, size |-> Size(x.meta), offset |-> Size(x.now),
   safe |-> safe, seen |-> seen, summary |-> summary]
Read(x, seen, safe, summary) == [x EXCEPT !.pc = "done", !.entry = Entry(x, seen, safe, summary)]

\* The file changed while it was read: once more from a new stat.
Retries(f, x, cached) ==
  IF x.attempt = 2 \/ disk[f] = None THEN Retryable(x, cached)
  ELSE [x EXCEPT !.pc = "open", !.attempt = 2, !.now = disk[f]]

\* sessionFileMetadata, and the entry cached under that revision.
Stat(f, x, cached) ==
  IF disk[f] = None THEN Retryable(x, cached)
  ELSE IF cached # None /\ cached.revision = disk[f].rev THEN Keeps(x, cached)
  ELSE [x EXCEPT !.pc = "open", !.meta = disk[f], !.now = disk[f]]

\* scanNativeSessionFileAttempt: open and stat.
Open(f, x, cached) ==
  IF disk[f] = None THEN Retryable(x, cached)
  ELSE IF disk[f].rev # x.now.rev THEN Retries(f, x, cached)
  ELSE [x EXCEPT !.pc = "read", !.open = disk[f]]

\* What the open descriptor reads: the file at the path while it is that inode.
Opened(f, x) == IF disk[f] # None /\ disk[f].ino = x.open.ino THEN disk[f] ELSE x.open

\* canIncrementallyScan: only lines were added since the cached scan.
Incremental(x, file, cached) ==
  /\ cached # None
  /\ cached.safe /\ cached.summary # None
  /\ cached.ino = x.now.ino /\ cached.offset = cached.size /\ Size(x.now) > cached.offset
  /\ Len(file.lines) >= Len(cached.seen)
  /\ SubSeq(file.lines, 1, Len(cached.seen)) = cached.seen

\* The lines read from the offset on, after those of the cached scan.
Added(file, offset) ==
  LET first == (offset + 1) \div 2 + 1 IN
  IF file.torn THEN SubSeq(file.lines, first, Len(file.lines) - 1)
  ELSE SubSeq(file.lines, first, Len(file.lines))

Lines(f, x, cached) ==
  LET file == Opened(f, x) IN
  IF Incremental(x, file, cached)
  THEN [x EXCEPT !.pc = "final", !.seen = cached.seen \o Added(file, cached.offset), !.safe = ~file.torn]
  ELSE IF ~HasHeader(file) THEN Read(x, <<>>, FALSE, None)
  ELSE [x EXCEPT !.pc = "final", !.seen = Complete(file), !.safe = ~file.torn]

\* The second stat, of the descriptor and of the path.
Final(f, x, cached) ==
  IF disk[f] = None THEN Retryable(x, cached)
  ELSE IF disk[f].rev # x.now.rev THEN Retries(f, x, cached)
  ELSE Read(x, x.seen, x.safe, x.seen)

FileStep(f, x, cached) ==
  CASE x.pc = "meta" -> Stat(f, x, cached)
    [] x.pc = "open" -> Open(f, x, cached)
    [] x.pc = "read" -> Lines(f, x, cached)
    [] OTHER -> Final(f, x, cached)

ScanFile(d, f) ==
  LET r == catalog.scan.dir[d]
      cached == CachedFiles(d)[f] IN
  /\ r.pc = "files" /\ f \in DOMAIN r.files
  /\ r.files[f].pc # "done"
  /\ UNCHANGED <<disk, past>>
  /\ \E o \in Outcome :
       /\ Met(o)
       /\ Steps(d, [r EXCEPT !.files[f] =
                      CASE o = "budget" -> OverBudget(@, cached)
                        [] o = "error" -> Retryable(@, cached)
                        [] OTHER -> FileStep(f, @, cached)], o)

\* What the scans of the files add up to.
FilesEnd(d) ==
  LET r == catalog.scan.dir[d]
      x == r.files
      budget == \E f \in DOMAIN x : x[f].budget
      retryable == \E f \in DOMAIN x : x[f].retryable IN
  /\ r.pc = "files"
  /\ \A f \in DOMAIN x : x[f].pc = "done"
  /\ Steps(d, [r EXCEPT !.pc = "after", !.retryable = retryable, !.partial = budget \/ retryable,
                        !.entries = [f \in File |-> IF f \in DOMAIN x THEN x[f].entry ELSE None],
                        !.stale = \/ budget /\ catalog.cache[d] # None
                                  \/ \E f \in DOMAIN x : x[f].retryable /\ x[f].entry # None,
                        !.files = <<>>], "ok")
  /\ UNCHANGED <<disk, past, env>>

\* The second directoryRevision: what was scanned is cached if nothing changed.
After(d) ==
  LET s == catalog.scan
      r == s.dir[d]
      cached == catalog.cache[d] IN
  /\ r.pc = "after"
  /\ UNCHANGED <<disk, past, asks>>
  /\ \E o \in Outcome :
       /\ Met(o)
       /\ catalog' =
            [catalog EXCEPT
               !.scan.interrupted = @ \/ o = "budget",
               !.scan.dir[d] = IF o = "ok" THEN Ended(r, r.entries, r.partial, r.stale, ~r.partial)
                               ELSE Ended(r, r.entries, TRUE, r.stale \/ cached # None, FALSE),
               !.cache[d] = IF o = "ok" /\ Revision(d) = r.before
                            THEN [revision |-> r.before, files |-> r.entries,
                                  retryable |-> r.partial \/ r.retryable]
                            ELSE @]

\* All sources of a round are in: merge them, and go round again if a header
\* named a workspace whose directory is not scanned yet.
RoundEnds ==
  LET s == catalog.scan
      list == [f \in File |-> IF DirOf[f] \in s.pending THEN SessionsOf(s.dir[DirOf[f]].entries)[f]
                              ELSE s.list[f]]
      merged == [s EXCEPT !.pending = {}, !.dir = [d \in Dir |-> None], !.list = list,
                          !.partial = @ \/ \E d \in s.pending : s.dir[d].partial,
                          !.stale = @ \/ \E d \in s.pending : s.dir[d].stale,
                          !.covered = @ \cup {d \in s.pending : s.dir[d].covered},
                          !.known = @ \cup ({Reveals[f] : f \in {g \in File : list[g] # None}} \ {None})]
  IN /\ s # None /\ s.pc = "scan"
     /\ \A d \in s.pending : s.dir[d].pc = "done"
     /\ UNCHANGED <<disk, past, env>>
     /\ IF s.interrupted THEN Publish([merged EXCEPT !.partial = TRUE])
        ELSE IF merged.known \subseteq merged.scanned THEN Publish(merged)
        ELSE Scans([merged EXCEPT !.pc = "plan"])

Scanning(d) ==
  /\ catalog.scan # None /\ d \in catalog.scan.pending
  /\ \/ Before(d) \/ List(d) \/ FilesEnd(d) \/ After(d)
     \/ \E f \in FilesOf(d) : ScanFile(d, f)

Next ==
  \/ \E f \in File : Appends(f) \/ Rewrites(f) \/ Appears(f) \/ Removed(f)
  \/ \E a \in Ask : Refresh(a)
  \/ Expires \/ Plan \/ RoundEnds
  \/ \E d \in Dir : Scanning(d)

Spec == Init /\ [][Next]_vars

-----------------------------------------------------------------------------
(* What must hold.                                                          *)

\* The summaries a file with the history h deserved since the mark.
Deserved(h, from) == {Summary(h[i]) : i \in from..Len(h)}

\* A directory is cached under one revision taken before and after its scan:
\* a file that came and went in between stays in the cache, and is listed
\* until the directory changes.
CameAndWent(h, from, listed) ==
  \E i, j, k \in DOMAIN h :
    /\ i < j /\ j < k /\ from <= k
    /\ h[i] = None /\ h[j] # None /\ h[k] = None
    /\ listed = Summary(h[j])

Told(h, from, listed) == listed \in Deserved(h, from) \/ CameAndWent(h, from, listed)

\* A list that does not call itself partial says of every file of the
\* directories it visited what was true of that file at some time since the
\* scan began: no cached directory, cached entry or incremental read hides a
\* change.  A partial one forgets no Session whose file has been there all
\* along.  (discover, scanDirectory, scanSessionFiles; of a file or source that
\* a permanent error makes unreadable, and that no step here meets, it would not
\* be true)
SnapshotTruthful ==
  LET s == catalog.snapshot IN
  s # None =>
    \A f \in File :
      /\ ~s.partial /\ DirOf[f] \in s.planned => Told(past[f], s.from[f], s.list[f])
      /\ s.partial /\ s.previous[f] # None /\ s.list[f] = None => None \in Deserved(past[f], s.from[f])
      /\ s.partial /\ ~s.stale /\ s.list[f] # None => Told(past[f], s.from[f], s.list[f])

\* A forced refresh is answered from a scan that began after it was asked.
ForcedIsFresh ==
  \A a \in Ask :
    asks[a].pc = "answered" /\ asks[a].forced =>
      \A f \in File : asks[a].from[f] <= asks[a].answer.from[f]

CatalogTruthful == SnapshotTruthful /\ ForcedIsFresh
=============================================================================
