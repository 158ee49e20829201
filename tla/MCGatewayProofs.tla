--------------------------- MODULE MCGatewayProofs ---------------------------
(***************************************************************************)
(* Proofs about the deletion of a Session, for any files, any number of    *)
(* deletions, and whatever other programs, failing calls and crashes do;   *)
(* about the catalogs of MCGateway; and about the dialogs, for any         *)
(* extensions, limits, resyncs and order of events.                        *)
(***************************************************************************)
EXTENDS MCGateway, TLAPS, NaturalsInduction, WellFoundedInduction

-----------------------------------------------------------------------------
(* What holds of the path, the trash and the deletion that runs.           *)

TrashEntry == [file : Inode \union {None}, metadata : BOOLEAN, quarantine : BOOLEAN]
FileState == [version : Nat, ours : BOOLEAN, state : {"live", "free", "removed"}]
DeletionState ==
  [pc : {"idle", "lstat", "open", "reserve", "metadata", "stat", "rename", "moved", "link", "unlink", "quarantine",
         "clean", "ended"},
   entry : 0..MaxMoves, stat : [ino : Inode, version : Nat] \union {None}, fd : Inode \union {None},
   keep : BOOLEAN, outcome : {None, "failed", "trashed", "crashed"}]

\* The entry of the deletion that runs.
Entered == trash[move.entry]

DeletionTypeOK ==
  /\ path \in Inode \union {None}
  /\ inode \in [Inode -> FileState]
  /\ trash \in [Trash!Entry -> TrashEntry \union {None}]
  /\ move \in DeletionState
  /\ env_t \in [writes : Nat, faults : Nat]

\* Entries are made in order, each by the deletion of its number.
UnusedEmpty ==
  /\ \A e \in Trash!Entry : e > move.entry => trash[e] = None
  /\ move.pc # "idle" => move.entry # 0
  /\ move.pc \in {"lstat", "open", "reserve"} => Entered = None /\ ~move.keep

\* No file at the path or in an entry is yet to be created.
FilesKnown ==
  /\ path # None => inode[path].state # "free"
  /\ \A e \in Trash!Entry : trash[e] # None /\ trash[e].file # None => inode[trash[e].file].state # "free"

\* What the entry holds at each step: nothing before the rename, a file after it
\* until that is linked back, and its metadata from before the rename on.
EntryStands ==
  /\ move.pc \in {"metadata", "stat", "rename"} => Entered # None /\ Entered.file = None /\ ~move.keep
  /\ move.pc \in {"moved", "link", "unlink", "quarantine"} => Entered # None /\ Entered.file # None /\ move.keep
  /\ move.pc \in {"stat", "rename", "moved", "link", "unlink", "quarantine"} => Entered.metadata
  /\ move.pc = "clean" => Entered # None /\ (move.keep <=> Entered.file # None)

\* A file that was linked back is at the path until somebody else takes it away.
LinkedAgain == move.pc = "unlink" => path = Entered.file \/ inode[Entered.file].state # "live"

\* The file that was opened is the one that was looked at before.
Inspected ==
  move.pc \in {"reserve", "metadata", "stat", "rename", "moved", "link", "unlink", "quarantine"} =>
    move.fd \in Inode /\ move.stat.ino = move.fd

\* Success is the last thing said, and an entry kept without a fault is marked.
Answered ==
  /\ move.outcome = "trashed" => move.pc = "ended" /\ Entered # None /\ Entered.file # None
  /\ move.pc = "clean" => move.outcome = "failed"
  /\ move.pc = "clean" /\ move.keep /\ env_t.faults = 0 => Entered.quarantine

DeletionInv ==
  DeletionTypeOK /\ UnusedEmpty /\ FilesKnown /\ EntryStands /\ LinkedAgain /\ Inspected /\ Answered /\ NothingLost

\* The parts of NothingLost.
FilesKept == \A i \in Inode : inode[i].state = "live" => path = i \/ Trash!Recoverable(i)
MovedInspected == move.outcome = "trashed" => inode[Entered.file].ours /\ Entered.file = move.fd
FailureMarked ==
  move.pc = "ended" /\ move.outcome = "failed" /\ env_t.faults = 0 /\ Entered # None =>
    Entered.file # None /\ Entered.quarantine

LEMMA DeletionParts ==
    /\ NothingLost <=> FilesKept /\ MovedInspected /\ FailureMarked
    /\ DeletionInv <=> /\ DeletionTypeOK /\ UnusedEmpty /\ FilesKnown /\ EntryStands /\ LinkedAgain /\ Inspected
                       /\ Answered /\ FilesKept /\ MovedInspected /\ FailureMarked
  BY DEF DeletionInv, NothingLost, Trash!NothingLost, FilesKept, MovedInspected, FailureMarked, Entered

LEMMA DeletionPartsNext ==
    DeletionInv' <=> /\ DeletionTypeOK' /\ UnusedEmpty' /\ FilesKnown' /\ EntryStands' /\ LinkedAgain' /\ Inspected'
                     /\ Answered' /\ FilesKept' /\ MovedInspected' /\ FailureMarked'
  BY DEF DeletionInv, NothingLost, Trash!NothingLost, FilesKept, MovedInspected, FailureMarked, Entered

LEMMA Entries ==
    /\ \A r \in TrashEntry : r # None /\ r.file \in Inode \union {None} /\ r.metadata \in BOOLEAN /\ r.quarantine \in BOOLEAN
    /\ \A m \in DeletionState : m.keep \in BOOLEAN /\ m.entry \in 0..MaxMoves /\ (m.entry # 0 => m.entry \in Trash!Entry)
    /\ \A e \in Trash!Entry : e \in 0..MaxMoves /\ e # 0
    /\ None \notin Inode
  BY GatewayBounds DEF TrashEntry, DeletionState, Trash!Entry

LEMMA DeletionBegins == Trash!Init => DeletionInv
<1> SUFFICES ASSUME Trash!Init PROVE DeletionInv
  OBVIOUS
<1>1. path \in Inode /\ path # None
  BY GatewayBounds DEF Trash!Init
<1>2. /\ inode \in [Inode -> FileState] /\ inode[path].state = "live"
      /\ \A i \in Inode : inode[i].state = "live" => i = path
  BY <1>1 DEF Trash!Init, FileState
<1>3. \A e \in Trash!Entry : trash[e] = None
  BY DEF Trash!Init
<1>4. /\ move.pc = "idle" /\ move.entry = 0 /\ move.keep = FALSE /\ move.outcome = None
      /\ env_t.faults = 0
  BY DEF Trash!Init, Trash!Idle
<1>5. DeletionTypeOK
  <2>1. trash \in [Trash!Entry -> TrashEntry \union {None}]
    BY DEF Trash!Init
  <2>2. 0 \in 0..MaxMoves /\ 0 \in Nat
    BY GatewayBounds
  <2>3. move \in DeletionState
    BY <2>2 DEF DeletionState, Trash!Init, Trash!Idle
  <2>4. env_t \in [writes : Nat, faults : Nat]
    BY DEF Trash!Init
  <2> QED
    BY <1>1, <1>2, <2>1, <2>3, <2>4 DEF DeletionTypeOK
<1>6. UnusedEmpty /\ FilesKnown /\ EntryStands /\ LinkedAgain /\ Inspected
  BY <1>1, <1>2, <1>3, <1>4 DEF UnusedEmpty, FilesKnown, EntryStands, LinkedAgain, Inspected
<1>7. Answered /\ FilesKept /\ MovedInspected /\ FailureMarked
  BY <1>2, <1>4, GatewayBounds DEF Answered, FilesKept, MovedInspected, FailureMarked
<1> QED
  BY <1>5, <1>6, <1>7, DeletionParts

-----------------------------------------------------------------------------
(* Kinds of steps.                                                         *)

\* A step of the deletion that touches neither the path, a file nor the trash.
LEMMA DeletionGoesOn ==
    ASSUME DeletionInv, UNCHANGED <<path, inode, trash>>,
           move'.entry = move.entry, move'.keep = move.keep, move'.fd = move.fd, move'.stat = move.stat,
           move'.pc # "idle", move.pc # "idle", move' \in DeletionState, move'.outcome # "trashed",
           env_t' \in [writes : Nat, faults : Nat],
           env_t'.faults = 0 => env_t.faults = 0,
           \* where a deletion may go from there
           \/ move'.pc = "ended" /\ move'.outcome # "failed"
           \/ move'.pc = "ended" /\ (Entered = None \/ env_t'.faults # 0)
           \/ move'.pc = "ended" /\ move.pc = "clean" /\ move.keep /\ move'.outcome = move.outcome
           \/ move'.pc = "clean" /\ move'.outcome = "failed" /\ move.pc \in {"metadata", "stat", "rename"}
           \/ move'.pc = "clean" /\ move'.outcome = "failed" /\ move.pc = "moved" /\ env_t'.faults # 0
           \/ move'.pc = "rename" /\ move.pc = "stat"
           \/ move'.pc = "link" /\ move.pc = "moved"
           \/ move'.pc = "quarantine" /\ move.pc \in {"link", "unlink"}
    PROVE  DeletionInv'
<1>0. /\ DeletionTypeOK /\ UnusedEmpty /\ FilesKnown /\ EntryStands /\ LinkedAgain /\ Inspected
      /\ Answered /\ FilesKept /\ MovedInspected /\ FailureMarked
  BY DeletionParts
<1>1. Entered' = Entered
  BY DEF Entered
<1>2. DeletionTypeOK'
  BY <1>0 DEF DeletionTypeOK
<1>3. UnusedEmpty'
  BY <1>0, <1>1 DEF UnusedEmpty
<1>4. FilesKnown' /\ FilesKept'
  BY <1>0 DEF FilesKnown, FilesKept, Trash!Recoverable
<1>5. EntryStands'
  BY <1>0, <1>1 DEF EntryStands
<1>6. LinkedAgain' /\ Inspected'
  BY <1>0 DEF LinkedAgain, Inspected
<1>7. Answered' /\ MovedInspected'
  BY <1>0, <1>1, Entries DEF Answered, MovedInspected, EntryStands
<1>8. FailureMarked'
  BY <1>0, <1>1 DEF FailureMarked, Answered, EntryStands
<1> QED
  BY <1>2, <1>3, <1>4, <1>5, <1>6, <1>7, <1>8, DeletionPartsNext

-----------------------------------------------------------------------------
(* Other programs.                                                         *)

\* Another program writes, replaces or removes a file that is at the path or
\* that was written already, and the deletion does not move.
LEMMA OthersMove ==
    ASSUME DeletionInv, UNCHANGED <<trash, move>>, env_t'.faults = env_t.faults,
           env_t' \in [writes : Nat, faults : Nat],
           path' \in Inode \union {None}, inode' \in [Inode -> FileState],
           path' # None => inode'[path'].state # "free",
           \A i \in Inode : inode[i].state # "free" =>
              inode'[i].ours = inode[i].ours /\ inode'[i].state # "free",
           \A i \in Inode : inode'[i].state = "live" /\ path' # i => inode[i].state = "live" /\ path # i
    PROVE  DeletionInv'
<1>0. /\ DeletionTypeOK /\ UnusedEmpty /\ FilesKnown /\ EntryStands /\ LinkedAgain /\ Inspected
      /\ Answered /\ FilesKept /\ MovedInspected /\ FailureMarked
  BY DeletionParts
<1>1. Entered' = Entered
  BY DEF Entered
<1>2. DeletionTypeOK'
  BY <1>0 DEF DeletionTypeOK
<1>3. UnusedEmpty' /\ EntryStands' /\ Inspected' /\ FailureMarked' /\ Answered'
  BY <1>0, <1>1 DEF UnusedEmpty, EntryStands, Inspected, FailureMarked, Answered
<1>4. \A e \in Trash!Entry : trash[e] # None => trash[e] \in TrashEntry /\ trash[e].file \in Inode \union {None}
  BY <1>0, Entries DEF DeletionTypeOK
<1>5. FilesKnown'
  BY <1>0, <1>4 DEF FilesKnown
<1>6. FilesKept'
  BY <1>0 DEF FilesKept, Trash!Recoverable
<1>7. move.pc # "idle" => move.entry \in Trash!Entry
  BY <1>0, Entries DEF DeletionTypeOK, UnusedEmpty
<1>8. LinkedAgain'
  <2> SUFFICES ASSUME move.pc = "unlink" PROVE path' = Entered.file \/ inode'[Entered.file].state # "live"
    BY <1>1 DEF LinkedAgain
  <2>1. Entered # None /\ Entered.file # None /\ Entered.file \in Inode
    BY <1>0, <1>4, <1>7 DEF EntryStands, Entered
  <2> QED
    BY <2>1, <1>0 DEF LinkedAgain
<1>9. MovedInspected'
  <2> SUFFICES ASSUME move.outcome = "trashed"
               PROVE  inode'[Entered.file].ours /\ Entered.file = move.fd
    BY <1>1 DEF MovedInspected
  <2>1. Entered # None /\ move.entry \in Trash!Entry /\ Entered.file \in Inode \union {None}
    BY <1>0, <1>4, <1>7 DEF Answered, Entered
  <2>2. Entered.file # None
    BY <1>0 DEF Answered
  <2>3. inode[Entered.file].state # "free"
    BY <1>0, <2>1, <2>2 DEF FilesKnown, Entered
  <2> QED
    BY <1>0, <2>1, <2>2, <2>3 DEF MovedInspected
<1> QED
  BY <1>2, <1>3, <1>5, <1>6, <1>8, <1>9, DeletionPartsNext

LEMMA AppendsKeeps == ASSUME DeletionInv, Trash!Appends PROVE DeletionInv'
<1>0. DeletionTypeOK /\ FilesKnown
  BY DeletionParts
<1>1. UNCHANGED <<trash, move, path>> /\ env_t'.faults = env_t.faults /\ env_t' \in [writes : Nat, faults : Nat]
  BY <1>0 DEF DeletionTypeOK, Trash!Appends, Trash!Writes
<1>2. PICK i \in Inode : inode[i].state = "live" /\ inode' = [inode EXCEPT ![i].version = @ + 1]
  BY DEF Trash!Appends
<1>3. /\ inode' \in [Inode -> FileState]
      /\ \A j \in Inode : inode'[j].ours = inode[j].ours /\ inode'[j].state = inode[j].state
  BY <1>0, <1>2 DEF DeletionTypeOK, FileState
<1> QED
  BY <1>0, <1>1, <1>3, OthersMove DEF DeletionTypeOK, FilesKnown

LEMMA ReplacesKeeps == ASSUME DeletionInv, Trash!Replaces PROVE DeletionInv'
<1>0. DeletionTypeOK /\ FilesKnown
  BY DeletionParts
<1>1. UNCHANGED <<trash, move>> /\ env_t'.faults = env_t.faults /\ env_t' \in [writes : Nat, faults : Nat]
  BY <1>0 DEF DeletionTypeOK, Trash!Replaces, Trash!Writes
<1>2. PICK i \in Inode, ours \in BOOLEAN :
         /\ inode[i].state = "free"
         /\ inode' = [j \in Inode |-> IF j = i THEN [version |-> 0, ours |-> ours, state |-> "live"]
                                      ELSE IF j = path THEN [inode[j] EXCEPT !.state = "removed"] ELSE inode[j]]
         /\ path' = i
  BY DEF Trash!Replaces
<1>3. inode' \in [Inode -> FileState]
  BY <1>0, <1>2 DEF DeletionTypeOK, FileState
<1>4. inode'[i].state = "live" /\ i # None
  BY <1>2, Entries
<1>5. \A j \in Inode : inode[j].state # "free" => inode'[j].ours = inode[j].ours /\ inode'[j].state # "free"
  BY <1>0, <1>2 DEF DeletionTypeOK, FileState
<1>6. \A j \in Inode : inode'[j].state = "live" /\ j # i => inode[j].state = "live" /\ j # path
  BY <1>0, <1>2 DEF DeletionTypeOK, FileState
<1> QED
  BY <1>0, <1>1, <1>2, <1>3, <1>4, <1>5, <1>6, OthersMove

LEMMA RemovesKeeps == ASSUME DeletionInv, Trash!Removes PROVE DeletionInv'
<1>0. DeletionTypeOK /\ FilesKnown
  BY DeletionParts
<1>1. UNCHANGED <<trash, move>> /\ env_t'.faults = env_t.faults /\ env_t' \in [writes : Nat, faults : Nat]
  BY <1>0 DEF DeletionTypeOK, Trash!Removes, Trash!Writes
<1>2. path # None /\ inode' = [inode EXCEPT ![path].state = "removed"] /\ path' = None /\ path \in Inode
  BY <1>0 DEF Trash!Removes, DeletionTypeOK
<1>3. inode' \in [Inode -> FileState]
  BY <1>0, <1>2 DEF DeletionTypeOK, FileState
<1>4. \A j \in Inode : inode[j].state # "free" => inode'[j].ours = inode[j].ours /\ inode'[j].state # "free"
  BY <1>0, <1>2 DEF DeletionTypeOK, FileState
<1>5. \A j \in Inode : inode'[j].state = "live" => inode[j].state = "live" /\ j # path
  BY <1>0, <1>2 DEF DeletionTypeOK, FileState
<1> QED
  BY <1>0, <1>1, <1>2, <1>3, <1>4, <1>5, OthersMove

-----------------------------------------------------------------------------
(* The deletion.                                                           *)

\* Only the entry of the deletion changes, to x: what that leaves true.
LEMMA EntryChanges ==
    ASSUME DeletionInv, UNCHANGED inode, NEW x \in TrashEntry \union {None},
           move.pc # "idle", trash' = [trash EXCEPT ![move.entry] = x],
           move' \in DeletionState, move'.entry = move.entry, env_t' \in [writes : Nat, faults : Nat],
           path' \in {path, None}, move'.outcome # "trashed",
           move'.pc \notin {"idle", "lstat", "open", "reserve"},
           x # None /\ x.file # None => inode[x.file].state # "free",
           \A i \in Inode : inode[i].state = "live" /\ (path = i \/ (Entered # None /\ Entered.file = i /\ Entered.metadata)) =>
              path' = i \/ (x # None /\ x.file = i /\ x.metadata)
    PROVE  /\ DeletionTypeOK' /\ UnusedEmpty' /\ FilesKnown' /\ FilesKept' /\ MovedInspected'
           /\ Entered' = x
<1>0. DeletionTypeOK /\ UnusedEmpty /\ FilesKnown /\ FilesKept
  BY DeletionParts
<1>1. move.entry \in Trash!Entry
  BY <1>0, Entries DEF DeletionTypeOK, UnusedEmpty
<1>2. trash'[move.entry] = x /\ \A e \in Trash!Entry \ {move.entry} : trash'[e] = trash[e]
  BY <1>0, <1>1 DEF DeletionTypeOK
<1>3. DeletionTypeOK'
  BY <1>0 DEF DeletionTypeOK
<1>4. Entered' = x
  BY <1>2 DEF Entered
<1>5. UnusedEmpty'
  BY <1>0, <1>2, Entries DEF UnusedEmpty, DeletionTypeOK
<1>6. FilesKnown'
  BY <1>0, <1>2 DEF FilesKnown
<1>7. FilesKept'
  <2> SUFFICES ASSUME NEW i \in Inode, inode[i].state = "live"
               PROVE  path' = i \/ Trash!Recoverable(i)'
    BY DEF FilesKept
  <2>1. CASE path = i \/ (Entered # None /\ Entered.file = i /\ Entered.metadata)
    BY <2>1, <1>1, <1>2 DEF Trash!Recoverable
  <2>2. CASE ~(path = i \/ (Entered # None /\ Entered.file = i /\ Entered.metadata))
    <3>0. path # i
      BY <2>2
    <3>1. PICK e \in Trash!Entry : trash[e] # None /\ trash[e].file = i /\ trash[e].metadata
      BY <1>0, <3>0 DEF FilesKept, Trash!Recoverable
    <3>2. e # move.entry
      BY <2>2, <3>1 DEF Entered
    <3> QED
      BY <1>2, <3>1, <3>2 DEF Trash!Recoverable
  <2> QED
    BY <2>1, <2>2
<1>8. MovedInspected'
  BY DEF MovedInspected
<1> QED
  BY <1>3, <1>4, <1>5, <1>6, <1>7, <1>8

\* The parts of the invariant a step of the deletion begins from, and the
\* records it changes.
LEMMA Deleting ==
    ASSUME DeletionInv
    PROVE  /\ DeletionTypeOK /\ UnusedEmpty /\ FilesKnown /\ EntryStands /\ LinkedAgain /\ Inspected
           /\ Answered /\ FilesKept /\ MovedInspected /\ FailureMarked
           /\ move \in DeletionState /\ path \in Inode \union {None} /\ env_t \in [writes : Nat, faults : Nat]
           /\ env_t.faults \in Nat
           /\ move.pc # "idle" => move.entry \in Trash!Entry /\ Entered \in TrashEntry \union {None}
           /\ \A i \in Inode : inode[i] \in FileState /\ inode[i].version \in Nat
<1>1. DeletionTypeOK /\ UnusedEmpty
  BY DeletionParts
<1>2. move.pc # "idle" => move.entry \in Trash!Entry
  BY <1>1, Entries DEF DeletionTypeOK, UnusedEmpty
<1> QED
  BY <1>1, <1>2, DeletionParts DEF DeletionTypeOK, Entered, FileState

\* What a call that may fail does to the count of faults.
LEMMA Faults ==
    ASSUME DeletionInv, NEW o \in Trash!Failure, Trash!Faulty(o)
    PROVE  /\ o \in {"ok", "fails"} /\ env_t' \in [writes : Nat, faults : Nat]
           /\ o = "ok" => env_t'.faults = env_t.faults
           /\ o = "fails" => env_t'.faults # 0
           /\ env_t'.faults = 0 => env_t.faults = 0 /\ o = "ok"
  BY Deleting DEF Trash!Failure, Trash!Faulty

LEMMA DeleteKeeps == ASSUME DeletionInv, Trash!Delete PROVE DeletionInv'
<1>0. /\ DeletionTypeOK /\ UnusedEmpty /\ FilesKnown /\ FilesKept /\ move \in DeletionState
  BY Deleting
<1>1. UNCHANGED <<path, inode, trash, env_t>> /\ move.entry < MaxMoves
  BY DEF Trash!Delete
<1>2. /\ move' = [Trash!Idle EXCEPT !.pc = "lstat", !.entry = move.entry + 1]
      /\ move'.pc = "lstat" /\ move'.entry = move.entry + 1 /\ move'.outcome = None /\ move'.keep = FALSE
  BY DEF Trash!Delete, Trash!Idle
<1>3. move.entry \in 0..MaxMoves /\ move.entry + 1 \in 0..MaxMoves /\ move.entry + 1 \in Trash!Entry
  BY <1>0, <1>1, GatewayBounds DEF DeletionState, Trash!Entry
<1>4. move' \in DeletionState
  BY <1>2, <1>3 DEF DeletionState, Trash!Idle
<1>5. DeletionTypeOK'
  BY <1>0, <1>1, <1>4 DEF DeletionTypeOK
<1>6. UnusedEmpty'
  BY <1>0, <1>1, <1>2, <1>3, GatewayBounds DEF UnusedEmpty, Entered, Trash!Entry
<1>7. FilesKnown' /\ FilesKept'
  BY <1>0, <1>1 DEF FilesKnown, FilesKept, Trash!Recoverable
<1>8. EntryStands' /\ LinkedAgain' /\ Inspected'
  BY <1>2 DEF EntryStands, LinkedAgain, Inspected
<1>9. Answered' /\ MovedInspected' /\ FailureMarked'
  BY <1>2, GatewayBounds DEF Answered, MovedInspected, FailureMarked
<1> QED
  BY <1>5, <1>6, <1>7, <1>8, <1>9, DeletionPartsNext

\* A step that stays before the rename, with the file it found at the path.
LEMMA Inspecting ==
    ASSUME DeletionInv, UNCHANGED <<path, inode, trash, env_t>>, move' \in DeletionState,
           move'.entry = move.entry, move'.keep = move.keep, move'.outcome = move.outcome, move.outcome # "trashed",
           \/ move.pc = "lstat" /\ move'.pc = "open"
           \/ move.pc = "open" /\ move'.pc = "reserve" /\ move'.fd \in Inode /\ move'.stat.ino = move'.fd
    PROVE  DeletionInv'
<1>0. /\ DeletionTypeOK /\ UnusedEmpty /\ FilesKnown /\ FilesKept
  BY Deleting
<1>1. DeletionTypeOK' /\ UnusedEmpty'
  BY <1>0 DEF DeletionTypeOK, UnusedEmpty, Entered
<1>2. FilesKnown' /\ FilesKept'
  BY <1>0 DEF FilesKnown, FilesKept, Trash!Recoverable
<1>3. EntryStands' /\ LinkedAgain' /\ Inspected'
  BY DEF EntryStands, LinkedAgain, Inspected
<1>4. Answered' /\ MovedInspected' /\ FailureMarked'
  BY DEF Answered, MovedInspected, FailureMarked
<1> QED
  BY <1>1, <1>2, <1>3, <1>4, DeletionPartsNext

\* A deletion that fails before it has an entry.
LEMMA FailsEarly ==
    ASSUME DeletionInv, UNCHANGED <<path, inode, trash>>, move.pc \in {"lstat", "open", "reserve"}, move' = Trash!Fails,
           env_t' \in [writes : Nat, faults : Nat], env_t'.faults = 0 => env_t.faults = 0
    PROVE  DeletionInv'
<1>0. UnusedEmpty /\ move \in DeletionState
  BY Deleting
<1>1. /\ move'.pc = "ended" /\ move'.outcome = "failed" /\ move' \in DeletionState
      /\ move'.entry = move.entry /\ move'.keep = move.keep /\ move'.fd = move.fd /\ move'.stat = move.stat
  BY <1>0 DEF Trash!Fails, DeletionState
<1>2. Entered = None
  BY <1>0 DEF UnusedEmpty
<1> QED
  BY <1>1, <1>2, DeletionGoesOn

LEMMA LstatKeeps == ASSUME DeletionInv, Trash!Lstat PROVE DeletionInv'
<1>0. /\ move \in DeletionState /\ Answered /\ env_t \in [writes : Nat, faults : Nat] /\ path \in Inode \union {None}
      /\ \A i \in Inode : inode[i].version \in Nat
  BY Deleting
<1>1. UNCHANGED <<path, inode, trash, env_t>> /\ move.pc = "lstat"
  BY DEF Trash!Lstat
<1>2. CASE path = None
  BY <1>0, <1>1, <1>2, FailsEarly DEF Trash!Lstat
<1>3. CASE path # None
  <2>1. move' = [move EXCEPT !.pc = "open", !.stat = Trash!Stable(path)]
    BY <1>3 DEF Trash!Lstat
  <2>2. Trash!Stable(path) \in [ino : Inode, version : Nat]
    BY <1>0, <1>3 DEF Trash!Stable
  <2>3. /\ move' \in DeletionState /\ move'.pc = "open" /\ move'.entry = move.entry
        /\ move'.outcome = move.outcome /\ move'.keep = move.keep
    BY <1>0, <2>1, <2>2 DEF DeletionState
  <2>4. move.outcome # "trashed"
    BY <1>0, <1>1 DEF Answered
  <2> QED
    BY <1>1, <2>3, <2>4, Inspecting
<1> QED
  BY <1>2, <1>3

LEMMA OpenKeeps == ASSUME DeletionInv, Trash!Open PROVE DeletionInv'
<1>0. /\ move \in DeletionState /\ Answered /\ env_t \in [writes : Nat, faults : Nat] /\ path \in Inode \union {None}
  BY Deleting
<1>1. UNCHANGED <<path, inode, trash, env_t>> /\ move.pc = "open"
  BY DEF Trash!Open
<1>2. CASE ~Trash!AtPath(move.stat) \/ ~inode[path].ours
  BY <1>0, <1>1, <1>2, FailsEarly DEF Trash!Open
<1>3. CASE ~(~Trash!AtPath(move.stat) \/ ~inode[path].ours)
  <2>1. move' = [move EXCEPT !.pc = "reserve", !.fd = path]
    BY <1>3 DEF Trash!Open
  <2>2. path \in Inode /\ move.stat.ino = path
    BY <1>0, <1>3 DEF Trash!AtPath, Trash!Stable
  <2>3. /\ move' \in DeletionState /\ move'.pc = "reserve" /\ move'.entry = move.entry
        /\ move'.outcome = move.outcome /\ move'.keep = move.keep /\ move'.fd = path /\ move'.stat = move.stat
    BY <1>0, <2>1, <2>2 DEF DeletionState
  <2>4. move.outcome # "trashed"
    BY <1>0, <1>1 DEF Answered
  <2> QED
    BY <1>1, <2>2, <2>3, <2>4, Inspecting
<1> QED
  BY <1>2, <1>3

LEMMA ReserveKeeps == ASSUME DeletionInv, Trash!Reserve PROVE DeletionInv'
<1>0. /\ move \in DeletionState /\ UnusedEmpty /\ Answered /\ Inspected
  BY Deleting
<1>1. UNCHANGED <<path, inode>> /\ move.pc = "reserve" /\ Entered = None
  BY <1>0 DEF Trash!Reserve, UnusedEmpty
<1>2. PICK o \in Trash!Failure :
         /\ Trash!Faulty(o)
         /\ IF o = "ok"
            THEN /\ move' = [move EXCEPT !.pc = "metadata"]
                 /\ trash' = [trash EXCEPT ![move.entry] = [file |-> None, metadata |-> FALSE, quarantine |-> FALSE]]
            ELSE move' = Trash!Fails /\ UNCHANGED trash
  BY DEF Trash!Reserve
<1>3. /\ env_t' \in [writes : Nat, faults : Nat] /\ (env_t'.faults = 0 => env_t.faults = 0 /\ o = "ok")
  BY <1>2, Faults
<1>4. CASE o # "ok"
  BY <1>1, <1>2, <1>3, <1>4, FailsEarly
<1>5. CASE o = "ok"
  <2> DEFINE x == [file |-> None, metadata |-> FALSE, quarantine |-> FALSE]
  <2>1. /\ move'.pc = "metadata" /\ move' \in DeletionState /\ move'.entry = move.entry
        /\ move'.outcome = move.outcome /\ move'.outcome # "trashed" /\ move'.keep = move.keep
        /\ move'.fd = move.fd /\ move'.stat = move.stat
    BY <1>0, <1>1, <1>2, <1>5 DEF DeletionState, Answered
  <2>2. x \in TrashEntry /\ x # None /\ x.file = None
    BY Entries DEF TrashEntry
  <2>3. trash' = [trash EXCEPT ![move.entry] = x]
    BY <1>2, <1>5
  <2> HIDE DEF x
  <2>0. path' = path /\ move.pc # "idle" /\ inode' = inode
    BY <1>1
  <2>4. DeletionTypeOK' /\ UnusedEmpty' /\ FilesKnown' /\ FilesKept' /\ MovedInspected' /\ Entered' = x
    BY <2>0, <1>1, <1>3, <2>1, <2>2, <2>3, EntryChanges
  <2>5. ~move.keep
    BY <1>0, <1>1 DEF UnusedEmpty
  <2>6. EntryStands' /\ LinkedAgain'
    BY <2>1, <2>2, <2>4, <2>5 DEF EntryStands, LinkedAgain
  <2>7. Inspected' /\ Answered' /\ FailureMarked'
    BY <1>0, <1>1, <2>1 DEF Inspected, Answered, FailureMarked
  <2> QED
    BY <2>4, <2>6, <2>7, DeletionPartsNext
<1> QED
  BY <1>4, <1>5

LEMMA MetadataKeeps == ASSUME DeletionInv, Trash!Metadata PROVE DeletionInv'
<1>0. /\ DeletionTypeOK /\ move \in DeletionState /\ EntryStands /\ Answered /\ Inspected /\ Entered \in TrashEntry \union {None}
      /\ move.pc = "metadata" /\ move.entry \in Trash!Entry
  BY Deleting DEF Trash!Metadata
<1>1. UNCHANGED <<path, inode>> /\ Entered # None /\ Entered.file = None /\ ~move.keep
  BY <1>0 DEF Trash!Metadata, EntryStands
<1>2. PICK o \in Trash!Failure :
         /\ Trash!Faulty(o)
         /\ move' = IF o = "ok" THEN [move EXCEPT !.pc = "stat"] ELSE Trash!Cleans
         /\ trash' = [trash EXCEPT ![move.entry].metadata = o = "ok"]
  BY DEF Trash!Metadata
<1>3. env_t' \in [writes : Nat, faults : Nat]
  BY <1>2, Faults
<1> DEFINE x == [Entered EXCEPT !.metadata = o = "ok"]
<1>4. x \in TrashEntry /\ x # None /\ x.file = None /\ (o = "ok" => x.metadata)
  <2>1. Entered \in TrashEntry /\ (o = "ok") \in BOOLEAN
    BY <1>0, <1>1
  <2>2. x \in TrashEntry /\ x.file = None
    BY <1>1, <2>1 DEF TrashEntry
  <2>3. o = "ok" => x.metadata
    BY <2>1 DEF TrashEntry
  <2> QED
    BY <2>2, <2>3, Entries
<1>5. trash' = [trash EXCEPT ![move.entry] = x]
  BY <1>0, <1>2 DEF Entered, DeletionTypeOK
<1> HIDE DEF x
<1>6. /\ move' \in DeletionState /\ move'.entry = move.entry /\ move'.keep = move.keep
      /\ move'.fd = move.fd /\ move'.stat = move.stat
      /\ \/ o = "ok" /\ move'.pc = "stat" /\ move'.outcome = move.outcome
         \/ move'.pc = "clean" /\ move'.outcome = "failed"
  BY <1>0, <1>2 DEF DeletionState, Trash!Cleans
<1>7. move.outcome # "trashed"
  BY <1>0 DEF Answered
<1>8. DeletionTypeOK' /\ UnusedEmpty' /\ FilesKnown' /\ FilesKept' /\ MovedInspected' /\ Entered' = x
  BY <1>0, <1>1, <1>3, <1>4, <1>5, <1>6, <1>7, Entries, EntryChanges
<1>9. EntryStands' /\ LinkedAgain'
  BY <1>1, <1>4, <1>6, <1>8 DEF EntryStands, LinkedAgain
<1>10. Inspected' /\ Answered' /\ FailureMarked'
  BY <1>0, <1>1, <1>6, <1>7 DEF Inspected, Answered, FailureMarked
<1> QED
  BY <1>8, <1>9, <1>10, DeletionPartsNext

\* Where the deletion goes when it gives up, or is answered, with nothing moved.
LEMMA CleansExact ==
    ASSUME DeletionInv, move' = Trash!Cleans
    PROVE  /\ move' \in DeletionState /\ move'.pc = "clean" /\ move'.outcome = "failed"
           /\ move'.entry = move.entry /\ move'.keep = move.keep /\ move'.fd = move.fd /\ move'.stat = move.stat
  BY Deleting DEF DeletionState, Trash!Cleans

LEMMA GoesExact ==
    ASSUME DeletionInv,
           NEW pc \in {"rename", "link", "unlink", "quarantine", "ended"}, move' = [move EXCEPT !.pc = pc]
    PROVE  /\ move' \in DeletionState /\ move'.pc = pc /\ move'.outcome = move.outcome
           /\ move'.entry = move.entry /\ move'.keep = move.keep /\ move'.fd = move.fd /\ move'.stat = move.stat
  BY Deleting DEF DeletionState

LEMMA StatKeeps == ASSUME DeletionInv, Trash!Stat PROVE DeletionInv'
<1>0. move.pc = "stat" /\ move.outcome # "trashed" /\ env_t \in [writes : Nat, faults : Nat]
  BY Deleting DEF Trash!Stat, Answered
<1>1. UNCHANGED <<path, inode, trash, env_t>>
  BY DEF Trash!Stat
<1>2. CASE move' = [move EXCEPT !.pc = "rename"]
  BY <1>0, <1>1, <1>2, GoesExact, DeletionGoesOn
<1>3. CASE move' = Trash!Cleans
  BY <1>0, <1>1, <1>3, CleansExact, DeletionGoesOn
<1> QED
  BY <1>2, <1>3 DEF Trash!Stat

LEMMA RenameKeeps == ASSUME DeletionInv, Trash!Rename PROVE DeletionInv'
<1>0. /\ DeletionTypeOK /\ move \in DeletionState /\ EntryStands /\ FilesKnown /\ Answered /\ Inspected
      /\ Entered \in TrashEntry \union {None}
      /\ move.pc = "rename" /\ move.entry \in Trash!Entry /\ path \in Inode \union {None}
  BY Deleting DEF Trash!Rename
<1>1. UNCHANGED inode /\ Entered # None /\ Entered.file = None /\ Entered.metadata
  BY <1>0 DEF Trash!Rename, EntryStands
<1>2. PICK o \in Trash!Failure :
         /\ Trash!Faulty(o)
         /\ IF o = "ok" /\ path # None
            THEN /\ trash' = [trash EXCEPT ![move.entry].file = path]
                 /\ path' = None
                 /\ move' = [move EXCEPT !.pc = "moved", !.keep = TRUE]
            ELSE move' = Trash!Cleans /\ UNCHANGED <<path, trash>>
  BY DEF Trash!Rename
<1>3. /\ env_t' \in [writes : Nat, faults : Nat] /\ (env_t'.faults = 0 => env_t.faults = 0)
      /\ move.outcome # "trashed"
  BY <1>0, <1>2, Faults DEF Answered
<1>4. CASE ~(o = "ok" /\ path # None)
  <2>1. move' = Trash!Cleans /\ UNCHANGED <<path, trash>>
    BY <1>2, <1>4
  <2> QED
    BY <1>0, <1>1, <1>3, <2>1, CleansExact, DeletionGoesOn
<1>5. CASE o = "ok" /\ path # None
  <2> DEFINE x == [Entered EXCEPT !.file = path]
  <2>1. x \in TrashEntry /\ x # None /\ x.file = path /\ x.metadata
    BY <1>0, <1>1, Entries DEF TrashEntry
  <2>2. trash' = [trash EXCEPT ![move.entry] = x]
    BY <1>0, <1>2, <1>5 DEF Entered, DeletionTypeOK
  <2> HIDE DEF x
  <2>3. /\ move' \in DeletionState /\ move'.entry = move.entry /\ move'.keep /\ move'.pc = "moved"
        /\ move'.outcome = move.outcome /\ move'.fd = move.fd /\ move'.stat = move.stat
    BY <1>0, <1>2, <1>5, ZenonT(100) DEF DeletionState
  <2>4. path' = None /\ path # None /\ inode[path].state # "free"
    BY <1>0, <1>2, <1>5 DEF FilesKnown
  <2>5. \A i \in Inode : path = i \/ Entered.file = i => x.file = i
    BY <1>1, <2>1, Entries
  <2>6. DeletionTypeOK' /\ UnusedEmpty' /\ FilesKnown' /\ FilesKept' /\ MovedInspected' /\ Entered' = x
    BY <1>0, <1>1, <1>3, <2>1, <2>2, <2>3, <2>4, <2>5, EntryChanges
  <2>7. EntryStands' /\ LinkedAgain'
    BY <2>1, <2>3, <2>4, <2>6 DEF EntryStands, LinkedAgain
  <2>8. Inspected' /\ Answered' /\ FailureMarked'
    BY <1>0, <1>3, <2>3 DEF Inspected, Answered, FailureMarked
  <2> QED
    BY <2>6, <2>7, <2>8, DeletionPartsNext
<1> QED
  BY <1>4, <1>5

LEMMA MovedKeeps == ASSUME DeletionInv, Trash!Moved PROVE DeletionInv'
<1>0. /\ DeletionTypeOK /\ UnusedEmpty /\ FilesKnown /\ FilesKept /\ move \in DeletionState /\ EntryStands /\ Answered /\ Inspected
      /\ Entered \in TrashEntry \union {None} /\ move.pc = "moved"
  BY Deleting DEF Trash!Moved
<1>1. UNCHANGED <<path, inode, trash>> /\ Entered # None /\ Entered.file # None /\ move.keep
  BY <1>0 DEF Trash!Moved, EntryStands
<1>2. PICK o \in Trash!Failure :
         /\ Trash!Faulty(o)
         /\ \/ o = "fails" /\ move' = Trash!Cleans
            \/ move' = [move EXCEPT !.pc = "link"]
            \/ /\ o = "ok" /\ Trash!InEntry(move.stat) /\ inode[move.fd].ours
               /\ move' = [move EXCEPT !.pc = "ended", !.outcome = "trashed"]
  BY DEF Trash!Moved
<1>3. /\ env_t' \in [writes : Nat, faults : Nat] /\ (env_t'.faults = 0 => env_t.faults = 0)
      /\ move.outcome # "trashed" /\ (o = "fails" => env_t'.faults # 0)
  BY <1>0, <1>2, Faults DEF Answered
<1>4. CASE o = "fails" /\ move' = Trash!Cleans
  BY <1>0, <1>1, <1>3, <1>4, CleansExact, DeletionGoesOn
<1>5. CASE move' = [move EXCEPT !.pc = "link"]
  BY <1>0, <1>1, <1>3, <1>5, GoesExact, DeletionGoesOn
<1>6. CASE /\ Trash!InEntry(move.stat) /\ inode[move.fd].ours
           /\ move' = [move EXCEPT !.pc = "ended", !.outcome = "trashed"]
  <2>1. /\ move' \in DeletionState /\ move'.pc = "ended" /\ move'.outcome = "trashed"
        /\ move'.entry = move.entry /\ move'.fd = move.fd
    BY <1>0, <1>6 DEF DeletionState
  <2>2. Entered' = Entered
    BY <1>1, <2>1 DEF Entered
  <2>3. Entered.file = move.fd
    BY <1>0, <1>6 DEF Inspected, Trash!InEntry, Trash!Stable, Entered
  <2>4. DeletionTypeOK' /\ UnusedEmpty'
    BY <1>0, <1>1, <1>3, <2>1 DEF DeletionTypeOK, UnusedEmpty
  <2>5. FilesKnown' /\ FilesKept'
    BY <1>0, <1>1 DEF FilesKnown, FilesKept, Trash!Recoverable
  <2>6. EntryStands' /\ LinkedAgain' /\ Inspected' /\ Answered' /\ FailureMarked'
    BY <1>1, <2>1, <2>2 DEF EntryStands, LinkedAgain, Inspected, Answered, FailureMarked
  <2>7. MovedInspected'
    BY <1>1, <1>6, <2>1, <2>2, <2>3 DEF MovedInspected
  <2> QED
    BY <2>4, <2>5, <2>6, <2>7, DeletionPartsNext
<1> QED
  BY <1>2, <1>4, <1>5, <1>6

LEMMA LinkKeeps == ASSUME DeletionInv, Trash!Link PROVE DeletionInv'
<1>0. /\ DeletionTypeOK /\ UnusedEmpty /\ FilesKnown /\ FilesKept /\ move \in DeletionState /\ EntryStands /\ Answered /\ Inspected
      /\ Entered \in TrashEntry \union {None} /\ move.pc = "link" /\ move.entry \in Trash!Entry
  BY Deleting DEF Trash!Link
<1>1. UNCHANGED <<inode, trash>> /\ Entered # None /\ Entered.file # None /\ move.keep /\ Entered.metadata
  BY <1>0 DEF Trash!Link, EntryStands
<1>2. PICK o \in Trash!Failure :
         /\ Trash!Faulty(o)
         /\ IF o = "ok" /\ path = None
            THEN path' = trash[move.entry].file /\ move' = [move EXCEPT !.pc = "unlink"]
            ELSE move' = [move EXCEPT !.pc = "quarantine"] /\ UNCHANGED path
  BY DEF Trash!Link
<1>3. /\ env_t' \in [writes : Nat, faults : Nat] /\ (env_t'.faults = 0 => env_t.faults = 0)
      /\ move.outcome # "trashed"
  BY <1>0, <1>2, Faults DEF Answered
<1>4. CASE ~(o = "ok" /\ path = None)
  <2>1. move' = [move EXCEPT !.pc = "quarantine"] /\ UNCHANGED path
    BY <1>2, <1>4
  <2> QED
    BY <1>0, <1>1, <1>3, <2>1, GoesExact, DeletionGoesOn
<1>5. CASE o = "ok" /\ path = None
  <2>1. path' = Entered.file /\ path = None
    BY <1>2, <1>5 DEF Entered
  <2>2. /\ move' \in DeletionState /\ move'.pc = "unlink" /\ move'.outcome = move.outcome
        /\ move'.entry = move.entry /\ move'.keep = move.keep /\ move'.fd = move.fd /\ move'.stat = move.stat
    BY <1>2, <1>5, GoesExact
  <2>3. Entered' = Entered
    BY <1>1, <2>2 DEF Entered
  <2>4. Entered.file \in Inode
    BY <1>0, <1>1, Entries
  <2>5. DeletionTypeOK' /\ UnusedEmpty'
    BY <1>0, <1>1, <1>3, <2>1, <2>2, <2>4 DEF DeletionTypeOK, UnusedEmpty
  <2>6. FilesKnown'
    BY <1>0, <1>1, <2>1 DEF FilesKnown, Entered
  <2>7. FilesKept'
    BY <1>0, <1>1, <2>1, Entries DEF FilesKept, Trash!Recoverable
  <2>8. EntryStands' /\ LinkedAgain' /\ Inspected' /\ Answered' /\ MovedInspected' /\ FailureMarked'
    BY <1>0, <1>1, <1>3, <2>1, <2>2, <2>3
       DEF EntryStands, LinkedAgain, Inspected, Answered, MovedInspected, FailureMarked
  <2> QED
    BY <2>5, <2>6, <2>7, <2>8, DeletionPartsNext
<1> QED
  BY <1>4, <1>5

LEMMA UnlinkKeeps == ASSUME DeletionInv, Trash!Unlink PROVE DeletionInv'
<1>0. /\ DeletionTypeOK /\ LinkedAgain /\ move \in DeletionState /\ EntryStands /\ Answered /\ Inspected
      /\ Entered \in TrashEntry \union {None} /\ move.pc = "unlink" /\ move.entry \in Trash!Entry
  BY Deleting DEF Trash!Unlink
<1>1. UNCHANGED <<path, inode>> /\ Entered # None /\ Entered.file # None /\ move.keep
  BY <1>0 DEF Trash!Unlink, EntryStands
<1>2. PICK o \in Trash!Failure :
         /\ Trash!Faulty(o)
         /\ IF o = "ok"
            THEN /\ trash' = [trash EXCEPT ![move.entry].file = None]
                 /\ move' = [Trash!Cleans EXCEPT !.keep = FALSE]
            ELSE move' = [move EXCEPT !.pc = "quarantine"] /\ UNCHANGED trash
  BY DEF Trash!Unlink
<1>3. /\ env_t' \in [writes : Nat, faults : Nat] /\ (env_t'.faults = 0 => env_t.faults = 0)
      /\ move.outcome # "trashed"
  BY <1>0, <1>2, Faults DEF Answered
<1>4. CASE o # "ok"
  <2>1. move' = [move EXCEPT !.pc = "quarantine"] /\ UNCHANGED trash
    BY <1>2, <1>4
  <2> QED
    BY <1>0, <1>1, <1>3, <2>1, GoesExact, DeletionGoesOn
<1>5. CASE o = "ok"
  <2> DEFINE x == [Entered EXCEPT !.file = None]
  <2>1. x \in TrashEntry /\ x # None /\ x.file = None
    BY <1>0, <1>1, Entries DEF TrashEntry
  <2>2. trash' = [trash EXCEPT ![move.entry] = x]
    BY <1>0, <1>2, <1>5 DEF Entered, DeletionTypeOK
  <2> HIDE DEF x
  <2>3. /\ move' \in DeletionState /\ move'.entry = move.entry /\ ~move'.keep /\ move'.pc = "clean"
        /\ move'.outcome = "failed" /\ move'.fd = move.fd /\ move'.stat = move.stat
    BY <1>0, <1>2, <1>5, ZenonT(100) DEF DeletionState, Trash!Cleans
  <2>4. \A i \in Inode : inode[i].state = "live" /\ (path = i \/ Entered.file = i) => path' = i
    BY <1>0, <1>1 DEF LinkedAgain
  <2>5. DeletionTypeOK' /\ UnusedEmpty' /\ FilesKnown' /\ FilesKept' /\ MovedInspected' /\ Entered' = x
    BY <1>0, <1>1, <1>3, <2>1, <2>2, <2>3, <2>4, EntryChanges
  <2>6. EntryStands' /\ LinkedAgain'
    BY <2>1, <2>3, <2>5 DEF EntryStands, LinkedAgain
  <2>7. Inspected' /\ Answered' /\ FailureMarked'
    BY <2>3 DEF Inspected, Answered, FailureMarked
  <2> QED
    BY <2>5, <2>6, <2>7, DeletionPartsNext
<1> QED
  BY <1>4, <1>5

LEMMA QuarantineKeeps == ASSUME DeletionInv, Trash!Quarantine PROVE DeletionInv'
<1>0. /\ DeletionTypeOK /\ FilesKnown /\ move \in DeletionState /\ EntryStands
      /\ Entered \in TrashEntry \union {None} /\ move.pc = "quarantine" /\ move.entry \in Trash!Entry
  BY Deleting DEF Trash!Quarantine
<1>1. UNCHANGED <<path, inode>> /\ Entered # None /\ Entered.file # None /\ move.keep
  BY <1>0 DEF Trash!Quarantine, EntryStands
<1>2. PICK o \in Trash!Failure :
         /\ Trash!Faulty(o)
         /\ trash' = [trash EXCEPT ![move.entry].quarantine = o = "ok"]
         /\ move' = Trash!Cleans
  BY DEF Trash!Quarantine
<1>3. /\ env_t' \in [writes : Nat, faults : Nat] /\ (env_t'.faults = 0 => o = "ok")
  BY <1>2, Faults
<1> DEFINE x == [Entered EXCEPT !.quarantine = o = "ok"]
<1>4. /\ x \in TrashEntry /\ x # None /\ x.file = Entered.file /\ x.metadata = Entered.metadata
      /\ (o = "ok" => x.quarantine)
  <2>1. Entered \in TrashEntry /\ (o = "ok") \in BOOLEAN
    BY <1>0, <1>1
  <2>2. x \in TrashEntry /\ x.file = Entered.file /\ x.metadata = Entered.metadata
    BY <2>1 DEF TrashEntry
  <2>3. o = "ok" => x.quarantine
    BY <2>1 DEF TrashEntry
  <2> QED
    BY <2>2, <2>3, Entries
<1>5. trash' = [trash EXCEPT ![move.entry] = x]
  BY <1>0, <1>2 DEF Entered, DeletionTypeOK
<1> HIDE DEF x
<1>6. /\ move' \in DeletionState /\ move'.pc = "clean" /\ move'.outcome = "failed"
      /\ move'.entry = move.entry /\ move'.keep = move.keep /\ move'.fd = move.fd /\ move'.stat = move.stat
  BY <1>2, CleansExact
<1>7. inode[x.file].state # "free"
  BY <1>0, <1>1, <1>4 DEF FilesKnown, Entered
<1>8. DeletionTypeOK' /\ UnusedEmpty' /\ FilesKnown' /\ FilesKept' /\ MovedInspected' /\ Entered' = x
  BY <1>0, <1>1, <1>3, <1>4, <1>5, <1>6, <1>7, EntryChanges
<1>9. EntryStands' /\ LinkedAgain'
  BY <1>1, <1>4, <1>6, <1>8 DEF EntryStands, LinkedAgain
<1>10. Inspected' /\ Answered' /\ FailureMarked'
  BY <1>3, <1>4, <1>6, <1>8 DEF Inspected, Answered, FailureMarked
<1> QED
  BY <1>8, <1>9, <1>10, DeletionPartsNext

LEMMA CleanKeeps == ASSUME DeletionInv, Trash!Clean PROVE DeletionInv'
<1>0. /\ DeletionTypeOK /\ move \in DeletionState /\ EntryStands /\ Answered
      /\ Entered \in TrashEntry \union {None} /\ move.pc = "clean" /\ move.entry \in Trash!Entry
  BY Deleting DEF Trash!Clean
<1>1. UNCHANGED <<path, inode>> /\ Entered # None /\ (move.keep <=> Entered.file # None) /\ move.outcome = "failed"
  BY <1>0 DEF Trash!Clean, EntryStands, Answered
<1>2. PICK o \in IF move.keep THEN {"ok"} ELSE Trash!Failure :
         /\ Trash!Faulty(o)
         /\ trash' = IF move.keep \/ o = "fails" THEN trash ELSE [trash EXCEPT ![move.entry] = None]
         /\ move' = [move EXCEPT !.pc = "ended"]
  BY DEF Trash!Clean
<1>3. o \in Trash!Failure
  BY <1>2 DEF Trash!Failure
<1>4. /\ env_t' \in [writes : Nat, faults : Nat] /\ (env_t'.faults = 0 => env_t.faults = 0 /\ o = "ok")
      /\ (o = "fails" => env_t'.faults # 0)
  BY <1>2, <1>3, Faults
<1>5. /\ move' \in DeletionState /\ move'.pc = "ended" /\ move'.outcome = move.outcome
      /\ move'.entry = move.entry /\ move'.keep = move.keep /\ move'.fd = move.fd /\ move'.stat = move.stat
  BY <1>2, GoesExact
<1>6. CASE move.keep \/ o = "fails"
  <2>1. UNCHANGED trash
    BY <1>2, <1>6
  <2> QED
    BY <1>0, <1>1, <1>4, <1>5, <1>6, <2>1, DeletionGoesOn
<1>7. CASE ~(move.keep \/ o = "fails")
  <2>1. trash' = [trash EXCEPT ![move.entry] = None] /\ Entered.file = None
    BY <1>1, <1>2, <1>7
  <2>2. DeletionTypeOK' /\ UnusedEmpty' /\ FilesKnown' /\ FilesKept' /\ MovedInspected' /\ Entered' = None
    BY <1>0, <1>1, <1>4, <1>5, <2>1, Entries, EntryChanges
  <2>3. EntryStands' /\ LinkedAgain' /\ Inspected' /\ Answered' /\ FailureMarked'
    BY <1>1, <1>5, <2>2 DEF EntryStands, LinkedAgain, Inspected, Answered, FailureMarked
  <2> QED
    BY <2>2, <2>3, DeletionPartsNext
<1> QED
  BY <1>6, <1>7

LEMMA CrashKeeps == ASSUME DeletionInv, Trash!Crash PROVE DeletionInv'
<1>0. /\ move \in DeletionState /\ env_t \in [writes : Nat, faults : Nat]
  BY Deleting
<1>1. UNCHANGED <<path, inode, trash>> /\ move.pc # "idle"
  BY DEF Trash!Crash
<1>2. /\ env_t' \in [writes : Nat, faults : Nat] /\ env_t'.faults # 0
  BY <1>0 DEF Trash!Crash
<1>3. /\ move' \in DeletionState /\ move'.pc = "ended" /\ move'.outcome = "crashed"
      /\ move'.entry = move.entry /\ move'.keep = move.keep /\ move'.fd = move.fd /\ move'.stat = move.stat
  BY <1>0 DEF Trash!Crash, DeletionState
<1> QED
  BY <1>1, <1>2, <1>3, DeletionGoesOn

-----------------------------------------------------------------------------
(* The theorem.                                                            *)

LEMMA DeletionStays == ASSUME DeletionInv, UNCHANGED deletion PROVE DeletionInv'
  BY DEF deletion, DeletionInv, DeletionTypeOK, UnusedEmpty, FilesKnown, EntryStands, LinkedAgain, Inspected,
         Answered, Entered, NothingLost, Trash!NothingLost, Trash!Recoverable

LEMMA DeletionSteps == ASSUME DeletionInv, Trash!Next PROVE DeletionInv'
  BY AppendsKeeps, ReplacesKeeps, RemovesKeeps, DeleteKeeps, LstatKeeps, OpenKeeps, ReserveKeeps, MetadataKeeps,
     StatKeeps, RenameKeeps, MovedKeeps, LinkKeeps, UnlinkKeeps, QuarantineKeeps, CleanKeeps, CrashKeeps
     DEF Trash!Next

\* The DELETE route and recoverable-session-trash.ts lose no file, whatever
\* other programs do to the path meanwhile and wherever a call fails or the
\* server dies: a file nobody else removed is at its path or in an entry that
\* says where it came from, and the answer is true of the file that was moved.
THEOREM DeletionsLoseNothing == MCSpec => []NothingLost
<1>1. MCInit => DeletionInv
  BY DeletionBegins DEF MCInit
<1>2. DeletionInv /\ [MCNext]_all => DeletionInv'
  <2> SUFFICES ASSUME DeletionInv, [MCNext]_all PROVE DeletionInv'
    OBVIOUS
  <2>1. UNCHANGED deletion \/ Trash!Next
    BY DEF MCNext, all, Sends, Lists, Deletes, Extends
  <2> QED
    BY <2>1, DeletionStays, DeletionSteps
<1>3. DeletionInv => NothingLost
  BY DEF DeletionInv
<1> QED
  BY <1>1, <1>2, <1>3, PTL DEF MCSpec

-----------------------------------------------------------------------------
(* The catalog: what NativeCatalogProofs has of any files, for those of    *)
(* each part.                                                              *)

CatalogHolds ==
  /\ part = "failing" => Failing!CatalogInv
  /\ part = "revealing" => Revealing!CatalogInv
  /\ part \notin {"failing", "revealing"} => Changing!CatalogInv

LEMMA CatalogsBegin == MCInit => CatalogHolds
<1> SUFFICES ASSUME MCInit PROVE CatalogHolds
  OBVIOUS
<1>1. CASE part = "revealing"
  <2>1. Revealing!Init /\ Revealing!CatalogAssumption
    BY <1>1, CatalogBounds DEF MCInit
  <2> QED
    BY <1>1, <2>1, Revealing!CatalogBegins DEF CatalogHolds
<1>2. CASE part = "failing"
  <2>1. Failing!Init /\ Failing!CatalogAssumption
    BY <1>2, CatalogBounds DEF MCInit
  <2> QED
    BY <1>2, <2>1, Failing!CatalogBegins DEF CatalogHolds
<1>3. CASE part \notin {"failing", "revealing"}
  <2>1. Changing!Init /\ Changing!CatalogAssumption
    BY <1>3, CatalogBounds DEF MCInit
  <2> QED
    BY <1>3, <2>1, Changing!CatalogBegins DEF CatalogHolds
<1> QED
  BY <1>1, <1>2, <1>3

LEMMA CatalogsKept == CatalogHolds /\ [MCNext]_all => CatalogHolds'
<1> SUFFICES ASSUME CatalogHolds, [MCNext]_all PROVE CatalogHolds'
  OBVIOUS
<1>1. /\ part' = part
      /\ \/ UNCHANGED files
         \/ part = "changing" /\ Changing!Next
         \/ part = "failing" /\ Failing!Next
         \/ part = "revealing" /\ Revealing!Next
  BY DEF MCNext, all, Sends, Lists, Deletes, Extends
<1>2. CASE part = "revealing"
  <2>1. Revealing!Next \/ UNCHANGED Revealing!vars
    BY <1>1, <1>2 DEF files, Revealing!vars
  <2>2. Revealing!CatalogInv'
    BY <1>2, <2>1, CatalogBounds, Revealing!CatalogSteps,
       Revealing!CatalogStays DEF CatalogHolds
  <2> QED
    BY <1>1, <1>2, <2>2 DEF CatalogHolds
<1>3. CASE part = "failing"
  <2>1. Failing!Next \/ UNCHANGED Failing!vars
    BY <1>1, <1>3 DEF files, Failing!vars
  <2>2. Failing!CatalogInv'
    BY <1>3, <2>1, CatalogBounds, Failing!CatalogSteps,
       Failing!CatalogStays DEF CatalogHolds
  <2> QED
    BY <1>1, <1>3, <2>2 DEF CatalogHolds
<1>4. CASE part \notin {"failing", "revealing"}
  <2>1. Changing!Next \/ UNCHANGED Changing!vars
    BY <1>1, <1>4 DEF files, Changing!vars
  <2>2. Changing!CatalogInv'
    BY <1>4, <2>1, CatalogBounds, Changing!CatalogSteps,
       Changing!CatalogStays DEF CatalogHolds
  <2> QED
    BY <1>1, <1>4, <2>2 DEF CatalogHolds
<1> QED
  BY <1>2, <1>3, <1>4

\* native-session-catalog.ts, where this module puts it beside the other parts:
\* the list says what was true of the files since it was asked for.
THEOREM CatalogsTruthful == MCSpec => []CatalogTruthful
<1>1. MCInit => CatalogHolds
  BY CatalogsBegin
<1>2. CatalogHolds /\ [MCNext]_all => CatalogHolds'
  BY CatalogsKept
<1>3. CatalogHolds => CatalogTruthful
  BY Changing!CatalogIsTruthful,
     Failing!CatalogIsTruthful, Revealing!CatalogIsTruthful DEF CatalogHolds, CatalogTruthful
<1> QED
  BY <1>1, <1>2, <1>3, PTL DEF MCSpec

-----------------------------------------------------------------------------
\* None is not one of the sequence numbers a browser waits for.
DialogsAssumption == None \notin Nat

-----------------------------------------------------------------------------
(* What the variables hold.                                                *)

Ids == Dialog \cup Key \cup {None}
Kinds == {"dialog", "sticky", "notify"}
Entry == [type : {"request"}, kind : Kinds, id : Ids, clear : BOOLEAN, n : Nat]
OfDialog(f) == f.type = "closed" => f.kind = "dialog"
ExtFrame == {f \in [type : {"request", "closed"}, kind : Kinds, id : Ids, clear : BOOLEAN, n : Nat] : OfDialog(f)}
WireFrame ==
  {f \in [type : {"request", "closed"}, kind : Kinds, id : Ids, clear : BOOLEAN, n : Nat, seq : Nat] : OfDialog(f)}
Resync == [type : {"resync"}, seq : Nat, requests : Seq(Entry)]
Result == [type : {"result"}, id : Dialog]
Message == WireFrame \cup Resync \cup Result
RuntimeState ==
  [phase : {"startup", "ready", "awaiting", "verifying"}, pending : Seq(Entry), sticky : Seq(Entry), held : Seq(Entry),
   seq : Nat, asked : Nat, used : SUBSET Dialog, resyncs : Nat]
BrowserState ==
  [seq : Nat, pending : Seq(Entry), barrier : Nat \cup {None}, snapshot : Resync \cup {None}, buffer : Seq(WireFrame),
   acknowledged : SUBSET Dialog, delivered : SUBSET Nat, responding : SUBSET Nat]

DialogsTypeOK ==
  /\ runtime \in RuntimeState
  /\ down \in Seq(Message)
  /\ browser \in BrowserState
  /\ up \in Seq(Dialog)
  /\ told \in [answers : Seq(Nat), notified : Seq(Nat)]

-----------------------------------------------------------------------------
(* The inductive invariant.                                                *)

\* Dialogs have ids that were used.
Known(s, used) == \A x \in Dialogs!Among(s) : x.kind = "dialog" => x.id \in used
KnownMessage(m, used) ==
  /\ m \in WireFrame => (m.kind = "dialog" => m.id \in used)
  /\ m \in Resync => Known(m.requests, used)
Used ==
  /\ Known(browser.pending, runtime.used) /\ Known(browser.buffer, runtime.used)
  /\ browser.barrier # None => Known(browser.snapshot.requests, runtime.used)
  /\ \A m \in Dialogs!Among(down) : KnownMessage(m, runtime.used)
  /\ \A i \in DOMAIN up : up[i] \in runtime.used

\* The dialogs and the sticky state of the runtime are one for each id.
PendingOK(r) ==
  /\ \A x \in Dialogs!Among(r.pending) : x.kind = "dialog" /\ ~x.clear /\ x.id \in r.used /\ x.n <= r.asked
  /\ \A x, y \in Dialogs!Among(r.pending) : x.id = y.id \/ x.n = y.n => x = y
StickyOK(s) ==
  /\ \A x \in Dialogs!Among(s) : x.kind = "sticky" /\ ~x.clear
  /\ \A i, j \in DOMAIN s : s[i].id = s[j].id => i = j
IsNote(m) == m.type = "request" /\ m.kind = "notify"
HeldOK(r) ==
  /\ r.phase = "ready" => r.held = <<>>
  /\ Known(r.held, r.used)
  /\ \A x \in Dialogs!Among(r.held) : (IsNote(x) => x.n <= r.asked) /\ (x.kind = "dialog" => ~x.clear)
  /\ r.phase = "startup" => \A x \in Dialogs!Among(r.pending) : x \in Dialogs!Among(r.held)

\* A dialog that was answered is over, and is answered once.
AnswersOK(t, r) ==
  /\ \A i \in DOMAIN t.answers : t.answers[i] <= r.asked
  /\ \A i, j \in DOMAIN t.answers : t.answers[i] = t.answers[j] => i = j
  /\ \A i \in DOMAIN t.answers : \A x \in Dialogs!Among(r.pending) : x.n # t.answers[i]
Over(id, r) == id \in r.used /\ \A x \in Dialogs!Among(r.pending) : x.id # id
ResultsOK ==
  /\ \A id \in browser.acknowledged : Over(id, runtime)
  /\ \A m \in Dialogs!Among(down) : m \in Result => Over(m.id, runtime)

\* Notifications are on their way in the order they were made.
Rising(s) == \A i, j \in DOMAIN s : i < j /\ IsNote(s[i]) /\ IsNote(s[j]) => s[i].n < s[j].n
Below(s, t) == \A x \in Dialogs!Among(s), y \in Dialogs!Among(t) : IsNote(x) /\ IsNote(y) => x.n < y.n
AllBelow(s, t) == \A i \in DOMAIN s : \A y \in Dialogs!Among(t) : IsNote(y) => s[i] < y.n
NotesOK ==
  /\ \A i, j \in DOMAIN told.notified : i < j => told.notified[i] < told.notified[j]
  /\ Rising(browser.buffer) /\ Rising(down) /\ Rising(runtime.held)
  /\ AllBelow(told.notified, browser.buffer) /\ AllBelow(told.notified, down) /\ AllBelow(told.notified, runtime.held)
  /\ Below(browser.buffer, down) /\ Below(browser.buffer, runtime.held) /\ Below(down, runtime.held)
  /\ \A i \in DOMAIN told.notified : told.notified[i] <= runtime.asked
  /\ \A m \in Dialogs!Among(down) \cup Dialogs!Among(browser.buffer) : IsNote(m) => m.n <= runtime.asked

\* Frames come in order, those after a snapshot are newer than it.
NumbersOK ==
  /\ \A i \in DOMAIN down :
       /\ down[i] \in WireFrame =>
            /\ browser.seq < down[i].seq /\ down[i].seq <= runtime.seq
            /\ browser.barrier # None => browser.barrier < down[i].seq
       /\ down[i] \in Resync => down[i].seq <= runtime.seq
       /\ \A j \in DOMAIN down : i < j /\ down[j] \in WireFrame /\ down[i] \notin Result => down[i].seq < down[j].seq
  /\ browser.seq <= runtime.seq
  /\ browser.barrier = None => browser.buffer = <<>>
  /\ browser.barrier # None =>
       /\ browser.snapshot \in Resync /\ browser.snapshot.seq = browser.barrier /\ browser.barrier <= runtime.seq
       /\ \A f \in Dialogs!Among(browser.buffer) : browser.barrier < f.seq /\ f.seq <= browser.seq

\* What the messages of s, in order, make of what is shown for the key k.
ShownKey == [kind : {"dialog", "sticky"}, id : Ids]
Concerns(m, k) ==
  \/ m.type = "resync"
  \/ m.type = "result" /\ k.kind = "dialog" /\ m.id = k.id
  \/ m.type \in {"request", "closed"} /\ m.kind = k.kind /\ m.id = k.id
Mark(x) == [id |-> x.id, n |-> x.n]
Marks(s, k) == {Mark(x) : x \in {y \in Dialogs!Among(s) : y.kind = k.kind /\ y.id = k.id /\ ~y.clear}}
Value(m, k) ==
  CASE m.type = "resync" -> Marks(m.requests, k)
    [] m.type = "request" -> (IF m.clear THEN {} ELSE {Mark(m)})
    [] OTHER -> {}
Concerning(s, k) == {i \in DOMAIN s : Concerns(s[i], k)}
Final(s, k, v) ==
  IF Concerning(s, k) = {} THEN v
  ELSE Value(s[CHOOSE i \in Concerning(s, k) : \A j \in Concerning(s, k) : j <= i], k)

\* What the browser shows, or will show once its snapshot is in.
Acknowledged(b, k) == k.kind = "dialog" /\ k.id \in b.acknowledged
Base(b, k) ==
  IF b.barrier = None THEN Marks(b.pending, k)
  ELSE IF Acknowledged(b, k) THEN {} ELSE Final(b.buffer, k, Marks(b.snapshot.requests, k))

\* What it may end with: what the runtime keeps, without a dialog whose frame
\* is held back.
Allowed(r, k) ==
  IF r.phase = "startup" THEN {{}}
  ELSE IF k.kind = "sticky" THEN {Marks(r.sticky, k)}
  ELSE {Marks(r.pending, k)} \cup (IF \E x \in Dialogs!Among(r.pending) : x.id = k.id /\ x \in Dialogs!Among(r.held) THEN {{}} ELSE {})
Agreed == \A k \in ShownKey : Final(down, k, Base(browser, k)) \in Allowed(runtime, k)

\* The frames held back during the startup make the sticky state.
StartupHeld ==
  runtime.phase = "startup" =>
    \A k \in ShownKey : k.kind = "sticky" => Final(runtime.held, k, {}) = Marks(runtime.sticky, k)

DialogsInv ==
  /\ DialogsTypeOK /\ Used /\ PendingOK(runtime) /\ StickyOK(runtime.sticky) /\ HeldOK(runtime)
  /\ AnswersOK(told, runtime) /\ ResultsOK /\ NotesOK /\ NumbersOK /\ StartupHeld /\ Agreed

-----------------------------------------------------------------------------
(* Induction, and sequences.                                               *)

\* A set of numbers has a least one, numbers can be counted, and a finite range has a last.
LEMMA LeastNumber == ASSUME NEW T \in SUBSET Nat, T # {} PROVE \E x \in T : \A y \in T : ~(y < x)
<1> DEFINE R == OpToRel(<, Nat)
<1>1. IsWellFoundedOn(R, Nat)
  BY NatLessThanWellFounded
<1>2. R = {xy \in Nat \X Nat : xy[1] < xy[2]}
  BY DEF OpToRel
<1> HIDE DEF R
<1>3. \E x \in T : \A y \in T : ~(<<y, x>> \in R)
  BY <1>1, WFMin
<1> QED
  BY <1>2, <1>3

LEMMA Counting == ASSUME NEW T \in SUBSET Nat, 0 \in T, \A n \in T : n + 1 \in T PROVE T = Nat
<1> SUFFICES ASSUME T # Nat PROVE FALSE
  OBVIOUS
<1> DEFINE U == Nat \ T
<1>1. PICK x \in U : \A y \in U : ~(y < x)
  BY LeastNumber
<1>2. x - 1 \in T
  BY <1>1
<1> QED
  BY <1>1, <1>2

LEMMA Greatest == ASSUME NEW n \in Nat, NEW C \in SUBSET (1..n), C # {} PROVE \E i \in C : \A j \in C : j <= i
<1> DEFINE U == {x \in Nat : n - x \in C}
<1>1. U # {}
  <2>1. PICK i \in C : TRUE
    OBVIOUS
  <2>2. n - i \in U
    BY <2>1
  <2> QED
    BY <2>2
<1>2. PICK x \in U : \A y \in U : ~(y < x)
  BY <1>1, LeastNumber
<1>3. ASSUME NEW j \in C PROVE j <= n - x
  <2>1. n - j \in U
    OBVIOUS
  <2> QED
    BY <1>2, <2>1
<1> QED
  BY <1>2, <1>3

\* What Only computes: the members that T leaves, in their order.
LEMMA LeftDef ==
  ASSUME NEW S, NEW s \in Seq(S), NEW T
  PROVE /\ Dialogs!Left(s, T)[0] = <<>>
        /\ \A i \in 1..Len(s) :
             Dialogs!Left(s, T)[i] = IF s[i] \in T THEN Append(Dialogs!Left(s, T)[i - 1], s[i]) ELSE Dialogs!Left(s, T)[i - 1]
<1> DEFINE G(x, i) == IF s[i] \in T THEN Append(x, s[i]) ELSE x
           Is(f, n) == f = [i \in 0..n |-> IF i = 0 THEN <<>> ELSE G(f[i - 1], i)]
           U == {n \in Nat : \E f : Is(f, n)}
<1>5. Dialogs!Left(s, T) = CHOOSE f : Is(f, Len(s))
  BY DEF Dialogs!Left
<1> HIDE DEF G
<1>1. 0 \in U
  <2> DEFINE f == [i \in 0..0 |-> <<>>]
  <2>1. Is(f, 0)
    OBVIOUS
  <2> QED
    BY <2>1
<1>2. ASSUME NEW n \in U PROVE n + 1 \in U
  <2>1. PICK f : Is(f, n)
    OBVIOUS
  <2> DEFINE g == [i \in 0..(n + 1) |-> IF i = n + 1 THEN G(f[n], i) ELSE f[i]]
  <2>2. ASSUME NEW i \in 0..(n + 1)
        PROVE g[i] = IF i = 0 THEN <<>> ELSE G(g[i - 1], i)
    BY <2>1
  <2>3. Is(g, n + 1)
    BY <2>2
  <2> HIDE DEF g, Is
  <2>4. \E h : Is(h, n + 1)
    BY <2>3
  <2> QED
    BY <2>4
<1>3. U = Nat
  <2> HIDE DEF U
  <2>1. U \in SUBSET Nat
    BY DEF U
  <2> QED
    BY <1>1, <1>2, <2>1, Counting
<1>4. \E f : Is(f, Len(s))
  BY <1>3
<1> HIDE DEF Is
<1>6. Is(Dialogs!Left(s, T), Len(s))
  BY <1>4, <1>5
<1>7. /\ Dialogs!Left(s, T)[0] = <<>>
      /\ \A i \in 1..Len(s) : Dialogs!Left(s, T)[i] = G(Dialogs!Left(s, T)[i - 1], i)
  BY <1>6 DEF Is
<1> QED
  BY <1>7 DEF G

\* t is what T leaves of the first n members of s, each at its place in h.
Embeds(t, s, T, n, h) ==
  /\ h \in [1..Len(t) -> 1..n]
  /\ \A i \in 1..Len(t) : t[i] = s[h[i]] /\ t[i] \in T
  /\ \A i, j \in 1..Len(t) : i < j => h[i] < h[j]
  /\ \A j \in 1..n : s[j] \in T => \E i \in 1..Len(t) : h[i] = j

LEMMA LeftEmbeds ==
  ASSUME NEW S, NEW s \in Seq(S), NEW T, NEW n \in 0..Len(s)
  PROVE Dialogs!Left(s, T)[n] \in Seq(S) /\ \E h : Embeds(Dialogs!Left(s, T)[n], s, T, n, h)
<1> DEFINE L == Dialogs!Left(s, T)
           Fine(m) == L[m] \in Seq(S) /\ \E h : Embeds(L[m], s, T, m, h)
           U == {m \in Nat : m <= Len(s) => Fine(m)}
<1>0. /\ L[0] = <<>>
      /\ \A i \in 1..Len(s) : L[i] = IF s[i] \in T THEN Append(L[i - 1], s[i]) ELSE L[i - 1]
  BY LeftDef
<1> HIDE DEF L
<1>1. 0 \in U
  <2>1. L[0] = <<>>
    BY <1>0
  <2>2. Embeds(<<>>, s, T, 0, [i \in 1..0 |-> 1])
    BY DEF Embeds
  <2>3. <<>> \in Seq(S) /\ \E h : Embeds(<<>>, s, T, 0, h)
    BY <2>2
  <2> QED
    BY <2>1, <2>3
<1>2. ASSUME NEW m \in U PROVE m + 1 \in U
  <2> SUFFICES ASSUME m + 1 <= Len(s) PROVE Fine(m + 1)
    OBVIOUS
  <2>1. m \in Nat /\ m + 1 \in 1..Len(s) /\ s[m + 1] \in S /\ L[m] \in Seq(S)
    OBVIOUS
  <2>2. PICK h : Embeds(L[m], s, T, m, h)
    OBVIOUS
  <2>3. L[m + 1] = IF s[m + 1] \in T THEN Append(L[m], s[m + 1]) ELSE L[m]
    <3>1. (m + 1) - 1 = m
      BY <2>1
    <3> QED
      BY <1>0, <2>1, <3>1
  <2>4. CASE s[m + 1] \notin T
    <3>1. Embeds(L[m], s, T, m + 1, h)
      BY <2>1, <2>2, <2>4 DEF Embeds
    <3> QED
      BY <2>1, <2>3, <2>4, <3>1
  <2>5. CASE s[m + 1] \in T
    <3> DEFINE t == Append(L[m], s[m + 1])
               g == [i \in 1..Len(t) |-> IF i = Len(t) THEN m + 1 ELSE h[i]]
    <3>1. t \in Seq(S) /\ Len(t) = Len(L[m]) + 1 /\ t[Len(t)] = s[m + 1] /\ \A i \in 1..Len(L[m]) : t[i] = L[m][i]
      BY <2>1
    <3>2. Len(L[m]) \in Nat
      BY <2>1
    <3> HIDE DEF t
    <3>8. /\ \A i \in 1..Len(L[m]) : h[i] \in 1..m /\ L[m][i] = s[h[i]] /\ L[m][i] \in T
          /\ \A i, j \in 1..Len(L[m]) : i < j => h[i] < h[j]
      BY <2>2 DEF Embeds
    <3>9. \A i \in 1..Len(t) : i = Len(t) \/ i \in 1..Len(L[m])
      BY <3>1, <3>2
    <3>3. ASSUME NEW i \in 1..Len(t) PROVE g[i] \in 1..(m + 1) /\ t[i] = s[g[i]] /\ t[i] \in T
      <4>1. CASE i = Len(t)
        BY <2>1, <2>5, <3>1, <4>1
      <4>2. CASE i # Len(t)
        <5>1. i \in 1..Len(L[m]) /\ g[i] = h[i]
          BY <3>9, <4>2
        <5>2. h[i] \in 1..m /\ L[m][i] = s[h[i]] /\ L[m][i] \in T /\ t[i] = L[m][i]
          BY <3>1, <3>8, <5>1
        <5> HIDE DEF g
        <5>3. h[i] \in 1..(m + 1)
          BY <2>1, <5>2
        <5> QED
          BY <5>1, <5>2, <5>3
      <4> QED
        BY <4>1, <4>2
    <3>4. ASSUME NEW i \in 1..Len(t), NEW j \in 1..Len(t), i < j PROVE g[i] < g[j]
      <4>1. i \in 1..Len(L[m]) /\ g[i] = h[i] /\ h[i] \in 1..m
        BY <3>1, <3>2, <3>4, <3>8
      <4>2. CASE j = Len(t)
        BY <2>1, <4>1, <4>2
      <4>3. CASE j # Len(t)
        BY <3>4, <3>8, <3>9, <4>1, <4>3
      <4> QED
        BY <4>2, <4>3
    <3>5. ASSUME NEW j \in 1..(m + 1), s[j] \in T PROVE \E i \in 1..Len(t) : g[i] = j
      <4>1. CASE j = m + 1
        BY <3>1, <3>2, <4>1
      <4>2. CASE j \in 1..m
        <5>1. PICK i \in 1..Len(L[m]) : h[i] = j
          BY <2>2, <3>5, <4>2 DEF Embeds
        <5>2. i \in 1..Len(t) /\ i # Len(t)
          BY <3>1, <3>2, <5>1
        <5> QED
          BY <5>1, <5>2
      <4> QED
        BY <2>1, <4>1, <4>2
    <3>6. g \in [1..Len(t) -> 1..(m + 1)]
      BY <3>3
    <3> HIDE DEF g
    <3>7. Embeds(t, s, T, m + 1, g)
      BY <3>3, <3>4, <3>5, <3>6 DEF Embeds
    <3> QED
      BY <2>3, <2>5, <3>1, <3>7 DEF t
  <2> QED
    BY <2>4, <2>5
<1>3. U = Nat
  <2> HIDE DEF U
  <2>1. U \in SUBSET Nat
    BY DEF U
  <2> QED
    BY <1>1, <1>2, <2>1, Counting
<1> QED
  BY <1>3 DEF L

LEMMA OnlyEmbeds ==
  ASSUME NEW S, NEW s \in Seq(S), NEW T
  PROVE /\ Dialogs!Only(s, T) \in Seq(S)
        /\ \E h : Embeds(Dialogs!Only(s, T), s, T, Len(s), h)
        /\ Dialogs!Among(Dialogs!Only(s, T)) = Dialogs!Among(s) \cap T
<1>1. Dialogs!Only(s, T) \in Seq(S) /\ \E h : Embeds(Dialogs!Only(s, T), s, T, Len(s), h)
  BY LeftEmbeds DEF Dialogs!Only
<1> DEFINE t == Dialogs!Only(s, T)
<1> HIDE DEF t
<1>2. PICK h : Embeds(t, s, T, Len(s), h)
  BY <1>1 DEF t
<1>3. t \in Seq(S) /\ DOMAIN t = 1..Len(t) /\ DOMAIN s = 1..Len(s)
  BY <1>1 DEF t
<1>4. Dialogs!Among(t) = Dialogs!Among(s) \cap T
  BY <1>2, <1>3 DEF Embeds, Dialogs!Among
<1> QED
  BY <1>1, <1>4 DEF t

-----------------------------------------------------------------------------
(* What a sequence of messages makes of a key.                             *)

\* The last message about a key decides what is shown for it.
LEMMA FinalIs ==
  ASSUME NEW S, NEW s \in Seq(S), NEW k, NEW v, NEW i \in 1..Len(s), Concerns(s[i], k),
         \A j \in 1..Len(s) : Concerns(s[j], k) => j <= i
  PROVE Final(s, k, v) = Value(s[i], k)
<1> DEFINE C == Concerning(s, k)
<1>1. i \in C /\ i \in Nat /\ \A j \in C : j <= i /\ j \in Nat
  BY DEF Concerning
<1> DEFINE top == CHOOSE x \in C : \A j \in C : j <= x
<1> HIDE DEF C
<1>2. top \in C /\ \A j \in C : j <= top
  BY <1>1
<1>3. top = i
  <2> HIDE DEF top
  <2> QED
    BY <1>1, <1>2
<1> HIDE DEF top
<1>4. C # {}
  BY <1>1
<1>5. Final(s, k, v) = Value(s[top], k)
  BY <1>4 DEF Final, top, C
<1> QED
  BY <1>3, <1>5

LEMMA FinalNone ==
  ASSUME NEW S, NEW s \in Seq(S), NEW k, NEW v, \A j \in 1..Len(s) : ~Concerns(s[j], k)
  PROVE Final(s, k, v) = v
  BY DEF Final, Concerning

LEMMA FinalLast ==
  ASSUME NEW S, NEW s \in Seq(S), NEW k, NEW i \in 1..Len(s), Concerns(s[i], k)
  PROVE \E j \in 1..Len(s) : /\ Concerns(s[j], k)
                             /\ \A l \in 1..Len(s) : Concerns(s[l], k) => l <= j
                             /\ \A v : Final(s, k, v) = Value(s[j], k)
<1> DEFINE C == {j \in 1..Len(s) : Concerns(s[j], k)}
<1>1. PICK j \in C : \A l \in C : l <= j
  <2>1. C # {} /\ C \in SUBSET (1..Len(s)) /\ Len(s) \in Nat
    OBVIOUS
  <2> QED
    BY <2>1, Greatest
<1> QED
  BY <1>1, FinalIs

\* Messages after messages, one more, one less.
LEMMA FinalConcat ==
  ASSUME NEW S, NEW s \in Seq(S), NEW t \in Seq(S), NEW k, NEW v
  PROVE Final(s \o t, k, v) = Final(t, k, Final(s, k, v))
<1> DEFINE u == s \o t
<1>1. /\ u \in Seq(S) /\ Len(u) = Len(s) + Len(t) /\ Len(s) \in Nat /\ Len(t) \in Nat
      /\ \A i \in 1..Len(s) : u[i] = s[i]
      /\ \A i \in 1..Len(t) : u[Len(s) + i] = t[i]
      /\ \A i \in 1..Len(u) : i \in 1..Len(s) \/ (i - Len(s) \in 1..Len(t) /\ u[i] = t[i - Len(s)])
  OBVIOUS
<1> HIDE DEF u
<1>2. CASE \E i \in 1..Len(t) : Concerns(t[i], k)
  <2>1. PICK j \in 1..Len(t) : /\ Concerns(t[j], k)
                               /\ \A l \in 1..Len(t) : Concerns(t[l], k) => l <= j
                               /\ \A w : Final(t, k, w) = Value(t[j], k)
    BY <1>2, FinalLast
  <2>2. Len(s) + j \in 1..Len(u) /\ Concerns(u[Len(s) + j], k) /\ u[Len(s) + j] = t[j]
    BY <1>1, <2>1
  <2>3. ASSUME NEW l \in 1..Len(u), Concerns(u[l], k) PROVE l <= Len(s) + j
    <3>1. CASE l \in 1..Len(s)
      BY <1>1, <3>1
    <3>2. CASE l - Len(s) \in 1..Len(t) /\ u[l] = t[l - Len(s)]
      <4>1. l - Len(s) <= j
        BY <2>1, <2>3, <3>2
      <4> QED
        BY <1>1, <4>1
    <3> QED
      BY <1>1, <3>1, <3>2
  <2>4. Final(u, k, v) = Value(u[Len(s) + j], k)
    BY <1>1, <2>2, <2>3, FinalIs
  <2> QED
    BY <2>1, <2>2, <2>4 DEF u
<1>3. CASE ~\E i \in 1..Len(t) : Concerns(t[i], k)
  <2>1. \A w : Final(t, k, w) = w
    BY <1>3, FinalNone
  <2>2. CASE \E i \in 1..Len(s) : Concerns(s[i], k)
    <3>1. PICK j \in 1..Len(s) : /\ Concerns(s[j], k)
                                 /\ \A l \in 1..Len(s) : Concerns(s[l], k) => l <= j
                                 /\ \A w : Final(s, k, w) = Value(s[j], k)
      BY <2>2, FinalLast
    <3>2. j \in 1..Len(u) /\ Concerns(u[j], k) /\ u[j] = s[j]
      BY <1>1, <3>1
    <3>3. \A l \in 1..Len(u) : Concerns(u[l], k) => l <= j
      BY <1>1, <1>3, <3>1
    <3>4. Final(u, k, v) = Value(u[j], k)
      BY <1>1, <3>2, <3>3, FinalIs
    <3> QED
      BY <2>1, <3>1, <3>2, <3>4 DEF u
  <2>3. CASE ~\E i \in 1..Len(s) : Concerns(s[i], k)
    <3>1. Final(s, k, v) = v
      BY <2>3, FinalNone
    <3>2. Final(u, k, v) = v
      BY <1>1, <1>3, <2>3, FinalNone
    <3> QED
      BY <2>1, <3>1, <3>2 DEF u
  <2> QED
    BY <2>2, <2>3
<1> QED
  BY <1>2, <1>3

LEMMA FinalOne ==
  ASSUME NEW m, NEW k, NEW v
  PROVE Final(<<m>>, k, v) = IF Concerns(m, k) THEN Value(m, k) ELSE v
<1>1. <<m>> \in Seq({m}) /\ Len(<<m>>) = 1 /\ <<m>>[1] = m
  OBVIOUS
<1> DEFINE s == <<m>>
<1>2. s \in Seq({m}) /\ s[1] = m /\ 1..Len(s) = {1}
  BY <1>1
<1> HIDE DEF s
<1>3. CASE Concerns(m, k)
  <2>1. 1 \in 1..Len(s) /\ Concerns(s[1], k) /\ \A j \in 1..Len(s) : Concerns(s[j], k) => j <= 1
    BY <1>2, <1>3
  <2>2. Final(s, k, v) = Value(s[1], k)
    BY <1>2, <2>1, FinalIs
  <2> QED
    BY <1>2, <1>3, <2>2 DEF s
<1>4. CASE ~Concerns(m, k)
  <2>1. \A j \in 1..Len(s) : ~Concerns(s[j], k)
    BY <1>2, <1>4
  <2>2. Final(s, k, v) = v
    BY <1>2, <2>1, FinalNone
  <2> QED
    BY <1>4, <2>2 DEF s
<1> QED
  BY <1>3, <1>4

LEMMA FinalAppend ==
  ASSUME NEW S, NEW s \in Seq(S), NEW m \in S, NEW k, NEW v
  PROVE Final(Append(s, m), k, v) = IF Concerns(m, k) THEN Value(m, k) ELSE Final(s, k, v)
<1> DEFINE t == <<m>>
<1>1. Append(s, m) = s \o t /\ t \in Seq(S)
  OBVIOUS
<1> HIDE DEF t
<1>2. Final(s \o t, k, v) = Final(t, k, Final(s, k, v))
  BY <1>1, FinalConcat
<1>3. Final(t, k, Final(s, k, v)) = IF Concerns(m, k) THEN Value(m, k) ELSE Final(s, k, v)
  BY FinalOne DEF t
<1> QED
  BY <1>1, <1>2, <1>3

LEMMA FinalTail ==
  ASSUME NEW S, NEW s \in Seq(S), s # <<>>, NEW k, NEW v
  PROVE Final(s, k, v) = Final(Tail(s), k, IF Concerns(s[1], k) THEN Value(s[1], k) ELSE v)
<1>1. s = <<s[1]>> \o Tail(s) /\ <<s[1]>> \in Seq(S) /\ Tail(s) \in Seq(S)
  OBVIOUS
<1> DEFINE t == <<s[1]>>
           u == Tail(s)
<1> HIDE DEF t, u
<1>2. t \in Seq(S) /\ u \in Seq(S) /\ s = t \o u
  BY <1>1 DEF t, u
<1>3. Final(t \o u, k, v) = Final(u, k, Final(t, k, v))
  BY <1>2, FinalConcat
<1>4. Final(t, k, v) = IF Concerns(s[1], k) THEN Value(s[1], k) ELSE v
  BY FinalOne DEF t
<1> QED
  BY <1>2, <1>3, <1>4 DEF u

LEMMA FinalAll ==
  ASSUME NEW S, NEW s \in Seq(S), NEW k, NEW v, NEW w,
         \A i \in 1..Len(s) : Concerns(s[i], k) => Value(s[i], k) = w,
         (\E i \in 1..Len(s) : Concerns(s[i], k)) \/ v = w
  PROVE Final(s, k, v) = w
<1>1. CASE \E i \in 1..Len(s) : Concerns(s[i], k)
  BY <1>1, FinalLast
<1>2. CASE ~\E i \in 1..Len(s) : Concerns(s[i], k)
  BY <1>2, FinalNone
<1> QED
  BY <1>1, <1>2

\* Once the end is to show nothing, it does not matter what was shown before.
LEMMA FinalBlind ==
  ASSUME NEW S, NEW s \in Seq(S), NEW k, NEW v, Final(s, k, v) = {}
  PROVE Final(s, k, {}) = {}
<1>1. CASE \E i \in 1..Len(s) : Concerns(s[i], k)
  BY <1>1, FinalLast
<1>2. CASE ~\E i \in 1..Len(s) : Concerns(s[i], k)
  BY <1>2, FinalNone
<1> QED
  BY <1>1, <1>2

\* What does not concern the key may be left out.
LEMMA FinalOnly ==
  ASSUME NEW S, NEW s \in Seq(S), NEW T, NEW k, NEW v, \A x \in Dialogs!Among(s) : Concerns(x, k) => x \in T
  PROVE Final(Dialogs!Only(s, T), k, v) = Final(s, k, v)
<1> DEFINE t == Dialogs!Only(s, T)
<1>0. PICK h : Embeds(t, s, T, Len(s), h)
  BY OnlyEmbeds
<1>1. t \in Seq(S) /\ Len(t) \in Nat /\ Len(s) \in Nat
  BY OnlyEmbeds
<1> HIDE DEF t
<1>2. \A i \in 1..Len(t) : h[i] \in 1..Len(s) /\ t[i] = s[h[i]]
  BY <1>0 DEF Embeds
<1>3. \A j \in 1..Len(s) : Concerns(s[j], k) => \E i \in 1..Len(t) : h[i] = j
  <2>1. \A j \in 1..Len(s) : s[j] \in Dialogs!Among(s)
    BY DEF Dialogs!Among
  <2> QED
    BY <1>0, <2>1 DEF Embeds
<1>4. CASE \E i \in 1..Len(t) : Concerns(t[i], k)
  <2>1. PICK j \in 1..Len(t) : /\ Concerns(t[j], k)
                               /\ \A l \in 1..Len(t) : Concerns(t[l], k) => l <= j
                               /\ \A w : Final(t, k, w) = Value(t[j], k)
    BY <1>1, <1>4, FinalLast
  <2>2. ASSUME NEW l \in 1..Len(s), Concerns(s[l], k) PROVE l <= h[j]
    <3>1. PICK i \in 1..Len(t) : h[i] = l
      BY <1>3, <2>2
    <3>2. i <= j
      BY <1>2, <2>1, <2>2, <3>1
    <3> QED
      BY <1>0, <1>2, <2>1, <3>1, <3>2 DEF Embeds
  <2>3. Final(s, k, v) = Value(s[h[j]], k)
    BY <1>2, <2>1, <2>2, FinalIs
  <2> QED
    BY <1>2, <2>1, <2>3 DEF t
<1>5. CASE ~\E i \in 1..Len(t) : Concerns(t[i], k)
  <2>1. \A j \in 1..Len(s) : ~Concerns(s[j], k)
    BY <1>2, <1>3, <1>5
  <2>2. Final(s, k, v) = v
    BY <2>1, FinalNone
  <2>3. Final(t, k, v) = v
    BY <1>1, <1>5, FinalNone
  <2> QED
    BY <2>2, <2>3 DEF t
<1> QED
  BY <1>4, <1>5

-----------------------------------------------------------------------------
(* Members of sequences, and what they show.                               *)

\* Members of sequences that are put together.
LEMMA AmongConcat ==
  ASSUME NEW S, NEW s \in Seq(S), NEW t \in Seq(S)
  PROVE s \o t \in Seq(S) /\ Dialogs!Among(s \o t) = Dialogs!Among(s) \cup Dialogs!Among(t)
<1> DEFINE u == s \o t
<1>1. /\ u \in Seq(S) /\ Len(u) = Len(s) + Len(t) /\ Len(s) \in Nat /\ Len(t) \in Nat
      /\ \A i \in 1..Len(s) : i \in 1..Len(u) /\ u[i] = s[i]
      /\ \A i \in 1..Len(t) : Len(s) + i \in 1..Len(u) /\ u[Len(s) + i] = t[i]
      /\ \A i \in 1..Len(u) : (i \in 1..Len(s) /\ u[i] = s[i]) \/ (i - Len(s) \in 1..Len(t) /\ u[i] = t[i - Len(s)])
      /\ DOMAIN u = 1..Len(u) /\ DOMAIN s = 1..Len(s) /\ DOMAIN t = 1..Len(t)
  OBVIOUS
<1> HIDE DEF u
<1>2. Dialogs!Among(u) = Dialogs!Among(s) \cup Dialogs!Among(t)
  <2>3. ASSUME NEW i \in DOMAIN s PROVE s[i] \in Dialogs!Among(u)
    <3>1. i \in DOMAIN u /\ u[i] = s[i]
      BY <1>1
    <3> QED
      BY <3>1 DEF Dialogs!Among
  <2>4. ASSUME NEW i \in DOMAIN t PROVE t[i] \in Dialogs!Among(u)
    <3>1. Len(s) + i \in DOMAIN u /\ u[Len(s) + i] = t[i]
      BY <1>1
    <3> QED
      BY <3>1 DEF Dialogs!Among
  <2>1. Dialogs!Among(s) \subseteq Dialogs!Among(u) /\ Dialogs!Among(t) \subseteq Dialogs!Among(u)
    BY <2>3, <2>4 DEF Dialogs!Among
  <2>2. Dialogs!Among(u) \subseteq Dialogs!Among(s) \cup Dialogs!Among(t)
    BY <1>1 DEF Dialogs!Among
  <2> QED
    BY <2>1, <2>2
<1> QED
  BY <1>1, <1>2 DEF u

LEMMA AmongAppend ==
  ASSUME NEW S, NEW s \in Seq(S), NEW m \in S
  PROVE Append(s, m) \in Seq(S) /\ Dialogs!Among(Append(s, m)) = Dialogs!Among(s) \cup {m}
<1> DEFINE t == <<m>>
<1>1. Append(s, m) = s \o t /\ t \in Seq(S)
  OBVIOUS
<1>2. Dialogs!Among(t) = {m}
  BY DEF Dialogs!Among
<1> HIDE DEF t
<1> QED
  BY <1>1, <1>2, AmongConcat

LEMMA ConcatAppend ==
  ASSUME NEW S, NEW s \in Seq(S), NEW t \in Seq(S), NEW m \in S
  PROVE s \o t \o <<m>> = s \o Append(t, m)
<1> DEFINE u == s \o t
           a == u \o <<m>>
           b == s \o Append(t, m)
<1>0. Len(s) \in Nat /\ Len(t) \in Nat
  OBVIOUS
<1>1. /\ u \in Seq(S) /\ Len(u) = Len(s) + Len(t)
      /\ \A i \in 1..Len(u) : u[i] = IF i <= Len(s) THEN s[i] ELSE t[i - Len(s)]
  OBVIOUS
<1> HIDE DEF u
<1>2. /\ a \in Seq(S) /\ Len(a) = Len(s) + Len(t) + 1
      /\ \A i \in 1..(Len(s) + Len(t) + 1) : a[i] = IF i <= Len(s) + Len(t) THEN u[i] ELSE m
  <2>1. Len(u) \in Nat /\ Len(<<m>>) = 1 /\ <<m>>[1] = m /\ <<m>> \in Seq(S) /\ u \in Seq(S)
    BY <1>0, <1>1
  <2>2. a \in Seq(S) /\ Len(a) = Len(u) + 1
    BY <2>1
  <2>3. \A i \in 1..(Len(u) + 1) : a[i] = IF i <= Len(u) THEN u[i] ELSE m
    BY <2>1
  <2> HIDE DEF a
  <2> QED
    BY <1>1, <2>2, <2>3
<1>3. /\ b \in Seq(S) /\ Len(b) = Len(s) + Len(t) + 1
      /\ \A i \in 1..(Len(s) + Len(t) + 1) :
           b[i] = IF i <= Len(s) THEN s[i] ELSE IF i <= Len(s) + Len(t) THEN t[i - Len(s)] ELSE m
  BY <1>0
<1> HIDE DEF a, b
<1>4. ASSUME NEW i \in 1..(Len(s) + Len(t) + 1) PROVE a[i] = b[i]
  <2>1. CASE i <= Len(s) + Len(t)
    <3>1. i \in 1..Len(u)
      BY <1>0, <1>1, <2>1
    <3> QED
      BY <1>1, <1>2, <1>3, <2>1, <3>1
  <2>2. CASE ~(i <= Len(s) + Len(t))
    BY <1>0, <1>2, <1>3, <2>2
  <2> QED
    BY <2>1, <2>2
<1>5. a = b
  BY <1>0, <1>2, <1>3, <1>4
<1> QED
  BY <1>5 DEF a, b, u

LEMMA AmongTail ==
  ASSUME NEW S, NEW s \in Seq(S), s # <<>>
  PROVE /\ Tail(s) \in Seq(S) /\ s[1] \in S /\ s[1] \in Dialogs!Among(s) /\ Dialogs!Among(Tail(s)) \subseteq Dialogs!Among(s)
        /\ Len(s) \in Nat /\ Len(Tail(s)) = Len(s) - 1
        /\ \A i \in 1..Len(Tail(s)) : i + 1 \in 1..Len(s) /\ Tail(s)[i] = s[i + 1]
<1>1. /\ Tail(s) \in Seq(S) /\ s[1] \in S /\ Len(s) \in Nat /\ Len(Tail(s)) = Len(s) - 1
      /\ 1 \in 1..Len(s)
      /\ \A i \in 1..Len(Tail(s)) : i + 1 \in 1..Len(s) /\ Tail(s)[i] = s[i + 1]
  OBVIOUS
<1>2. s[1] \in Dialogs!Among(s) /\ Dialogs!Among(Tail(s)) \subseteq Dialogs!Among(s)
  BY <1>1 DEF Dialogs!Among
<1> QED
  BY <1>1, <1>2

LEMMA AmongEmpty == Dialogs!Among(<<>>) = {}
  BY DEF Dialogs!Among

LEMMA AmongSub == ASSUME NEW S, NEW s \in Seq(S) PROVE Dialogs!Among(s) \subseteq S /\ \A i \in 1..Len(s) : s[i] \in Dialogs!Among(s)
  BY DEF Dialogs!Among

Key1(x, k) == x.kind = k.kind /\ x.id = k.id

\* What is shown depends on the members only.
LEMMA MarksAmong ==
  ASSUME NEW s, NEW t, NEW k, \A x : Key1(x, k) => (x \in Dialogs!Among(s) <=> x \in Dialogs!Among(t))
  PROVE Marks(s, k) = Marks(t, k)
  BY DEF Marks, Key1

\* trackDialog: an entry goes, or takes the place of the one with its key.
LEMMA WithoutIs ==
  ASSUME NEW S, NEW s \in Seq(S), NEW x
  PROVE Dialogs!Without(s, x) \in Seq(S) /\ Dialogs!Among(Dialogs!Without(s, x)) = {y \in Dialogs!Among(s) : ~Dialogs!SameKey(x, y)}
<1> DEFINE T == {y \in Dialogs!Among(s) : ~Dialogs!SameKey(x, y)}
<1>1. Dialogs!Only(s, T) \in Seq(S) /\ Dialogs!Among(Dialogs!Only(s, T)) = Dialogs!Among(s) \cap T
  BY OnlyEmbeds
<1> QED
  BY <1>1 DEF Dialogs!Without

LEMMA SetIs ==
  ASSUME NEW S, NEW s \in Seq(S), NEW x \in S
  PROVE Dialogs!Set(s, x) \in Seq(S) /\ Dialogs!Among(Dialogs!Set(s, x)) = {y \in Dialogs!Among(s) : ~Dialogs!SameKey(x, y)} \cup {x}
  BY WithoutIs, AmongAppend DEF Dialogs!Set

LEMMA MarksWithout ==
  ASSUME NEW S, NEW s \in Seq(S), NEW x, NEW k
  PROVE Marks(Dialogs!Without(s, x), k) = IF Key1(x, k) THEN {} ELSE Marks(s, k)
<1> DEFINE t == Dialogs!Without(s, x)
<1>1. Dialogs!Among(t) = {y \in Dialogs!Among(s) : ~Dialogs!SameKey(x, y)}
  BY WithoutIs
<1> HIDE DEF t
<1>2. CASE Key1(x, k)
  BY <1>1, <1>2 DEF Marks, Key1, Dialogs!SameKey, t
<1>3. CASE ~Key1(x, k)
  <2>1. \A y : Key1(y, k) => (y \in Dialogs!Among(t) <=> y \in Dialogs!Among(s))
    BY <1>1, <1>3 DEF Key1, Dialogs!SameKey
  <2> QED
    BY <1>3, <2>1, MarksAmong DEF t
<1> QED
  BY <1>2, <1>3

LEMMA MarksSet ==
  ASSUME NEW S, NEW s \in Seq(S), NEW x \in S, NEW k
  PROVE Marks(Dialogs!Set(s, x), k) = IF Key1(x, k) THEN (IF x.clear THEN {} ELSE {Mark(x)}) ELSE Marks(s, k)
<1> DEFINE t == Dialogs!Set(s, x)
<1>1. Dialogs!Among(t) = {y \in Dialogs!Among(s) : ~Dialogs!SameKey(x, y)} \cup {x}
  BY SetIs
<1> HIDE DEF t
<1>2. CASE Key1(x, k)
  <2>1. \A y \in Dialogs!Among(t) : Key1(y, k) <=> y = x
    BY <1>1, <1>2 DEF Key1, Dialogs!SameKey
  <2>2. x \in Dialogs!Among(t)
    BY <1>1
  <2> QED
    BY <1>2, <2>1, <2>2 DEF Marks, Key1, t
<1>3. CASE ~Key1(x, k)
  <2>1. \A y : Key1(y, k) => (y \in Dialogs!Among(t) <=> y \in Dialogs!Among(s))
    BY <1>1, <1>3 DEF Key1, Dialogs!SameKey
  <2> QED
    BY <1>3, <2>1, MarksAmong DEF t
<1> QED
  BY <1>2, <1>3

\* A frame and the request it carries.
LEMMA WireIs ==
  ASSUME NEW r, r.seq \in Nat, NEW g \in Seq(ExtFrame)
  PROVE /\ Dialogs!Wire(r, g) \in Seq(WireFrame) /\ Len(Dialogs!Wire(r, g)) = Len(g) /\ Len(g) \in Nat
        /\ \A i \in 1..Len(g) :
             /\ Dialogs!Wire(r, g)[i] \in WireFrame /\ g[i] \in ExtFrame
             /\ Dialogs!Wire(r, g)[i].type = g[i].type /\ Dialogs!Wire(r, g)[i].kind = g[i].kind /\ Dialogs!Wire(r, g)[i].id = g[i].id
             /\ Dialogs!Wire(r, g)[i].clear = g[i].clear /\ Dialogs!Wire(r, g)[i].n = g[i].n /\ Dialogs!Wire(r, g)[i].seq = r.seq + i
<1> DEFINE w == Dialogs!Wire(r, g)
<1>1. w = [i \in 1..Len(g) |-> Dialogs!Numbered(g[i], r.seq + i)] /\ Len(g) \in Nat
  BY DEF Dialogs!Wire
<1>2. ASSUME NEW i \in 1..Len(g)
      PROVE /\ w[i] \in WireFrame /\ g[i] \in ExtFrame
            /\ w[i].type = g[i].type /\ w[i].kind = g[i].kind /\ w[i].id = g[i].id
            /\ w[i].clear = g[i].clear /\ w[i].n = g[i].n /\ w[i].seq = r.seq + i
  <2>1. g[i] \in ExtFrame /\ w[i] = Dialogs!Numbered(g[i], r.seq + i) /\ r.seq + i \in Nat
    BY <1>1
  <2> QED
    BY <2>1 DEF Dialogs!Numbered, ExtFrame, WireFrame, OfDialog
<1> HIDE DEF w
<1>3. w \in Seq(WireFrame) /\ Len(w) = Len(g)
  BY <1>1, <1>2
<1> QED
  BY <1>1, <1>2, <1>3 DEF w

\* emitFrame: the numbers of the frames change nothing of what they show.
LEMMA WireFinal ==
  ASSUME NEW r, r.seq \in Nat, NEW g \in Seq(ExtFrame), NEW k, NEW v
  PROVE Final(Dialogs!Wire(r, g), k, v) = Final(g, k, v)
<1> DEFINE w == Dialogs!Wire(r, g)
<1>1. /\ w \in Seq(WireFrame) /\ Len(w) = Len(g) /\ Len(g) \in Nat
      /\ \A i \in 1..Len(g) :
           /\ w[i].type = g[i].type /\ w[i].kind = g[i].kind /\ w[i].id = g[i].id
           /\ w[i].clear = g[i].clear /\ w[i].n = g[i].n /\ g[i].type \in {"request", "closed"}
  <2>1. \A f \in ExtFrame : f.type \in {"request", "closed"}
    BY DEF ExtFrame
  <2> QED
    BY <2>1, WireIs
<1> HIDE DEF w
<1>2. \A i \in 1..Len(g) : (Concerns(w[i], k) <=> Concerns(g[i], k)) /\ Value(w[i], k) = Value(g[i], k)
  BY <1>1 DEF Concerns, Value, Mark
<1>3. CASE \E i \in 1..Len(g) : Concerns(g[i], k)
  <2>1. PICK j \in 1..Len(g) : /\ Concerns(g[j], k)
                               /\ \A l \in 1..Len(g) : Concerns(g[l], k) => l <= j
                               /\ \A u : Final(g, k, u) = Value(g[j], k)
    BY <1>3, FinalLast
  <2>2. Final(w, k, v) = Value(w[j], k)
    BY <1>1, <1>2, <2>1, FinalIs
  <2> QED
    BY <1>2, <2>1, <2>2 DEF w
<1>4. CASE ~\E i \in 1..Len(g) : Concerns(g[i], k)
  <2>1. Final(w, k, v) = v
    BY <1>1, <1>2, <1>4, FinalNone
  <2>2. Final(g, k, v) = v
    BY <1>4, FinalNone
  <2> QED
    BY <2>1, <2>2 DEF w
<1> QED
  BY <1>3, <1>4

\* The order of notifications.
LEMMA RisingConcat ==
  ASSUME NEW S, NEW s \in Seq(S), NEW t \in Seq(S), Rising(s), Rising(t), Below(s, t)
  PROVE Rising(s \o t)
<1> DEFINE u == s \o t
<1>1. /\ Len(s) \in Nat /\ Len(t) \in Nat /\ DOMAIN u = 1..(Len(s) + Len(t))
      /\ \A i \in DOMAIN u : (i \in 1..Len(s) /\ u[i] = s[i]) \/ (i - Len(s) \in 1..Len(t) /\ u[i] = t[i - Len(s)])
  OBVIOUS
<1>2. DOMAIN s = 1..Len(s) /\ DOMAIN t = 1..Len(t)
  OBVIOUS
<1>3. (\A i \in 1..Len(s) : s[i] \in Dialogs!Among(s)) /\ \A i \in 1..Len(t) : t[i] \in Dialogs!Among(t)
  BY AmongSub
<1> HIDE DEF u
<1>4. ASSUME NEW i \in DOMAIN u, NEW j \in DOMAIN u, i < j, IsNote(u[i]), IsNote(u[j]) PROVE u[i].n < u[j].n
  <2>1. i \in Int /\ j \in Int
    BY <1>1
  <2>2. CASE i \in 1..Len(s) /\ u[i] = s[i]
    <3>1. CASE j \in 1..Len(s) /\ u[j] = s[j]
      BY <1>2, <1>4, <2>2, <3>1 DEF Rising
    <3>2. CASE j - Len(s) \in 1..Len(t) /\ u[j] = t[j - Len(s)]
      BY <1>3, <1>4, <2>2, <3>2 DEF Below
    <3> QED
      BY <1>1, <3>1, <3>2
  <2>3. CASE i - Len(s) \in 1..Len(t) /\ u[i] = t[i - Len(s)]
    <3>1. j - Len(s) \in 1..Len(t) /\ u[j] = t[j - Len(s)]
      BY <1>1, <1>4, <2>1, <2>3
    <3>2. i - Len(s) < j - Len(s)
      BY <1>1, <1>4, <2>1
    <3> QED
      BY <1>2, <1>4, <2>3, <3>1, <3>2 DEF Rising
  <2> QED
    BY <1>1, <2>2, <2>3
<1> QED
  BY <1>4 DEF Rising, u

LEMMA RisingOnly ==
  ASSUME NEW S, NEW s \in Seq(S), NEW T, Rising(s)
  PROVE Rising(Dialogs!Only(s, T))
<1> DEFINE t == Dialogs!Only(s, T)
<1>1. t \in Seq(S) /\ \E h : Embeds(t, s, T, Len(s), h)
  BY OnlyEmbeds
<1> HIDE DEF t
<1>2. PICK h : Embeds(t, s, T, Len(s), h)
  BY <1>1
<1>3. DOMAIN t = 1..Len(t) /\ DOMAIN s = 1..Len(s)
  BY <1>1
<1> QED
  BY <1>2, <1>3 DEF Embeds, Rising, t

LEMMA RisingTail ==
  ASSUME NEW S, NEW s \in Seq(S), s # <<>>, Rising(s)
  PROVE Rising(Tail(s)) /\ \A y \in Dialogs!Among(Tail(s)) : IsNote(s[1]) /\ IsNote(y) => s[1].n < y.n
<1> DEFINE t == Tail(s)
<1>1. /\ t \in Seq(S) /\ Len(s) \in Nat /\ Len(t) = Len(s) - 1 /\ 1 \in DOMAIN s
      /\ DOMAIN t = 1..Len(t) /\ DOMAIN s = 1..Len(s)
      /\ \A i \in 1..Len(t) : i + 1 \in 1..Len(s) /\ t[i] = s[i + 1]
  BY AmongTail
<1> HIDE DEF t
<1>2. ASSUME NEW i \in DOMAIN t, NEW j \in DOMAIN t, i < j, IsNote(t[i]), IsNote(t[j]) PROVE t[i].n < t[j].n
  <2>1. i + 1 \in DOMAIN s /\ j + 1 \in DOMAIN s /\ i + 1 < j + 1
    BY <1>1, <1>2
  <2> QED
    BY <1>1, <1>2, <2>1 DEF Rising
<1>3. ASSUME NEW y \in Dialogs!Among(t), IsNote(s[1]), IsNote(y) PROVE s[1].n < y.n
  <2>1. PICK i \in DOMAIN t : y = t[i]
    BY DEF Dialogs!Among
  <2>2. i + 1 \in DOMAIN s /\ y = s[i + 1] /\ 1 < i + 1
    BY <1>1, <2>1
  <2> QED
    BY <1>1, <1>3, <2>2 DEF Rising
<1> QED
  BY <1>2, <1>3 DEF Rising, t

LEMMA WireNotes ==
  ASSUME NEW r, r.seq \in Nat, NEW g \in Seq(ExtFrame)
  PROVE /\ Rising(g) => Rising(Dialogs!Wire(r, g))
        /\ \A m \in Dialogs!Among(Dialogs!Wire(r, g)) : IsNote(m) => \E x \in Dialogs!Among(g) : IsNote(x) /\ x.n = m.n
<1> DEFINE w == Dialogs!Wire(r, g)
<1>1. /\ w \in Seq(WireFrame) /\ Len(w) = Len(g) /\ Len(g) \in Nat
      /\ \A i \in 1..Len(g) : w[i].type = g[i].type /\ w[i].kind = g[i].kind /\ w[i].n = g[i].n
  BY WireIs
<1> HIDE DEF w
<1>2. DOMAIN w = 1..Len(g) /\ DOMAIN g = 1..Len(g)
  BY <1>1
<1> QED
  BY <1>1, <1>2 DEF Rising, Dialogs!Among, IsNote, w

-----------------------------------------------------------------------------
(* A step of the runtime.                                                  *)

\* The messages d it sends are numbered after what was sent.
Follows(d, lo, hi) ==
  \A i \in 1..Len(d) :
    /\ d[i] \in WireFrame => lo < d[i].seq /\ d[i].seq <= hi
    /\ d[i] \in Resync => d[i].seq <= hi
    /\ \A j \in 1..Len(d) : i < j /\ d[j] \in WireFrame /\ d[i] \notin Result => d[i].seq < d[j].seq

\* A notification comes from those held back, or is new.
NoteFrom(m, r2) ==
  /\ m.n <= r2.asked
  /\ runtime.asked < m.n \/ \E x \in Dialogs!Among(runtime.held) : IsNote(x) /\ x.n = m.n

\* What a step has to see to, of the runtime and of what it told, and of the
\* messages it sends.
Becomes(r2, t2) ==
  /\ r2 \in RuntimeState /\ PendingOK(r2) /\ StickyOK(r2.sticky) /\ HeldOK(r2)
  /\ runtime.used \subseteq r2.used /\ runtime.asked <= r2.asked /\ runtime.seq <= r2.seq
  /\ \A id \in Dialog : Over(id, runtime) => Over(id, r2)
  /\ t2 \in [answers : Seq(Nat), notified : Seq(Nat)] /\ t2.notified = told.notified /\ AnswersOK(t2, r2)
  /\ Rising(r2.held) /\ \A m \in Dialogs!Among(r2.held) : IsNote(m) => NoteFrom(m, r2)
  /\ r2.phase = "startup" =>
       \A k \in ShownKey : k.kind = "sticky" => Final(r2.held, k, {}) = Marks(r2.sticky, k)
Tells(r2, d) ==
  /\ d \in Seq(Message)
  /\ \A m \in Dialogs!Among(d) : KnownMessage(m, r2.used) /\ (m \in Result => Over(m.id, r2))
  /\ Follows(d, runtime.seq, r2.seq)
  /\ Rising(d) /\ Below(d, r2.held) /\ \A m \in Dialogs!Among(d) : IsNote(m) => NoteFrom(m, r2)
  /\ \A k \in ShownKey : \A v \in Allowed(runtime, k) : Final(d, k, v) \in Allowed(r2, k)

LEMMA KnownGrows == ASSUME NEW s, NEW used, NEW more, used \subseteq more, Known(s, used) PROVE Known(s, more)
  BY DEF Known

\* A step of the runtime keeps the invariant, if its frames account for it.
LEMMA RuntimeMoves ==
  ASSUME DialogsInv, UNCHANGED browser, NEW d, Becomes(runtime', told'), Tells(runtime', d), down' = down \o d,
         up' \in Seq(Dialog), \A i \in DOMAIN up' : up'[i] \in runtime.used
  PROVE DialogsInv'
<1>1. /\ runtime \in RuntimeState /\ down \in Seq(Message) /\ browser \in BrowserState /\ d \in Seq(Message)
      /\ runtime' \in RuntimeState /\ told \in [answers : Seq(Nat), notified : Seq(Nat)]
  BY DEF DialogsInv, DialogsTypeOK, Becomes, Tells
<1>2. down' \in Seq(Message) /\ Dialogs!Among(down') = Dialogs!Among(down) \cup Dialogs!Among(d)
  BY <1>1, AmongConcat
<1>3. DialogsTypeOK'
  BY <1>1, <1>2 DEF DialogsTypeOK, Becomes
<1>4. runtime.used \subseteq runtime'.used /\ runtime.asked <= runtime'.asked /\ runtime.seq <= runtime'.seq
  BY DEF Becomes
<1>5. Used'
  <2>1. \A m \in Dialogs!Among(down') : KnownMessage(m, runtime'.used)
    BY <1>2, <1>4, KnownGrows DEF DialogsInv, Used, Tells, KnownMessage
  <2> QED
    BY <1>4, <2>1, KnownGrows DEF DialogsInv, Used
<1>6. PendingOK(runtime)' /\ StickyOK(runtime.sticky)' /\ HeldOK(runtime)' /\ AnswersOK(told, runtime)' /\ StartupHeld'
  BY DEF Becomes, StartupHeld
<1>7. ResultsOK'
  <2>1. \A m \in Dialogs!Among(down) : m \in Result => Over(m.id, runtime) /\ m.id \in Dialog
    BY DEF DialogsInv, ResultsOK, Result
  <2>2. \A id \in browser.acknowledged : Over(id, runtime) /\ id \in Dialog
    BY <1>1 DEF DialogsInv, ResultsOK, BrowserState
  <2> QED
    BY <1>2, <2>1, <2>2 DEF ResultsOK, Becomes, Tells
<1>8. NotesOK'
  <2>0. told'.notified = told.notified /\ \A i \in DOMAIN told.notified : told.notified[i] \in Nat
    BY <1>1 DEF Becomes
  <2>1. NotesOK
    BY DEF DialogsInv
  <2>2. \A m \in Dialogs!Among(d) \cup Dialogs!Among(runtime'.held) : IsNote(m) => NoteFrom(m, runtime')
    BY DEF Becomes, Tells
  <2>3. \A m \in Dialogs!Among(down) \cup Dialogs!Among(browser.buffer) : IsNote(m) => m.n \in Nat /\ m.n <= runtime.asked
    <3>1. Dialogs!Among(down) \subseteq Message /\ Dialogs!Among(browser.buffer) \subseteq WireFrame
      BY <1>1, AmongSub DEF BrowserState
    <3>2. \A m \in Message : IsNote(m) => m.n \in Nat
      BY DEF Message, WireFrame, Resync, Result, IsNote
    <3> QED
      BY <2>1, <3>1, <3>2 DEF NotesOK, Message
  <2>4. runtime.asked \in Nat /\ runtime'.asked \in Nat
    BY <1>1 DEF RuntimeState
  <2>5. Below(down, d) /\ Below(down, runtime'.held) /\ Below(browser.buffer, d) /\ Below(browser.buffer, runtime'.held)
    <3>1. ASSUME NEW x \in Dialogs!Among(down) \cup Dialogs!Among(browser.buffer), NEW y \in Dialogs!Among(d) \cup Dialogs!Among(runtime'.held),
                 IsNote(x), IsNote(y)
          PROVE x.n < y.n
      <4>1. x.n \in Nat /\ x.n <= runtime.asked
        BY <2>3, <3>1
      <4>2. CASE runtime.asked < y.n
        <5>1. y.n \in Nat
          <6>1. y \in Message \cup Entry
            <7>1. Dialogs!Among(d) \subseteq Message /\ Dialogs!Among(runtime'.held) \subseteq Entry
              BY <1>1, AmongSub DEF RuntimeState
            <7> QED
              BY <7>1
          <6> QED
            BY <3>1, <6>1 DEF Message, WireFrame, Resync, Result, Entry, IsNote
        <5> QED
          BY <2>4, <4>1, <4>2, <5>1
      <4>3. CASE \E z \in Dialogs!Among(runtime.held) : IsNote(z) /\ z.n = y.n
        BY <2>1, <3>1, <4>3 DEF NotesOK, Below
      <4> QED
        BY <2>2, <3>1, <4>2, <4>3 DEF NoteFrom
    <3> QED
      BY <3>1 DEF Below
  <2>6. AllBelow(told.notified, d) /\ AllBelow(told.notified, runtime'.held)
    <3>1. ASSUME NEW i \in DOMAIN told.notified, NEW y \in Dialogs!Among(d) \cup Dialogs!Among(runtime'.held), IsNote(y)
          PROVE told.notified[i] < y.n
      <4>1. told.notified[i] \in Nat /\ told.notified[i] <= runtime.asked
        BY <2>0, <2>1 DEF NotesOK
      <4>2. CASE runtime.asked < y.n
        <5>1. y.n \in Nat
          <6>1. y \in Message \cup Entry
            <7>1. Dialogs!Among(d) \subseteq Message /\ Dialogs!Among(runtime'.held) \subseteq Entry
              BY <1>1, AmongSub DEF RuntimeState
            <7> QED
              BY <7>1
          <6> QED
            BY <3>1, <6>1 DEF Message, WireFrame, Resync, Result, Entry, IsNote
        <5> QED
          BY <2>4, <4>1, <4>2, <5>1
      <4>3. CASE \E z \in Dialogs!Among(runtime.held) : IsNote(z) /\ z.n = y.n
        BY <2>1, <3>1, <4>3 DEF NotesOK, AllBelow
      <4> QED
        BY <2>2, <3>1, <4>2, <4>3 DEF NoteFrom
    <3> QED
      BY <3>1 DEF AllBelow
  <2>7. Rising(down') /\ Rising(runtime'.held)
    BY <1>1, <2>1, <2>5, RisingConcat DEF NotesOK, Becomes, Tells
  <2>8. Below(d, runtime'.held)
    BY DEF Tells
  <2>9. /\ Below(browser.buffer, down') /\ Below(down', runtime'.held) /\ AllBelow(told.notified, down')
    BY <1>2, <2>1, <2>5, <2>6, <2>8 DEF NotesOK, Below, AllBelow
  <2>10. \A i \in DOMAIN told.notified : told.notified[i] <= runtime'.asked
    BY <1>4, <2>0, <2>1, <2>4 DEF NotesOK
  <2>11. \A m \in Dialogs!Among(down') \cup Dialogs!Among(browser.buffer) : IsNote(m) => m.n <= runtime'.asked
    BY <1>2, <1>4, <2>2, <2>3, <2>4 DEF NoteFrom
  <2> QED
    BY <2>0, <2>1, <2>5, <2>6, <2>7, <2>9, <2>10, <2>11 DEF NotesOK
<1>9. NumbersOK'
  <2>1. NumbersOK /\ Follows(d, runtime.seq, runtime'.seq)
    BY DEF DialogsInv, Tells
  <2>2. /\ Len(down) \in Nat /\ Len(d) \in Nat /\ DOMAIN down' = 1..(Len(down) + Len(d)) /\ DOMAIN down = 1..Len(down)
        /\ \A i \in DOMAIN down' : \/ i \in 1..Len(down) /\ down'[i] = down[i]
                                   \/ i - Len(down) \in 1..Len(d) /\ down'[i] = d[i - Len(down)]
    BY <1>1
  <2>3. /\ browser.seq \in Nat /\ runtime.seq \in Nat /\ runtime'.seq \in Nat
        /\ browser.barrier # None => browser.barrier \in Nat
    BY <1>1 DEF BrowserState, RuntimeState
  <2>4. \A m \in WireFrame \cup Resync : m.seq \in Nat
    BY DEF WireFrame, Resync
  <2>5. ASSUME NEW i \in DOMAIN down'
        PROVE /\ down'[i] \in WireFrame =>
                   /\ browser.seq < down'[i].seq /\ down'[i].seq <= runtime'.seq
                   /\ browser.barrier # None => browser.barrier < down'[i].seq
              /\ down'[i] \in Resync => down'[i].seq <= runtime'.seq
    <3>1. CASE i \in 1..Len(down) /\ down'[i] = down[i]
      BY <1>4, <2>1, <2>2, <2>3, <2>4, <3>1 DEF NumbersOK
    <3>2. CASE i - Len(down) \in 1..Len(d) /\ down'[i] = d[i - Len(down)]
      BY <2>1, <2>3, <2>4, <3>2, SMTT(60) DEF NumbersOK, Follows
    <3> QED
      BY <2>2, <3>1, <3>2
  <2>6. ASSUME NEW i \in DOMAIN down', NEW j \in DOMAIN down', i < j, down'[j] \in WireFrame, down'[i] \notin Result
        PROVE down'[i].seq < down'[j].seq
    <3>0. i \in Int /\ j \in Int
      BY <2>2
    <3>1. CASE i \in 1..Len(down) /\ down'[i] = down[i]
      <4>1. CASE j \in 1..Len(down) /\ down'[j] = down[j]
        BY <2>1, <2>2, <2>6, <3>1, <4>1 DEF NumbersOK
      <4>2. CASE j - Len(down) \in 1..Len(d) /\ down'[j] = d[j - Len(down)]
        <5>1. runtime.seq < down'[j].seq
          BY <2>1, <2>6, <4>2 DEF Follows
        <5>2. down'[i] \in WireFrame \cup Resync
          BY <1>1, <2>6, <3>1 DEF Message
        <5>3. down'[i].seq <= runtime.seq
          BY <2>1, <2>2, <3>1, <5>2 DEF NumbersOK
        <5> QED
          BY <2>3, <2>4, <2>6, <5>1, <5>2, <5>3, SMTT(60)
      <4> QED
        BY <2>2, <4>1, <4>2
    <3>2. CASE i - Len(down) \in 1..Len(d) /\ down'[i] = d[i - Len(down)]
      <4>1. j - Len(down) \in 1..Len(d) /\ down'[j] = d[j - Len(down)] /\ i - Len(down) < j - Len(down)
        BY <2>2, <2>6, <3>0, <3>2
      <4> QED
        BY <2>1, <2>6, <3>2, <4>1 DEF Follows
    <3> QED
      BY <2>2, <3>1, <3>2
  <2>7. browser.seq <= runtime'.seq /\ (browser.barrier # None => browser.barrier <= runtime'.seq)
    BY <1>4, <2>1, <2>3 DEF NumbersOK
  <2> QED
    BY <2>1, <2>5, <2>6, <2>7 DEF NumbersOK
<1>10. Agreed'
  <2> SUFFICES ASSUME NEW k \in ShownKey PROVE Final(down', k, Base(browser, k)) \in Allowed(runtime', k)
    BY DEF Agreed
  <2>1. Final(down', k, Base(browser, k)) = Final(d, k, Final(down, k, Base(browser, k)))
    BY <1>1, FinalConcat
  <2> QED
    BY <2>1 DEF DialogsInv, Agreed, Tells
<1> QED
  BY <1>3, <1>5, <1>6, <1>7, <1>8, <1>9, <1>10 DEF DialogsInv

\* The frames of a step.
Shows(r2, g) ==
  /\ g \in Seq(ExtFrame)
  /\ \A f \in Dialogs!Among(g) : f.kind = "dialog" => f.id \in r2.used
  /\ Rising(g) /\ Below(g, r2.held) /\ \A m \in Dialogs!Among(g) : IsNote(m) => NoteFrom(m, r2)
  /\ \A k \in ShownKey : \A v \in Allowed(runtime, k) : Final(g, k, v) \in Allowed(r2, k)

\* What frames tell: new numbers, dialogs that were used, notifications in order.
LEMMA WireTells ==
  ASSUME runtime.seq \in Nat, NEW r2, NEW g, Shows(r2, g), r2.seq = runtime.seq + Len(g)
  PROVE Tells(r2, Dialogs!Wire(runtime, g))
<1> DEFINE d == Dialogs!Wire(runtime, g)
<1>1. /\ g \in Seq(ExtFrame) /\ d \in Seq(WireFrame) /\ Len(d) = Len(g) /\ Len(g) \in Nat
      /\ \A i \in 1..Len(g) :
           /\ d[i] \in WireFrame /\ g[i] \in ExtFrame
           /\ d[i].type = g[i].type /\ d[i].kind = g[i].kind /\ d[i].id = g[i].id
           /\ d[i].clear = g[i].clear /\ d[i].n = g[i].n /\ d[i].seq = runtime.seq + i
  BY WireIs DEF Shows
<1>2. /\ Rising(d) /\ \A m \in Dialogs!Among(d) : IsNote(m) => \E x \in Dialogs!Among(g) : IsNote(x) /\ x.n = m.n
  BY WireNotes DEF Shows
<1>3. \A k, v : Final(d, k, v) = Final(g, k, v)
  BY <1>1, WireFinal
<1> HIDE DEF d
<1>4. d \in Seq(Message) /\ Dialogs!Among(d) \subseteq WireFrame
  BY <1>1, AmongSub DEF Message
<1>5. \A m \in WireFrame : m \notin Resync /\ m \notin Result
  BY DEF WireFrame, Resync, Result
<1>6. ASSUME NEW m \in Dialogs!Among(d) PROVE KnownMessage(m, r2.used) /\ (m \in Result => Over(m.id, r2))
  <2>1. PICK i \in 1..Len(d) : m = d[i]
    BY <1>1 DEF Dialogs!Among
  <2>2. g[i] \in Dialogs!Among(g)
    BY <1>1, <2>1, AmongSub
  <2> QED
    BY <1>1, <1>4, <1>5, <2>1, <2>2 DEF KnownMessage, Shows
<1>7. Follows(d, runtime.seq, r2.seq)
  BY <1>1, <1>5 DEF Follows
<1>8. Below(d, r2.held) /\ \A m \in Dialogs!Among(d) : IsNote(m) => NoteFrom(m, r2)
  BY <1>2 DEF Below, NoteFrom, Shows
<1> QED
  BY <1>2, <1>3, <1>4, <1>6, <1>7, <1>8 DEF Tells, Shows, d

-----------------------------------------------------------------------------
(* Sticky state.                                                           *)

\* planExtensionRequestSemanticMutation, for the sticky state: one for each key.
LEMMA WithoutSticky ==
  ASSUME NEW s \in Seq(Entry), StickyOK(s), NEW x
  PROVE StickyOK(Dialogs!Without(s, x)) /\ \A y \in Dialogs!Among(Dialogs!Without(s, x)) : ~Dialogs!SameKey(x, y)
<1> DEFINE T == {y \in Dialogs!Among(s) : ~Dialogs!SameKey(x, y)}
           t == Dialogs!Without(s, x)
<1>1. t = Dialogs!Only(s, T)
  BY DEF Dialogs!Without
<1>9. Dialogs!Among(t) = {y \in Dialogs!Among(s) : ~Dialogs!SameKey(x, y)}
  BY WithoutIs
<1> HIDE DEF t, T
<1>2. t \in Seq(Entry) /\ \E h : Embeds(t, s, T, Len(s), h)
  BY <1>1, OnlyEmbeds
<1>3. PICK h : Embeds(t, s, T, Len(s), h)
  BY <1>2
<1>4. DOMAIN t = 1..Len(t) /\ DOMAIN s = 1..Len(s) /\ Len(t) \in Nat /\ Len(s) \in Nat
  BY <1>2
<1>5. ASSUME NEW i \in DOMAIN t, NEW j \in DOMAIN t, t[i].id = t[j].id PROVE i = j
  <2>1. h[i] = h[j]
    BY <1>3, <1>4, <1>5 DEF Embeds, StickyOK
  <2>2. i \in 1..Len(t) /\ j \in 1..Len(t) /\ h[i] \in 1..Len(s) /\ h[j] \in 1..Len(s)
    BY <1>3, <1>4 DEF Embeds
  <2>3. ~(i < j) /\ ~(j < i)
    BY <1>3, <1>4, <2>1, <2>2 DEF Embeds
  <2> QED
    BY <2>2, <2>3
<1>6. \A y \in Dialogs!Among(t) : y \in Dialogs!Among(s) /\ ~Dialogs!SameKey(x, y)
  BY <1>9
<1>7. \A y \in Dialogs!Among(t) : y.kind = "sticky" /\ ~y.clear
  BY <1>6 DEF StickyOK
<1> QED
  BY <1>5, <1>6, <1>7 DEF StickyOK, t

\* What planExtensionRequestSemanticMutation makes of the sticky state s.
Restates(g, x, s, s2) ==
  /\ g \in Seq(Entry) /\ s2 \in Seq(Entry) /\ StickyOK(s2)
  /\ Rising(g) /\ \A f \in Dialogs!Among(g) : f.kind # "dialog" /\ (IsNote(f) => f = x)
  /\ \A k \in ShownKey : k.kind = "sticky" => Final(g, k, Marks(s, k)) = Marks(s2, k)

Planning == [pending : Seq(Entry), sticky : Seq(Entry), frames : Seq(Entry)]

LEMMA NoNotes ==
  ASSUME NEW g, \A f \in Dialogs!Among(g) : ~IsNote(f)
  PROVE Rising(g) /\ \A t : Below(g, t)
<1>1. \A i \in DOMAIN g : g[i] \in Dialogs!Among(g)
  BY DEF Dialogs!Among
<1> QED
  BY <1>1 DEF Rising, Below

\* Evicting old entries until the new one fits: the frames say what became of each.
LEMMA EvictingRestates ==
  ASSUME NEW p \in Planning, StickyOK(p.sticky), NEW x \in Entry, x.kind = "sticky", ~x.clear
  PROVE \E g, s2 : /\ Dialogs!Evicting(p, x) = [p EXCEPT !.sticky = s2, !.frames = p.frames \o g]
                   /\ Restates(g, x, p.sticky, s2)
<1> DEFINE others == Dialogs!Without(p.sticky, x)
           fitting == {i \in 0..Len(others) : Len(p.pending) + Len(others) - i < MaxItems}
           n == IF fitting = {} THEN Len(others) ELSE CHOOSE i \in fitting : \A j \in fitting : i <= j
           kept == SubSeq(others, n + 1, Len(others))
           gone == [i \in 1..n |-> Dialogs!Cleared(others[i])]
<1>0. p.sticky \in Seq(Entry) /\ p.frames \in Seq(Entry)
  BY DEF Planning
<1>1. /\ others \in Seq(Entry) /\ Dialogs!Among(others) = {y \in Dialogs!Among(p.sticky) : ~Dialogs!SameKey(x, y)}
      /\ StickyOK(others)
  BY <1>0, WithoutIs, WithoutSticky
<1> HIDE DEF others
<1>2. n \in 0..Len(others)
  <2>0. Len(others) \in Nat
    BY <1>1
  <2>1. CASE fitting = {}
    BY <2>0, <2>1
  <2>2. CASE fitting # {}
    <3>1. fitting \in SUBSET Nat /\ fitting \subseteq 0..Len(others)
      BY <2>0
    <3> HIDE DEF fitting
    <3>2. PICK i \in fitting : \A j \in fitting : ~(j < i)
      BY <2>2, <3>1, LeastNumber
    <3>3. \A j \in fitting : i <= j
      BY <3>1, <3>2
    <3>4. n \in fitting
      BY <2>2, <3>3
    <3> QED
      BY <3>1, <3>4
  <2> QED
    BY <2>1, <2>2
<1>3. Dialogs!Evicting(p, x) = IF fitting # {}
                               THEN [p EXCEPT !.sticky = Append(kept, x), !.frames = p.frames \o gone \o <<x>>]
                               ELSE [p EXCEPT !.sticky = kept, !.frames = p.frames \o gone \o <<Dialogs!Cleared(x)>>]
  BY DEF Dialogs!Evicting, others, Planning
<1> HIDE DEF n
<1>4. /\ kept \in Seq(Entry) /\ Len(others) \in Nat /\ Len(kept) = Len(others) - n
      /\ \A i \in 1..Len(kept) : n + i \in 1..Len(others) /\ kept[i] = others[n + i]
  BY <1>1, <1>2
<1>5. gone \in Seq(Entry) /\ Len(gone) = n /\ \A i \in 1..n : i \in 1..Len(others) /\ gone[i] = Dialogs!Cleared(others[i])
  <2>1. \A i \in 1..n : i \in 1..Len(others) /\ others[i] \in Entry
    BY <1>1, <1>2
  <2>2. \A y \in Entry : Dialogs!Cleared(y) \in Entry
    BY DEF Dialogs!Cleared, Entry
  <2> QED
    BY <1>2, <2>1, <2>2
<1> HIDE DEF kept, gone
<1>6. \A i \in 1..Len(others) : others[i] \in Entry /\ others[i].kind = "sticky" /\ others[i].id # x.id
  <2>1. \A i \in 1..Len(others) : others[i] \in Entry /\ others[i] \in Dialogs!Among(others)
    BY <1>1, AmongSub
  <2> QED
    BY <1>1, <2>1 DEF StickyOK, Dialogs!SameKey
<1>7. \A i, j \in 1..Len(others) : others[i].id = others[j].id => i = j
  <2>1. DOMAIN others = 1..Len(others)
    BY <1>1
  <2> QED
    BY <1>1, <2>1 DEF StickyOK
<1>8. \A i \in 1..Len(others) : i \in 1..n \/ (i - n \in 1..Len(kept) /\ kept[i - n] = others[i])
  BY <1>2, <1>4
\* The last frame: the request, or that there is nothing left of it.
<1> DEFINE last == IF fitting # {} THEN x ELSE Dialogs!Cleared(x)
           s2 == IF fitting # {} THEN Append(kept, x) ELSE kept
           g == Append(gone, last)
<1>9. /\ last \in Entry /\ last.kind = "sticky" /\ last.id = x.id /\ last.type = "request" /\ last.n = x.n
      /\ last.clear = (fitting = {})
  BY DEF Dialogs!Cleared, Entry
<1>10. Dialogs!Evicting(p, x) = [p EXCEPT !.sticky = s2, !.frames = p.frames \o g]
  <2>1. p.frames \o gone \o <<last>> = p.frames \o g
    <3> HIDE DEF last
    <3> HIDE DEF fitting
    <3>1. p.frames \in Seq(Entry) /\ gone \in Seq(Entry) /\ last \in Entry
      BY <1>0, <1>5, <1>9
    <3>2. \A s, t \in Seq(Entry) : \A m \in Entry : s \o t \o <<m>> = s \o Append(t, m)
      BY ConcatAppend, ZenonT(100)
    <3> HIDE DEF last, gone, s2
    <3> QED
      BY <3>1, <3>2, Zenon
  <2> QED
    BY <1>3, <2>1
<1> HIDE DEF last
<1>11. Dialogs!Among(kept) \subseteq Dialogs!Among(others) /\ \A i \in 1..Len(kept) : kept[i] \in Dialogs!Among(kept)
  <2>1. DOMAIN kept = 1..Len(kept)
    BY <1>4
  <2>2. ASSUME NEW i \in DOMAIN kept PROVE kept[i] \in Dialogs!Among(others)
    BY <1>1, <1>4, <2>1, AmongSub
  <2> QED
    BY <2>1, <2>2 DEF Dialogs!Among
<1>12. s2 \in Seq(Entry) /\ Dialogs!Among(s2) = IF fitting # {} THEN Dialogs!Among(kept) \cup {x} ELSE Dialogs!Among(kept)
  <2>1. Append(kept, x) \in Seq(Entry) /\ Dialogs!Among(Append(kept, x)) = Dialogs!Among(kept) \cup {x}
    BY <1>4, AmongAppend
  <2> HIDE DEF fitting
  <2> QED
    BY <1>4, <2>1
<1>13. StickyOK(s2)
  <2>1. \A y \in Dialogs!Among(s2) : y.kind = "sticky" /\ ~y.clear
    BY <1>1, <1>11, <1>12 DEF StickyOK
  <2>2. \A i, j \in 1..Len(kept) : kept[i].id = kept[j].id => i = j
    BY <1>2, <1>4, <1>7
  <2>3. \A i \in 1..Len(kept) : kept[i].id # x.id
    BY <1>4, <1>6
  <2>4. CASE fitting # {}
    <3>1. /\ DOMAIN s2 = 1..(Len(kept) + 1) /\ s2[Len(kept) + 1] = x /\ Len(kept) \in Nat
          /\ \A i \in 1..Len(kept) : s2[i] = kept[i]
      BY <1>4, <2>4
    <3>2. ASSUME NEW i \in DOMAIN s2, NEW j \in DOMAIN s2, s2[i].id = s2[j].id PROVE i = j
      <4>1. i \in 1..Len(kept) \/ i = Len(kept) + 1
        BY <3>1
      <4>2. j \in 1..Len(kept) \/ j = Len(kept) + 1
        BY <3>1
      <4> HIDE DEF s2
      <4> QED
        BY <2>2, <2>3, <3>1, <3>2, <4>1, <4>2
    <3> QED
      BY <2>1, <3>2 DEF StickyOK
  <2>5. CASE fitting = {}
    <3>1. DOMAIN s2 = 1..Len(kept) /\ s2 = kept
      BY <1>4, <2>5
    <3> QED
      BY <2>1, <2>2, <3>1 DEF StickyOK
  <2> QED
    BY <2>4, <2>5
<1>14. g \in Seq(Entry) /\ Dialogs!Among(g) = Dialogs!Among(gone) \cup {last}
  BY <1>5, <1>9, AmongAppend
<1>15. \A f \in Dialogs!Among(g) : f.kind = "sticky"
  <2>1. ASSUME NEW i \in DOMAIN gone PROVE gone[i].kind = "sticky"
    <3>1. i \in 1..n
      BY <1>5
    <3> QED
      BY <1>5, <1>6, <3>1 DEF Dialogs!Cleared, Entry
  <2> QED
    BY <1>9, <1>14, <2>1 DEF Dialogs!Among
<1>16. ASSUME NEW k \in ShownKey, k.kind = "sticky"
       PROVE Final(g, k, Marks(p.sticky, k)) = Marks(s2, k)
  <2> DEFINE v == Marks(p.sticky, k)
  <2>0. Final(g, k, v) = IF Concerns(last, k) THEN Value(last, k) ELSE Final(gone, k, v)
    BY <1>5, <1>9, FinalAppend
  <2>1. (Concerns(last, k) <=> Key1(x, k)) /\ Value(last, k) = IF fitting = {} THEN {} ELSE {Mark(x)}
    BY <1>9 DEF Concerns, Value, Mark, Key1
  <2>2. CASE Key1(x, k)
    <3>1. \A y \in Dialogs!Among(kept) : ~Key1(y, k)
      BY <1>1, <1>11, <2>2 DEF Key1, Dialogs!SameKey
    <3>2. Marks(s2, k) = IF fitting = {} THEN {} ELSE {Mark(x)}
      BY <1>12, <2>2, <3>1 DEF Marks, Key1
    <3> QED
      BY <2>0, <2>1, <2>2, <3>2
  <2>3. CASE ~Key1(x, k)
    <3>1. Final(g, k, v) = Final(gone, k, v)
      BY <2>0, <2>1, <2>3
    <3>2. \A i \in 1..n : (Concerns(gone[i], k) <=> Key1(others[i], k)) /\ Value(gone[i], k) = {}
      BY <1>5, <1>6 DEF Concerns, Value, Key1, Dialogs!Cleared, Entry
    <3>3. \A y : Key1(y, k) => (y \in Dialogs!Among(s2) <=> y \in Dialogs!Among(kept))
      BY <1>12, <2>3
    <3>4. Marks(s2, k) = Marks(kept, k)
      BY <3>3, MarksAmong
    <3>5. CASE \E i \in 1..n : Key1(others[i], k)
      <4>1. PICK i \in 1..n : Key1(others[i], k)
        BY <3>5
      <4>2. Final(gone, k, v) = {}
        <5>1. Len(gone) = n /\ gone \in Seq(Entry)
          BY <1>5
        <5>2. /\ \A j \in 1..Len(gone) : Concerns(gone[j], k) => Value(gone[j], k) = {}
              /\ \E j \in 1..Len(gone) : Concerns(gone[j], k)
          BY <3>2, <3>5, <5>1
        <5> HIDE DEF v
        <5> QED
          BY <5>1, <5>2, FinalAll, ZenonT(100)
      <4>3. ASSUME NEW y \in Dialogs!Among(kept), Key1(y, k) PROVE FALSE
        <5>1. PICK j \in 1..Len(kept) : y = kept[j]
          BY <1>4 DEF Dialogs!Among
        <5>2. n + j \in 1..Len(others) /\ i \in 1..Len(others) /\ others[n + j].id = others[i].id
          BY <1>4, <1>5, <4>1, <4>3, <5>1 DEF Key1
        <5>3. n + j = i
          BY <1>7, <5>2
        <5> QED
          BY <1>2, <5>3
      <4>4. Marks(kept, k) = {}
        BY <4>3 DEF Marks, Key1
      <4> QED
        BY <3>1, <3>4, <4>2, <4>4
    <3>6. CASE ~\E i \in 1..n : Key1(others[i], k)
      <4>1. Final(gone, k, v) = v
        <5>1. Len(gone) = n /\ gone \in Seq(Entry)
          BY <1>5
        <5> QED
          BY <3>2, <3>6, <5>1, FinalNone
      <4>2. ASSUME NEW y, Key1(y, k) PROVE y \in Dialogs!Among(p.sticky) <=> y \in Dialogs!Among(kept)
        <5>1. y \in Dialogs!Among(kept) => y \in Dialogs!Among(p.sticky)
          BY <1>1, <1>11
        <5>2. ASSUME y \in Dialogs!Among(p.sticky) PROVE y \in Dialogs!Among(kept)
          <6>1. y \in Dialogs!Among(others)
            BY <1>1, <2>3, <4>2, <5>2 DEF Key1, Dialogs!SameKey
          <6>2. PICK j \in 1..Len(others) : y = others[j]
            BY <1>1, <6>1 DEF Dialogs!Among
          <6>3. j - n \in 1..Len(kept) /\ kept[j - n] = y
            BY <1>8, <3>6, <4>2, <6>2
          <6> QED
            BY <1>11, <6>3
        <5> QED
          BY <5>1, <5>2
      <4>3. Marks(p.sticky, k) = Marks(kept, k)
        BY <4>2, MarksAmong
      <4> QED
        BY <3>1, <3>4, <4>1, <4>3
    <3> QED
      BY <3>5, <3>6
  <2> QED
    BY <2>2, <2>3
<1>17. Rising(g)
  BY <1>15, NoNotes DEF IsNote
<1>18. Restates(g, x, p.sticky, s2)
  BY <1>12, <1>13, <1>14, <1>15, <1>16, <1>17 DEF Restates, IsNote
<1> QED
  BY <1>10, <1>18

\* A sticky request or a notification, whatever it evicts or clears.
LEMMA PlanRestates ==
  ASSUME NEW p \in Planning, StickyOK(p.sticky), NEW x \in Entry, x.kind # "dialog", NEW close
  PROVE \E g, s2 : /\ Dialogs!Plan(p, x, close) = [p EXCEPT !.sticky = s2, !.frames = p.frames \o g]
                   /\ Restates(g, x, p.sticky, s2)
<1>0. p.sticky \in Seq(Entry) /\ p.frames \in Seq(Entry) /\ x.type = "request" /\ x.kind \in {"sticky", "notify"}
      /\ x.clear \in BOOLEAN
  BY DEF Planning, Entry, Kinds
<1> DEFINE g == <<x>>
<1>1. /\ g \in Seq(Entry) /\ Dialogs!Among(g) = {x} /\ Rising(g) /\ Append(p.frames, x) = p.frames \o g
  <2>1. g \in Seq(Entry) /\ DOMAIN g = {1} /\ g[1] = x
    OBVIOUS
  <2>2. Append(p.frames, x) = p.frames \o g
    BY <1>0
  <2> HIDE DEF g
  <2> QED
    BY <2>1, <2>2 DEF Dialogs!Among, Rising
<1>2. \A k, v : Final(g, k, v) = IF Concerns(x, k) THEN Value(x, k) ELSE v
  BY FinalOne
<1>3. CASE x.kind = "sticky" /\ ~x.clear
  BY <1>3, EvictingRestates DEF Dialogs!Plan
<1>4. CASE x.kind = "sticky" /\ x.clear
  <2> DEFINE s2 == Dialogs!Without(p.sticky, x)
  <2>1. Dialogs!Plan(p, x, close) = [p EXCEPT !.sticky = s2, !.frames = p.frames \o g]
    BY <1>1, <1>4 DEF Dialogs!Plan, Planning
  <2>2. s2 \in Seq(Entry) /\ StickyOK(s2)
    BY <1>0, WithoutIs, WithoutSticky
  <2> HIDE DEF g
  <2>3. ASSUME NEW k \in ShownKey PROVE Final(g, k, Marks(p.sticky, k)) = Marks(s2, k)
    <3>1. (Concerns(x, k) <=> Key1(x, k)) /\ Value(x, k) = {}
      BY <1>0, <1>4 DEF Concerns, Value, Key1
    <3>2. Marks(Dialogs!Without(p.sticky, x), k) = IF Key1(x, k) THEN {} ELSE Marks(p.sticky, k)
      BY <1>0, MarksWithout
    <3>3. Final(g, k, Marks(p.sticky, k)) = IF Concerns(x, k) THEN Value(x, k) ELSE Marks(p.sticky, k)
      BY <1>2
    <3> QED
      BY <3>1, <3>2, <3>3
  <2>4. Restates(g, x, p.sticky, s2)
    BY <1>0, <1>1, <2>2, <2>3 DEF Restates
  <2> QED
    BY <2>1, <2>4
<1>5. CASE x.kind = "notify"
  <2>1. Dialogs!Plan(p, x, close) = [p EXCEPT !.sticky = p.sticky, !.frames = p.frames \o g]
    BY <1>1, <1>5 DEF Dialogs!Plan, Planning
  <2> HIDE DEF g
  <2>2. ASSUME NEW k \in ShownKey PROVE Final(g, k, Marks(p.sticky, k)) = Marks(p.sticky, k)
    <3>1. ~Concerns(x, k)
      BY <1>0, <1>5 DEF Concerns, ShownKey
    <3> QED
      BY <1>2, <3>1
  <2>3. Restates(g, x, p.sticky, p.sticky)
    BY <1>0, <1>1, <1>5, <2>2 DEF Restates
  <2> QED
    BY <2>1, <2>3
<1> QED
  BY <1>0, <1>3, <1>4, <1>5

-----------------------------------------------------------------------------
(* The steps of the runtime.                                               *)

\* A step that sends the frames g, and one that sends nothing.
LEMMA Emitting ==
  ASSUME DialogsInv, UNCHANGED browser, NEW r, NEW g, Dialogs!Emits(r, g), r.seq = runtime.seq,
         Becomes(runtime', told'), Shows(runtime', g),
         up' \in Seq(Dialog), \A i \in DOMAIN up' : up'[i] \in runtime.used
  PROVE DialogsInv'
<1>1. runtime.seq \in Nat /\ runtime' \in RuntimeState
  BY DEF DialogsInv, DialogsTypeOK, RuntimeState, Becomes
<1>2. Dialogs!Wire(r, g) = Dialogs!Wire(runtime, g)
  BY DEF Dialogs!Wire
<1>3. runtime'.seq = runtime.seq + Len(g)
  BY <1>1 DEF Dialogs!Emits, Dialogs!Emitted, RuntimeState
<1>4. Tells(runtime', Dialogs!Wire(runtime, g))
  BY <1>1, <1>3, WireTells
<1>5. down' = down \o Dialogs!Wire(runtime, g)
  BY <1>2 DEF Dialogs!Emits
<1> DEFINE d == Dialogs!Wire(runtime, g)
<1> HIDE DEF d
<1>6. Tells(runtime', d) /\ down' = down \o d
  BY <1>4, <1>5 DEF d
<1> QED
  BY <1>6, RuntimeMoves

LEMMA Silently ==
  ASSUME DialogsInv, UNCHANGED <<browser, down>>, Becomes(runtime', told'),
         \A k \in ShownKey : Allowed(runtime, k) \subseteq Allowed(runtime', k),
         up' \in Seq(Dialog), \A i \in DOMAIN up' : up'[i] \in runtime.used
  PROVE DialogsInv'
<1> DEFINE d == <<>>
<1>1. down \in Seq(Message)
  BY DEF DialogsInv, DialogsTypeOK
<1>2. down' = down \o d /\ d \in Seq(Message) /\ Len(d) = 0 /\ DOMAIN d = {} /\ Dialogs!Among(d) = {}
  BY <1>1 DEF Dialogs!Among
<1> HIDE DEF d
<1>3. \A k, v : Final(d, k, v) = v
  <2>1. 1..Len(d) = {}
    BY <1>2
  <2> QED
    BY <1>2, <2>1, FinalNone
<1>4. Tells(runtime', d)
  BY <1>2, <1>3 DEF Tells, Follows, Rising, Below
<1> QED
  BY <1>2, <1>4, RuntimeMoves

\* What the type invariant says of the runtime, and of what it told.
LEMMA RuntimeIs ==
  ASSUME DialogsInv
  PROVE /\ runtime \in RuntimeState
        /\ runtime.pending \in Seq(Entry) /\ runtime.sticky \in Seq(Entry) /\ runtime.held \in Seq(Entry)
        /\ runtime.seq \in Nat /\ runtime.asked \in Nat /\ runtime.used \subseteq Dialog
        /\ runtime.phase \in {"startup", "ready", "awaiting", "verifying"}
        /\ told \in [answers : Seq(Nat), notified : Seq(Nat)] /\ told.answers \in Seq(Nat) /\ told.notified \in Seq(Nat)
        /\ PendingOK(runtime) /\ StickyOK(runtime.sticky) /\ HeldOK(runtime) /\ AnswersOK(told, runtime)
        /\ up \in Seq(Dialog) /\ \A i \in DOMAIN up : up[i] \in runtime.used
        /\ Rising(runtime.held)
        /\ \A m \in Dialogs!Among(runtime.held) : IsNote(m) => NoteFrom(m, runtime)
  BY DEF DialogsInv, DialogsTypeOK, RuntimeState, Used, NotesOK, NoteFrom, HeldOK

\* Nothing that the browser could see happens.
LEMMA Stays == ASSUME DialogsInv PROVE Becomes(runtime, told) /\ Shows(runtime, <<>>)
<1>1. Becomes(runtime, told)
  BY RuntimeIs DEF Becomes, DialogsInv, StartupHeld
<1> DEFINE d == <<>>
<1>2. d \in Seq(ExtFrame) /\ Len(d) = 0 /\ DOMAIN d = {} /\ Dialogs!Among(d) = {}
  BY DEF Dialogs!Among
<1> HIDE DEF d
<1>3. \A k, v : Final(d, k, v) = v
  <2>1. 1..Len(d) = {}
    BY <1>2
  <2> QED
    BY <1>2, <2>1, FinalNone
<1>4. Shows(runtime, d)
  BY <1>2, <1>3 DEF Shows, Rising, Below
<1> QED
  BY <1>1, <1>4 DEF d

\* transitionStage: the identity command is sent, its response is verified.
LEMMA TransitionMoves == ASSUME DialogsInv, Dialogs!TransitionStarts \/ Dialogs!Verifies PROVE DialogsInv'
<1> DEFINE r2 == runtime'
<1>1. /\ r2 \in RuntimeState /\ r2.phase \in {"awaiting", "verifying"} /\ runtime.phase # "startup"
      /\ r2.pending = runtime.pending /\ r2.sticky = runtime.sticky /\ r2.held = runtime.held
      /\ r2.seq = runtime.seq /\ r2.asked = runtime.asked /\ r2.used = runtime.used
  BY RuntimeIs DEF Dialogs!TransitionStarts, Dialogs!Verifies, RuntimeState
<1>2. UNCHANGED <<down, browser, up, told>>
  BY DEF Dialogs!TransitionStarts, Dialogs!Verifies
<1> HIDE DEF r2
<1>3. Becomes(r2, told)
  BY <1>1, RuntimeIs DEF Becomes, PendingOK, HeldOK, AnswersOK, Over, NoteFrom
<1>4. \A k \in ShownKey : Allowed(r2, k) = Allowed(runtime, k)
  BY <1>1 DEF Allowed
<1> QED
  BY <1>2, <1>3, <1>4, RuntimeIs, Silently DEF r2

\* flushPreparedContentRefStartupFrames: the frames of the startup, for what is still open.
LEMMA ReadyMoves == ASSUME DialogsInv, Dialogs!Ready PROVE DialogsInv'
<1> DEFINE T == {f \in Dialogs!Among(runtime.held) : f.kind # "dialog" \/ Dialogs!Contains(runtime.pending, f)}
           g == Dialogs!Authoritative(runtime)
           r == [runtime EXCEPT !.phase = "ready", !.held = <<>>]
           r2 == runtime'
<1>0. Dialogs!Emits(r, g) /\ runtime.phase = "startup" /\ UNCHANGED <<browser, up, told>> /\ g = Dialogs!Only(runtime.held, T)
  BY DEF Dialogs!Ready, Dialogs!Authoritative
<1>1. /\ r2 \in RuntimeState /\ r2.phase = "ready" /\ r.seq = runtime.seq
      /\ r2.pending = runtime.pending /\ r2.sticky = runtime.sticky /\ r2.held = <<>>
      /\ r2.seq = runtime.seq + Len(g) /\ r2.asked = runtime.asked /\ r2.used = runtime.used
      /\ g \in Seq(Entry) /\ Dialogs!Among(g) = Dialogs!Among(runtime.held) \cap T /\ Rising(g)
  <2>1. g \in Seq(Entry) /\ Dialogs!Among(g) = Dialogs!Among(runtime.held) \cap T /\ Rising(g)
    BY <1>0, RuntimeIs, OnlyEmbeds, RisingOnly
  <2> HIDE DEF g
  <2>2. Len(g) \in Nat
    BY <2>1
  <2> QED
    <3>1. /\ r \in RuntimeState /\ r.phase = "ready" /\ r.pending = runtime.pending /\ r.sticky = runtime.sticky
          /\ r.held = <<>> /\ r.seq = runtime.seq /\ r.asked = runtime.asked /\ r.used = runtime.used
      <4>1. runtime \in RuntimeState /\ <<>> \in Seq(Entry)
        BY RuntimeIs
      <4> QED
        BY <4>1 DEF RuntimeState
    <3>2. r2 = [r EXCEPT !.seq = @ + Len(g)]
      BY <1>0 DEF Dialogs!Emits, Dialogs!Emitted
    <3> HIDE DEF r, r2
    <3>3. r.seq + Len(g) \in Nat
      BY <2>2, <3>1 DEF RuntimeState
    <3> QED
      BY <2>1, <3>1, <3>2, <3>3 DEF RuntimeState
<1> HIDE DEF r2, g
<1>2. Becomes(r2, told)
  <2>1. Rising(<<>>) /\ Dialogs!Among(<<>>) = {}
    BY AmongEmpty DEF Rising
  <2> QED
    BY <1>1, <2>1, RuntimeIs DEF Becomes, PendingOK, HeldOK, AnswersOK, Over, NoteFrom, Known
<1>3. ASSUME NEW k \in ShownKey PROVE Final(g, k, {}) \in Allowed(r2, k)
  <2>1. CASE k.kind = "sticky"
    <3>1. \A x \in Dialogs!Among(runtime.held) : Concerns(x, k) => x \in T
      <4>1. \A x \in Dialogs!Among(runtime.held) : x \in Entry
        BY AmongSub, RuntimeIs
      <4> QED
        BY <2>1, <4>1 DEF Concerns, Entry
    <3>2. Final(g, k, {}) = Final(runtime.held, k, {})
      BY <1>0, <3>1, RuntimeIs, FinalOnly
    <3> QED
      BY <1>0, <1>1, <2>1, <3>2 DEF DialogsInv, StartupHeld, Allowed
  <2>2. CASE k.kind = "dialog"
    <3> DEFINE w == Marks(runtime.pending, k)
    <3>1. \A x \in Dialogs!Among(runtime.pending) : Key1(x, k) => w = {Mark(x)} /\ x \in Entry
      <4>1. \A x, y \in Dialogs!Among(runtime.pending) : Key1(x, k) /\ Key1(y, k) => x = y
        BY RuntimeIs DEF PendingOK, Key1
      <4>2. \A x \in Dialogs!Among(runtime.pending) : ~x.clear /\ x \in Entry
        BY RuntimeIs, AmongSub DEF PendingOK
      <4> QED
        BY <4>1, <4>2 DEF Marks, Key1
    <3>2. \A x \in Entry : Concerns(x, k) <=> Key1(x, k)
      BY DEF Concerns, Key1, Entry
    <3>3. ASSUME NEW i \in 1..Len(g), Concerns(g[i], k) PROVE Value(g[i], k) = w
      <4>1. g[i] \in Dialogs!Among(g) /\ g[i] \in Entry
        BY <1>1, AmongSub
      <4>2. g[i] \in Dialogs!Among(runtime.pending) /\ Key1(g[i], k)
        BY <1>1, <2>2, <3>2, <3>3, <4>1 DEF Key1, Dialogs!Contains
      <4>3. ~g[i].clear /\ g[i].type = "request"
        BY <4>1, <4>2, RuntimeIs DEF PendingOK, Entry
      <4> QED
        BY <3>1, <4>2, <4>3 DEF Value
    <3>4. (\E i \in 1..Len(g) : Concerns(g[i], k)) \/ {} = w
      <4>1. CASE w # {}
        <5>1. PICK x \in Dialogs!Among(runtime.pending) : Key1(x, k)
          BY <4>1 DEF Marks, Key1
        <5>2. x \in Dialogs!Among(g)
          BY <1>0, <1>1, <5>1, RuntimeIs DEF HeldOK, Dialogs!Contains
        <5>3. PICK i \in 1..Len(g) : x = g[i]
          BY <1>1, <5>2 DEF Dialogs!Among
        <5> QED
          BY <3>1, <3>2, <5>1, <5>3
      <4> QED
        BY <4>1
    <3>5. Final(g, k, {}) = w
      <4> DEFINE v == {}
      <4>0. g \in Seq(Entry)
        BY <1>1
      <4> HIDE DEF w, v
      <4>1. \A i \in 1..Len(g) : Concerns(g[i], k) => Value(g[i], k) = w
        BY <3>3
      <4>2. (\E i \in 1..Len(g) : Concerns(g[i], k)) \/ v = w
        BY <3>4 DEF v
      <4>3. Final(g, k, v) = w
        BY <4>0, <4>1, <4>2, FinalAll, ZenonT(100)
      <4> QED
        BY <4>3 DEF v
    <3> QED
      BY <1>1, <2>2, <3>5 DEF Allowed
  <2> QED
    BY <2>1, <2>2 DEF ShownKey
<1>4. Shows(r2, g)
  <2>1. g \in Seq(ExtFrame)
    <3>1. Entry \subseteq ExtFrame
      BY DEF Entry, ExtFrame, OfDialog
    <3> QED
      BY <1>1, <3>1
  <2>2. \A k \in ShownKey : \A v \in Allowed(runtime, k) : v = {}
    BY <1>0 DEF Allowed
  <2>3. \A f \in Dialogs!Among(g) : f.kind = "dialog" => f.id \in r2.used
    BY <1>1, RuntimeIs DEF HeldOK, Known
  <2>4. Below(g, r2.held)
    BY <1>1, AmongEmpty DEF Below
  <2>5. \A m \in Dialogs!Among(g) : IsNote(m) => NoteFrom(m, r2)
    BY <1>1, RuntimeIs DEF NoteFrom
  <2> QED
    BY <1>1, <1>3, <2>1, <2>2, <2>3, <2>4, <2>5 DEF Shows
<1>5. Becomes(runtime', told') /\ Shows(runtime', g) /\ up' \in Seq(Dialog) /\ \A i \in DOMAIN up' : up'[i] \in runtime.used
  BY <1>0, <1>2, <1>4, RuntimeIs DEF r2
<1> HIDE DEF r
<1> QED
  BY <1>0, <1>1, <1>5, Emitting

\* replay: what the snapshot shows takes the place of all before it.
LEMMA ResyncMoves == ASSUME DialogsInv, Dialogs!ResyncRequired PROVE DialogsInv'
<1> DEFINE m == [type |-> "resync", seq |-> runtime.seq, requests |-> runtime.pending \o runtime.sticky]
           d == <<m>>
           r2 == runtime'
<1>1. /\ r2 \in RuntimeState /\ r2.phase = runtime.phase /\ runtime.phase # "startup"
      /\ r2.pending = runtime.pending /\ r2.sticky = runtime.sticky /\ r2.held = runtime.held
      /\ r2.seq = runtime.seq /\ r2.asked = runtime.asked /\ r2.used = runtime.used
  <2>1. runtime.resyncs + 1 \in Nat
    BY RuntimeIs DEF RuntimeState
  <2> QED
    BY <2>1, RuntimeIs DEF Dialogs!ResyncRequired, RuntimeState
<1>2. UNCHANGED <<browser, up, told>> /\ down' = Append(down, m)
  BY DEF Dialogs!ResyncRequired
<1>3. /\ m.requests \in Seq(Entry) /\ m.type = "resync" /\ m.seq = runtime.seq
      /\ Dialogs!Among(m.requests) = Dialogs!Among(runtime.pending) \cup Dialogs!Among(runtime.sticky)
  BY RuntimeIs, AmongConcat
<1>4. m \in Resync /\ m \notin WireFrame /\ m \notin Result /\ ~IsNote(m)
  BY <1>3, RuntimeIs DEF Resync, WireFrame, Result, IsNote
<1>5. \A k : Concerns(m, k) /\ Value(m, k) = Marks(m.requests, k)
  BY <1>3 DEF Concerns, Value
<1> HIDE DEF m, r2
<1>6. Becomes(r2, told)
  BY <1>1, RuntimeIs DEF Becomes, PendingOK, HeldOK, AnswersOK, Over, NoteFrom
<1>7. d \in Seq(Message) /\ Dialogs!Among(d) = {m} /\ Len(d) = 1 /\ d[1] = m /\ DOMAIN d = {1}
  BY <1>4 DEF Message, Dialogs!Among
<1>8. down' = down \o d
  <2>1. down \in Seq(Message) /\ m \in Message
    BY <1>4 DEF Message, DialogsInv, DialogsTypeOK
  <2> QED
    BY <1>2, <2>1
<1>9. ASSUME NEW k \in ShownKey PROVE Final(d, k, {}) \in Allowed(r2, k) /\ \A v : Final(d, k, v) = Final(d, k, {})
  <2>1. \A v : Final(d, k, v) = Marks(m.requests, k)
    BY <1>5, FinalOne
  <2>2. CASE k.kind = "sticky"
    <3>1. \A x : Key1(x, k) => (x \in Dialogs!Among(m.requests) <=> x \in Dialogs!Among(runtime.sticky))
      BY <1>3, <2>2, RuntimeIs DEF Key1, PendingOK
    <3> QED
      BY <1>1, <2>1, <2>2, <3>1, MarksAmong DEF Allowed
  <2>3. CASE k.kind = "dialog"
    <3>1. \A x : Key1(x, k) => (x \in Dialogs!Among(m.requests) <=> x \in Dialogs!Among(runtime.pending))
      BY <1>3, <2>3, RuntimeIs DEF Key1, StickyOK
    <3> QED
      BY <1>1, <2>1, <2>3, <3>1, MarksAmong DEF Allowed
  <2> QED
    BY <2>2, <2>3 DEF ShownKey
<1> HIDE DEF d
<1>10. Follows(d, runtime.seq, r2.seq)
  BY <1>1, <1>3, <1>4, <1>7, RuntimeIs DEF Follows
<1>11. KnownMessage(m, r2.used)
  BY <1>1, <1>3, <1>4, RuntimeIs DEF KnownMessage, Known, PendingOK, StickyOK
<1>12. Rising(d) /\ Below(d, r2.held)
  BY <1>4, <1>7, NoNotes
<1>13. Tells(r2, d)
  BY <1>4, <1>7, <1>9, <1>10, <1>11, <1>12 DEF Tells
<1> QED
  BY <1>2, <1>6, <1>8, <1>13, RuntimeIs, RuntimeMoves DEF r2

\* What a dialog that ends leaves.
LEMMA Closing ==
  ASSUME DialogsInv, NEW id, Dialogs!PendingOf(id) # <<>>, NEW r2, r2 = Dialogs!Emitted(Dialogs!Close(id), Dialogs!ClosedFrames(id)),
         NEW t2, t2 = [told EXCEPT !.answers = Append(@, Dialogs!PendingOf(id)[1].n)]
  PROVE /\ Becomes(r2, t2) /\ Shows(r2, Dialogs!ClosedFrames(id)) /\ r2.seq = runtime.seq + Len(Dialogs!ClosedFrames(id))
        /\ Over(id, r2) /\ Dialogs!Close(id).seq = runtime.seq
<1> DEFINE c == Dialogs!Closed(id)
           pending == Dialogs!Without(runtime.pending, c)
           r == Dialogs!Close(id)
           g == Dialogs!ClosedFrames(id)
           y == Dialogs!PendingOf(id)[1]
<1>0. /\ c.type = "closed" /\ c.kind = "dialog" /\ c.id = id /\ ~c.clear /\ c.n = 0
      /\ \A x : Dialogs!SameKey(c, x) <=> x.kind = "dialog" /\ x.id = id
  BY DEF Dialogs!Closed, Dialogs!Request, Dialogs!SameKey
<1>1. y \in Dialogs!Among(runtime.pending) /\ y.id = id /\ y \in Entry /\ id \in runtime.used /\ id \in Ids
  <2> DEFINE T == {x \in Dialogs!Among(runtime.pending) : x.id = id}
             open == Dialogs!PendingOf(id)
  <2>1. open = Dialogs!Only(runtime.pending, T)
    BY DEF Dialogs!PendingOf
  <2>2. open \in Seq(Entry) /\ Dialogs!Among(open) = Dialogs!Among(runtime.pending) \cap T /\ open # <<>>
    BY <2>1, RuntimeIs, OnlyEmbeds
  <2> HIDE DEF open
  <2>3. open[1] \in Dialogs!Among(open) /\ open[1] \in Entry
    BY <2>2, AmongTail
  <2>4. open[1] \in Dialogs!Among(runtime.pending) /\ open[1].id = id /\ open[1] \in Entry
    BY <2>2, <2>3
  <2> QED
    BY <2>4, RuntimeIs DEF open, PendingOK, Entry
<1> HIDE DEF y, c
<1>2. /\ pending \in Seq(Entry)
      /\ \A x : x \in Dialogs!Among(pending) <=> x \in Dialogs!Among(runtime.pending) /\ x.id # id
  <2>1. pending \in Seq(Entry) /\ Dialogs!Among(pending) = {x \in Dialogs!Among(runtime.pending) : ~Dialogs!SameKey(c, x)}
    BY RuntimeIs, WithoutIs
  <2> HIDE DEF pending
  <2> QED
    BY <1>0, <2>1, RuntimeIs DEF PendingOK
<1>3. /\ g \in Seq(ExtFrame) /\ Len(g) \in Nat /\ g = IF runtime.phase = "startup" THEN <<>> ELSE <<c>>
      /\ \A f \in Dialogs!Among(g) : f = c /\ runtime.phase # "startup"
  <2>1. c \in ExtFrame
    BY <1>1 DEF c, Dialogs!Closed, Dialogs!Request, ExtFrame, OfDialog, Kinds
  <2>2. g = IF runtime.phase = "startup" THEN <<>> ELSE <<c>>
    BY DEF Dialogs!ClosedFrames, c
  <2>3. CASE runtime.phase = "startup"
    BY <2>2, <2>3, AmongEmpty
  <2>4. CASE runtime.phase # "startup"
    <3> HIDE DEF g
    <3>1. g = <<c>>
      BY <2>2, <2>4
    <3>2. <<c>> \in Seq(ExtFrame) /\ Dialogs!Among(<<c>>) = {c} /\ Len(<<c>>) \in Nat
      BY <2>1 DEF Dialogs!Among
    <3> QED
      BY <2>4, <3>1, <3>2
  <2> QED
    BY <2>3, <2>4
<1>4. r \in RuntimeState /\ r.pending = pending /\ r.phase = runtime.phase /\ r.sticky = runtime.sticky
      /\ r.held = runtime.held /\ r.seq = runtime.seq /\ r.asked = runtime.asked /\ r.used = runtime.used
  <2>1. r = [runtime EXCEPT !.pending = pending]
    <3>1. runtime \in RuntimeState
      BY RuntimeIs
    <3> QED
      BY <3>1 DEF Dialogs!Close, c, RuntimeState
  <2>2. runtime \in RuntimeState
    BY RuntimeIs
  <2> HIDE DEF r, pending
  <2> QED
    BY <1>2, <2>1, <2>2 DEF RuntimeState
<1> HIDE DEF r, pending, g
<1>5. /\ r2 \in RuntimeState /\ r2.phase = runtime.phase
      /\ r2.pending = pending /\ r2.sticky = runtime.sticky /\ r2.held = runtime.held
      /\ r2.seq = runtime.seq + Len(g) /\ r2.asked = runtime.asked /\ r2.used = runtime.used
  <2>1. r2 = [r EXCEPT !.seq = @ + Len(g)] /\ r.seq + Len(g) \in Nat
    BY <1>3, <1>4, RuntimeIs DEF Dialogs!Emitted, r, g
  <2> QED
    BY <1>4, <2>1 DEF RuntimeState
<1>6. Over(id, r2)
  BY <1>1, <1>2, <1>5 DEF Over
<1>7. PendingOK(r2) /\ HeldOK(r2)
  BY <1>2, <1>5, RuntimeIs DEF PendingOK, HeldOK, Known
<1>8. AnswersOK(t2, r2) /\ t2 \in [answers : Seq(Nat), notified : Seq(Nat)] /\ t2.notified = told.notified
  <2>1. y.n \in Nat /\ y.n <= runtime.asked
    BY <1>1, RuntimeIs DEF PendingOK, Entry
  <2>2. /\ t2 \in [answers : Seq(Nat), notified : Seq(Nat)] /\ t2.notified = told.notified
        /\ t2.answers = Append(told.answers, y.n)
    <3>1. told \in [answers : Seq(Nat), notified : Seq(Nat)] /\ t2 = [told EXCEPT !.answers = Append(told.answers, y.n)]
      BY RuntimeIs DEF y
    <3> DEFINE z == Append(told.answers, y.n)
    <3>2. z \in Seq(Nat)
      BY <2>1, <3>1
    <3>3. t2 = [told EXCEPT !.answers = z]
      BY <3>1
    <3> HIDE DEF z
    <3>4. t2 \in [answers : Seq(Nat), notified : Seq(Nat)] /\ t2.notified = told.notified /\ t2.answers = z
      BY <3>1, <3>2, <3>3
    <3> QED
      BY <3>4 DEF z
  <2>3. /\ Len(told.answers) \in Nat /\ DOMAIN told.answers = 1..Len(told.answers)
        /\ DOMAIN t2.answers = 1..(Len(told.answers) + 1) /\ t2.answers[Len(told.answers) + 1] = y.n
        /\ \A i \in DOMAIN told.answers : t2.answers[i] = told.answers[i]
    <3>1. told.answers \in Seq(Nat) /\ y.n \in Nat /\ t2.answers = Append(told.answers, y.n)
      BY <2>1, <2>2, RuntimeIs
    <3> QED
      BY <3>1
  <2>4. \A i \in DOMAIN t2.answers : i \in DOMAIN told.answers \/ i = Len(told.answers) + 1
    BY <2>3
  <2>5. AnswersOK(told, runtime)
    BY RuntimeIs
  <2>6. \A i \in DOMAIN told.answers : told.answers[i] # y.n
    BY <1>1, <2>5 DEF AnswersOK
  <2>7. \A x \in Dialogs!Among(r2.pending) : x \in Dialogs!Among(runtime.pending) /\ x.n # y.n
    BY <1>1, <1>2, <1>5, RuntimeIs DEF PendingOK
  <2>8. \A i \in DOMAIN t2.answers : t2.answers[i] <= r2.asked
    BY <1>5, <2>1, <2>3, <2>4, <2>5 DEF AnswersOK
  <2>9. \A i, j \in DOMAIN t2.answers : t2.answers[i] = t2.answers[j] => i = j
    BY <2>3, <2>4, <2>5, <2>6 DEF AnswersOK
  <2>10. \A i \in DOMAIN t2.answers : \A x \in Dialogs!Among(r2.pending) : x.n # t2.answers[i]
    BY <2>3, <2>4, <2>5, <2>7 DEF AnswersOK
  <2> QED
    BY <2>2, <2>8, <2>9, <2>10 DEF AnswersOK
<1>9. Becomes(r2, t2)
  <2>1. r2.phase = "startup" => \A k \in ShownKey : k.kind = "sticky" => Final(r2.held, k, {}) = Marks(r2.sticky, k)
    BY <1>5 DEF DialogsInv, StartupHeld
  <2>2. runtime.seq <= r2.seq
    BY <1>3, <1>5, RuntimeIs
  <2>3. \A i \in Dialog : Over(i, runtime) => Over(i, r2)
    BY <1>2, <1>5 DEF Over
  <2> QED
    BY <1>5, <1>7, <1>8, <2>1, <2>2, <2>3, RuntimeIs DEF Becomes, NoteFrom
<1>10. ASSUME NEW k \in ShownKey, NEW v \in Allowed(runtime, k) PROVE Final(g, k, v) \in Allowed(r2, k)
  <2>1. CASE runtime.phase = "startup"
    <3>1. Final(g, k, v) = v
      <4>1. g \in Seq(ExtFrame) /\ 1..Len(g) = {}
        BY <1>3, <2>1
      <4> QED
        BY <4>1, FinalNone
    <3> QED
      BY <1>5, <1>10, <2>1, <3>1 DEF Allowed
  <2>2. CASE runtime.phase # "startup"
    <3>1. Final(g, k, v) = IF k.kind = "dialog" /\ k.id = id THEN {} ELSE v
      <4>1. g = <<c>>
        BY <1>3, <2>2
      <4>2. Final(<<c>>, k, v) = IF Concerns(c, k) THEN Value(c, k) ELSE v
        BY FinalOne
      <4>3. (Concerns(c, k) <=> k.kind = "dialog" /\ k.id = id) /\ Value(c, k) = {}
        BY <1>0 DEF Concerns, Value
      <4> QED
        BY <4>1, <4>2, <4>3
    <3>2. CASE k.kind = "dialog" /\ k.id = id
      <4>1. Marks(pending, k) = {}
        BY <1>2, <3>2 DEF Marks
      <4> QED
        BY <1>5, <2>2, <3>1, <3>2, <4>1 DEF Allowed
    <3>3. CASE k.kind = "dialog" /\ k.id # id
      <4>1. Marks(pending, k) = Marks(runtime.pending, k)
        <5>1. \A x : Key1(x, k) => (x \in Dialogs!Among(pending) <=> x \in Dialogs!Among(runtime.pending))
          BY <1>2, <3>3 DEF Key1
        <5> QED
          BY <5>1, MarksAmong
      <4>2. (\E x \in Dialogs!Among(runtime.pending) : x.id = k.id /\ x \in Dialogs!Among(runtime.held))
            => \E x \in Dialogs!Among(pending) : x.id = k.id /\ x \in Dialogs!Among(r2.held)
        BY <1>2, <1>5, <3>3
      <4> QED
        BY <1>5, <1>10, <2>2, <3>1, <3>3, <4>1, <4>2 DEF Allowed
    <3>4. CASE k.kind = "sticky"
      BY <1>5, <1>10, <2>2, <3>1, <3>4 DEF Allowed
    <3> QED
      BY <3>2, <3>3, <3>4 DEF ShownKey
  <2> QED
    BY <2>1, <2>2
<1>11. Shows(r2, g)
  <2>1. \A f \in Dialogs!Among(g) : ~IsNote(f) /\ f.id \in r2.used
    BY <1>0, <1>1, <1>3, <1>5 DEF IsNote
  <2> QED
    BY <1>3, <1>10, <2>1, NoNotes DEF Shows
<1> QED
  BY <1>4, <1>5, <1>6, <1>9, <1>11 DEF r, g

\* expireDialog: the timer of a dialog that is open.
LEMMA ExpiresMoves == ASSUME DialogsInv, NEW id, Dialogs!Expires(id) PROVE DialogsInv'
<1> DEFINE g == Dialogs!ClosedFrames(id)
           r == Dialogs!Close(id)
<1>1. Dialogs!PendingOf(id) # <<>> /\ runtime' = Dialogs!Emitted(r, g) /\ Dialogs!Emits(r, g) /\ UNCHANGED <<browser, up>>
  BY DEF Dialogs!Expires, Dialogs!Emits
<1>2. told' = [told EXCEPT !.answers = Append(@, Dialogs!PendingOf(id)[1].n)]
  BY DEF Dialogs!Expires
<1>3. Becomes(runtime', told') /\ Shows(runtime', g) /\ r.seq = runtime.seq
  BY <1>1, <1>2, Closing
<1> HIDE DEF g, r
<1> QED
  BY <1>1, <1>3, RuntimeIs, Emitting

\* A result after the frames.
LEMMA TellsResult ==
  ASSUME NEW r2, NEW d, Tells(r2, d), NEW id \in Dialog, Over(id, r2), runtime.seq <= r2.seq
  PROVE Tells(r2, d \o <<[type |-> "result", id |-> id]>>)
<1> DEFINE m == [type |-> "result", id |-> id]
           e == Append(d, m)
<1>0. m \in Result /\ m \in Message /\ m \notin WireFrame /\ m \notin Resync /\ ~IsNote(m) /\ m.id = id /\ m.type = "result"
  BY DEF Result, Message, WireFrame, Resync, IsNote
<1> HIDE DEF m
<1>1. d \in Seq(Message) /\ e = d \o <<m>>
  BY <1>0 DEF Tells
<1>2. e \in Seq(Message) /\ Dialogs!Among(e) = Dialogs!Among(d) \cup {m}
  <2>1. d \in Seq(Message) /\ m \in Message
    BY <1>0, <1>1
  <2> QED
    BY <2>1, AmongAppend
<1>3. /\ Len(d) \in Nat /\ Len(e) = Len(d) + 1 /\ e[Len(d) + 1] = m /\ \A i \in 1..Len(d) : e[i] = d[i]
      /\ DOMAIN e = 1..(Len(d) + 1) /\ DOMAIN d = 1..Len(d)
  BY <1>0, <1>1
<1>4. \A k, v : Final(e, k, v) = IF Concerns(m, k) THEN Value(m, k) ELSE Final(d, k, v)
  BY <1>0, <1>1, FinalAppend
<1> HIDE DEF e
<1>5. Follows(e, runtime.seq, r2.seq)
  <2>1. Follows(d, runtime.seq, r2.seq)
    BY DEF Tells
  <2>2. \A i \in 1..Len(e) : i \in 1..Len(d) \/ i = Len(d) + 1
    BY <1>3
  <2>3. \A i \in 1..Len(e) : e[i] = m \/ (i \in 1..Len(d) /\ e[i] = d[i])
    BY <1>3, <2>2
  <2> QED
    BY <1>0, <2>1, <2>3 DEF Follows
<1>6. Rising(e) /\ Below(e, r2.held) /\ \A x \in Dialogs!Among(e) : IsNote(x) => NoteFrom(x, r2)
  <2>2. \A i \in DOMAIN e : i \in DOMAIN d \/ i = Len(d) + 1
    BY <1>3
  <2>3. \A i \in DOMAIN e : IsNote(e[i]) => i \in DOMAIN d /\ e[i] = d[i]
    BY <1>0, <1>3, <2>2
  <2> QED
    BY <1>0, <1>2, <2>3 DEF Rising, Below, Tells
<1>7. ASSUME NEW k \in ShownKey, NEW v \in Allowed(runtime, k) PROVE Final(e, k, v) \in Allowed(r2, k)
  <2>1. CASE Concerns(m, k)
    <3>1. k.kind = "dialog" /\ k.id = id /\ Value(m, k) = {}
      BY <1>0, <2>1 DEF Concerns, Value
    <3>2. Marks(r2.pending, k) = {}
      BY <3>1 DEF Over, Marks
    <3> QED
      BY <1>4, <2>1, <3>1, <3>2 DEF Allowed
  <2>2. CASE ~Concerns(m, k)
    BY <1>4, <1>7, <2>2 DEF Tells
  <2> QED
    BY <2>1, <2>2
<1>8. \A x \in Dialogs!Among(e) : KnownMessage(x, r2.used) /\ (x \in Result => Over(x.id, r2))
  BY <1>0, <1>2 DEF Tells, KnownMessage
<1>9. Tells(r2, e)
  BY <1>2, <1>5, <1>6, <1>7, <1>8 DEF Tells
<1> QED
  BY <1>1, <1>9 DEF m

\* sendExtensionUiResponse: an answer, for a dialog that may be gone.
LEMMA ResponseMoves == ASSUME DialogsInv, Dialogs!HandleResponse PROVE DialogsInv'
<1> DEFINE id == up[1]
           open == Dialogs!PendingOf(id)
           g == IF open = <<>> THEN <<>> ELSE Dialogs!ClosedFrames(id)
           r2 == runtime'
           d == Dialogs!Wire(runtime, g)
           m == [type |-> "result", id |-> id]
<1>1. /\ up # <<>> /\ up' = Tail(up) /\ browser' = browser
      /\ r2 = Dialogs!Emitted(IF open = <<>> THEN runtime ELSE Dialogs!Close(id), g)
      /\ down' = down \o d \o <<m>>
      /\ told' = [told EXCEPT !.answers = IF open = <<>> THEN @ ELSE Append(@, open[1].n)]
  BY DEF Dialogs!HandleResponse
<1>2. id \in Dialog /\ id \in runtime.used /\ Tail(up) \in Seq(Dialog) /\ \A i \in DOMAIN Tail(up) : Tail(up)[i] \in runtime.used
  <2>1. up \in Seq(Dialog) /\ Len(up) \in Nat /\ DOMAIN up = 1..Len(up) /\ up # <<>> /\ Len(up) # 0
    BY <1>1, RuntimeIs
  <2>2. 1 \in DOMAIN up
    BY <2>1
  <2>3. /\ Tail(up) \in Seq(Dialog) /\ Len(Tail(up)) = Len(up) - 1
        /\ \A i \in 1..Len(Tail(up)) : i + 1 \in 1..Len(up) /\ Tail(up)[i] = up[i + 1]
    BY <2>1, AmongTail
  <2>4. DOMAIN Tail(up) = 1..Len(Tail(up))
    BY <2>3
  <2> QED
    BY <2>1, <2>2, <2>3, <2>4, RuntimeIs
<1> HIDE DEF id
<1>3. Becomes(r2, told') /\ Shows(r2, g) /\ r2.seq = runtime.seq + Len(g) /\ Over(id, r2)
  <2>1. CASE open # <<>>
    <3>1. g = Dialogs!ClosedFrames(id) /\ r2 = Dialogs!Emitted(Dialogs!Close(id), Dialogs!ClosedFrames(id))
          /\ told' = [told EXCEPT !.answers = Append(@, open[1].n)]
      BY <1>1, <2>1
    <3>2. Becomes(r2, told') /\ Shows(r2, Dialogs!ClosedFrames(id)) /\ r2.seq = runtime.seq + Len(Dialogs!ClosedFrames(id)) /\ Over(id, r2)
      BY <2>1, <3>1, Closing
    <3> QED
      BY <3>1, <3>2
  <2>2. CASE open = <<>>
    <3>1. runtime \in RuntimeState /\ runtime.seq \in Nat /\ told \in [answers : Seq(Nat), notified : Seq(Nat)]
      BY RuntimeIs
    <3>2. g = <<>> /\ Len(g) = 0
      BY <2>2
    <3>3. r2 = [runtime EXCEPT !.seq = @ + Len(g)] /\ told' = [told EXCEPT !.answers = @]
      BY <1>1, <2>2 DEF Dialogs!Emitted
    <3>4. r2 = runtime /\ told' = told
      BY <3>1, <3>2, <3>3 DEF RuntimeState
    <3>5. \A x \in Dialogs!Among(runtime.pending) : x.id # id
      <4> DEFINE T == {x \in Dialogs!Among(runtime.pending) : x.id = id}
      <4>1. open = Dialogs!Only(runtime.pending, T)
        BY DEF Dialogs!PendingOf
      <4>2. Dialogs!Among(open) = Dialogs!Among(runtime.pending) \cap T
        BY <4>1, RuntimeIs, OnlyEmbeds
      <4> QED
        BY <2>2, <4>2, AmongEmpty
    <3> QED
      BY <1>2, <3>1, <3>2, <3>4, <3>5, Stays DEF Over
  <2> QED
    BY <2>1, <2>2
<1> HIDE DEF g, open
<1>4. Tells(r2, d)
  BY <1>3, RuntimeIs, WireTells
<1>5. Tells(r2, d \o <<m>>)
  <2>1. runtime.seq <= r2.seq
    BY <1>3 DEF Becomes
  <2> QED
    BY <1>2, <1>3, <1>4, <2>1, TellsResult
<1>6. down' = down \o (d \o <<m>>)
  <2>1. down \in Seq(Message) /\ d \in Seq(Message) /\ m \in Message
    BY <1>2, <1>4 DEF Tells, DialogsInv, DialogsTypeOK, Message, Result
  <2> HIDE DEF d, m
  <2>2. \A s, t \in Seq(Message) : \A x \in Message : s \o t \o <<x>> = s \o Append(t, x)
    BY ConcatAppend, ZenonT(100)
  <2>3. \A t \in Seq(Message) : \A x \in Message : t \o <<x>> = Append(t, x)
    OBVIOUS
  <2> QED
    BY <1>1, <2>1, <2>2, <2>3, Zenon
<1> DEFINE e == d \o <<m>>
<1> HIDE DEF e
<1>7. Tells(r2, e) /\ down' = down \o e
  BY <1>5, <1>6 DEF e
<1> QED
  BY <1>1, <1>2, <1>3, <1>7, RuntimeMoves DEF r2

-----------------------------------------------------------------------------
(* The frames staged while the identity changes.                           *)

\* expandContentRefTransitionSemanticPlan: one frame held back after the other.
LEMMA ExpandingDef ==
  ASSUME NEW r, r.held \in Seq(Entry)
  PROVE /\ Dialogs!Expanding(r)[0] = Dialogs!State(r)
        /\ \A i \in 1..Len(r.held) :
             Dialogs!Expanding(r)[i] = IF r.held[i].kind # "dialog" THEN Dialogs!Plan(Dialogs!Expanding(r)[i - 1], r.held[i], TRUE)
                                       ELSE IF Dialogs!Contains(r.pending, r.held[i])
                                       THEN [Dialogs!Expanding(r)[i - 1] EXCEPT !.frames = Append(@, r.held[i])]
                                       ELSE Dialogs!Expanding(r)[i - 1]
<1> DEFINE G(p, i) == IF r.held[i].kind # "dialog" THEN Dialogs!Plan(p, r.held[i], TRUE)
                      ELSE IF Dialogs!Contains(r.pending, r.held[i]) THEN [p EXCEPT !.frames = Append(@, r.held[i])] ELSE p
           Is(f, n) == f = [i \in 0..n |-> IF i = 0 THEN Dialogs!State(r) ELSE G(f[i - 1], i)]
           U == {n \in Nat : \E f : Is(f, n)}
<1>5. Dialogs!Expanding(r) = CHOOSE f : Is(f, Len(r.held))
  BY DEF Dialogs!Expanding
<1> HIDE DEF G
<1>1. 0 \in U
  <2> DEFINE f == [i \in 0..0 |-> Dialogs!State(r)]
  <2>1. Is(f, 0)
    OBVIOUS
  <2> QED
    BY <2>1
<1>2. ASSUME NEW n \in U PROVE n + 1 \in U
  <2>1. PICK f : Is(f, n)
    OBVIOUS
  <2> DEFINE g == [i \in 0..(n + 1) |-> IF i = n + 1 THEN G(f[n], i) ELSE f[i]]
  <2>2. ASSUME NEW i \in 0..(n + 1)
        PROVE g[i] = IF i = 0 THEN Dialogs!State(r) ELSE G(g[i - 1], i)
    BY <2>1
  <2>3. Is(g, n + 1)
    BY <2>2
  <2> HIDE DEF g, Is
  <2>4. \E h : Is(h, n + 1)
    BY <2>3
  <2> QED
    BY <2>4
<1>3. U = Nat
  <2> HIDE DEF U
  <2>1. U \in SUBSET Nat
    BY DEF U
  <2> QED
    BY <1>1, <1>2, <2>1, Counting
<1>0. Len(r.held) \in Nat
  OBVIOUS
<1>4. \E f : Is(f, Len(r.held))
  BY <1>0, <1>3
<1> HIDE DEF Is
<1>6. Is(Dialogs!Expanding(r), Len(r.held))
  BY <1>4, <1>5
<1>7. /\ Dialogs!Expanding(r)[0] = Dialogs!State(r)
      /\ \A i \in 1..Len(r.held) : Dialogs!Expanding(r)[i] = G(Dialogs!Expanding(r)[i - 1], i)
  BY <1>0, <1>6, SMTT(60) DEF Is
<1> QED
  BY <1>7 DEF G

\* What the first n frames held back make.
Expands(p, r, n) ==
  /\ p \in Planning /\ p.pending = r.pending /\ StickyOK(p.sticky) /\ Rising(p.frames)
  /\ \A f \in Dialogs!Among(p.frames) : f.kind = "dialog" => f \in Dialogs!Among(r.pending)
  /\ \A f \in Dialogs!Among(p.frames) : IsNote(f) => \E j \in 1..n : IsNote(r.held[j]) /\ f.n = r.held[j].n
  /\ \A j \in 1..n : r.held[j].kind = "dialog" /\ r.held[j] \in Dialogs!Among(r.pending) => r.held[j] \in Dialogs!Among(p.frames)
  /\ \A k \in ShownKey : k.kind = "sticky" => Final(p.frames, k, Marks(r.sticky, k)) = Marks(p.sticky, k)

LEMMA ExpandsMore ==
  ASSUME NEW r, r.held \in Seq(Entry), Rising(r.held), NEW n \in Nat, n + 1 <= Len(r.held), NEW p, Expands(p, r, n),
         NEW g \in Seq(Entry), NEW s, Restates(g, r.held[n + 1], p.sticky, s), r.held[n + 1].kind # "dialog",
         NEW q, q = [p EXCEPT !.sticky = s, !.frames = p.frames \o g]
  PROVE Expands(q, r, n + 1)
<1> DEFINE x == r.held[n + 1]
<1>0. /\ Len(r.held) \in Nat /\ DOMAIN r.held = 1..Len(r.held) /\ n + 1 \in 1..Len(r.held) /\ x \in Entry
      /\ p.frames \in Seq(Entry) /\ p.pending \in Seq(Entry) /\ s \in Seq(Entry)
  BY DEF Expands, Planning, Restates
<1> DEFINE e == p.frames \o g
<1>1. e \in Seq(Entry) /\ Dialogs!Among(e) = Dialogs!Among(p.frames) \cup Dialogs!Among(g)
  BY <1>0, AmongConcat
<1>4. \A k, v : Final(e, k, v) = Final(g, k, Final(p.frames, k, v))
  <2> DEFINE a == p.frames
  <2>1. a \in Seq(Entry)
    BY <1>0
  <2> HIDE DEF a
  <2>2. \A k, v : Final(a \o g, k, v) = Final(g, k, Final(a, k, v))
    BY <2>1, FinalConcat
  <2> QED
    BY <2>2 DEF a
<1> DEFINE sticky == s
<1>2. Below(p.frames, g)
  <2>1. ASSUME NEW f \in Dialogs!Among(p.frames), NEW y \in Dialogs!Among(g), IsNote(f), IsNote(y) PROVE f.n < y.n
    <3>1. PICK j \in 1..n : IsNote(r.held[j]) /\ f.n = r.held[j].n
      BY <2>1 DEF Expands
    <3>2. y = x
      BY <2>1 DEF Restates
    <3>3. j \in DOMAIN r.held /\ n + 1 \in DOMAIN r.held /\ j < n + 1
      BY <1>0
    <3> QED
      BY <2>1, <3>1, <3>2, <3>3 DEF Rising
  <2> QED
    BY <2>1 DEF Below
<1>3. Rising(e)
  BY <1>0, <1>2, RisingConcat DEF Expands, Restates
<1> HIDE DEF e
<1>5. q \in Planning /\ q.pending = r.pending /\ q.sticky = s /\ q.frames = e
  <2>1. q = [p EXCEPT !.sticky = s, !.frames = e] /\ p \in Planning /\ p.pending = r.pending
    BY DEF e, Expands
  <2> QED
    BY <1>0, <1>1, <2>1 DEF Planning
<1>6. \A f \in Dialogs!Among(e) : f.kind = "dialog" => f \in Dialogs!Among(r.pending)
  BY <1>1 DEF Expands, Restates
<1>7. ASSUME NEW f \in Dialogs!Among(e), IsNote(f) PROVE \E j \in 1..(n + 1) : IsNote(r.held[j]) /\ f.n = r.held[j].n
  <2>1. CASE f \in Dialogs!Among(p.frames)
    <3>1. PICK j \in 1..n : IsNote(r.held[j]) /\ f.n = r.held[j].n
      BY <1>7, <2>1 DEF Expands
    <3> QED
      BY <3>1
  <2>2. CASE f \in Dialogs!Among(g)
    <3>1. f = x
      BY <1>7, <2>2 DEF Restates
    <3> QED
      BY <1>7, <3>1
  <2> QED
    BY <1>1, <2>1, <2>2
<1>8. \A j \in 1..(n + 1) : r.held[j].kind = "dialog" /\ r.held[j] \in Dialogs!Among(r.pending) => r.held[j] \in Dialogs!Among(e)
  <2>1. \A j \in 1..(n + 1) : j \in 1..n \/ j = n + 1
    OBVIOUS
  <2> QED
    BY <1>1, <2>1 DEF Expands
<1>9. ASSUME NEW k \in ShownKey, k.kind = "sticky" PROVE Final(e, k, Marks(r.sticky, k)) = Marks(s, k)
  BY <1>4, <1>9 DEF Expands, Restates
<1> QED
  BY <1>3, <1>5, <1>6, <1>7, <1>8, <1>9 DEF Expands, Restates

LEMMA ExpandsDialog ==
  ASSUME NEW r, r.held \in Seq(Entry), NEW n \in Nat, n + 1 <= Len(r.held), NEW p, Expands(p, r, n),
         r.held[n + 1].kind = "dialog",
         NEW q, q = IF Dialogs!Contains(r.pending, r.held[n + 1]) THEN [p EXCEPT !.frames = Append(@, r.held[n + 1])] ELSE p
  PROVE Expands(q, r, n + 1)
<1> DEFINE x == r.held[n + 1]
<1>0. /\ n + 1 \in 1..Len(r.held) /\ x \in Entry
      /\ p.frames \in Seq(Entry) /\ p.pending \in Seq(Entry) /\ p.sticky \in Seq(Entry)
      /\ \A j \in 1..(n + 1) : j \in 1..n \/ j = n + 1
      /\ \A j \in 1..n : j \in 1..(n + 1)
  BY DEF Expands, Planning
<1>1. CASE ~Dialogs!Contains(r.pending, x)
  BY <1>0, <1>1 DEF Expands, Dialogs!Contains
<1>2. CASE Dialogs!Contains(r.pending, x)
  <2> DEFINE e == Append(p.frames, x)
             one == <<x>>
  <2>1. e \in Seq(Entry) /\ Dialogs!Among(e) = Dialogs!Among(p.frames) \cup {x}
    BY <1>0, AmongAppend
  <2>2. ~IsNote(x)
    BY DEF IsNote
  <2>3. Rising(e)
    <3>1. e = p.frames \o one /\ one \in Seq(Entry) /\ Dialogs!Among(one) = {x}
      BY <1>0 DEF Dialogs!Among
    <3> HIDE DEF one, e
    <3>2. Rising(one) /\ Below(p.frames, one)
      BY <2>2, <3>1, NoNotes DEF Below
    <3> QED
      BY <1>0, <3>1, <3>2, RisingConcat DEF Expands
  <2>4. ASSUME NEW k \in ShownKey, k.kind = "sticky" PROVE Final(e, k, Marks(r.sticky, k)) = Marks(p.sticky, k)
    <3>1. ~Concerns(x, k)
      BY <1>0, <2>4 DEF Concerns, Entry
    <3>2. Final(e, k, Marks(r.sticky, k)) = Final(p.frames, k, Marks(r.sticky, k))
      BY <1>0, <3>1, FinalAppend
    <3> QED
      BY <2>4, <3>2 DEF Expands
  <2> HIDE DEF e
  <2>5. q \in Planning /\ q.pending = r.pending /\ q.sticky = p.sticky /\ q.frames = e
    <3>1. q = [p EXCEPT !.frames = e] /\ p \in Planning /\ p.pending = r.pending
      BY <1>2 DEF e, Expands
    <3> QED
      BY <2>1, <3>1 DEF Planning
  <2>6. \A f \in Dialogs!Among(e) : f.kind = "dialog" => f \in Dialogs!Among(r.pending)
    BY <1>2, <2>1 DEF Expands, Dialogs!Contains
  <2>7. ASSUME NEW f \in Dialogs!Among(e), IsNote(f) PROVE \E j \in 1..(n + 1) : IsNote(r.held[j]) /\ f.n = r.held[j].n
    BY <1>0, <2>1, <2>2, <2>7 DEF Expands
  <2>8. \A j \in 1..(n + 1) : r.held[j].kind = "dialog" /\ r.held[j] \in Dialogs!Among(r.pending) => r.held[j] \in Dialogs!Among(e)
    BY <1>0, <2>1 DEF Expands
  <2> QED
    BY <2>3, <2>4, <2>5, <2>6, <2>7, <2>8 DEF Expands
<1> QED
  BY <1>1, <1>2

\* All of the frames held back.
LEMMA ExpandedIs ==
  ASSUME NEW r \in RuntimeState, StickyOK(r.sticky), Rising(r.held)
  PROVE Expands(Dialogs!Expanded(r), r, Len(r.held))
<1> DEFINE U == {n \in Nat : n <= Len(r.held) => Expands(Dialogs!Expanding(r)[n], r, n)}
<1>0. r.held \in Seq(Entry) /\ r.pending \in Seq(Entry) /\ r.sticky \in Seq(Entry) /\ Len(r.held) \in Nat
  BY DEF RuntimeState
<1>1. 0 \in U
  <2>1. Dialogs!Expanding(r)[0] = Dialogs!State(r)
    BY <1>0, ExpandingDef
  <2> DEFINE e == <<>>
  <2>2. Dialogs!State(r) \in Planning /\ Dialogs!State(r).pending = r.pending /\ Dialogs!State(r).sticky = r.sticky /\ Dialogs!State(r).frames = e
    BY <1>0 DEF Dialogs!State, Planning
  <2>3. Dialogs!Among(e) = {} /\ DOMAIN e = {} /\ e \in Seq(Entry) /\ 1..Len(e) = {} /\ 1..0 = {}
    BY AmongEmpty
  <2> HIDE DEF e
  <2>4. \A k, v : Final(e, k, v) = v
    BY <2>3, FinalNone
  <2>5. Expands(Dialogs!State(r), r, 0)
    BY <1>0, <2>2, <2>3, <2>4 DEF Expands, Rising
  <2> QED
    BY <2>1, <2>5
<1>2. ASSUME NEW n \in U PROVE n + 1 \in U
  <2> SUFFICES ASSUME n + 1 <= Len(r.held) PROVE Expands(Dialogs!Expanding(r)[n + 1], r, n + 1)
    OBVIOUS
  <2> DEFINE p == Dialogs!Expanding(r)[n]
             x == r.held[n + 1]
             q == Dialogs!Expanding(r)[n + 1]
  <2>1. Expands(p, r, n) /\ n \in Nat /\ n + 1 \in 1..Len(r.held) /\ x \in Entry
    BY <1>0
  <2>2. q = IF x.kind # "dialog" THEN Dialogs!Plan(p, x, TRUE)
            ELSE IF Dialogs!Contains(r.pending, x) THEN [p EXCEPT !.frames = Append(@, x)] ELSE p
    <3>1. (n + 1) - 1 = n
      BY <2>1
    <3> QED
      BY <1>0, <2>1, <3>1, ExpandingDef
  <2> HIDE DEF p, q
  <2>3. CASE x.kind = "dialog"
    BY <1>0, <2>1, <2>2, <2>3, ExpandsDialog DEF q
  <2>4. CASE x.kind # "dialog"
    <3>1. p \in Planning /\ StickyOK(p.sticky)
      BY <2>1 DEF Expands
    <3>2. PICK g, s : Dialogs!Plan(p, x, TRUE) = [p EXCEPT !.sticky = s, !.frames = p.frames \o g] /\ Restates(g, x, p.sticky, s)
      BY <2>1, <2>4, <3>1, PlanRestates
    <3>3. q = [p EXCEPT !.sticky = s, !.frames = p.frames \o g] /\ g \in Seq(Entry)
      BY <2>2, <2>4, <3>2 DEF Restates
    <3>4. Expands(q, r, n + 1)
      BY <1>0, <2>1, <2>4, <3>2, <3>3, ExpandsMore
    <3> QED
      BY <3>4 DEF q
  <2> QED
    BY <2>3, <2>4
<1>3. U = Nat
  <2> HIDE DEF U
  <2>1. U \in SUBSET Nat
    BY DEF U
  <2> QED
    BY <1>1, <1>2, <2>1, Counting
<1> QED
  BY <1>0, <1>3 DEF Dialogs!Expanded

\* The type of the runtime after a step that sends the frames g.
LEMMA EmittedIs ==
  ASSUME NEW r \in RuntimeState, NEW S, NEW g \in Seq(S), NEW r2, r2 = Dialogs!Emitted(r, g)
  PROVE /\ r2 \in RuntimeState /\ r2.phase = r.phase /\ r2.pending = r.pending /\ r2.sticky = r.sticky /\ r2.held = r.held
        /\ r2.seq = r.seq + Len(g) /\ r2.asked = r.asked /\ r2.used = r.used /\ r.seq <= r2.seq
<1> DEFINE n == Len(g)
<1>1. r2 = [r EXCEPT !.seq = r.seq + n] /\ r.seq \in Nat /\ n \in Nat
  BY DEF Dialogs!Emitted, RuntimeState
<1> HIDE DEF n
<1>2. r.seq + n \in Nat /\ r.seq <= r.seq + n
  BY <1>1
<1>3. /\ r2 \in RuntimeState /\ r2.phase = r.phase /\ r2.pending = r.pending /\ r2.sticky = r.sticky /\ r2.held = r.held
      /\ r2.seq = r.seq + n /\ r2.asked = r.asked /\ r2.used = r.used
  BY <1>1, <1>2 DEF RuntimeState
<1> QED
  BY <1>2, <1>3 DEF n

\* commitTransitionFrames: state and frames are published together.
LEMMA CommitsMoves == ASSUME DialogsInv, Dialogs!TransitionCommits PROVE DialogsInv'
<1> DEFINE p == Dialogs!Expanded(runtime)
           g == Dialogs!Expanded(runtime).frames
           r == [Dialogs!With(runtime, Dialogs!Expanded(runtime)) EXCEPT !.phase = "ready", !.held = <<>>]
           r2 == runtime'
<1>0. Dialogs!Emits(r, g) /\ runtime.phase \in {"awaiting", "verifying"} /\ UNCHANGED <<browser, up, told>>
  BY DEF Dialogs!TransitionCommits
<1>1. Expands(p, runtime, Len(runtime.held))
  BY RuntimeIs, ExpandedIs
<1>2. p.pending = runtime.pending /\ p.sticky \in Seq(Entry) /\ p.frames \in Seq(Entry) /\ StickyOK(p.sticky)
  BY <1>1 DEF Expands, Planning
<1>3. /\ r \in RuntimeState /\ r.phase = "ready" /\ r.pending = runtime.pending /\ r.sticky = p.sticky
      /\ r.held = <<>> /\ r.seq = runtime.seq /\ r.asked = runtime.asked /\ r.used = runtime.used
  <2>1. runtime \in RuntimeState /\ <<>> \in Seq(Entry)
    BY RuntimeIs
  <2>2. r = [runtime EXCEPT !.pending = p.pending, !.sticky = p.sticky, !.phase = "ready", !.held = <<>>]
    BY <2>1 DEF Dialogs!With, RuntimeState
  <2> HIDE DEF p, r
  <2> QED
    BY <1>2, <2>1, <2>2 DEF RuntimeState
<1> HIDE DEF p, r, r2
<1>4. /\ r2 \in RuntimeState /\ r2.phase = "ready" /\ r2.pending = runtime.pending /\ r2.sticky = p.sticky
      /\ r2.held = <<>> /\ r2.seq = runtime.seq + Len(g) /\ r2.asked = runtime.asked /\ r2.used = runtime.used
      /\ runtime.seq <= r2.seq
  <2>1. r2 = Dialogs!Emitted(r, g) /\ g \in Seq(Entry)
    BY <1>0, <1>2 DEF Dialogs!Emits, r2, p
  <2> QED
    BY <1>3, <2>1, EmittedIs
<1>5. g \in Seq(Entry) /\ g = p.frames
  BY <1>2 DEF p
<1> HIDE DEF g
<1>6. Becomes(r2, told)
  <2>1. Rising(<<>>) /\ Dialogs!Among(<<>>) = {}
    BY AmongEmpty DEF Rising
  <2> QED
    BY <1>2, <1>4, <2>1, RuntimeIs DEF Becomes, PendingOK, HeldOK, AnswersOK, Over, Known
<1>7. ASSUME NEW f \in Dialogs!Among(g), IsNote(f) PROVE NoteFrom(f, r2)
  <2>1. PICK j \in 1..Len(runtime.held) : IsNote(runtime.held[j]) /\ f.n = runtime.held[j].n
    BY <1>1, <1>5, <1>7 DEF Expands
  <2>2. runtime.held[j] \in Dialogs!Among(runtime.held)
    BY <2>1, RuntimeIs, AmongSub
  <2>3. NoteFrom(runtime.held[j], runtime)
    BY <2>1, <2>2, RuntimeIs
  <2> QED
    BY <1>4, <2>1, <2>2, <2>3 DEF NoteFrom
<1>8. ASSUME NEW k \in ShownKey, NEW v \in Allowed(runtime, k) PROVE Final(g, k, v) \in Allowed(r2, k)
  <2>1. CASE k.kind = "sticky"
    BY <1>0, <1>1, <1>4, <1>5, <1>8, <2>1 DEF Expands, Allowed
  <2>2. CASE k.kind = "dialog"
    <3> DEFINE w == Marks(runtime.pending, k)
    <3>1. \A x \in Dialogs!Among(runtime.pending) : Key1(x, k) => w = {Mark(x)} /\ x \in Entry /\ ~x.clear
      <4>1. \A x, y \in Dialogs!Among(runtime.pending) : Key1(x, k) /\ Key1(y, k) => x = y
        BY RuntimeIs DEF PendingOK, Key1
      <4>2. \A x \in Dialogs!Among(runtime.pending) : ~x.clear /\ x \in Entry
        BY RuntimeIs, AmongSub DEF PendingOK
      <4> QED
        BY <4>1, <4>2 DEF Marks, Key1
    <3>2. \A x \in Entry : (Concerns(x, k) <=> Key1(x, k)) /\ x.type = "request"
      BY DEF Concerns, Key1, Entry
    <3>3. ASSUME NEW i \in 1..Len(g), Concerns(g[i], k) PROVE Value(g[i], k) = w
      <4>1. g[i] \in Dialogs!Among(g) /\ g[i] \in Entry
        BY <1>5, AmongSub
      <4>2. Key1(g[i], k) /\ g[i].type = "request"
        BY <3>2, <3>3, <4>1
      <4>3. g[i] \in Dialogs!Among(runtime.pending)
        BY <1>1, <1>5, <2>2, <4>1, <4>2 DEF Expands, Key1
      <4> QED
        BY <3>1, <4>2, <4>3 DEF Value
    <3>4. (\E i \in 1..Len(g) : Concerns(g[i], k)) \/ v = w
      <4>1. CASE \E x \in Dialogs!Among(runtime.pending) : x.id = k.id /\ x \in Dialogs!Among(runtime.held)
        <5>1. PICK x \in Dialogs!Among(runtime.pending) : x.id = k.id /\ x \in Dialogs!Among(runtime.held)
          BY <4>1
        <5>2. PICK j \in 1..Len(runtime.held) : x = runtime.held[j]
          BY <5>1, RuntimeIs DEF Dialogs!Among
        <5>3. x.kind = "dialog" /\ x \in Entry
          BY <5>1, RuntimeIs, AmongSub DEF PendingOK
        <5>4. x \in Dialogs!Among(g)
          BY <1>1, <1>5, <5>1, <5>2, <5>3 DEF Expands
        <5>5. PICK i \in 1..Len(g) : x = g[i]
          BY <1>5, <5>4 DEF Dialogs!Among
        <5> QED
          BY <2>2, <3>2, <5>1, <5>3, <5>5 DEF Key1
      <4>2. CASE ~\E x \in Dialogs!Among(runtime.pending) : x.id = k.id /\ x \in Dialogs!Among(runtime.held)
        BY <1>0, <1>8, <2>2, <4>2 DEF Allowed
      <4> QED
        BY <4>1, <4>2
    <3>5. Final(g, k, v) = w
      <4> HIDE DEF w
      <4>1. \A i \in 1..Len(g) : Concerns(g[i], k) => Value(g[i], k) = w
        BY <3>3
      <4>2. g \in Seq(Entry)
        BY <1>5
      <4> QED
        BY <3>4, <4>1, <4>2, FinalAll, ZenonT(100)
    <3> QED
      BY <1>4, <2>2, <3>5 DEF Allowed
  <2> QED
    BY <2>1, <2>2 DEF ShownKey
<1>9. Shows(r2, g)
  <2>1. g \in Seq(ExtFrame)
    <3>1. Entry \subseteq ExtFrame
      BY DEF Entry, ExtFrame, OfDialog
    <3> QED
      BY <1>5, <3>1
  <2>2. \A f \in Dialogs!Among(g) : f.kind = "dialog" => f.id \in r2.used
    BY <1>1, <1>4, <1>5, RuntimeIs DEF Expands, PendingOK
  <2>3. Rising(g) /\ Below(g, r2.held)
    BY <1>1, <1>4, <1>5, AmongEmpty DEF Expands, Below
  <2> QED
    BY <1>7, <1>8, <2>1, <2>2, <2>3 DEF Shows
<1>10. Becomes(runtime', told') /\ Shows(runtime', g) /\ up' \in Seq(Dialog) /\ \A i \in DOMAIN up' : up'[i] \in runtime.used
  BY <1>0, <1>6, <1>9, RuntimeIs DEF r2
<1> QED
  BY <1>0, <1>3, <1>10, Emitting

-----------------------------------------------------------------------------
(* A request of the extension.                                             *)

\* handleExtensionRequest: what may be asked for.
LEMMA AskedIs ==
  ASSUME DialogsInv, NEW n \in Nat, NEW x \in Dialogs!Asked(n)
  PROVE /\ x \in Entry /\ x.type = "request" /\ x.n = n /\ x.kind \in {"dialog", "sticky", "notify"}
        /\ x.kind = "dialog" => /\ x.id \in Dialog /\ ~x.clear
                                /\ x.id \in runtime.used => \E y \in Dialogs!Among(runtime.pending) : y.id = x.id
        /\ x.kind = "notify" => IsNote(x)
        /\ x.kind # "notify" => ~IsNote(x)
<1>1. \A y \in Dialogs!Among(runtime.pending) : y.id \in Dialog
  BY RuntimeIs DEF PendingOK
<1>2. /\ x.type = "request" /\ x.n = n /\ x.kind \in {"dialog", "sticky", "notify"} /\ x.clear \in BOOLEAN
      /\ x.kind = "dialog" => x.id \in (Dialog \ runtime.used) \cup {y.id : y \in Dialogs!Among(runtime.pending)} /\ ~x.clear
      /\ x.id \in Ids
      /\ x = [type |-> x.type, kind |-> x.kind, id |-> x.id, clear |-> x.clear, n |-> x.n]
  BY <1>1 DEF Dialogs!Asked, Ids
<1>3. x \in Entry
  BY <1>2 DEF Entry, Kinds
<1> QED
  BY <1>1, <1>2, <1>3 DEF IsNote

\* The runtime once the request x is counted.
Counted(x) == [runtime EXCEPT !.asked = @ + 1, !.used = IF x.kind = "dialog" THEN @ \cup {x.id} ELSE @]

LEMMA CountedIs ==
  ASSUME DialogsInv, NEW x \in Dialogs!Asked(runtime.asked + 1)
  PROVE /\ Counted(x) \in RuntimeState /\ Counted(x).phase = runtime.phase /\ Counted(x).pending = runtime.pending
        /\ Counted(x).sticky = runtime.sticky /\ Counted(x).held = runtime.held /\ Counted(x).seq = runtime.seq
        /\ Counted(x).asked = runtime.asked + 1
        /\ Counted(x).used = IF x.kind = "dialog" THEN runtime.used \cup {x.id} ELSE runtime.used
<1>1. runtime.asked + 1 \in Nat /\ runtime \in RuntimeState
  BY RuntimeIs
<1>2. x.kind = "dialog" => x.id \in Dialog
  BY <1>1, AskedIs
<1> QED
  BY <1>1, <1>2 DEF Counted, RuntimeState

LEMMA HeldNotes == ASSUME DialogsInv PROVE \A m \in Dialogs!Among(runtime.held) : IsNote(m) => m.n \in Nat /\ m.n <= runtime.asked
<1>1. \A m \in Dialogs!Among(runtime.held) : m \in Entry
  <2>1. runtime.held \in Seq(Entry)
    BY RuntimeIs
  <2> QED
    BY <2>1, AmongSub
<1>2. \A m \in Dialogs!Among(runtime.held) : IsNote(m) => m.n <= runtime.asked
  BY RuntimeIs DEF HeldOK
<1> QED
  BY <1>1, <1>2 DEF Entry

LEMMA PendingSet ==
  ASSUME DialogsInv, NEW x \in Dialogs!Asked(runtime.asked + 1), x.kind = "dialog"
  PROVE \A y : y \in Dialogs!Among(Dialogs!Set(runtime.pending, x)) <=> (y \in Dialogs!Among(runtime.pending) /\ y.id # x.id) \/ y = x
<1>1. x \in Entry /\ runtime.pending \in Seq(Entry)
  BY RuntimeIs, AskedIs
<1>2. Dialogs!Among(Dialogs!Set(runtime.pending, x)) = {y \in Dialogs!Among(runtime.pending) : ~Dialogs!SameKey(x, y)} \cup {x}
  BY <1>1, SetIs
<1>3. \A y \in Dialogs!Among(runtime.pending) : Dialogs!SameKey(x, y) <=> y.id = x.id
  BY RuntimeIs DEF PendingOK, Dialogs!SameKey
<1> QED
  BY <1>2, <1>3

\* A dialog asked for takes the place of the one with its id.
LEMMA DialogBecomes ==
  ASSUME DialogsInv, NEW x \in Dialogs!Asked(runtime.asked + 1), x.kind = "dialog",
         NEW r2 \in RuntimeState, r2.phase = runtime.phase, r2.pending = Dialogs!Set(runtime.pending, x), r2.sticky = runtime.sticky,
         runtime.seq <= r2.seq, r2.asked = runtime.asked + 1, r2.used = runtime.used \cup {x.id},
         \A f \in Dialogs!Among(r2.held) : f \in Dialogs!Among(runtime.held) \/ f = x,
         Rising(r2.held), r2.phase = "ready" => r2.held = <<>>,
         r2.phase = "startup" => \A y \in Dialogs!Among(r2.pending) : y \in Dialogs!Among(r2.held),
         r2.phase = "startup" =>
           \A k \in ShownKey : k.kind = "sticky" => Final(r2.held, k, {}) = Final(runtime.held, k, {})
  PROVE Becomes(r2, told)
<1>0. /\ x \in Entry /\ x.n = runtime.asked + 1 /\ x.id \in Dialog /\ ~x.clear /\ ~IsNote(x) /\ runtime.asked \in Nat
      /\ x.id \in runtime.used => \E y \in Dialogs!Among(runtime.pending) : y.id = x.id
  BY RuntimeIs, AskedIs
<1>1. \A y : y \in Dialogs!Among(r2.pending) <=> (y \in Dialogs!Among(runtime.pending) /\ y.id # x.id) \/ y = x
  BY PendingSet
<1>2. \A y \in Dialogs!Among(runtime.pending) : y.n \in Nat /\ y.n <= runtime.asked
  <2>1. \A y \in Dialogs!Among(runtime.pending) : y \in Entry
    <3>1. runtime.pending \in Seq(Entry)
      BY RuntimeIs
    <3> QED
      BY <3>1, AmongSub
  <2>2. \A y \in Dialogs!Among(runtime.pending) : y.n <= runtime.asked
    BY RuntimeIs DEF PendingOK
  <2> QED
    BY <2>1, <2>2 DEF Entry
<1>3. PendingOK(r2)
  <2>1. \A y \in Dialogs!Among(r2.pending) : y.kind = "dialog" /\ ~y.clear /\ y.id \in r2.used /\ y.n <= r2.asked
    BY <1>0, <1>1, <1>2, RuntimeIs DEF PendingOK
  <2>2. ASSUME NEW y \in Dialogs!Among(r2.pending), NEW z \in Dialogs!Among(r2.pending), y.id = z.id \/ y.n = z.n PROVE y = z
    <3>1. \A u \in Dialogs!Among(runtime.pending) : u.n # x.n
      BY <1>0, <1>2
    <3>2. \A a, b \in Dialogs!Among(runtime.pending) : a.id = b.id \/ a.n = b.n => a = b
      BY RuntimeIs DEF PendingOK
    <3> QED
      BY <1>1, <2>2, <3>1, <3>2
  <2> QED
    BY <2>1, <2>2 DEF PendingOK
<1>4. AnswersOK(told, r2)
  <2>1. \A i \in DOMAIN told.answers : told.answers[i] \in Nat /\ told.answers[i] <= runtime.asked
    BY RuntimeIs DEF AnswersOK
  <2> QED
    BY <1>0, <1>1, <2>1, RuntimeIs, SMTT(60) DEF AnswersOK
<1>5. \A id \in Dialog : Over(id, runtime) => Over(id, r2)
  BY <1>0, <1>1 DEF Over
<1>6. \A m \in Dialogs!Among(r2.held) : IsNote(m) => NoteFrom(m, r2)
  BY <1>0, HeldNotes DEF NoteFrom
<1>7. HeldOK(r2)
  <2>1. Known(r2.held, r2.used)
    BY RuntimeIs DEF HeldOK, Known
  <2>2. \A f \in Dialogs!Among(r2.held) : (IsNote(f) => f.n <= r2.asked) /\ (f.kind = "dialog" => ~f.clear)
    BY <1>0, <1>6, RuntimeIs DEF HeldOK, NoteFrom
  <2> QED
    BY <2>1, <2>2 DEF HeldOK
<1>8. r2.phase = "startup" => \A k \in ShownKey : k.kind = "sticky" => Final(r2.held, k, {}) = Marks(r2.sticky, k)
  BY DEF DialogsInv, StartupHeld
<1>9. runtime.asked <= r2.asked /\ runtime.used \subseteq r2.used
  BY <1>0
<1> QED
  BY <1>3, <1>4, <1>5, <1>6, <1>7, <1>8, <1>9, RuntimeIs DEF Becomes

\* The frame for the dialog that is replaced.
Closing1(x) == IF Dialogs!Holds(runtime.pending, x) THEN <<Dialogs!Closed(x.id)>> ELSE <<>>

LEMMA ClosingIs ==
  ASSUME DialogsInv, NEW x \in Dialogs!Asked(runtime.asked + 1), x.kind = "dialog"
  PROVE /\ Closing1(x) \in Seq(ExtFrame)
        /\ \A f \in Dialogs!Among(Closing1(x)) : ~IsNote(f) /\ f.id = x.id
        /\ \A k, v : Final(Closing1(x), k, v) = IF Dialogs!Holds(runtime.pending, x) /\ Key1(x, k) THEN {} ELSE v
<1> DEFINE c == Dialogs!Closed(x.id)
<1>0. x \in Entry /\ x.id \in Ids
  BY RuntimeIs, AskedIs DEF Entry
<1>1. /\ c.type = "closed" /\ c.kind = "dialog" /\ c.id = x.id /\ c \in ExtFrame
      /\ \A k : (Concerns(c, k) <=> Key1(x, k)) /\ Value(c, k) = {}
  BY <1>0 DEF Dialogs!Closed, Dialogs!Request, ExtFrame, OfDialog, Kinds, Concerns, Key1, Value
<1> HIDE DEF c
<1>2. CASE Dialogs!Holds(runtime.pending, x)
  <2>1. <<c>> \in Seq(ExtFrame) /\ Dialogs!Among(<<c>>) = {c}
    BY <1>1 DEF Dialogs!Among
  <2>2. \A k, v : Final(<<c>>, k, v) = IF Concerns(c, k) THEN Value(c, k) ELSE v
    BY FinalOne
  <2>3. Closing1(x) = <<c>>
    BY <1>2 DEF Closing1, c
  <2> DEFINE s == <<c>>
  <2> HIDE DEF s
  <2>4. s \in Seq(ExtFrame) /\ Dialogs!Among(s) = {c} /\ \A k, v : Final(s, k, v) = IF Concerns(c, k) THEN Value(c, k) ELSE v
    BY <2>1, <2>2 DEF s
  <2>5. Closing1(x) = s
    BY <2>3 DEF s
  <2> QED
    BY <1>1, <1>2, <2>4, <2>5 DEF IsNote
<1>3. CASE ~Dialogs!Holds(runtime.pending, x)
  <2> DEFINE s == <<>>
  <2>1. s \in Seq(ExtFrame) /\ Dialogs!Among(s) = {} /\ 1..Len(s) = {}
    BY AmongEmpty
  <2>2. Closing1(x) = s
    BY <1>3 DEF Closing1
  <2> HIDE DEF s
  <2>3. \A k, v : Final(s, k, v) = v
    BY <2>1, FinalNone
  <2> QED
    BY <1>3, <2>1, <2>2, <2>3
<1> QED
  BY <1>2, <1>3

\* What it shows, once its frame is out or held back.
LEMMA DialogShows ==
  ASSUME DialogsInv, NEW x \in Dialogs!Asked(runtime.asked + 1), x.kind = "dialog", runtime.phase # "startup",
         NEW r2 \in RuntimeState, r2.phase = runtime.phase, r2.pending = Dialogs!Set(runtime.pending, x), r2.sticky = runtime.sticky,
         r2.used = runtime.used \cup {x.id},
         NEW g, \/ g = Append(Closing1(x), x) /\ r2.held = runtime.held
                \/ g = Closing1(x) /\ r2.held = Append(runtime.held, x)
  PROVE Shows(r2, g)
<1> DEFINE c == Closing1(x)
<1>0. x \in Entry /\ x \in ExtFrame /\ ~IsNote(x) /\ ~x.clear /\ x.type = "request"
  BY RuntimeIs, AskedIs DEF Entry, ExtFrame, OfDialog
<1>1. /\ c \in Seq(ExtFrame) /\ \A f \in Dialogs!Among(c) : ~IsNote(f) /\ f.id = x.id
      /\ \A k, v : Final(c, k, v) = IF Dialogs!Holds(runtime.pending, x) /\ Key1(x, k) THEN {} ELSE v
  BY ClosingIs
<1> HIDE DEF c
<1>2. g = c \/ g = Append(c, x)
  BY DEF c
<1>3. g \in Seq(ExtFrame) /\ \A f \in Dialogs!Among(g) : ~IsNote(f) /\ f.id = x.id
  <2>1. Append(c, x) \in Seq(ExtFrame) /\ Dialogs!Among(Append(c, x)) = Dialogs!Among(c) \cup {x}
    BY <1>0, <1>1, AmongAppend
  <2> QED
    BY <1>0, <1>1, <1>2, <2>1
<1>4. Dialogs!Among(runtime.held) \subseteq Dialogs!Among(r2.held) /\ (g = c => x \in Dialogs!Among(r2.held) \/ g = Append(c, x))
  <2>1. runtime.held \in Seq(Entry)
    BY RuntimeIs
  <2>2. Dialogs!Among(Append(runtime.held, x)) = Dialogs!Among(runtime.held) \cup {x}
    BY <1>0, <2>1, AmongAppend
  <2> QED
    BY <2>2 DEF c
<1>5. \A y : y \in Dialogs!Among(r2.pending) <=> (y \in Dialogs!Among(runtime.pending) /\ y.id # x.id) \/ y = x
  BY PendingSet
<1>6. ASSUME NEW k \in ShownKey, NEW v \in Allowed(runtime, k) PROVE Final(g, k, v) \in Allowed(r2, k)
  <2>1. CASE Key1(x, k)
    <3>1. k.kind = "dialog" /\ Concerns(x, k) /\ Value(x, k) = {Mark(x)}
      BY <1>0, <2>1 DEF Key1, Concerns, Value
    <3>2. CASE g = Append(c, x)
      <4>1. Final(g, k, v) = {Mark(x)}
        BY <1>0, <1>1, <3>1, <3>2, FinalAppend
      <4>2. Marks(r2.pending, k) = {Mark(x)}
        BY <1>0, <2>1, RuntimeIs, MarksSet
      <4> QED
        BY <3>1, <4>1, <4>2 DEF Allowed
    <3>3. CASE g = c /\ g # Append(c, x)
      <4>1. x \in Dialogs!Among(r2.held) /\ x \in Dialogs!Among(r2.pending) /\ x.id = k.id
        BY <1>4, <1>5, <2>1, <3>3 DEF Key1
      <4>2. Final(g, k, v) = {}
        <5>1. CASE Dialogs!Holds(runtime.pending, x)
          BY <1>1, <2>1, <3>3, <5>1
        <5>2. CASE ~Dialogs!Holds(runtime.pending, x)
          <6>1. \A y \in Dialogs!Among(runtime.pending) : y.id # k.id
            BY <2>1, <5>2, RuntimeIs DEF Dialogs!Holds, Dialogs!SameKey, Key1, PendingOK
          <6>2. Marks(runtime.pending, k) = {}
            BY <6>1 DEF Marks
          <6>3. v = {}
            BY <1>6, <3>1, <6>1, <6>2 DEF Allowed
          <6> QED
            BY <1>1, <3>3, <5>2, <6>3
        <5> QED
          BY <5>1, <5>2
      <4> QED
        BY <3>1, <4>1, <4>2 DEF Allowed
    <3> QED
      BY <1>2, <3>2, <3>3
  <2>2. CASE ~Key1(x, k)
    <3>1. Final(g, k, v) = v
      <4>1. ~Concerns(x, k)
        BY <1>0, <2>2 DEF Concerns, Key1
      <4>2. Final(c, k, v) = v
        BY <1>1, <2>2
      <4>3. Final(Append(c, x), k, v) = v
        BY <1>0, <1>1, <4>1, <4>2, FinalAppend
      <4> QED
        BY <1>2, <4>2, <4>3
    <3>2. Marks(r2.pending, k) = Marks(runtime.pending, k)
      BY <1>0, <2>2, RuntimeIs, MarksSet
    <3>3. k.kind = "dialog" => \A y \in Dialogs!Among(runtime.pending) : y.id = k.id => y \in Dialogs!Among(r2.pending)
      BY <1>5, <2>2 DEF Key1
    <3>4. CASE k.kind = "sticky"
      BY <1>6, <3>1, <3>4 DEF Allowed
    <3>5. CASE k.kind = "dialog"
      <4>1. v = Marks(runtime.pending, k) \/ (v = {} /\ \E y \in Dialogs!Among(runtime.pending) : y.id = k.id /\ y \in Dialogs!Among(runtime.held))
        BY <1>6, <3>5 DEF Allowed
      <4>2. (\E y \in Dialogs!Among(runtime.pending) : y.id = k.id /\ y \in Dialogs!Among(runtime.held))
            => \E y \in Dialogs!Among(r2.pending) : y.id = k.id /\ y \in Dialogs!Among(r2.held)
        BY <1>4, <3>3, <3>5
      <4> QED
        BY <3>1, <3>2, <3>5, <4>1, <4>2 DEF Allowed
    <3> QED
      BY <3>4, <3>5 DEF ShownKey
  <2> QED
    BY <2>1, <2>2
<1> QED
  BY <1>3, <1>6, NoNotes DEF Shows

LEMMA OtherBecomes ==
  ASSUME DialogsInv, NEW x \in Dialogs!Asked(runtime.asked + 1), x.kind # "dialog",
         NEW r2 \in RuntimeState, r2.phase = runtime.phase, r2.pending = runtime.pending, StickyOK(r2.sticky),
         runtime.seq <= r2.seq, r2.asked = runtime.asked + 1, r2.used = runtime.used,
         Dialogs!Among(runtime.held) \subseteq Dialogs!Among(r2.held),
         \A f \in Dialogs!Among(r2.held) : f \in Dialogs!Among(runtime.held) \/ (f.kind # "dialog" /\ (IsNote(f) => f = x)),
         Rising(r2.held), r2.phase = "ready" => r2.held = <<>>,
         r2.phase = "startup" =>
           \A k \in ShownKey : k.kind = "sticky" => Final(r2.held, k, {}) = Marks(r2.sticky, k)
  PROVE Becomes(r2, told)
<1>0. x.n = runtime.asked + 1 /\ runtime.asked \in Nat
  BY RuntimeIs, AskedIs
<1>1. PendingOK(r2)
  <2>1. \A y \in Dialogs!Among(runtime.pending) : y.n \in Nat
    <3>1. \A y \in Dialogs!Among(runtime.pending) : y \in Entry
      <4>1. runtime.pending \in Seq(Entry)
        BY RuntimeIs
      <4> QED
        BY <4>1, AmongSub
    <3> QED
      BY <3>1 DEF Entry
  <2> QED
    BY <1>0, <2>1, RuntimeIs DEF PendingOK
<1>2. AnswersOK(told, r2)
  <2>1. \A i \in DOMAIN told.answers : told.answers[i] \in Nat /\ told.answers[i] <= runtime.asked
    BY RuntimeIs DEF AnswersOK
  <2> QED
    BY <1>0, <2>1, RuntimeIs DEF AnswersOK
<1>3. \A m \in Dialogs!Among(r2.held) : IsNote(m) => NoteFrom(m, r2)
  BY <1>0, HeldNotes DEF NoteFrom
<1>4. HeldOK(r2)
  <2>1. Known(r2.held, r2.used)
    BY RuntimeIs DEF HeldOK, Known
  <2>2. \A f \in Dialogs!Among(r2.held) : (IsNote(f) => f.n <= r2.asked) /\ (f.kind = "dialog" => ~f.clear)
    BY <1>3, RuntimeIs DEF HeldOK, NoteFrom
  <2>3. r2.phase = "startup" => \A y \in Dialogs!Among(r2.pending) : y \in Dialogs!Among(r2.held)
    BY RuntimeIs DEF HeldOK
  <2> QED
    BY <2>1, <2>2, <2>3 DEF HeldOK
<1>5. \A id \in Dialog : Over(id, runtime) => Over(id, r2)
  BY DEF Over
<1>6. runtime.asked <= r2.asked
  BY <1>0
<1> QED
  BY <1>1, <1>2, <1>3, <1>4, <1>5, <1>6, RuntimeIs DEF Becomes

\* The frames of a request after those held back.
LEMMA HeldGrows ==
  ASSUME DialogsInv, NEW x \in Dialogs!Asked(runtime.asked + 1), NEW T, NEW g \in Seq(Entry), Rising(g),
         \A f \in Dialogs!Among(g) : IsNote(f) => f = x
  PROVE LET kept == Dialogs!Only(runtime.held, T)
            held == kept \o g
        IN /\ held \in Seq(Entry) /\ Dialogs!Among(held) = (Dialogs!Among(runtime.held) \cap T) \cup Dialogs!Among(g) /\ Rising(held)
           /\ \A k, v : Final(held, k, v) = Final(g, k, Final(kept, k, v))
<1> DEFINE kept == Dialogs!Only(runtime.held, T)
           held == kept \o g
<1>0. runtime.held \in Seq(Entry) /\ Rising(runtime.held)
  BY RuntimeIs
<1>1. kept \in Seq(Entry) /\ Dialogs!Among(kept) = Dialogs!Among(runtime.held) \cap T /\ Rising(kept)
  BY <1>0, OnlyEmbeds, RisingOnly
<1> HIDE DEF kept
<1>2. held \in Seq(Entry) /\ Dialogs!Among(held) = Dialogs!Among(kept) \cup Dialogs!Among(g)
  BY <1>1, AmongConcat
<1>3. Below(kept, g)
  <2>1. x.n = runtime.asked + 1 /\ runtime.asked \in Nat
    BY RuntimeIs, AskedIs
  <2> QED
    BY <1>1, <2>1, HeldNotes DEF Below
<1>4. Rising(held)
  BY <1>1, <1>3, RisingConcat
<1>5. \A k, v : Final(held, k, v) = Final(g, k, Final(kept, k, v))
  BY <1>1, FinalConcat
<1> QED
  BY <1>1, <1>2, <1>4, <1>5 DEF kept

LEMMA OneEntry ==
  ASSUME NEW x \in Entry
  PROVE <<x>> \in Seq(Entry) /\ Dialogs!Among(<<x>>) = {x} /\ Rising(<<x>>) /\ <<>> \o <<x>> = <<x>>
<1>1. <<x>> \in Seq(Entry) /\ Dialogs!Among(<<x>>) = {x} /\ DOMAIN <<x>> = {1} /\ <<>> \o <<x>> = <<x>>
  BY DEF Dialogs!Among
<1> QED
  BY <1>1 DEF Rising

\* A dialog, in each phase.
LEMMA DialogMoves ==
  ASSUME DialogsInv, NEW x \in Dialogs!Asked(runtime.asked + 1), x.kind = "dialog", UNCHANGED <<browser, up, told>>,
         NEW r, r = Counted(x), NEW p, p = Dialogs!Plan(Dialogs!State(r), x, r.phase # "startup"),
         NEW tracked, tracked = [r EXCEPT !.pending = Dialogs!Set(@, x)],
         NEW close, close = Closing1(x),
         \/ /\ r.phase = "startup"
            /\ runtime' = [Dialogs!With(r, p) EXCEPT !.held =
                 Dialogs!Only(@, {f \in Dialogs!Among(@) : ~Dialogs!Contains(r.pending, f) \/ ~Dialogs!SameKey(x, f)}) \o p.frames]
            /\ UNCHANGED down
         \/ r.phase = "ready" /\ Dialogs!Emits(Dialogs!With(r, p), p.frames)
         \/ r.phase = "awaiting" /\ Dialogs!Emits(tracked, close \o <<x>>)
         \/ r.phase = "verifying" /\ Dialogs!Emits([tracked EXCEPT !.held = Append(@, x)], close)
  PROVE DialogsInv'
<1> DEFINE pending == Dialogs!Set(runtime.pending, x)
           r2 == runtime'
<1>0. /\ x \in Entry /\ x \in ExtFrame /\ ~IsNote(x) /\ runtime.asked \in Nat /\ runtime.held \in Seq(Entry)
  <2>2. runtime.asked \in Nat /\ runtime.asked + 1 \in Nat /\ runtime.held \in Seq(Entry)
    BY RuntimeIs, SMTT(60)
  <2>1. x \in Entry /\ runtime.asked \in Nat /\ runtime.held \in Seq(Entry)
    BY <2>2, AskedIs
  <2> QED
    BY <2>1 DEF Entry, ExtFrame, OfDialog, IsNote
<1>1. /\ r \in RuntimeState /\ r.phase = runtime.phase /\ r.pending = runtime.pending
      /\ r.sticky = runtime.sticky /\ r.held = runtime.held /\ r.seq = runtime.seq
      /\ r.asked = runtime.asked + 1 /\ r.used = runtime.used \cup {x.id}
  BY CountedIs
<1>2. pending \in Seq(Entry)
  BY <1>0, RuntimeIs, SetIs
<1>3. close \in Seq(ExtFrame)
  BY ClosingIs
<1>4. /\ p.pending = pending /\ p.sticky = runtime.sticky
      /\ p.frames = IF r.phase = "startup" THEN <<x>> ELSE close \o <<x>>
  <2>1. Dialogs!State(r).pending = runtime.pending /\ Dialogs!State(r).sticky = runtime.sticky /\ Dialogs!State(r).frames = <<>>
    BY <1>1 DEF Dialogs!State
  <2>2. p = [Dialogs!State(r) EXCEPT !.pending = Dialogs!Set(@, x),
                           !.frames = @ \o (IF r.phase # "startup" /\ Dialogs!Holds(Dialogs!State(r).pending, x) THEN <<Dialogs!Closed(x.id), x>> ELSE <<x>>)]
    BY DEF Dialogs!Plan
  <2>3. p.pending = pending /\ p.sticky = runtime.sticky
        /\ p.frames = <<>> \o (IF r.phase # "startup" /\ Dialogs!Holds(runtime.pending, x) THEN <<Dialogs!Closed(x.id), x>> ELSE <<x>>)
    BY <2>1, <2>2 DEF Dialogs!State
  <2>4. /\ <<>> \o <<Dialogs!Closed(x.id), x>> = <<Dialogs!Closed(x.id)>> \o <<x>>
        /\ <<>> \o <<x>> = <<x>>
    BY SMTT(60)
  <2> QED
    BY <2>3, <2>4 DEF Closing1
<1> HIDE DEF pending, r2
\* The runtime with the dialog.
<1> DEFINE q == [r EXCEPT !.pending = pending]
<1>5. /\ q \in RuntimeState /\ q.phase = runtime.phase /\ q.pending = pending
      /\ q.sticky = runtime.sticky /\ q.held = runtime.held /\ q.seq = runtime.seq
      /\ q.asked = runtime.asked + 1 /\ q.used = runtime.used \cup {x.id}
  BY <1>1, <1>2 DEF RuntimeState
<1>6. Dialogs!With(r, p) = q /\ tracked = q
  BY <1>1, <1>4 DEF Dialogs!With, RuntimeState, pending
<1> HIDE DEF q
<1>7. CASE r.phase = "startup" /\ UNCHANGED down
             /\ runtime' = [Dialogs!With(r, p) EXCEPT !.held =
                  Dialogs!Only(@, {f \in Dialogs!Among(@) : ~Dialogs!Contains(r.pending, f) \/ ~Dialogs!SameKey(x, f)}) \o p.frames]
  <2> DEFINE T == {f \in Dialogs!Among(runtime.held) : ~Dialogs!Contains(runtime.pending, f) \/ ~Dialogs!SameKey(x, f)}
             g == <<x>>
             held == Dialogs!Only(runtime.held, T) \o g
  <2>1. r2 = [q EXCEPT !.held = held]
    BY <1>1, <1>4, <1>5, <1>6, <1>7 DEF r2
  <2>2. /\ g \in Seq(Entry) /\ Dialogs!Among(g) = {x} /\ Rising(g)
    BY <1>0, OneEntry
  <2> HIDE DEF g
  <2>3. /\ held \in Seq(Entry) /\ Dialogs!Among(held) = (Dialogs!Among(runtime.held) \cap T) \cup {x} /\ Rising(held)
        /\ \A k, v : Final(held, k, v) = Final(g, k, Final(Dialogs!Only(runtime.held, T), k, v))
    <3>1. held = Dialogs!Only(runtime.held, T) \o g
      OBVIOUS
    <3> HIDE DEF held, T
    <3> QED
      BY <1>0, <2>2, <3>1, HeldGrows, SMTT(60)
  <2> HIDE DEF held
  <2>4. /\ r2 \in RuntimeState /\ r2.phase = runtime.phase /\ r2.pending = pending
        /\ r2.sticky = runtime.sticky /\ r2.held = held /\ r2.seq = runtime.seq
        /\ r2.asked = runtime.asked + 1 /\ r2.used = runtime.used \cup {x.id}
    BY <1>5, <2>1, <2>3 DEF RuntimeState
  <2>5. ASSUME NEW y \in Dialogs!Among(r2.pending) PROVE y \in Dialogs!Among(held)
    <3>1. (y \in Dialogs!Among(runtime.pending) /\ y.id # x.id) \/ y = x
      BY <2>4, <2>5, PendingSet DEF pending
    <3> QED
      BY <1>1, <1>7, <2>3, <3>1, RuntimeIs DEF HeldOK, Dialogs!SameKey
  <2>6. ASSUME NEW k \in ShownKey, k.kind = "sticky" PROVE Final(held, k, {}) = Final(runtime.held, k, {})
    <3>1. \A f \in Dialogs!Among(runtime.held) : Concerns(f, k) => f \in T
      <4>1. \A f \in Dialogs!Among(runtime.held) : f \in Entry
        BY <1>0, AmongSub
      <4> QED
        BY <2>6, <4>1 DEF Concerns, Entry, Dialogs!SameKey
    <3>2. Final(Dialogs!Only(runtime.held, T), k, {}) = Final(runtime.held, k, {})
      <4> HIDE DEF T
      <4> QED
        BY <1>0, <3>1, FinalOnly, SMTT(60)
    <3>3. ~Concerns(x, k)
      BY <1>0, <2>6 DEF Concerns, Entry
    <3>4. \A v : Final(g, k, v) = v
      BY <3>3, FinalOne DEF g
    <3> QED
      BY <2>3, <3>2, <3>4
  <2>7. Becomes(r2, told)
    <3>1. \A f \in Dialogs!Among(r2.held) : f \in Dialogs!Among(runtime.held) \/ f = x
      BY <2>3, <2>4
    <3>2. runtime.seq <= r2.seq
      BY <2>4, RuntimeIs, SMTT(60)
    <3>3. r2.phase = "startup"
      BY <1>1, <1>7, <2>4
    <3>4. (\A y \in Dialogs!Among(r2.pending) : y \in Dialogs!Among(r2.held)) /\ Rising(r2.held)
          /\ \A k \in ShownKey : k.kind = "sticky" => Final(r2.held, k, {}) = Final(runtime.held, k, {})
      BY <2>3, <2>4, <2>5, <2>6
    <3> HIDE DEF T
    <3> QED
      BY <2>4, <3>1, <3>2, <3>3, <3>4, DialogBecomes DEF pending
  <2>8. \A k \in ShownKey : Allowed(runtime, k) \subseteq Allowed(r2, k)
    BY <1>1, <1>7, <2>4 DEF Allowed
  <2>9. Becomes(runtime', told') /\ (\A k \in ShownKey : Allowed(runtime, k) \subseteq Allowed(runtime', k))
        /\ up' \in Seq(Dialog) /\ \A i \in DOMAIN up' : up'[i] \in runtime.used
    BY <2>7, <2>8, RuntimeIs DEF r2
  <2> QED
    BY <1>7, <2>9, Silently
\* A request whose frame is sent.
<1>8. CASE runtime.phase \in {"ready", "awaiting"} /\ Dialogs!Emits(q, close \o <<x>>)
  <2> DEFINE g == close \o <<x>>
  <2>1. g = Append(close, x) /\ g \in Seq(ExtFrame)
    BY <1>0, <1>3
  <2> HIDE DEF g
  <2>2. r2 = Dialogs!Emitted(q, g)
    BY <1>8 DEF Dialogs!Emits, r2, g
  <2>3. /\ r2 \in RuntimeState /\ r2.phase = runtime.phase /\ r2.pending = pending /\ r2.held = runtime.held
        /\ r2.sticky = runtime.sticky /\ r2.asked = runtime.asked + 1 /\ r2.used = runtime.used \cup {x.id}
        /\ runtime.seq <= r2.seq
    <3>1. q \in RuntimeState /\ g \in Seq(ExtFrame)
      BY <1>5, <2>1
    <3>2. /\ r2 \in RuntimeState /\ r2.phase = q.phase /\ r2.pending = q.pending /\ r2.sticky = q.sticky
          /\ r2.held = q.held /\ r2.asked = q.asked /\ r2.used = q.used /\ q.seq <= r2.seq
      BY <2>2, <3>1, EmittedIs, SMTT(60)
    <3> QED
      BY <1>5, <3>2
  <2>4. Becomes(r2, told)
    <3>1. r2.phase # "startup" /\ (r2.phase = "ready" => r2.held = <<>>) /\ Rising(r2.held)
      BY <1>8, <2>3, RuntimeIs DEF HeldOK
    <3>2. \A f \in Dialogs!Among(r2.held) : f \in Dialogs!Among(runtime.held) \/ f = x
      BY <2>3
    <3> QED
      BY <2>3, <3>1, <3>2, DialogBecomes DEF pending
  <2>5. Shows(r2, g)
    <3>1. runtime.phase # "startup"
      BY <1>8
    <3> QED
      BY <2>1, <2>3, <3>1, DialogShows DEF pending
  <2>6. Becomes(runtime', told') /\ Shows(runtime', g) /\ up' \in Seq(Dialog) /\ (\A i \in DOMAIN up' : up'[i] \in runtime.used)
        /\ Dialogs!Emits(q, g)
    BY <1>8, <2>4, <2>5, RuntimeIs DEF r2, g
  <2> QED
    BY <1>5, <2>6, Emitting
\* A request held back until the identity is verified.
<1>9. CASE runtime.phase = "verifying" /\ Dialogs!Emits([q EXCEPT !.held = Append(@, x)], close)
  <2> DEFINE held == Append(runtime.held, x)
             h == [q EXCEPT !.held = held]
  <2>1. /\ held \in Seq(Entry) /\ Dialogs!Among(held) = Dialogs!Among(runtime.held) \cup {x}
    BY <1>0, AmongAppend
  <2>2. Rising(held)
    <3> DEFINE one == <<x>>
    <3>1. held = runtime.held \o one /\ one \in Seq(Entry) /\ Dialogs!Among(one) = {x} /\ Rising(one)
      BY <1>0, OneEntry, SMTT(60)
    <3> HIDE DEF one, held
    <3>2. Below(runtime.held, one)
      BY <1>0, <3>1 DEF Below
    <3> QED
      BY <1>0, <3>1, <3>2, RuntimeIs, RisingConcat
  <2>8. Dialogs!Emits(h, close)
    BY <1>5, <1>9
  <2> HIDE DEF held
  <2>3. /\ h \in RuntimeState /\ h.phase = runtime.phase /\ h.pending = pending /\ h.held = held /\ h.seq = runtime.seq
        /\ h.sticky = runtime.sticky /\ h.asked = runtime.asked + 1 /\ h.used = runtime.used \cup {x.id}
    BY <1>5, <2>1 DEF RuntimeState
  <2> HIDE DEF h
  <2>4. /\ r2 \in RuntimeState /\ r2.phase = runtime.phase /\ r2.pending = pending /\ r2.held = held
        /\ r2.sticky = runtime.sticky /\ r2.asked = runtime.asked + 1 /\ r2.used = runtime.used \cup {x.id}
        /\ runtime.seq <= r2.seq
    <3>1. r2 = Dialogs!Emitted(h, close)
      BY <2>8 DEF Dialogs!Emits, r2
    <3> QED
      BY <1>3, <2>3, <3>1, EmittedIs, SMTT(60)
  <2>5. Becomes(r2, told)
    <3>1. r2.phase # "startup" /\ r2.phase # "ready"
      BY <1>9, <2>4
    <3>2. (\A f \in Dialogs!Among(r2.held) : f \in Dialogs!Among(runtime.held) \/ f = x) /\ Rising(r2.held)
      BY <2>1, <2>2, <2>4
    <3> QED
      BY <2>4, <3>1, <3>2, DialogBecomes DEF pending
  <2>6. Shows(r2, close)
    <3>1. runtime.phase # "startup"
      BY <1>9
    <3> QED
      BY <2>4, <3>1, DialogShows DEF pending, held
  <2>7. Becomes(runtime', told') /\ Shows(runtime', close) /\ up' \in Seq(Dialog) /\ (\A i \in DOMAIN up' : up'[i] \in runtime.used)
    BY <2>5, <2>6, RuntimeIs DEF r2
  <2> QED
    BY <2>3, <2>7, <2>8, Emitting
<1>10. r.phase = "ready" \/ r.phase = "awaiting" \/ r.phase = "verifying" \/ r.phase = "startup"
  BY <1>1, RuntimeIs
<1> QED
  BY <1>1, <1>4, <1>6, <1>7, <1>8, <1>9, <1>10

\* A sticky request or a notification, made state and frames at once.
LEMMA PlannedIs ==
  ASSUME DialogsInv, NEW x \in Dialogs!Asked(runtime.asked + 1), x.kind # "dialog",
         NEW r, r = Counted(x), NEW close, NEW p, p = Dialogs!Plan(Dialogs!State(r), x, close)
  PROVE /\ p.pending = runtime.pending /\ p.frames \in Seq(Entry) /\ p.sticky \in Seq(Entry)
        /\ Restates(p.frames, x, runtime.sticky, p.sticky)
<1>0. x \in Entry /\ runtime.pending \in Seq(Entry) /\ runtime.sticky \in Seq(Entry) /\ StickyOK(runtime.sticky)
  <2>2. runtime.asked + 1 \in Nat
    BY RuntimeIs
  <2> QED
    BY <2>2, RuntimeIs, AskedIs
<1>1. r.pending = runtime.pending /\ r.sticky = runtime.sticky
  BY CountedIs
<1>2. Dialogs!State(r) \in Planning /\ Dialogs!State(r).pending = runtime.pending /\ Dialogs!State(r).sticky = runtime.sticky
      /\ Dialogs!State(r).frames = <<>>
  BY <1>0, <1>1 DEF Dialogs!State, Planning
<1> DEFINE b == Dialogs!State(r)
<1> HIDE DEF b
<1>3. b \in Planning /\ b.pending = runtime.pending /\ b.sticky = runtime.sticky /\ b.frames = <<>> /\ p = Dialogs!Plan(b, x, close)
  BY <1>2 DEF b
<1>4. PICK g, s : Dialogs!Plan(b, x, close) = [b EXCEPT !.sticky = s, !.frames = b.frames \o g] /\ Restates(g, x, b.sticky, s)
  BY <1>0, <1>3, PlanRestates
<1>5. g \in Seq(Entry) /\ s \in Seq(Entry)
  BY <1>4 DEF Restates
<1>6. <<>> \o g = g
  BY <1>5
<1>7. p.pending = runtime.pending /\ p.sticky = s /\ p.frames = g
  BY <1>3, <1>4, <1>5, <1>6 DEF Planning
<1> QED
  BY <1>3, <1>4, <1>5, <1>7

\* A sticky request or a notification, in each phase.
LEMMA OtherMoves ==
  ASSUME DialogsInv, NEW x \in Dialogs!Asked(runtime.asked + 1), x.kind # "dialog", UNCHANGED <<browser, up, told>>,
         NEW r, r = Counted(x), NEW p, p = Dialogs!Plan(Dialogs!State(r), x, r.phase # "startup"),
         \/ r.phase = "startup" /\ runtime' = [Dialogs!With(r, p) EXCEPT !.held = @ \o p.frames] /\ UNCHANGED down
         \/ r.phase = "ready" /\ Dialogs!Emits(Dialogs!With(r, p), p.frames)
         \/ r.phase \in {"awaiting", "verifying"} /\ runtime' = [r EXCEPT !.held = Append(@, x)] /\ UNCHANGED down
  PROVE DialogsInv'
<1> DEFINE g == p.frames
           r2 == runtime'
           q == Dialogs!With(r, p)
<1>0. /\ x \in Entry /\ x.n = runtime.asked + 1 /\ x.type = "request" /\ runtime.asked \in Nat
      /\ runtime.held \in Seq(Entry)
  <2>2. runtime.asked \in Nat /\ runtime.asked + 1 \in Nat /\ runtime.held \in Seq(Entry)
    BY RuntimeIs
  <2> QED
    BY <2>2, AskedIs
<1>1. /\ r \in RuntimeState /\ r.phase = runtime.phase /\ r.pending = runtime.pending
      /\ r.sticky = runtime.sticky /\ r.held = runtime.held /\ r.seq = runtime.seq
      /\ r.asked = runtime.asked + 1 /\ r.used = runtime.used
  BY CountedIs
<1>2. /\ p.pending = runtime.pending /\ g \in Seq(Entry) /\ p.sticky \in Seq(Entry)
      /\ Restates(g, x, runtime.sticky, p.sticky)
  BY PlannedIs
<1>3. /\ Rising(g) /\ \A f \in Dialogs!Among(g) : f.kind # "dialog" /\ (IsNote(f) => f = x)
      /\ StickyOK(p.sticky)
      /\ \A k \in ShownKey : k.kind = "sticky" => Final(g, k, Marks(runtime.sticky, k)) = Marks(p.sticky, k)
  BY <1>2 DEF Restates
<1>4. /\ q \in RuntimeState /\ q.phase = runtime.phase /\ q.pending = runtime.pending
      /\ q.sticky = p.sticky /\ q.held = runtime.held /\ q.seq = runtime.seq
      /\ q.asked = runtime.asked + 1 /\ q.used = runtime.used
  <2>1. q = [r EXCEPT !.pending = p.pending, !.sticky = p.sticky]
    BY DEF Dialogs!With
  <2>2. p.pending \in Seq(Entry)
    BY <1>2, RuntimeIs
  <2> HIDE DEF q
  <2> QED
    BY <1>1, <1>2, <2>1, <2>2 DEF RuntimeState
<1> HIDE DEF g, r2, q
<1>5. CASE r.phase = "startup" /\ runtime' = [q EXCEPT !.held = @ \o g] /\ UNCHANGED down
  <2> DEFINE held == runtime.held \o g
  <2>1. r2 = [q EXCEPT !.held = held]
    BY <1>4, <1>5 DEF r2
  <2>2. held \in Seq(Entry) /\ Dialogs!Among(held) = Dialogs!Among(runtime.held) \cup Dialogs!Among(g)
    BY <1>0, <1>2, AmongConcat
  <2>3. Rising(held)
    <3>1. Below(runtime.held, g)
      BY <1>0, <1>3, HeldNotes DEF Below
    <3> QED
      BY <1>0, <1>2, <1>3, <3>1, RuntimeIs, RisingConcat
  <2>4. ASSUME NEW k \in ShownKey, k.kind = "sticky" PROVE Final(held, k, {}) = Marks(p.sticky, k)
    <3>1. Final(held, k, {}) = Final(g, k, Final(runtime.held, k, {}))
      BY <1>0, <1>2, FinalConcat
    <3>2. Final(runtime.held, k, {}) = Marks(runtime.sticky, k)
      BY <1>1, <1>5, <2>4 DEF DialogsInv, StartupHeld
    <3> QED
      BY <1>3, <2>4, <3>1, <3>2
  <2> HIDE DEF held
  <2>5. /\ r2 \in RuntimeState /\ r2.phase = runtime.phase /\ r2.pending = runtime.pending
        /\ r2.sticky = p.sticky /\ r2.held = held /\ r2.seq = runtime.seq
        /\ r2.asked = runtime.asked + 1 /\ r2.used = runtime.used
    BY <1>4, <2>1, <2>2 DEF RuntimeState
  <2>6. Becomes(r2, told)
    <3>4. r2.phase = "startup" /\ r2.seq = runtime.seq
      BY <1>1, <1>5, <2>5
    <3>1. r2.phase = "startup" /\ runtime.seq <= r2.seq
      BY <3>4, RuntimeIs
    <3>2. /\ Dialogs!Among(runtime.held) \subseteq Dialogs!Among(r2.held) /\ Rising(r2.held) /\ StickyOK(r2.sticky)
          /\ \A f \in Dialogs!Among(r2.held) : f \in Dialogs!Among(runtime.held) \/ (f.kind # "dialog" /\ (IsNote(f) => f = x))
      BY <1>3, <2>2, <2>3, <2>5
    <3>3. \A k \in ShownKey : k.kind = "sticky" => Final(r2.held, k, {}) = Marks(r2.sticky, k)
      BY <2>4, <2>5
    <3> QED
      BY <2>5, <3>1, <3>2, <3>3, OtherBecomes
  <2>7. \A k \in ShownKey : Allowed(runtime, k) \subseteq Allowed(r2, k)
    BY <1>1, <1>5, <2>5 DEF Allowed
  <2>8. Becomes(runtime', told') /\ (\A k \in ShownKey : Allowed(runtime, k) \subseteq Allowed(runtime', k))
        /\ up' \in Seq(Dialog) /\ \A i \in DOMAIN up' : up'[i] \in runtime.used
    BY <2>6, <2>7, RuntimeIs DEF r2
  <2> QED
    BY <1>5, <2>8, Silently
<1>6. CASE r.phase = "ready" /\ Dialogs!Emits(q, g)
  <2>1. /\ r2 \in RuntimeState /\ r2.phase = runtime.phase /\ r2.pending = runtime.pending
        /\ r2.sticky = p.sticky /\ r2.held = runtime.held /\ runtime.seq <= r2.seq
        /\ r2.asked = runtime.asked + 1 /\ r2.used = runtime.used
    <3>1. r2 = Dialogs!Emitted(q, g)
      BY <1>6 DEF Dialogs!Emits, r2
    <3>2. q \in RuntimeState /\ g \in Seq(Entry)
      BY <1>2, <1>4
    <3>3. /\ r2 \in RuntimeState /\ r2.phase = q.phase /\ r2.pending = q.pending /\ r2.sticky = q.sticky
          /\ r2.held = q.held /\ r2.asked = q.asked /\ r2.used = q.used /\ q.seq <= r2.seq
      BY <3>1, <3>2, EmittedIs
    <3> QED
      BY <1>4, <3>3
  <2>2. r2.held = <<>> /\ r2.phase = "ready" /\ Dialogs!Among(r2.held) = {}
    BY <1>1, <1>6, <2>1, RuntimeIs, AmongEmpty DEF HeldOK
  <2>3. Becomes(r2, told)
    <3>1. Rising(r2.held) /\ Dialogs!Among(runtime.held) \subseteq Dialogs!Among(r2.held) /\ StickyOK(r2.sticky)
      BY <1>3, <2>1, RuntimeIs
    <3> QED
      BY <2>1, <2>2, <3>1, OtherBecomes
  <2>4. ASSUME NEW k \in ShownKey, NEW v \in Allowed(runtime, k) PROVE Final(g, k, v) \in Allowed(r2, k)
    <3>1. CASE k.kind = "sticky"
      BY <1>1, <1>3, <1>6, <2>1, <2>2, <2>4, <3>1 DEF Allowed
    <3>2. CASE k.kind = "dialog"
      <4>1. \A i \in 1..Len(g) : ~Concerns(g[i], k)
        <5>1. \A i \in 1..Len(g) : g[i] \in Entry /\ g[i].kind # "dialog"
          BY <1>2, <1>3, AmongSub
        <5> QED
          BY <3>2, <5>1 DEF Concerns, Entry
      <4>2. Final(g, k, v) = v
        BY <1>2, <4>1, FinalNone
      <4> QED
        BY <1>1, <1>6, <2>1, <2>2, <2>4, <3>2, <4>2 DEF Allowed
    <3> QED
      BY <3>1, <3>2 DEF ShownKey
  <2>5. Shows(r2, g)
    <3>1. g \in Seq(ExtFrame)
      <4>1. Entry \subseteq ExtFrame
        BY DEF Entry, ExtFrame, OfDialog
      <4> QED
        BY <1>2, <4>1
    <3>2. \A m \in Dialogs!Among(g) : IsNote(m) => NoteFrom(m, r2)
      BY <1>0, <1>3, <2>1 DEF NoteFrom
    <3>3. Below(g, r2.held)
      BY <2>2 DEF Below
    <3> QED
      BY <1>3, <2>4, <3>1, <3>2, <3>3 DEF Shows
  <2>6. Becomes(runtime', told') /\ Shows(runtime', g) /\ up' \in Seq(Dialog) /\ (\A i \in DOMAIN up' : up'[i] \in runtime.used)
    BY <2>3, <2>5, RuntimeIs DEF r2
  <2> QED
    BY <1>4, <1>6, <2>6, Emitting
<1>7. CASE r.phase \in {"awaiting", "verifying"} /\ runtime' = [r EXCEPT !.held = Append(@, x)] /\ UNCHANGED down
  <2> DEFINE held == Append(runtime.held, x)
  <2>1. r2 = [r EXCEPT !.held = held]
    BY <1>1, <1>7 DEF r2
  <2>2. held \in Seq(Entry) /\ Dialogs!Among(held) = Dialogs!Among(runtime.held) \cup {x}
    BY <1>0, AmongAppend
  <2>3. Rising(held)
    <3> DEFINE one == <<x>>
    <3>1. held = runtime.held \o one /\ one \in Seq(Entry) /\ Dialogs!Among(one) = {x} /\ Rising(one)
      BY <1>0, OneEntry
    <3> HIDE DEF one, held
    <3>2. Below(runtime.held, one)
      BY <1>0, <3>1, HeldNotes DEF Below
    <3> QED
      BY <1>0, <3>1, <3>2, RuntimeIs, RisingConcat
  <2> HIDE DEF held
  <2>5. /\ r2 \in RuntimeState /\ r2.phase = runtime.phase /\ r2.pending = runtime.pending
        /\ r2.sticky = runtime.sticky /\ r2.held = held /\ r2.seq = runtime.seq
        /\ r2.asked = runtime.asked + 1 /\ r2.used = runtime.used
    BY <1>1, <2>1, <2>2 DEF RuntimeState
  <2>6. Becomes(r2, told)
    <3>1. r2.phase # "startup" /\ r2.phase # "ready" /\ runtime.seq <= r2.seq
      BY <1>1, <1>7, <2>5, RuntimeIs
    <3>2. /\ Dialogs!Among(runtime.held) \subseteq Dialogs!Among(r2.held) /\ Rising(r2.held) /\ StickyOK(r2.sticky)
          /\ \A f \in Dialogs!Among(r2.held) : f \in Dialogs!Among(runtime.held) \/ (f.kind # "dialog" /\ (IsNote(f) => f = x))
      BY <2>2, <2>3, <2>5, RuntimeIs
    <3> QED
      BY <2>5, <3>1, <3>2, OtherBecomes
  <2>7. \A k \in ShownKey : Allowed(runtime, k) \subseteq Allowed(r2, k)
    BY <2>2, <2>5 DEF Allowed
  <2>8. Becomes(runtime', told') /\ (\A k \in ShownKey : Allowed(runtime, k) \subseteq Allowed(runtime', k))
        /\ up' \in Seq(Dialog) /\ \A i \in DOMAIN up' : up'[i] \in runtime.used
    BY <2>6, <2>7, RuntimeIs DEF r2
  <2> QED
    BY <1>7, <2>8, Silently
<1> QED
  BY <1>5, <1>6, <1>7 DEF g, q

\* prepareDecodedExtensionRequest: whatever is asked for, in whatever phase.
LEMMA RequestMoves == ASSUME DialogsInv, Dialogs!ExtensionRequest PROVE DialogsInv'
<1>1. PICK x \in Dialogs!Asked(runtime.asked + 1) :
        LET r == Counted(x)
            p == Dialogs!Plan(Dialogs!State(r), x, r.phase # "startup")
            tracked == [r EXCEPT !.pending = Dialogs!Set(@, x)]
            close == IF Dialogs!Holds(r.pending, x) THEN <<Dialogs!Closed(x.id)>> ELSE <<>> IN
        /\ UNCHANGED <<browser, up, told>>
        /\ CASE r.phase = "startup" ->
                  /\ runtime' = [Dialogs!With(r, p) EXCEPT !.held =
                       (IF x.kind = "dialog" THEN Dialogs!Only(@, {f \in Dialogs!Among(@) : ~Dialogs!Contains(r.pending, f) \/ ~Dialogs!SameKey(x, f)})
                        ELSE @) \o p.frames]
                  /\ UNCHANGED down
             [] r.phase = "ready" -> Dialogs!Emits(Dialogs!With(r, p), p.frames)
             [] r.phase = "awaiting" /\ x.kind = "dialog" -> Dialogs!Emits(tracked, close \o <<x>>)
             [] r.phase = "verifying" /\ x.kind = "dialog" -> Dialogs!Emits([tracked EXCEPT !.held = Append(@, x)], close)
             [] OTHER -> runtime' = [r EXCEPT !.held = Append(@, x)] /\ UNCHANGED down
  BY Zenon DEF Dialogs!ExtensionRequest, Counted
<1> DEFINE r == Counted(x)
           p == Dialogs!Plan(Dialogs!State(r), x, r.phase # "startup")
           tracked == [r EXCEPT !.pending = Dialogs!Set(@, x)]
           close == Closing1(x)
<1>2. r.pending = runtime.pending /\ r.phase \in {"startup", "ready", "awaiting", "verifying"}
  BY CountedIs, RuntimeIs
<1>3. UNCHANGED <<browser, up, told>>
  BY <1>1
<1>4. close = IF Dialogs!Holds(r.pending, x) THEN <<Dialogs!Closed(x.id)>> ELSE <<>>
  BY <1>2 DEF Closing1
<1>5. CASE x.kind = "dialog"
  <2>1. \/ /\ r.phase = "startup"
           /\ runtime' = [Dialogs!With(r, p) EXCEPT !.held =
                Dialogs!Only(@, {f \in Dialogs!Among(@) : ~Dialogs!Contains(r.pending, f) \/ ~Dialogs!SameKey(x, f)}) \o p.frames]
           /\ UNCHANGED down
        \/ r.phase = "ready" /\ Dialogs!Emits(Dialogs!With(r, p), p.frames)
        \/ r.phase = "awaiting" /\ Dialogs!Emits(tracked, close \o <<x>>)
        \/ r.phase = "verifying" /\ Dialogs!Emits([tracked EXCEPT !.held = Append(@, x)], close)
    <3> HIDE DEF r, p, tracked, close
    <3> QED
      BY <1>1, <1>2, <1>4, <1>5 DEF r, p, tracked
  <2> QED
    BY <1>3, <1>5, <2>1, DialogMoves
<1>6. CASE x.kind # "dialog"
  <2>1. \/ r.phase = "startup" /\ runtime' = [Dialogs!With(r, p) EXCEPT !.held = @ \o p.frames] /\ UNCHANGED down
        \/ r.phase = "ready" /\ Dialogs!Emits(Dialogs!With(r, p), p.frames)
        \/ r.phase \in {"awaiting", "verifying"} /\ runtime' = [r EXCEPT !.held = Append(@, x)] /\ UNCHANGED down
    BY <1>1, <1>2, <1>6
  <2> QED
    BY <1>3, <1>6, <2>1, OtherMoves
<1> QED
  BY <1>5, <1>6

-----------------------------------------------------------------------------
(* The steps of the browser.                                               *)

Seen(b) ==
  /\ b \in BrowserState
  /\ Known(b.pending, runtime.used) /\ Known(b.buffer, runtime.used)
  /\ b.barrier # None => Known(b.snapshot.requests, runtime.used)
  /\ \A id \in b.acknowledged : Over(id, runtime)
NotesSeen(t, b, s) ==
  /\ t \in [answers : Seq(Nat), notified : Seq(Nat)] /\ t.answers = told.answers
  /\ \A i, j \in DOMAIN t.notified : i < j => t.notified[i] < t.notified[j]
  /\ Rising(b.buffer)
  /\ AllBelow(t.notified, b.buffer) /\ AllBelow(t.notified, s) /\ AllBelow(t.notified, runtime.held)
  /\ Below(b.buffer, s) /\ Below(b.buffer, runtime.held)
  /\ \A i \in DOMAIN t.notified : t.notified[i] <= runtime.asked
  /\ \A m \in Dialogs!Among(b.buffer) : IsNote(m) => m.n <= runtime.asked
NumbersSeen(b, s) ==
  /\ \A m \in Dialogs!Among(s) : m \in WireFrame => b.seq < m.seq /\ (b.barrier # None => b.barrier < m.seq)
  /\ b.seq <= runtime.seq
  /\ b.barrier = None => b.buffer = <<>>
  /\ b.barrier # None =>
       /\ b.snapshot \in Resync /\ b.snapshot.seq = b.barrier /\ b.barrier <= runtime.seq
       /\ \A f \in Dialogs!Among(b.buffer) : b.barrier < f.seq /\ f.seq <= b.seq

\* What the invariant says of the browser, and of what is on its way to it.
LEMMA BrowserIs ==
  ASSUME DialogsInv
  PROVE /\ Seen(browser) /\ NotesSeen(told, browser, down) /\ NumbersSeen(browser, down)
        /\ down \in Seq(Message) /\ Rising(down) /\ Below(down, runtime.held)
        /\ \A m \in Dialogs!Among(down) : /\ KnownMessage(m, runtime.used)
                                          /\ m \in Result => Over(m.id, runtime)
                                          /\ IsNote(m) => m.n <= runtime.asked
                                          /\ m \in WireFrame \cup Resync => m.seq <= runtime.seq
<1>1. NumbersSeen(browser, down) /\ \A m \in Dialogs!Among(down) : m \in WireFrame \cup Resync => m.seq <= runtime.seq
  BY DEF DialogsInv, NumbersOK, NumbersSeen, Dialogs!Among
<1>2. NotesSeen(told, browser, down) /\ Rising(down) /\ Below(down, runtime.held)
      /\ \A m \in Dialogs!Among(down) : IsNote(m) => m.n <= runtime.asked
  BY DEF DialogsInv, DialogsTypeOK, NotesOK, NotesSeen
<1>3. Seen(browser) /\ down \in Seq(Message)
      /\ \A m \in Dialogs!Among(down) : KnownMessage(m, runtime.used) /\ (m \in Result => Over(m.id, runtime))
  BY DEF DialogsInv, DialogsTypeOK, Used, ResultsOK, Seen
<1> QED
  BY <1>1, <1>2, <1>3

\* A step of the browser keeps the invariant, if it shows what was on its way.
LEMMA BrowserMoves ==
  ASSUME DialogsInv, UNCHANGED runtime, down' = down \/ (down # <<>> /\ down' = Tail(down)),
         up' \in Seq(Dialog), \A i \in DOMAIN up' : up'[i] \in runtime.used,
         Seen(browser'), NotesSeen(told', browser', down'), NumbersSeen(browser', down'),
         \A k \in ShownKey : Final(down', k, Base(browser', k)) \in Allowed(runtime, k)
  PROVE DialogsInv'
<1> DEFINE s == down'
<1>1. /\ s \in Seq(Message) /\ Dialogs!Among(s) \subseteq Dialogs!Among(down) /\ Rising(s)
      /\ \A i, j \in DOMAIN s : i < j /\ s[j] \in WireFrame /\ s[i] \notin Result => s[i].seq < s[j].seq
  <2>1. CASE s = down
    BY <2>1 DEF DialogsInv, DialogsTypeOK, NotesOK, NumbersOK
  <2>2. CASE down # <<>> /\ s = Tail(down)
    <3>1. /\ s \in Seq(Message) /\ Dialogs!Among(s) \subseteq Dialogs!Among(down) /\ Rising(s) /\ Len(s) \in Nat
          /\ DOMAIN s = 1..Len(s) /\ DOMAIN down = 1..Len(down)
          /\ \A i \in 1..Len(s) : i + 1 \in 1..Len(down) /\ s[i] = down[i + 1]
      BY <2>2, BrowserIs, AmongTail, RisingTail
    <3>2. ASSUME NEW i \in DOMAIN s, NEW j \in DOMAIN s, i < j, s[j] \in WireFrame, s[i] \notin Result
          PROVE s[i].seq < s[j].seq
      <4>0. i \in 1..Len(s) /\ j \in 1..Len(s)
        BY <3>1
      <4>1. i + 1 \in DOMAIN down /\ j + 1 \in DOMAIN down /\ s[i] = down[i + 1] /\ s[j] = down[j + 1]
        BY <3>1, <4>0
      <4>2. i + 1 < j + 1
        BY <3>2, <4>0
      <4> QED
        BY <3>2, <4>1, <4>2 DEF DialogsInv, NumbersOK
    <3> QED
      BY <3>1, <3>2
  <2> QED
    BY <2>1, <2>2
<1>2. DialogsTypeOK' /\ Used' /\ ResultsOK'
  BY <1>1, BrowserIs DEF DialogsInv, DialogsTypeOK, Used, ResultsOK, Seen, NotesSeen, Over
<1>3. NotesOK'
  BY <1>1, BrowserIs, RuntimeIs DEF NotesOK, NotesSeen, Below
<1>4. NumbersOK'
  <2>1. \A i \in DOMAIN s : s[i] \in Dialogs!Among(s)
    BY DEF Dialogs!Among
  <2> QED
    BY <1>1, <2>1, BrowserIs DEF NumbersOK, NumbersSeen
<1>5. AnswersOK(told, runtime)'
  BY RuntimeIs DEF AnswersOK, NotesSeen
<1>6. Agreed'
  BY DEF Agreed, Allowed
<1>7. PendingOK(runtime)' /\ StickyOK(runtime.sticky)' /\ HeldOK(runtime)' /\ StartupHeld'
  BY DEF DialogsInv, StartupHeld
<1> QED
  BY <1>2, <1>3, <1>4, <1>5, <1>6, <1>7 DEF DialogsInv

\* reduceSessionExtensionMachine, for one frame.
LEMMA ReplayedIs ==
  ASSUME NEW pending \in Seq(Entry), NEW f \in WireFrame, f.kind # "notify"
  PROVE /\ Dialogs!Replayed(pending, f) \in Seq(Entry)
        /\ \A y \in Dialogs!Among(Dialogs!Replayed(pending, f)) : y \in Dialogs!Among(pending) \/ (y.kind = f.kind /\ y.id = f.id)
        /\ \A k \in ShownKey : Marks(Dialogs!Replayed(pending, f), k) = IF Concerns(f, k) THEN Value(f, k) ELSE Marks(pending, k)
<1>0. f.type \in {"request", "closed"} /\ f.kind \in Kinds /\ f.id \in Ids /\ f.clear \in BOOLEAN /\ f.n \in Nat
  BY DEF WireFrame
<1>1. \A k \in ShownKey : Concerns(f, k) <=> Key1(f, k)
  BY <1>0 DEF Concerns, Key1
<1>2. CASE f.type = "closed"
  <2>1. Dialogs!Replayed(pending, f) = Dialogs!Without(pending, f)
    BY <1>2 DEF Dialogs!Replayed
  <2>2. \A k : Value(f, k) = {}
    BY <1>2 DEF Value
  <2>3. Dialogs!Without(pending, f) \in Seq(Entry) /\ \A y \in Dialogs!Among(Dialogs!Without(pending, f)) : y \in Dialogs!Among(pending)
    BY WithoutIs
  <2>4. \A k : Marks(Dialogs!Without(pending, f), k) = IF Key1(f, k) THEN {} ELSE Marks(pending, k)
    BY MarksWithout
  <2> QED
    BY <1>1, <2>1, <2>2, <2>3, <2>4
<1>3. CASE f.type = "request"
  <2> DEFINE x == Dialogs!Request(f.kind, f.id, f.clear, f.n)
  <2>0. x \in Entry /\ x.kind = f.kind /\ x.id = f.id /\ x.clear = f.clear /\ Mark(x) = Mark(f)
    BY <1>0 DEF Dialogs!Request, Entry, Mark
  <2>1. Dialogs!Replayed(pending, f) = Dialogs!Set(pending, x)
    BY <1>3 DEF Dialogs!Replayed
  <2> HIDE DEF x
  <2>2. \A k : Value(f, k) = IF x.clear THEN {} ELSE {Mark(x)}
    BY <1>3, <2>0 DEF Value
  <2>3. Dialogs!Set(pending, x) \in Seq(Entry) /\ \A y \in Dialogs!Among(Dialogs!Set(pending, x)) : y \in Dialogs!Among(pending) \/ y = x
    BY <2>0, SetIs
  <2>4. \A k : Marks(Dialogs!Set(pending, x), k) = IF Key1(x, k) THEN (IF x.clear THEN {} ELSE {Mark(x)}) ELSE Marks(pending, k)
    BY <2>0, MarksSet
  <2>5. \A k : Key1(x, k) <=> Key1(f, k)
    BY <2>0 DEF Key1
  <2> QED
    BY <1>1, <2>0, <2>1, <2>2, <2>3, <2>4, <2>5
<1> QED
  BY <1>0, <1>2, <1>3

\* The frame f shown: what it does to the browser.
Showing(b, f) == [Dialogs!Applied(b, f) EXCEPT !.seq = f.seq]

\* applyReplayFrameState: the frame decides about its key and no other.
LEMMA AppliedIs ==
  ASSUME NEW b \in BrowserState, NEW f \in WireFrame, NEW c, c = Showing(b, f)
  PROVE /\ c \in BrowserState /\ c.seq = f.seq /\ c.barrier = b.barrier /\ c.snapshot = b.snapshot /\ c.buffer = b.buffer
        /\ c.acknowledged = b.acknowledged
        /\ \A y \in Dialogs!Among(c.pending) : y \in Dialogs!Among(b.pending) \/ (y.kind = f.kind /\ y.id = f.id)
        /\ \A k \in ShownKey : Marks(c.pending, k) = IF Concerns(f, k) THEN Value(f, k) ELSE Marks(b.pending, k)
<1>0. b.pending \in Seq(Entry) /\ f.seq \in Nat /\ f.n \in Nat
  BY DEF BrowserState, WireFrame
<1>1. CASE f.kind = "notify"
  <2>1. c = [b EXCEPT !.delivered = @ \cup {f.seq}, !.seq = f.seq]
    BY <1>1 DEF Dialogs!Applied, BrowserState, Showing
  <2>2. \A k \in ShownKey : ~Concerns(f, k)
    <3>1. f.type # "resync" /\ f.type # "result"
      BY DEF WireFrame
    <3> QED
      BY <1>1, <3>1 DEF Concerns, ShownKey
  <2>3. b.delivered \cup {f.seq} \in SUBSET Nat
    BY <1>0 DEF BrowserState
  <2> QED
    BY <1>0, <2>1, <2>2, <2>3 DEF BrowserState
<1>2. CASE f.kind # "notify"
  <2> DEFINE pending == Dialogs!Replayed(b.pending, f)
  <2>1. c = [b EXCEPT !.pending = pending, !.responding = @ \ {f.n}, !.seq = f.seq]
    BY <1>2 DEF Dialogs!Applied, BrowserState, Showing
  <2>2. /\ pending \in Seq(Entry)
        /\ \A y \in Dialogs!Among(pending) : y \in Dialogs!Among(b.pending) \/ (y.kind = f.kind /\ y.id = f.id)
        /\ \A k \in ShownKey : Marks(pending, k) = IF Concerns(f, k) THEN Value(f, k) ELSE Marks(b.pending, k)
    BY <1>0, <1>2, ReplayedIs
  <2> HIDE DEF pending
  <2>3. b.responding \ {f.n} \in SUBSET Nat
    BY DEF BrowserState
  <2>4. /\ c \in BrowserState /\ c.seq = f.seq /\ c.barrier = b.barrier /\ c.snapshot = b.snapshot /\ c.buffer = b.buffer
        /\ c.acknowledged = b.acknowledged /\ c.pending = pending
    BY <1>0, <2>1, <2>2, <2>3 DEF BrowserState
  <2> QED
    BY <2>2, <2>4
<1> QED
  BY <1>1, <1>2

\* respond: an open dialog is answered, nothing is shown differently.
LEMMA RespondMoves == ASSUME DialogsInv, Dialogs!Respond PROVE DialogsInv'
<1>1. PICK i \in DOMAIN browser.pending :
        /\ browser.pending[i].kind = "dialog" /\ browser.barrier = None
        /\ up' = Append(up, browser.pending[i].id)
        /\ browser' = [browser EXCEPT !.responding = @ \cup {browser.pending[i].n}]
        /\ UNCHANGED <<runtime, down, told>>
  BY DEF Dialogs!Respond
<1> DEFINE x == browser.pending[i]
           c == browser'
<1>2. browser.pending \in Seq(Entry) /\ browser \in BrowserState
  BY BrowserIs DEF Seen, BrowserState
<1>3. x \in Dialogs!Among(browser.pending) /\ x \in Entry /\ x.n \in Nat
  <2>1. x \in Dialogs!Among(browser.pending) /\ x \in Entry
    BY <1>2, AmongSub DEF Dialogs!Among
  <2> QED
    BY <2>1 DEF Entry
<1>4. x.id \in runtime.used /\ x.id \in Dialog
  BY <1>1, <1>3, BrowserIs, RuntimeIs DEF Seen, Known
<1>5. /\ c \in BrowserState /\ c.seq = browser.seq /\ c.barrier = browser.barrier /\ c.snapshot = browser.snapshot
      /\ c.buffer = browser.buffer /\ c.acknowledged = browser.acknowledged /\ c.pending = browser.pending
  <2>1. browser.responding \cup {x.n} \in SUBSET Nat
    BY <1>2, <1>3 DEF BrowserState
  <2> QED
    BY <1>1, <1>2, <2>1 DEF BrowserState
<1> HIDE DEF x, c
<1>6. up' \in Seq(Dialog) /\ \A j \in DOMAIN up' : up'[j] \in runtime.used
  <2>1. up' = Append(up, x.id) /\ up \in Seq(Dialog)
    BY <1>1, RuntimeIs DEF x
  <2>2. up' \in Seq(Dialog) /\ \A j \in DOMAIN up' : (j \in DOMAIN up /\ up'[j] = up[j]) \/ up'[j] = x.id
    BY <1>4, <2>1
  <2> QED
    BY <1>4, <2>2, RuntimeIs
<1>7. Seen(c) /\ NotesSeen(told, c, down) /\ NumbersSeen(c, down)
  BY <1>5, BrowserIs DEF Seen, NotesSeen, NumbersSeen
<1>8. \A k \in ShownKey : Base(c, k) = Base(browser, k)
  BY <1>5 DEF Base, Acknowledged
<1>9. \A k \in ShownKey : Final(down, k, Base(c, k)) \in Allowed(runtime, k)
  BY <1>8 DEF DialogsInv, Agreed
<1> QED
  BY <1>1, <1>6, <1>7, <1>9, BrowserMoves DEF c

\* The first message, and what comes after it.
LEMMA FirstIs ==
  ASSUME DialogsInv, down # <<>>
  PROVE LET m == down[1]
            s == Tail(down)
        IN /\ m \in Message /\ s \in Seq(Message) /\ KnownMessage(m, runtime.used) /\ (m \in Result => Over(m.id, runtime))
           /\ Dialogs!Among(s) \subseteq Dialogs!Among(down)
           /\ IsNote(m) => /\ m.n \in Nat /\ m.n <= runtime.asked
                           /\ \A y \in Dialogs!Among(s) \cup Dialogs!Among(runtime.held) : IsNote(y) => m.n < y.n
                           /\ \A y \in Dialogs!Among(browser.buffer) : IsNote(y) => y.n < m.n
                           /\ \A i \in DOMAIN told.notified : told.notified[i] < m.n
           /\ m \in WireFrame \cup Resync => m.seq \in Nat /\ m.seq <= runtime.seq
                                             /\ \A y \in Dialogs!Among(s) : y \in WireFrame => m.seq < y.seq
           /\ m \in WireFrame => browser.seq < m.seq /\ (browser.barrier # None => browser.barrier < m.seq)
           /\ NotesSeen(told, browser, s) /\ NumbersSeen(browser, s)
           /\ \A k \in ShownKey :
                Final(s, k, IF Concerns(m, k) THEN Value(m, k) ELSE Base(browser, k)) \in Allowed(runtime, k)
<1> DEFINE m == down[1]
           s == Tail(down)
<1>1. /\ s \in Seq(Message) /\ m \in Message /\ m \in Dialogs!Among(down) /\ Dialogs!Among(s) \subseteq Dialogs!Among(down)
      /\ Len(down) \in Nat /\ Len(s) = Len(down) - 1 /\ DOMAIN s = 1..Len(s) /\ DOMAIN down = 1..Len(down)
      /\ \A i \in 1..Len(s) : i + 1 \in 1..Len(down) /\ s[i] = down[i + 1]
  BY BrowserIs, AmongTail
<1>2. \A y \in Dialogs!Among(s) : IsNote(m) /\ IsNote(y) => m.n < y.n
  BY BrowserIs, RisingTail
<1>3. ASSUME m \in WireFrame \cup Resync, NEW y \in Dialogs!Among(s), y \in WireFrame PROVE m.seq < y.seq
  <2>1. PICK i \in DOMAIN s : y = s[i]
    BY DEF Dialogs!Among
  <2>2. 1 \in DOMAIN down /\ i + 1 \in DOMAIN down /\ 1 < i + 1 /\ y = down[i + 1]
    BY <1>1, <2>1
  <2>3. m \notin Result
    BY <1>3 DEF WireFrame, Resync, Result
  <2> QED
    BY <1>3, <2>2, <2>3 DEF DialogsInv, NumbersOK
<1>4. ASSUME NEW k \in ShownKey
      PROVE Final(s, k, IF Concerns(m, k) THEN Value(m, k) ELSE Base(browser, k)) \in Allowed(runtime, k)
  <2>1. Final(down, k, Base(browser, k)) = Final(s, k, IF Concerns(m, k) THEN Value(m, k) ELSE Base(browser, k))
    BY BrowserIs, FinalTail
  <2>2. Final(down, k, Base(browser, k)) \in Allowed(runtime, k)
    BY DEF DialogsInv, Agreed
  <2> QED
    BY <2>1, <2>2
<1> HIDE DEF s, m
<1>5. NotesSeen(told, browser, s) /\ NumbersSeen(browser, s)
  BY <1>1, BrowserIs DEF NotesSeen, NumbersSeen, AllBelow, Below
<1>6. m \in WireFrame \cup Resync => m.seq \in Nat /\ m.seq <= runtime.seq
  BY <1>1, BrowserIs DEF WireFrame, Resync
<1>7. m \in WireFrame => browser.seq < m.seq /\ (browser.barrier # None => browser.barrier < m.seq)
  BY <1>1, BrowserIs DEF NumbersSeen
<1>8. ASSUME IsNote(m)
      PROVE /\ m.n \in Nat /\ m.n <= runtime.asked
            /\ \A y \in Dialogs!Among(s) \cup Dialogs!Among(runtime.held) : IsNote(y) => m.n < y.n
            /\ \A y \in Dialogs!Among(browser.buffer) : IsNote(y) => y.n < m.n
            /\ \A i \in DOMAIN told.notified : told.notified[i] < m.n
  <2>1. m.n \in Nat
    BY <1>1, <1>8 DEF Message, WireFrame, Resync, Result, IsNote
  <2>2. m.n <= runtime.asked /\ \A y \in Dialogs!Among(runtime.held) : IsNote(y) => m.n < y.n
    BY <1>1, <1>8, BrowserIs DEF Below
  <2>3. \A y \in Dialogs!Among(browser.buffer) : IsNote(y) => y.n < m.n
    BY <1>1, <1>8, BrowserIs DEF NotesSeen, Below
  <2>4. \A i \in DOMAIN told.notified : told.notified[i] < m.n
    BY <1>1, <1>8, BrowserIs DEF NotesSeen, AllBelow
  <2> QED
    BY <1>2, <1>8, <2>1, <2>2, <2>3, <2>4
<1>9. KnownMessage(m, runtime.used) /\ (m \in Result => Over(m.id, runtime))
  BY <1>1, BrowserIs
<1> QED
  BY <1>1, <1>3, <1>4, <1>5, <1>6, <1>7, <1>8, <1>9 DEF s, m

LEMMA MessageIs ==
  ASSUME NEW m \in Message
  PROVE /\ m.type = "resync" <=> m \in Resync
        /\ m.type = "result" <=> m \in Result
        /\ m.type \notin {"resync", "result"} <=> m \in WireFrame
  BY DEF Message, WireFrame, Resync, Result

\* A frame, when no snapshot is awaited.
LEMMA FrameMoves ==
  ASSUME DialogsInv, down # <<>>, down' = Tail(down), UNCHANGED <<runtime, up>>, down[1] \in WireFrame,
         Dialogs!ReceiveFrame(down[1]), browser.barrier = None
  PROVE DialogsInv'
<1> DEFINE f == down[1]
           s == Tail(down)
           c == browser'
<1>1. /\ f \in WireFrame /\ browser.seq < f.seq /\ browser.seq \in Nat /\ f.seq \in Nat /\ f.n \in Nat
      /\ browser \in BrowserState
  BY FirstIs, BrowserIs DEF Seen, BrowserState, WireFrame
<1>2. /\ c = [Dialogs!Applied(browser, f) EXCEPT !.seq = f.seq]
      /\ told' = IF f.kind = "notify" THEN [told EXCEPT !.notified = Append(@, f.n)] ELSE told
  <2>1. f.seq > browser.seq
    BY <1>1
  <2> QED
    BY <2>1 DEF Dialogs!ReceiveFrame
<1> HIDE DEF f, s, c
<1>3. /\ c \in BrowserState /\ c.seq = f.seq /\ c.barrier = browser.barrier /\ c.snapshot = browser.snapshot
      /\ c.buffer = browser.buffer /\ c.acknowledged = browser.acknowledged
      /\ \A y \in Dialogs!Among(c.pending) : y \in Dialogs!Among(browser.pending) \/ (y.kind = f.kind /\ y.id = f.id)
      /\ \A k \in ShownKey : Marks(c.pending, k) = IF Concerns(f, k) THEN Value(f, k) ELSE Marks(browser.pending, k)
  <2>1. browser \in BrowserState /\ f \in WireFrame
    BY <1>1
  <2>2. c = Showing(browser, f)
    BY <1>2 DEF Showing
  <2> QED
    BY <2>1, <2>2, AppliedIs
<1>4. Seen(c)
  <2>1. f.kind = "dialog" => f.id \in runtime.used
    BY <1>1, FirstIs DEF KnownMessage, f
  <2>2. Known(c.pending, runtime.used)
    BY <1>3, <2>1, BrowserIs DEF Seen, Known
  <2> QED
    BY <1>3, <2>2, BrowserIs DEF Seen
<1>5. NumbersSeen(c, s)
  <2>1. f.seq <= runtime.seq /\ \A y \in Dialogs!Among(s) : y \in WireFrame => f.seq < y.seq
    BY <1>1, FirstIs DEF f, s
  <2>2. c.barrier = None /\ c.buffer = <<>>
    BY <1>3, BrowserIs DEF NumbersSeen
  <2> QED
    BY <1>3, <2>1, <2>2 DEF NumbersSeen
<1>6. NotesSeen(told', c, s)
  <2>1. c.buffer = <<>> /\ Dialogs!Among(c.buffer) = {} /\ DOMAIN c.buffer = {}
    BY <1>3, BrowserIs, AmongEmpty DEF NumbersSeen
  <2>2. NotesSeen(told, browser, s)
    BY FirstIs DEF s
  <2>3. CASE f.kind # "notify"
    BY <1>2, <1>3, <2>2, <2>3 DEF NotesSeen
  <2>4. CASE f.kind = "notify"
    <3>1. IsNote(f)
      BY <1>1, <2>4 DEF IsNote, WireFrame, OfDialog
    <3>2. /\ f.n <= runtime.asked
          /\ \A y \in Dialogs!Among(s) \cup Dialogs!Among(runtime.held) : IsNote(y) => f.n < y.n
          /\ \A i \in DOMAIN told.notified : told.notified[i] < f.n
      BY <3>1, FirstIs DEF f, s
    <3> DEFINE z == Append(told.notified, f.n)
    <3>3. /\ told.notified \in Seq(Nat) /\ z \in Seq(Nat) /\ Len(told.notified) \in Nat
          /\ DOMAIN z = 1..(Len(told.notified) + 1) /\ DOMAIN told.notified = 1..Len(told.notified)
          /\ z[Len(told.notified) + 1] = f.n /\ \A i \in 1..Len(told.notified) : z[i] = told.notified[i]
      BY <1>1, RuntimeIs
    <3>4. told' = [told EXCEPT !.notified = z] /\ told \in [answers : Seq(Nat), notified : Seq(Nat)]
      BY <1>2, <2>4, RuntimeIs
    <3> HIDE DEF z
    <3>5. told' \in [answers : Seq(Nat), notified : Seq(Nat)] /\ told'.answers = told.answers /\ told'.notified = z
      BY <3>3, <3>4
    <3>6. \A i \in DOMAIN z : z[i] = f.n \/ (i \in DOMAIN told.notified /\ z[i] = told.notified[i])
      BY <3>3, SMTT(60)
    <3>7. ASSUME NEW i \in DOMAIN z, NEW j \in DOMAIN z, i < j PROVE z[i] < z[j]
      <4> DEFINE n == Len(told.notified)
      <4>0. n \in Nat /\ i \in 1..(n + 1) /\ j \in 1..(n + 1)
        BY <3>3
      <4> HIDE DEF n
      <4>1. i \in 1..n
        BY <3>7, <4>0
      <4>2. i \in DOMAIN told.notified /\ z[i] = told.notified[i]
        BY <3>3, <4>1 DEF n
      <4>3. CASE z[j] = f.n
        BY <3>2, <4>2, <4>3
      <4>4. CASE j \in DOMAIN told.notified /\ z[j] = told.notified[j]
        BY <2>2, <3>7, <4>2, <4>4 DEF NotesSeen
      <4> QED
        BY <3>6, <4>3, <4>4
    <3>8. AllBelow(z, s) /\ AllBelow(z, runtime.held) /\ \A i \in DOMAIN z : z[i] <= runtime.asked
      BY <2>2, <3>2, <3>6 DEF NotesSeen, AllBelow
    <3> QED
      BY <2>1, <2>2, <3>5, <3>7, <3>8 DEF NotesSeen, Rising, AllBelow, Below
  <2> QED
    BY <2>3, <2>4
<1>7. ASSUME NEW k \in ShownKey PROVE Final(s, k, Base(c, k)) \in Allowed(runtime, k)
  <2>1. Base(c, k) = IF Concerns(f, k) THEN Value(f, k) ELSE Base(browser, k)
    BY <1>3 DEF Base
  <2>2. Final(s, k, IF Concerns(f, k) THEN Value(f, k) ELSE Base(browser, k)) \in Allowed(runtime, k)
    BY FirstIs DEF f, s
  <2> QED
    BY <2>1, <2>2
<1> QED
  BY <1>4, <1>5, <1>6, <1>7, RuntimeIs, BrowserMoves DEF c, s

\* A frame, while a snapshot is awaited.
LEMMA BufferMoves ==
  ASSUME DialogsInv, down # <<>>, down' = Tail(down), UNCHANGED <<runtime, up>>, down[1] \in WireFrame,
         Dialogs!ReceiveFrame(down[1]), browser.barrier # None
  PROVE DialogsInv'
<1> DEFINE f == down[1]
           s == Tail(down)
           c == browser'
           buffer == Append(browser.buffer, f)
           pending == IF f.kind = "notify" THEN browser.pending ELSE Dialogs!Replayed(browser.pending, f)
<1>1. /\ f \in WireFrame /\ browser.seq < f.seq /\ browser.barrier < f.seq /\ f.seq \in Nat
      /\ browser \in BrowserState /\ browser.barrier \in Nat
      /\ browser.buffer \in Seq(WireFrame) /\ browser.pending \in Seq(Entry) /\ browser.seq \in Nat
  BY FirstIs, BrowserIs DEF Seen, BrowserState, WireFrame
<1>2. c = Dialogs!Buffered(browser, f) /\ told' = told
  BY DEF Dialogs!ReceiveFrame
<1> HIDE DEF f, s, c
<1>3. buffer \in Seq(WireFrame) /\ Dialogs!Among(buffer) = Dialogs!Among(browser.buffer) \cup {f}
  BY <1>1, AmongAppend
<1>4. pending \in Seq(Entry) /\ \A y \in Dialogs!Among(pending) : y \in Dialogs!Among(browser.pending) \/ (y.kind = f.kind /\ y.id = f.id)
  BY <1>1, ReplayedIs
<1>5. c = [browser EXCEPT !.pending = pending, !.buffer = buffer, !.seq = f.seq]
  <2>1. ~(f.seq <= browser.barrier)
    BY <1>1
  <2> HIDE DEF pending, buffer
  <2>2. CASE f.kind = "notify"
    <3>1. c = [browser EXCEPT !.buffer = buffer, !.seq = f.seq]
      BY <1>1, <1>2, <2>1, <2>2 DEF Dialogs!Buffered, BrowserState, buffer
    <3>2. pending = browser.pending
      BY <2>2 DEF pending
    <3> QED
      BY <1>1, <3>1, <3>2 DEF BrowserState
  <2>3. CASE f.kind # "notify"
    BY <1>1, <1>2, <2>1, <2>3 DEF Dialogs!Buffered, BrowserState, buffer, pending
  <2> QED
    BY <2>2, <2>3
<1> HIDE DEF pending
<1>6. /\ c \in BrowserState /\ c.seq = f.seq /\ c.barrier = browser.barrier /\ c.snapshot = browser.snapshot
      /\ c.buffer = buffer /\ c.acknowledged = browser.acknowledged /\ c.pending = pending
  <2> HIDE DEF buffer
  <2> QED
    BY <1>1, <1>3, <1>4, <1>5 DEF BrowserState
<1>7. Seen(c)
  <2>1. f.kind = "dialog" => f.id \in runtime.used
    BY <1>1, FirstIs DEF KnownMessage, f
  <2>2. Known(pending, runtime.used) /\ Known(buffer, runtime.used)
    BY <1>3, <1>4, <2>1, BrowserIs DEF Seen, Known
  <2> QED
    BY <1>6, <2>2, BrowserIs DEF Seen
<1>8. NumbersSeen(c, s)
  <2>1. f.seq <= runtime.seq /\ \A y \in Dialogs!Among(s) : y \in WireFrame => f.seq < y.seq
    BY <1>1, FirstIs DEF f, s
  <2>2. NumbersSeen(browser, s)
    BY FirstIs DEF s
  <2>3. \A y \in Dialogs!Among(buffer) : browser.barrier < y.seq /\ y.seq <= f.seq
    <3>1. \A y \in Dialogs!Among(browser.buffer) : y.seq \in Nat
      <4>1. \A y \in Dialogs!Among(browser.buffer) : y \in WireFrame
        BY <1>1, AmongSub
      <4> QED
        BY <4>1 DEF WireFrame
    <3>2. \A y \in Dialogs!Among(browser.buffer) : browser.barrier < y.seq /\ y.seq <= browser.seq
      BY <1>1, <2>2 DEF NumbersSeen
    <3> QED
      BY <1>1, <1>3, <3>1, <3>2
  <2> HIDE DEF buffer
  <2> QED
    BY <1>1, <1>6, <2>1, <2>2, <2>3 DEF NumbersSeen
<1>9. NotesSeen(told', c, s)
  <2>1. NotesSeen(told, browser, s)
    BY FirstIs DEF s
  <2>2. IsNote(f) => /\ f.n <= runtime.asked
                     /\ \A y \in Dialogs!Among(s) \cup Dialogs!Among(runtime.held) : IsNote(y) => f.n < y.n
                     /\ \A y \in Dialogs!Among(browser.buffer) : IsNote(y) => y.n < f.n
                     /\ \A i \in DOMAIN told.notified : told.notified[i] < f.n
    BY FirstIs DEF f, s
  <2>3. Rising(buffer)
    <3> DEFINE one == <<f>>
    <3>1. buffer = browser.buffer \o one /\ one \in Seq(WireFrame) /\ Dialogs!Among(one) = {f} /\ DOMAIN one = {1}
      BY <1>1 DEF Dialogs!Among
    <3> HIDE DEF one, buffer
    <3>2. Below(browser.buffer, one) /\ Rising(one)
      BY <2>2, <3>1 DEF Below, Rising
    <3> QED
      BY <1>1, <2>1, <3>1, <3>2, RisingConcat DEF NotesSeen
  <2>4. AllBelow(told.notified, buffer) /\ Below(buffer, s) /\ Below(buffer, runtime.held)
        /\ \A y \in Dialogs!Among(buffer) : IsNote(y) => y.n <= runtime.asked
    BY <1>3, <2>1, <2>2 DEF NotesSeen, AllBelow, Below
  <2> HIDE DEF buffer
  <2> QED
    BY <1>2, <1>6, <2>1, <2>3, <2>4 DEF NotesSeen
<1>10. ASSUME NEW k \in ShownKey PROVE Final(s, k, Base(c, k)) \in Allowed(runtime, k)
  <2> DEFINE v == IF Concerns(f, k) THEN Value(f, k) ELSE Base(browser, k)
  <2>1. Final(s, k, v) \in Allowed(runtime, k)
    BY FirstIs DEF f, s
  <2>2. CASE Acknowledged(browser, k)
    <3>1. k.kind = "dialog" /\ k.id \in browser.acknowledged
      BY <2>2 DEF Acknowledged
    <3>2. Base(c, k) = {} /\ Base(browser, k) = {}
      BY <1>1, <1>6, <2>2 DEF Base, Acknowledged
    <3>3. \A y \in Dialogs!Among(runtime.pending) : y.id # k.id
      BY <3>1, BrowserIs DEF Seen, Over
    <3>4. Marks(runtime.pending, k) = {}
      BY <3>3 DEF Marks
    <3>5. Allowed(runtime, k) = {{}}
      BY <3>1, <3>3, <3>4 DEF Allowed
    <3>6. Final(s, k, v) = {}
      BY <2>1, <3>5
    <3>7. s \in Seq(Message)
      BY FirstIs DEF s
    <3> HIDE DEF v
    <3>8. Final(s, k, {}) = {}
      BY <3>6, <3>7, FinalBlind
    <3> QED
      BY <3>2, <3>5, <3>8
  <2>3. CASE ~Acknowledged(browser, k)
    <3>1. Base(browser, k) = Final(browser.buffer, k, Marks(browser.snapshot.requests, k))
      BY <1>1, <2>3 DEF Base
    <3>2. Base(c, k) = Final(buffer, k, Marks(browser.snapshot.requests, k))
      BY <1>1, <1>6, <2>3 DEF Base, Acknowledged
    <3>3. Base(c, k) = v
      BY <1>1, <3>1, <3>2, FinalAppend
    <3> QED
      BY <2>1, <3>3
  <2> QED
    BY <2>2, <2>3
<1> QED
  BY <1>7, <1>8, <1>9, <1>10, RuntimeIs, BrowserMoves DEF c, s

\* handleExtensionResult: the dialog goes, and stays away from the next snapshot.
LEMMA ResultMoves ==
  ASSUME DialogsInv, down # <<>>, down' = Tail(down), UNCHANGED <<runtime, up>>, down[1] \in Result, Dialogs!ReceiveResult(down[1])
  PROVE DialogsInv'
<1> DEFINE m == down[1]
           s == Tail(down)
           c == browser'
           pending == Dialogs!Without(browser.pending, Dialogs!Closed(m.id))
           acknowledged == IF browser.barrier = None THEN browser.acknowledged ELSE browser.acknowledged \cup {m.id}
<1>1. /\ m \in Result /\ m.type = "result" /\ m.id \in Dialog /\ Over(m.id, runtime) /\ ~IsNote(m)
      /\ browser \in BrowserState /\ browser.pending \in Seq(Entry) /\ browser.acknowledged \subseteq Dialog
  BY FirstIs, BrowserIs DEF Seen, BrowserState, Result, IsNote
<1>2. c = [browser EXCEPT !.pending = pending, !.acknowledged = acknowledged] /\ told' = told
  BY DEF Dialogs!ReceiveResult
<1> HIDE DEF m, s, c
<1>3. pending \in Seq(Entry) /\ \A y \in Dialogs!Among(pending) : y \in Dialogs!Among(browser.pending)
  BY <1>1, WithoutIs
<1>4. \A k : Marks(pending, k) = IF Key1(Dialogs!Closed(m.id), k) THEN {} ELSE Marks(browser.pending, k)
  BY <1>1, MarksWithout
<1>5. \A k : (Concerns(m, k) <=> Key1(Dialogs!Closed(m.id), k)) /\ (Concerns(m, k) <=> k.kind = "dialog" /\ k.id = m.id)
             /\ Value(m, k) = {}
  BY <1>1 DEF Dialogs!Closed, Dialogs!Request, Key1, Concerns, Value
<1>6. acknowledged \subseteq Dialog
  BY <1>1
<1> HIDE DEF pending, acknowledged
<1>7. /\ c \in BrowserState /\ c.seq = browser.seq /\ c.barrier = browser.barrier /\ c.snapshot = browser.snapshot
      /\ c.buffer = browser.buffer /\ c.acknowledged = acknowledged /\ c.pending = pending
  BY <1>1, <1>2, <1>3, <1>6 DEF BrowserState
<1>8. Seen(c)
  BY <1>1, <1>3, <1>7, BrowserIs DEF Seen, Known, acknowledged
<1>9. NotesSeen(told', c, s) /\ NumbersSeen(c, s)
  <2>1. NotesSeen(told, browser, s) /\ NumbersSeen(browser, s)
    BY FirstIs DEF s
  <2> QED
    BY <1>2, <1>7, <2>1 DEF NotesSeen, NumbersSeen
<1>10. ASSUME NEW k \in ShownKey PROVE Final(s, k, Base(c, k)) \in Allowed(runtime, k)
  <2>1. Final(s, k, IF Concerns(m, k) THEN Value(m, k) ELSE Base(browser, k)) \in Allowed(runtime, k)
    BY FirstIs DEF m, s
  <2>2. Base(c, k) = IF Concerns(m, k) THEN {} ELSE Base(browser, k)
    BY <1>4, <1>5, <1>7 DEF Base, Acknowledged, acknowledged
  <2> QED
    BY <1>5, <2>1, <2>2
<1> QED
  BY <1>8, <1>9, <1>10, RuntimeIs, BrowserMoves DEF c, s

\* handleResyncRequired: a snapshot is awaited.
LEMMA SnapshotMoves ==
  ASSUME DialogsInv, DialogsAssumption, down # <<>>, down' = Tail(down), UNCHANGED <<runtime, up>>, down[1] \in Resync,
         Dialogs!ReceiveResync(down[1])
  PROVE DialogsInv'
<1> DEFINE m == down[1]
           s == Tail(down)
           c == browser'
<1>1. /\ m \in Resync /\ m.type = "resync" /\ m.seq \in Nat /\ m.seq # None /\ m.seq <= runtime.seq
      /\ browser \in BrowserState /\ Known(m.requests, runtime.used)
  BY FirstIs, BrowserIs DEF Seen, Resync, DialogsAssumption, KnownMessage
<1>2. c = [browser EXCEPT !.barrier = m.seq, !.snapshot = m, !.buffer = <<>>, !.acknowledged = {}] /\ told' = told
  BY DEF Dialogs!ReceiveResync
<1> HIDE DEF m, s, c
<1>3. <<>> \in Seq(WireFrame) /\ Dialogs!Among(<<>>) = {} /\ DOMAIN <<>> = {}
  BY AmongEmpty
<1>4. /\ c \in BrowserState /\ c.seq = browser.seq /\ c.barrier = m.seq /\ c.snapshot = m
      /\ c.buffer = <<>> /\ c.acknowledged = {} /\ c.pending = browser.pending
  BY <1>1, <1>2, <1>3 DEF BrowserState
<1>5. Seen(c)
  BY <1>1, <1>3, <1>4, BrowserIs DEF Seen, Known
<1>6. NotesSeen(told', c, s)
  <2>1. NotesSeen(told, browser, s)
    BY FirstIs DEF s
  <2> QED
    BY <1>2, <1>3, <1>4, <2>1 DEF NotesSeen, Rising, AllBelow, Below
<1>7. NumbersSeen(c, s)
  <2>1. NumbersSeen(browser, s) /\ \A y \in Dialogs!Among(s) : y \in WireFrame => m.seq < y.seq
    BY <1>1, FirstIs DEF m, s
  <2> QED
    BY <1>1, <1>3, <1>4, <2>1 DEF NumbersSeen
<1>8. ASSUME NEW k \in ShownKey PROVE Final(s, k, Base(c, k)) \in Allowed(runtime, k)
  <2>1. Final(s, k, IF Concerns(m, k) THEN Value(m, k) ELSE Base(browser, k)) \in Allowed(runtime, k)
    BY FirstIs DEF m, s
  <2>2. Concerns(m, k) /\ Value(m, k) = Marks(m.requests, k)
    BY <1>1 DEF Concerns, Value
  <2>3. Final(c.buffer, k, Marks(m.requests, k)) = Marks(m.requests, k)
    <3>1. c.buffer \in Seq(WireFrame) /\ 1..Len(c.buffer) = {}
      BY <1>4
    <3> QED
      BY <3>1, FinalNone
  <2>4. Base(c, k) = Marks(m.requests, k)
    BY <1>1, <1>4, <2>3 DEF Base, Acknowledged
  <2> QED
    BY <2>1, <2>2, <2>4
<1> QED
  BY <1>5, <1>6, <1>7, <1>8, RuntimeIs, BrowserMoves DEF c, s

\* handleReplayFrame and the others: the first message, whatever it is.
LEMMA ReceiveMoves == ASSUME DialogsInv, DialogsAssumption, Dialogs!Receive PROVE DialogsInv'
<1>1. down # <<>> /\ down' = Tail(down) /\ UNCHANGED <<runtime, up>> /\ down[1] \in Message
  BY FirstIs DEF Dialogs!Receive
<1>2. CASE down[1].type = "resync"
  BY <1>1, <1>2, MessageIs, SnapshotMoves DEF Dialogs!Receive
<1>3. CASE down[1].type = "result"
  BY <1>1, <1>3, MessageIs, ResultMoves DEF Dialogs!Receive
<1>4. CASE down[1].type \notin {"resync", "result"}
  BY <1>1, <1>4, MessageIs, FrameMoves, BufferMoves DEF Dialogs!Receive
<1> QED
  BY <1>2, <1>3, <1>4

-----------------------------------------------------------------------------
(* The snapshot and the frames after it.                                   *)

\* The snapshot, without the dialogs that were answered meanwhile.
ShowsFirst(b) ==
  [b EXCEPT !.pending = Dialogs!Only(b.snapshot.requests, {x \in Dialogs!Among(b.snapshot.requests) : Dialogs!Kept(b, x)}),
            !.seq = b.snapshot.seq, !.responding = {},
            !.barrier = None, !.snapshot = None, !.buffer = <<>>, !.acknowledged = {}]
\* The frame f of the suffix: what it does to the browser c, unless the dialog was answered.
ShowsNext(b, c, f) == [(IF f.type = "closed" \/ Dialogs!Kept(b, f) THEN Dialogs!Applied(c, f) ELSE c) EXCEPT !.seq = f.seq]

\* commitSessionSnapshot: the snapshot, then one frame of the suffix after the other.
LEMMA CommittingDef ==
  ASSUME NEW b, NEW s, s = Dialogs!Suffix(b), s \in Seq(WireFrame)
  PROVE /\ Dialogs!Committing(b)[0] = ShowsFirst(b)
        /\ \A i \in 1..Len(s) : Dialogs!Committing(b)[i] = ShowsNext(b, Dialogs!Committing(b)[i - 1], s[i])
<1> DEFINE First == [b EXCEPT !.pending = Dialogs!Only(b.snapshot.requests, {x \in Dialogs!Among(b.snapshot.requests) : Dialogs!Kept(b, x)}),
                       !.seq = b.snapshot.seq, !.responding = {},
                       !.barrier = None, !.snapshot = None, !.buffer = <<>>, !.acknowledged = {}]
           G(c, i) == [(IF Dialogs!Suffix(b)[i].type = "closed" \/ Dialogs!Kept(b, Dialogs!Suffix(b)[i]) THEN Dialogs!Applied(c, Dialogs!Suffix(b)[i]) ELSE c)
                         EXCEPT !.seq = Dialogs!Suffix(b)[i].seq]
           Is(f, n) == f = [i \in 0..n |-> IF i = 0 THEN First ELSE G(f[i - 1], i)]
           U == {n \in Nat : \E f : Is(f, n)}
<1>5. Dialogs!Committing(b) = CHOOSE f : Is(f, Len(Dialogs!Suffix(b)))
  BY DEF Dialogs!Committing
<1> HIDE DEF G, First
<1>1. 0 \in U
  <2> DEFINE f == [i \in 0..0 |-> First]
  <2>1. Is(f, 0)
    OBVIOUS
  <2> QED
    BY <2>1
<1>2. ASSUME NEW n \in U PROVE n + 1 \in U
  <2>1. PICK f : Is(f, n)
    OBVIOUS
  <2> DEFINE g == [i \in 0..(n + 1) |-> IF i = n + 1 THEN G(f[n], i) ELSE f[i]]
  <2>2. ASSUME NEW i \in 0..(n + 1)
        PROVE g[i] = IF i = 0 THEN First ELSE G(g[i - 1], i)
    BY <2>1
  <2>3. Is(g, n + 1)
    BY <2>2
  <2> HIDE DEF g, Is
  <2>4. \E h : Is(h, n + 1)
    BY <2>3
  <2> QED
    BY <2>4
<1>3. U = Nat
  <2> HIDE DEF U
  <2>1. U \in SUBSET Nat
    BY DEF U
  <2> QED
    BY <1>1, <1>2, <2>1, Counting
<1>0. Len(s) \in Nat /\ Len(Dialogs!Suffix(b)) = Len(s)
  OBVIOUS
<1>4. \E f : Is(f, Len(s))
  BY <1>0, <1>3
<1> HIDE DEF Is
<1>6. Is(Dialogs!Committing(b), Len(s))
  BY <1>0, <1>4, <1>5
<1>7. /\ Dialogs!Committing(b)[0] = First
      /\ \A i \in 1..Len(s) : Dialogs!Committing(b)[i] = G(Dialogs!Committing(b)[i - 1], i)
  BY <1>0, <1>6 DEF Is
<1> QED
  BY <1>7 DEF G, First, ShowsFirst, ShowsNext

LEMMA CommittingNext ==
  ASSUME NEW b, NEW s, s = Dialogs!Suffix(b), s \in Seq(WireFrame), NEW i \in 1..Len(s)
  PROVE Dialogs!Committing(b)[i] = ShowsNext(b, Dialogs!Committing(b)[i - 1], s[i])
  BY CommittingDef

Showed(c, b, f) ==
  /\ c \in BrowserState /\ c.seq = f.seq /\ c.barrier = b.barrier /\ c.snapshot = b.snapshot /\ c.buffer = b.buffer
  /\ c.acknowledged = b.acknowledged
  /\ \A y \in Dialogs!Among(c.pending) : y \in Dialogs!Among(b.pending) \/ (y.kind = f.kind /\ y.id = f.id)
  /\ \A k \in ShownKey : Marks(c.pending, k) = IF Concerns(f, k) THEN Value(f, k) ELSE Marks(b.pending, k)

\* The first n members, and one more.
LEMMA SubSeqMore ==
  ASSUME NEW S, NEW s \in Seq(S), NEW n \in Nat, n + 1 <= Len(s)
  PROVE SubSeq(s, 1, n) \in Seq(S) /\ s[n + 1] \in S /\ SubSeq(s, 1, n + 1) = Append(SubSeq(s, 1, n), s[n + 1])
  OBVIOUS

\* What the snapshot and the first n frames after it make.
Commits(c, b, s, n) ==
  /\ c \in BrowserState /\ c.barrier = None /\ c.snapshot = None /\ c.buffer = <<>> /\ c.acknowledged = {}
  /\ Known(c.pending, runtime.used)
  /\ c.seq = b.barrier \/ \E f \in Dialogs!Among(s) : c.seq = f.seq
  /\ \A k \in ShownKey :
       Marks(c.pending, k) =
         IF Acknowledged(b, k) THEN {} ELSE Final(SubSeq(s, 1, n), k, Marks(b.snapshot.requests, k))

LEMMA CommitsFirst ==
  ASSUME NEW b, Seen(b), b.barrier # None, b.snapshot \in Resync, b.snapshot.seq = b.barrier, NEW s \in Seq(WireFrame),
         NEW c, c = ShowsFirst(b)
  PROVE Commits(c, b, s, 0)
<1> DEFINE requests == b.snapshot.requests
           T == {x \in Dialogs!Among(requests) : Dialogs!Kept(b, x)}
           pending == Dialogs!Only(requests, T)
<1>1. requests \in Seq(Entry) /\ b.snapshot.seq \in Nat /\ b \in BrowserState
  BY DEF Resync, Seen
<1>2. pending \in Seq(Entry) /\ Dialogs!Among(pending) = Dialogs!Among(requests) \cap T
  BY <1>1, OnlyEmbeds
<1>3. \A x : x \in Dialogs!Among(pending) <=> x \in Dialogs!Among(requests) /\ Dialogs!Kept(b, x)
  BY <1>2
<1>4. c = [b EXCEPT !.pending = pending, !.seq = b.snapshot.seq, !.responding = {},
                    !.barrier = None, !.snapshot = None, !.buffer = <<>>, !.acknowledged = {}]
  BY DEF ShowsFirst
<1> HIDE DEF pending
<1>5. /\ c \in BrowserState /\ c.barrier = None /\ c.snapshot = None /\ c.buffer = <<>> /\ c.acknowledged = {}
      /\ c.pending = pending /\ c.seq = b.barrier
  <2>1. <<>> \in Seq(WireFrame)
    OBVIOUS
  <2> QED
    BY <1>1, <1>2, <1>4, <2>1 DEF BrowserState
<1>6. Known(c.pending, runtime.used)
  BY <1>3, <1>5 DEF Seen, Known
<1>7. ASSUME NEW k \in ShownKey
      PROVE Marks(c.pending, k) = IF Acknowledged(b, k) THEN {} ELSE Final(SubSeq(s, 1, 0), k, Marks(requests, k))
  <2>1. Final(SubSeq(s, 1, 0), k, Marks(requests, k)) = Marks(requests, k)
    <3> DEFINE z == SubSeq(s, 1, 0)
    <3>1. z \in Seq(WireFrame) /\ 1..Len(z) = {}
      OBVIOUS
    <3> HIDE DEF z
    <3>2. \A v : Final(z, k, v) = v
      BY <3>1, FinalNone
    <3> QED
      BY <3>2 DEF z
  <2>2. CASE Acknowledged(b, k)
    <3>1. \A x \in Dialogs!Among(pending) : ~Key1(x, k)
      BY <1>3, <2>2 DEF Dialogs!Kept, Acknowledged, Key1
    <3>2. Marks(pending, k) = {}
      BY <3>1 DEF Marks, Key1
    <3> QED
      BY <1>5, <2>2, <3>2
  <2>3. CASE ~Acknowledged(b, k)
    <3>1. \A x : Key1(x, k) => (x \in Dialogs!Among(pending) <=> x \in Dialogs!Among(requests))
      BY <1>3, <2>3 DEF Dialogs!Kept, Acknowledged, Key1
    <3>2. Marks(pending, k) = Marks(requests, k)
      BY <3>1, MarksAmong
    <3> QED
      BY <1>5, <2>1, <2>3, <3>2
  <2> QED
    BY <2>2, <2>3
<1> QED
  BY <1>5, <1>6, <1>7 DEF Commits

LEMMA CommitsMore ==
  ASSUME NEW b, Seen(b), NEW s \in Seq(WireFrame), Known(s, runtime.used), NEW n \in Nat, n + 1 <= Len(s),
         NEW c, Commits(c, b, s, n),
         NEW e, e = ShowsNext(b, c, s[n + 1])
  PROVE Commits(e, b, s, n + 1)
<1> DEFINE f == s[n + 1]
           v(k) == Marks(b.snapshot.requests, k)
<1>1. f \in WireFrame /\ f \in Dialogs!Among(s) /\ c \in BrowserState /\ f.seq \in Nat
  <2>1. n + 1 \in 1..Len(s)
    OBVIOUS
  <2>2. f \in WireFrame /\ f \in Dialogs!Among(s)
    BY <2>1, AmongSub
  <2> QED
    BY <2>2 DEF Commits, WireFrame
<1>2. ASSUME NEW k \in ShownKey
      PROVE Final(SubSeq(s, 1, n + 1), k, v(k)) = IF Concerns(f, k) THEN Value(f, k) ELSE Final(SubSeq(s, 1, n), k, v(k))
  <2> DEFINE z == SubSeq(s, 1, n)
             w == v(k)
  <2>1. z \in Seq(WireFrame) /\ SubSeq(s, 1, n + 1) = Append(z, f)
    BY SubSeqMore
  <2> HIDE DEF z, w, f
  <2>2. Final(Append(z, f), k, w) = IF Concerns(f, k) THEN Value(f, k) ELSE Final(z, k, w)
    BY <1>1, <2>1, FinalAppend
  <2> QED
    BY <2>1, <2>2 DEF z, w
<1> HIDE DEF f, v
<1>3. CASE f.type = "closed" \/ Dialogs!Kept(b, f)
  <2>1. e = Showing(c, f)
    BY <1>3 DEF f, Showing, ShowsNext
  <2>2. /\ e \in BrowserState /\ e.seq = f.seq /\ e.barrier = c.barrier /\ e.snapshot = c.snapshot /\ e.buffer = c.buffer
        /\ e.acknowledged = c.acknowledged
        /\ \A y \in Dialogs!Among(e.pending) : y \in Dialogs!Among(c.pending) \/ (y.kind = f.kind /\ y.id = f.id)
        /\ \A k \in ShownKey : Marks(e.pending, k) = IF Concerns(f, k) THEN Value(f, k) ELSE Marks(c.pending, k)
    <3>1. c \in BrowserState /\ f \in WireFrame
      BY <1>1
    <3>2. \A x \in BrowserState : \A y \in WireFrame : Showed(Showing(x, y), x, y)
      BY AppliedIs DEF Showed
    <3>3. Showed(e, c, f)
      BY <2>1, <3>1, <3>2, Zenon
    <3> QED
      BY <3>3 DEF Showed
  <2>3. Known(e.pending, runtime.used)
    BY <1>1, <2>2 DEF Commits, Known
  <2>4. ASSUME NEW k \in ShownKey
        PROVE Marks(e.pending, k) = IF Acknowledged(b, k) THEN {} ELSE Final(SubSeq(s, 1, n + 1), k, v(k))
    <3>1. Marks(e.pending, k) = IF Concerns(f, k) THEN Value(f, k) ELSE Marks(c.pending, k)
      BY <2>2
    <3>2. Marks(c.pending, k) = IF Acknowledged(b, k) THEN {} ELSE Final(SubSeq(s, 1, n), k, v(k))
      BY DEF Commits, v
    <3>3. Acknowledged(b, k) /\ Concerns(f, k) => Value(f, k) = {}
      BY <1>1, <1>3 DEF Acknowledged, Concerns, Dialogs!Kept, Value, WireFrame
    <3> QED
      BY <1>2, <3>1, <3>2, <3>3
  <2> QED
    BY <1>1, <2>2, <2>3, <2>4 DEF Commits, v
<1>4. CASE ~(f.type = "closed" \/ Dialogs!Kept(b, f))
  <2>1. e = [c EXCEPT !.seq = f.seq]
    BY <1>4 DEF f, ShowsNext
  <2>2. /\ e \in BrowserState /\ e.seq = f.seq /\ e.barrier = c.barrier /\ e.snapshot = c.snapshot /\ e.buffer = c.buffer
        /\ e.acknowledged = c.acknowledged /\ e.pending = c.pending
    BY <1>1, <2>1 DEF BrowserState
  <2>4. ASSUME NEW k \in ShownKey
        PROVE Marks(e.pending, k) = IF Acknowledged(b, k) THEN {} ELSE Final(SubSeq(s, 1, n + 1), k, v(k))
    <3>1. f.kind = "dialog" /\ f.id \in b.acknowledged
      BY <1>4 DEF Dialogs!Kept
    <3>2. Concerns(f, k) => Acknowledged(b, k)
      BY <1>1, <3>1 DEF Concerns, Acknowledged, WireFrame
    <3>3. Marks(c.pending, k) = IF Acknowledged(b, k) THEN {} ELSE Final(SubSeq(s, 1, n), k, v(k))
      BY DEF Commits, v
    <3> QED
      BY <1>2, <2>2, <3>2, <3>3
  <2> QED
    BY <1>1, <2>2, <2>4 DEF Commits, v
<1> QED
  BY <1>3, <1>4

\* All of the suffix: every frame that was buffered is newer than the snapshot.
LEMMA CommittedIs ==
  ASSUME DialogsInv, browser.barrier # None, NEW s, s = Dialogs!Suffix(browser)
  PROVE /\ s \in Seq(WireFrame) /\ Dialogs!Among(s) = Dialogs!Among(browser.buffer) /\ Rising(s)
        /\ Commits(Dialogs!Committing(browser)[Len(s)], browser, s, Len(s))
        /\ \A k, v : Final(s, k, v) = Final(browser.buffer, k, v)
<1> DEFINE b == browser
           T == {f \in Dialogs!Among(b.buffer) : f.seq > b.snapshot.seq}
           U == {n \in Nat : n <= Len(s) => Commits(Dialogs!Committing(b)[n], b, s, n)}
<1>0. /\ Seen(b) /\ b.buffer \in Seq(WireFrame) /\ b.barrier \in Nat /\ b.snapshot \in Resync /\ b.snapshot.seq = b.barrier
      /\ Rising(b.buffer) /\ Known(b.buffer, runtime.used)
      /\ \A f \in Dialogs!Among(b.buffer) : b.barrier < f.seq /\ f \in WireFrame
  <2>1. Seen(b) /\ NotesSeen(told, b, down) /\ NumbersSeen(b, down)
    BY BrowserIs
  <2>2. b.buffer \in Seq(WireFrame) /\ b.barrier \in Nat /\ b.snapshot \in Resync /\ b.snapshot.seq = b.barrier
        /\ Rising(b.buffer) /\ Known(b.buffer, runtime.used) /\ \A f \in Dialogs!Among(b.buffer) : b.barrier < f.seq
    BY <2>1 DEF Seen, NotesSeen, NumbersSeen, BrowserState
  <2>3. \A f \in Dialogs!Among(b.buffer) : f \in WireFrame
    BY <2>2, AmongSub
  <2> QED
    BY <2>1, <2>2, <2>3
<1>1. s = Dialogs!Only(b.buffer, T)
  BY DEF Dialogs!Suffix
<1>2. \A f \in Dialogs!Among(b.buffer) : f \in T
  BY <1>0 DEF WireFrame
<1>3. s \in Seq(WireFrame) /\ Dialogs!Among(s) = Dialogs!Among(b.buffer) /\ Rising(s) /\ Len(s) \in Nat
  <2> HIDE DEF T
  <2>1. s \in Seq(WireFrame) /\ Dialogs!Among(s) = Dialogs!Among(b.buffer) \cap T
    BY <1>0, <1>1, OnlyEmbeds
  <2>2. Rising(s)
    BY <1>0, <1>1, RisingOnly
  <2> QED
    BY <1>2, <2>1, <2>2
<1>4. \A k, v : Final(s, k, v) = Final(b.buffer, k, v)
  <2> HIDE DEF T
  <2> QED
    BY <1>0, <1>1, <1>2, FinalOnly
<1>5. 0 \in U
  <2> DEFINE c == Dialogs!Committing(b)[0]
  <2>1. c = ShowsFirst(b)
    BY <1>3, CommittingDef
  <2> HIDE DEF c
  <2>2. Commits(c, b, s, 0)
    BY <1>0, <1>3, <2>1, CommitsFirst
  <2> QED
    BY <2>2 DEF c
<1>6. ASSUME NEW n \in U PROVE n + 1 \in U
  <2> SUFFICES ASSUME n + 1 <= Len(s) PROVE Commits(Dialogs!Committing(b)[n + 1], b, s, n + 1)
    OBVIOUS
  <2> DEFINE c == Dialogs!Committing(b)[n]
             e == Dialogs!Committing(b)[n + 1]
  <2>1. Commits(c, b, s, n) /\ n \in Nat /\ n + 1 \in 1..Len(s) /\ (n + 1) - 1 = n
    BY <1>3
  <2>2. e = ShowsNext(b, c, s[n + 1])
    <3>1. s = Dialogs!Suffix(b) /\ s \in Seq(WireFrame)
      BY <1>3
    <3>2. e = ShowsNext(b, Dialogs!Committing(b)[(n + 1) - 1], s[n + 1])
      BY <2>1, <3>1, CommittingNext
    <3> QED
      BY <2>1, <3>2
  <2> HIDE DEF c, e
  <2>3. Known(s, runtime.used)
    BY <1>0, <1>3 DEF Known
  <2>4. Commits(e, b, s, n + 1)
    BY <1>0, <1>3, <2>1, <2>2, <2>3, CommitsMore
  <2> QED
    BY <2>4 DEF e
<1>7. U = Nat
  <2> HIDE DEF U
  <2>1. U \in SUBSET Nat
    BY DEF U
  <2> QED
    BY <1>5, <1>6, <2>1, Counting
<1> QED
  BY <1>3, <1>4, <1>7

\* commitSessionSnapshot, and the notifications of the suffix.
LEMMA SnapshotCommits == ASSUME DialogsInv, Dialogs!CommitSnapshot PROVE DialogsInv'
<1> DEFINE b == browser
           s == Dialogs!Suffix(browser)
           c == browser'
           t == Dialogs!Only(s, {f \in Dialogs!Among(s) : f.kind = "notify"})
           z == [i \in DOMAIN t |-> t[i].n]
<1>0. /\ b.barrier # None /\ UNCHANGED <<runtime, down, up>> /\ c = Dialogs!Committing(b)[Len(s)]
      /\ told' = [told EXCEPT !.notified = @ \o z]
  BY DEF Dialogs!CommitSnapshot, Dialogs!Notified
<1> HIDE DEF s
<1>1. /\ s \in Seq(WireFrame) /\ Dialogs!Among(s) = Dialogs!Among(b.buffer) /\ Rising(s)
      /\ Commits(Dialogs!Committing(b)[Len(s)], b, s, Len(s))
      /\ \A k, v : Final(s, k, v) = Final(b.buffer, k, v)
  BY <1>0, CommittedIs DEF s
<1>2. Commits(c, b, s, Len(s))
  BY <1>0, <1>1
<1> DEFINE T == {f \in Dialogs!Among(s) : f.kind = "notify"}
<1>3. t \in Seq(WireFrame) /\ Rising(t) /\ Dialogs!Among(t) = Dialogs!Among(s) \cap T
  BY <1>1, OnlyEmbeds, RisingOnly
<1> HIDE DEF c, t
<1>4. NotesSeen(told, b, down) /\ NumbersSeen(b, down) /\ b \in BrowserState
  BY BrowserIs DEF Seen
<1>5. \A i \in DOMAIN t : t[i] \in Dialogs!Among(b.buffer) /\ IsNote(t[i]) /\ t[i].n \in Nat
  <2>1. \A i \in DOMAIN t : t[i] \in Dialogs!Among(t) /\ t[i] \in WireFrame
    BY <1>3 DEF Dialogs!Among
  <2> QED
    BY <1>1, <1>3, <2>1 DEF IsNote, WireFrame, OfDialog
<1>6. Seen(c)
  <2>1. <<>> \in Seq(WireFrame) /\ Dialogs!Among(<<>>) = {}
    BY AmongEmpty
  <2> QED
    BY <1>2, <2>1 DEF Commits, Seen, Known
<1>7. NumbersSeen(c, down)
  <2>1. c.seq = b.barrier \/ \E f \in Dialogs!Among(b.buffer) : c.seq = f.seq
    BY <1>1, <1>2 DEF Commits
  <2>2. \A f \in Dialogs!Among(b.buffer) : f.seq \in Nat /\ f.seq <= b.seq
    <3>1. \A f \in Dialogs!Among(b.buffer) : f \in WireFrame
      <4>1. b.buffer \in Seq(WireFrame)
        BY <1>4 DEF BrowserState
      <4> QED
        BY <4>1, AmongSub
    <3> QED
      BY <1>0, <1>4, <3>1 DEF NumbersSeen, WireFrame
  <2>3. b.barrier \in Nat /\ b.barrier <= runtime.seq /\ b.seq <= runtime.seq /\ b.seq \in Nat /\ runtime.seq \in Nat
    BY <1>0, <1>4, RuntimeIs DEF NumbersSeen, BrowserState
  <2>4. c.seq \in Nat /\ c.seq <= runtime.seq /\ (c.seq = b.barrier \/ c.seq <= b.seq)
    BY <2>1, <2>2, <2>3
  <2>5. ASSUME NEW m \in Dialogs!Among(down), m \in WireFrame PROVE c.seq < m.seq
    <3>1. b.seq < m.seq /\ b.barrier < m.seq /\ m.seq \in Nat
      BY <1>0, <1>4, <2>5 DEF NumbersSeen, WireFrame
    <3> QED
      BY <2>3, <2>4, <3>1
  <2> QED
    BY <1>2, <2>4, <2>5 DEF NumbersSeen, Commits
<1>8. NotesSeen(told', c, down)
  <2>1. /\ t \in Seq(WireFrame) /\ Len(t) \in Nat /\ DOMAIN t = 1..Len(t)
        /\ z \in Seq(Nat) /\ Len(z) = Len(t) /\ \A i \in 1..Len(t) : z[i] = t[i].n
    BY <1>3, <1>5
  <2> HIDE DEF z
  <2> DEFINE y == told.notified \o z
             l == Len(told.notified)
  <2>2. told \in [answers : Seq(Nat), notified : Seq(Nat)] /\ told.notified \in Seq(Nat) /\ l \in Nat
        /\ DOMAIN told.notified = 1..l
    BY RuntimeIs
  <2>3. /\ y \in Seq(Nat) /\ DOMAIN y = 1..(l + Len(t))
        /\ \A i \in 1..(l + Len(t)) : (i \in 1..l /\ y[i] = told.notified[i]) \/ (i - l \in 1..Len(t) /\ y[i] = z[i - l])
    <3>1. told.notified \in Seq(Nat) /\ z \in Seq(Nat) /\ Len(told.notified) \in Nat /\ Len(z) \in Nat
      BY <2>1, <2>2
    <3>2. y \in Seq(Nat) /\ Len(y) = Len(told.notified) + Len(z)
      BY <3>1
    <3>3. \A i \in 1..(Len(told.notified) + Len(z)) :
             y[i] = IF i <= Len(told.notified) THEN told.notified[i] ELSE z[i - Len(told.notified)]
      BY <3>1
    <3>4. DOMAIN y = 1..(l + Len(t)) /\ Len(z) = Len(t) /\ Len(t) \in Nat
      BY <2>1, <3>1, <3>2
    <3> HIDE DEF y
    <3> QED
      BY <2>2, <3>2, <3>3, <3>4
  <2>4. told' = [told EXCEPT !.notified = y]
    BY <1>0
  <2> HIDE DEF y, l
  <2>5. told' \in [answers : Seq(Nat), notified : Seq(Nat)] /\ told'.answers = told.answers /\ told'.notified = y
    BY <2>2, <2>3, <2>4
  <2>6. \A i \in 1..l, j \in 1..Len(t) : told.notified[i] < t[j].n
    BY <1>4, <1>5, <2>1, <2>2 DEF NotesSeen, AllBelow
  <2>7. \A i, j \in 1..Len(t) : i < j => t[i].n < t[j].n
    BY <1>3, <1>5, <2>1 DEF Rising
  <2>8. ASSUME NEW i \in DOMAIN y, NEW j \in DOMAIN y, i < j PROVE y[i] < y[j]
    <3>1. i \in 1..(l + Len(t)) /\ j \in 1..(l + Len(t))
      BY <2>3
    <3>2. CASE i \in 1..l /\ y[i] = told.notified[i]
      <4>1. CASE j \in 1..l /\ y[j] = told.notified[j]
        BY <1>4, <2>2, <2>8, <3>2, <4>1 DEF NotesSeen
      <4>2. CASE j - l \in 1..Len(t) /\ y[j] = z[j - l]
        BY <2>1, <2>6, <3>2, <4>2
      <4> QED
        BY <2>3, <3>1, <4>1, <4>2
    <3>3. CASE i - l \in 1..Len(t) /\ y[i] = z[i - l]
      <4>1. j - l \in 1..Len(t) /\ y[j] = z[j - l] /\ i - l < j - l
        <5>1. i \in Int /\ j \in Int /\ l \in Nat /\ Len(t) \in Nat
          BY <2>1, <2>2, <3>1
        <5>2. ~(j \in 1..l)
          BY <2>8, <3>3, <5>1
        <5> QED
          BY <2>3, <2>8, <3>1, <5>1, <5>2
      <4> QED
        BY <2>1, <2>7, <3>3, <4>1
    <3> QED
      BY <2>3, <3>1, <3>2, <3>3
  <2>9. \A i \in DOMAIN y : (i \in DOMAIN told.notified /\ y[i] = told.notified[i])
                            \/ \E x \in Dialogs!Among(b.buffer) : IsNote(x) /\ y[i] = x.n
    BY <1>5, <2>1, <2>2, <2>3, ZenonT(100)
  <2>10. AllBelow(y, down) /\ AllBelow(y, runtime.held) /\ \A i \in DOMAIN y : y[i] <= runtime.asked
    BY <1>4, <2>9 DEF NotesSeen, AllBelow, Below
  <2>11. c.buffer = <<>> /\ Dialogs!Among(<<>>) = {} /\ Rising(<<>>)
    BY <1>2, AmongEmpty DEF Commits, Rising
  <2> QED
    BY <2>5, <2>8, <2>10, <2>11 DEF NotesSeen, AllBelow, Below
<1>9. ASSUME NEW k \in ShownKey PROVE Final(down, k, Base(c, k)) \in Allowed(runtime, k)
  <2> DEFINE v == Marks(b.snapshot.requests, k)
  <2>1. SubSeq(s, 1, Len(s)) = s
    BY <1>1
  <2>2. Marks(c.pending, k) = IF Acknowledged(b, k) THEN {} ELSE Final(SubSeq(s, 1, Len(s)), k, v)
    BY <1>2 DEF Commits
  <2>3. Marks(c.pending, k) = IF Acknowledged(b, k) THEN {} ELSE Final(b.buffer, k, v)
    BY <1>1, <2>1, <2>2
  <2>4. Base(c, k) = Base(b, k)
    BY <1>0, <1>2, <2>3 DEF Base, Commits
  <2> QED
    BY <2>4 DEF DialogsInv, Agreed
<1> QED
  BY <1>0, <1>6, <1>7, <1>8, <1>9, RuntimeIs, BrowserMoves DEF c

-----------------------------------------------------------------------------
(* What holds.                                                             *)

\* Nothing is open, sent or shown at the start.
LEMMA DialogsInit == ASSUME Dialogs!Init PROVE DialogsInv
<1> DEFINE e == <<>>
<1>1. /\ runtime = [phase |-> "startup", pending |-> e, sticky |-> e, held |-> e, seq |-> 0,
                    asked |-> 0, used |-> {}, resyncs |-> 0]
      /\ down = e
      /\ browser = [seq |-> 0, pending |-> e, barrier |-> None, snapshot |-> None, buffer |-> e, acknowledged |-> {},
                    delivered |-> {}, responding |-> {}]
      /\ up = e
      /\ told = [answers |-> e, notified |-> e]
  BY DEF Dialogs!Init
<1>2. /\ DOMAIN e = {} /\ Dialogs!Among(e) = {} /\ 1..Len(e) = {}
      /\ e \in Seq(Entry) /\ e \in Seq(WireFrame) /\ e \in Seq(Message) /\ e \in Seq(Dialog) /\ e \in Seq(Nat)
  BY AmongEmpty
<1>3. \A k, v : Final(e, k, v) = v
  BY <1>2, FinalNone
<1>8. e = <<>>
  OBVIOUS
<1> HIDE DEF e
<1>4. DialogsTypeOK
  BY <1>1, <1>2 DEF DialogsTypeOK, RuntimeState, BrowserState
<1>5. /\ Used /\ PendingOK(runtime) /\ StickyOK(runtime.sticky) /\ HeldOK(runtime)
      /\ AnswersOK(told, runtime) /\ ResultsOK /\ NotesOK
  BY <1>1, <1>2 DEF Used, Known, PendingOK, StickyOK, HeldOK, AnswersOK, ResultsOK, NotesOK, Rising, Below, AllBelow
<1>6. NumbersOK
  BY <1>1, <1>2, <1>8 DEF NumbersOK
<1>7. StartupHeld /\ Agreed
  <2>1. \A k : Marks(e, k) = {}
    BY <1>2 DEF Marks
  <2> QED
    BY <1>1, <1>3, <2>1 DEF StartupHeld, Agreed, Base, Allowed
<1> QED
  BY <1>4, <1>5, <1>6, <1>7 DEF DialogsInv

LEMMA DialogsStep == ASSUME DialogsInv, DialogsAssumption, Dialogs!Next \/ UNCHANGED Dialogs!vars PROVE DialogsInv'
<1>1. CASE Dialogs!Next
  BY <1>1, RequestMoves, ReadyMoves, TransitionMoves, CommitsMoves, ExpiresMoves, ResponseMoves, ResyncMoves,
     ReceiveMoves, SnapshotCommits, RespondMoves DEF Dialogs!Next
<1>2. CASE UNCHANGED Dialogs!vars
  BY <1>2, ZenonT(100) DEF Dialogs!vars, DialogsInv, DialogsTypeOK, Used, PendingOK, StickyOK, HeldOK, AnswersOK, ResultsOK, NotesOK,
      NumbersOK, StartupHeld, Agreed, Over, Base, Allowed, Acknowledged
<1> QED
  BY <1>1, <1>2

\* With nothing on its way the browser shows what the runtime keeps.
LEMMA DialogsFollow == ASSUME DialogsInv PROVE Dialogs!DialogsAgree
<1>1. ASSUME NEW i \in DOMAIN told.notified, NEW j \in DOMAIN told.notified, told.notified[i] = told.notified[j] PROVE i = j
  <2>1. told.notified \in Seq(Nat) /\ i \in Nat /\ j \in Nat /\ told.notified[i] \in Nat /\ told.notified[j] \in Nat
    BY RuntimeIs
  <2>2. ~(i < j) /\ ~(j < i)
    BY <1>1, <2>1 DEF DialogsInv, NotesOK
  <2> QED
    BY <2>1, <2>2
<1>2. ASSUME Dialogs!CaughtUp PROVE Dialogs!Shown("dialog") = Dialogs!Open(runtime.pending) /\ Dialogs!Shown("sticky") = Dialogs!Open(runtime.sticky)
  <2>1. down = <<>> /\ browser.barrier = None /\ runtime.phase = "ready" /\ runtime.held = <<>> /\ Dialogs!Among(runtime.held) = {}
    BY <1>2, RuntimeIs, AmongEmpty DEF Dialogs!CaughtUp, HeldOK
  <2>2. \A k, v : Final(down, k, v) = v
    <3>1. down \in Seq(Message) /\ 1..Len(down) = {}
      BY <2>1
    <3>2. \A k : \A j \in 1..Len(down) : ~Concerns(down[j], k)
      BY <3>1
    <3> QED
      BY <3>1, <3>2, FinalNone
  <2>3. \A k \in ShownKey : Marks(browser.pending, k) \in Allowed(runtime, k)
    BY <2>1, <2>2 DEF DialogsInv, Agreed, Base
  <2>4. \A k \in ShownKey : Marks(browser.pending, k) = IF k.kind = "sticky" THEN Marks(runtime.sticky, k) ELSE Marks(runtime.pending, k)
    BY <2>1, <2>3 DEF Allowed
  <2>5. /\ \A x \in Dialogs!Among(browser.pending) : x \in Entry
        /\ \A x \in Dialogs!Among(runtime.pending) : x \in Entry /\ x.kind = "dialog" /\ ~x.clear
        /\ \A x \in Dialogs!Among(runtime.sticky) : x \in Entry /\ x.kind = "sticky" /\ ~x.clear
    <3>1. browser.pending \in Seq(Entry) /\ runtime.pending \in Seq(Entry) /\ runtime.sticky \in Seq(Entry)
      BY BrowserIs, RuntimeIs DEF Seen, BrowserState
    <3> QED
      BY <3>1, AmongSub, RuntimeIs DEF PendingOK, StickyOK
  <2>6. ASSUME NEW kind \in {"dialog", "sticky"}, NEW s, \A x \in Dialogs!Among(s) : x \in Entry /\ x.kind = kind /\ ~x.clear,
               \A k \in ShownKey : k.kind = kind => Marks(browser.pending, k) = Marks(s, k)
        PROVE Dialogs!Shown(kind) = Dialogs!Open(s)
    <3>1. \A x \in Entry : x.id \in Ids
      BY DEF Entry
    <3> DEFINE key(x) == [kind |-> kind, id |-> x.id]
    <3>2. ASSUME NEW x \in Dialogs!Among(browser.pending), x.kind = kind, ~x.clear PROVE \E y \in Dialogs!Among(s) : Mark(x) = Mark(y)
      <4>1. key(x) \in ShownKey /\ key(x).kind = kind /\ key(x).id = x.id
        BY <2>5, <3>1 DEF ShownKey
      <4>2. Mark(x) \in Marks(s, key(x))
        BY <2>6, <3>2, <4>1 DEF Marks
      <4> QED
        BY <4>2 DEF Marks
    <3>3. ASSUME NEW x \in Dialogs!Among(s) PROVE \E y \in Dialogs!Among(browser.pending) : y.kind = kind /\ ~y.clear /\ Mark(x) = Mark(y)
      <4>1. key(x) \in ShownKey /\ key(x).kind = kind /\ key(x).id = x.id
        BY <2>6, <3>1 DEF ShownKey
      <4>2. Mark(x) \in Marks(browser.pending, key(x))
        BY <2>6, <4>1 DEF Marks
      <4> QED
        BY <4>1, <4>2 DEF Marks
    <3> QED
      <4>1. Dialogs!Shown(kind) = {Mark(x) : x \in {y \in Dialogs!Among(browser.pending) : y.kind = kind /\ ~y.clear}}
        BY DEF Dialogs!Shown, Mark
      <4>2. Dialogs!Open(s) = {Mark(x) : x \in Dialogs!Among(s)}
        BY DEF Dialogs!Open, Mark
      <4> QED
        BY <3>2, <3>3, <4>1, <4>2
  <2>7. Dialogs!Shown("dialog") = Dialogs!Open(runtime.pending)
    BY <2>4, <2>5, <2>6
  <2>8. Dialogs!Shown("sticky") = Dialogs!Open(runtime.sticky)
    BY <2>4, <2>5, <2>6
  <2> QED
    BY <2>7, <2>8
<1> QED
  BY <1>1, <1>2, RuntimeIs DEF Dialogs!DialogsAgree, AnswersOK

\* session-runtime.ts, extension-machine.ts and session-transport.ts, with any
\* dialogs, sticky keys and limits and any number of requests and resyncs: a
\* browser that has received everything shows exactly the dialogs Pi still
\* waits for and the sticky state the runtime keeps; Pi hears of a dialog at most
\* once, the user of a notification at most once.
THEOREM DialogsAlwaysAgree == MCSpec => []DialogsAgree
<1>1. MCInit => DialogsInv
  BY DialogsInit DEF MCInit
<1>2. DialogsInv /\ [MCNext]_all => DialogsInv'
  <2> SUFFICES ASSUME DialogsInv, [MCNext]_all PROVE DialogsInv'
    OBVIOUS
  <2>1. Dialogs!Next \/ UNCHANGED Dialogs!vars
    BY DEF MCNext, all, Sends, Lists, Deletes, Extends, extension, Dialogs!vars
  <2>2. DialogsAssumption
    BY GatewayBounds DEF DialogsAssumption
  <2> QED
    BY <2>1, <2>2, DialogsStep
<1>3. DialogsInv => DialogsAgree
  BY DialogsFollow DEF DialogsAgree
<1> QED
  BY <1>1, <1>2, <1>3, PTL DEF MCSpec
=============================================================================
