---------------------------- MODULE SessionTrash ----------------------------
(***************************************************************************)
(* Deleting a Session: the DELETE route of native-routes.ts and the move   *)
(* into recoverable-session-trash.ts.  Other programs write, replace and   *)
(* remove the file while the move inspects it, and the server may crash    *)
(* between any two of its steps.  Whatever happens, no file may be lost or *)
(* overwritten.                                                            *)
(*                                                                         *)
(* One native path is deleted, at most MaxMoves times, one deletion after  *)
(* the other: withControlledSessionDeletion (SessionPool) lets no second   *)
(* one in.  A file is an inode; its version changes with every write, and  *)
(* `ours` says whether its header names the Session to be deleted.  What   *)
(* the catalog lists is NativeCatalog's business: here it lists the file   *)
(* that is at the path, if its header is the Session's.                    *)
(***************************************************************************)
EXTENDS Integers, FiniteSets

CONSTANTS
  Inode, None,
  MaxMoves,   \* bound: deletions, and so trash entries
  MaxWrites,  \* bound: what other programs do
  MaxFaults   \* bound: file system calls that fail, and crashes

VARIABLES
  path,       \* the inode at the native path, or None
  inode,      \* Inode -> [version, ours, state]
  trash,      \* entry -> None or [file, metadata, quarantine]
  move,       \* the deletion that runs
  env         \* [writes, faults]

vars == <<path, inode, trash, move, env>>

Entry == 1..MaxMoves
Idle == [pc |-> "idle", entry |-> 0, stat |-> None, fd |-> None, keep |-> FALSE, outcome |-> None]

Init ==
  /\ path = CHOOSE i \in Inode : TRUE
  /\ inode = [i \in Inode |-> [version |-> 0, ours |-> TRUE, state |-> IF i = path THEN "live" ELSE "free"]]
  /\ trash = [e \in Entry |-> None]
  /\ move = Idle
  /\ env = [writes |-> 0, faults |-> 0]

-----------------------------------------------------------------------------
(* Other programs.                                                          *)

Writes ==
  /\ env.writes < MaxWrites
  /\ env' = [env EXCEPT !.writes = @ + 1]
  /\ UNCHANGED <<trash, move>>

\* Pi appends to the file it has open, wherever the file is now.
Appends ==
  /\ Writes
  /\ \E i \in Inode : inode[i].state = "live" /\ inode' = [inode EXCEPT ![i].version = @ + 1]
  /\ UNCHANGED path

\* Another file takes the path: created there, or renamed over what is there.
Replaces ==
  /\ Writes
  /\ \E i \in Inode, ours \in BOOLEAN :
       /\ inode[i].state = "free"
       /\ inode' = [j \in Inode |-> IF j = i THEN [version |-> 0, ours |-> ours, state |-> "live"]
                                    ELSE IF j = path THEN [inode[j] EXCEPT !.state = "removed"] ELSE inode[j]]
       /\ path' = i

Removes ==
  /\ Writes
  /\ path # None
  /\ inode' = [inode EXCEPT ![path].state = "removed"]
  /\ path' = None

-----------------------------------------------------------------------------
(* The deletion.                                                            *)

Failure == {"ok"} \cup (IF env.faults < MaxFaults THEN {"fails"} ELSE {})
Faulty(o) == env' = [env EXCEPT !.faults = IF o = "ok" THEN @ ELSE @ + 1]

\* sameStableFile: the inode, its size and its time.
Stable(i) == [ino |-> i, version |-> inode[i].version]
AtPath(stat) == path # None /\ Stable(path) = stat
InEntry(stat) == trash[move.entry].file # None /\ Stable(trash[move.entry].file) = stat

Fails == [move EXCEPT !.pc = "ended", !.outcome = "failed"]
\* The finally of move: the entry goes unless it is to be kept.
Cleans == [move EXCEPT !.pc = "clean", !.outcome = "failed"]

\* The route up to trashSession: the Session is listed, its deletion is let
\* in, it is listed still and has no children, and its path is the same file.
Delete ==
  /\ move.pc \in {"idle", "ended"} /\ move.entry < MaxMoves
  /\ path # None /\ inode[path].ours
  /\ move' = [Idle EXCEPT !.pc = "lstat", !.entry = move.entry + 1]
  /\ UNCHANGED <<path, inode, trash, env>>

\* lstat and realpath of the path, before it is opened.
Lstat ==
  /\ move.pc = "lstat"
  /\ move' = IF path = None THEN Fails ELSE [move EXCEPT !.pc = "open", !.stat = Stable(path)]
  /\ UNCHANGED <<path, inode, trash, env>>

\* open without following links, fstat, and the header of what was opened.
Open ==
  /\ move.pc = "open"
  /\ move' = IF ~AtPath(move.stat) \/ ~inode[path].ours THEN Fails
             ELSE [move EXCEPT !.pc = "reserve", !.fd = path]
  /\ UNCHANGED <<path, inode, trash, env>>

\* reserveEntry: a directory of a new name.
Reserve ==
  /\ move.pc = "reserve"
  /\ UNCHANGED <<path, inode>>
  /\ \E o \in Failure :
       /\ Faulty(o)
       /\ IF o = "ok"
          THEN /\ move' = [move EXCEPT !.pc = "metadata"]
               /\ trash' = [trash EXCEPT ![move.entry] = [file |-> None, metadata |-> FALSE, quarantine |-> FALSE]]
          ELSE move' = Fails /\ UNCHANGED trash

\* Fault: the move goes on without it.
MetadataBestEffort ==
  /\ move.pc = "metadata"
  /\ UNCHANGED <<path, inode>>
  /\ \E o \in Failure :
       /\ Faulty(o)
       /\ move' = [move EXCEPT !.pc = "stat"]
       /\ trash' = [trash EXCEPT ![move.entry].metadata = o = "ok"]

\* writeExclusiveJson: written and synced before the file is touched.
Metadata ==
  /\ move.pc = "metadata"
  /\ UNCHANGED <<path, inode>>
  /\ \E o \in Failure :
       /\ Faulty(o)
       /\ move' = IF o = "ok" THEN [move EXCEPT !.pc = "stat"] ELSE Cleans
       /\ trash' = [trash EXCEPT ![move.entry].metadata = o = "ok"]

\* The last lstat before the rename.
Stat ==
  /\ move.pc = "stat"
  /\ move' = IF AtPath(move.stat) THEN [move EXCEPT !.pc = "rename"] ELSE Cleans
  /\ UNCHANGED <<path, inode, trash, env>>

\* rename(2): whatever is at the path by now; EXDEV and ENOENT leave it alone.
Rename ==
  /\ move.pc = "rename"
  /\ UNCHANGED inode
  /\ \E o \in Failure :
       /\ Faulty(o)
       /\ IF o = "ok" /\ path # None
          THEN /\ trash' = [trash EXCEPT ![move.entry].file = path]
               /\ path' = None
               /\ move' = [move EXCEPT !.pc = "moved", !.keep = TRUE]
          ELSE move' = Cleans /\ UNCHANGED <<path, trash>>

\* lstat of what was moved, then the header once more.  A failing lstat ends
\* the move with the entry kept; a header that cannot be read is one that differs.
Moved ==
  /\ move.pc = "moved"
  /\ UNCHANGED <<path, inode, trash>>
  /\ \E o \in Failure :
       /\ Faulty(o)
       /\ \/ o = "fails" /\ move' = Cleans
          \/ /\ o = "fails" \/ ~InEntry(move.stat) \/ ~inode[move.fd].ours
             /\ move' = [move EXCEPT !.pc = "link"]
          \/ /\ o = "ok" /\ InEntry(move.stat) /\ inode[move.fd].ours
             /\ move' = [move EXCEPT !.pc = "ended", !.outcome = "trashed"]

\* restoreWithoutOverwrite: link(2) fails when the path is taken.
Link ==
  /\ move.pc = "link"
  /\ UNCHANGED <<inode, trash>>
  /\ \E o \in Failure :
       /\ Faulty(o)
       /\ IF o = "ok" /\ path = None
          THEN path' = trash[move.entry].file /\ move' = [move EXCEPT !.pc = "unlink"]
          ELSE move' = [move EXCEPT !.pc = "quarantine"] /\ UNCHANGED path

Unlink ==
  /\ move.pc = "unlink"
  /\ UNCHANGED <<path, inode>>
  /\ \E o \in Failure :
       /\ Faulty(o)
       /\ IF o = "ok"
          THEN /\ trash' = [trash EXCEPT ![move.entry].file = None]
               /\ move' = [Cleans EXCEPT !.keep = FALSE]
          ELSE move' = [move EXCEPT !.pc = "quarantine"] /\ UNCHANGED trash

Quarantine ==
  /\ move.pc = "quarantine"
  /\ UNCHANGED <<path, inode>>
  /\ \E o \in Failure :
       /\ Faulty(o)
       /\ trash' = [trash EXCEPT ![move.entry].quarantine = o = "ok"]
       /\ move' = Cleans

\* rm -r of the entry unless it is kept: what it still holds is gone.
Clean ==
  /\ move.pc = "clean"
  /\ UNCHANGED <<path, inode>>
  /\ \E o \in IF move.keep THEN {"ok"} ELSE Failure :
       /\ Faulty(o)
       /\ trash' = IF move.keep \/ o = "fails" THEN trash ELSE [trash EXCEPT ![move.entry] = None]
       /\ move' = [move EXCEPT !.pc = "ended"]

\* The server dies between two steps.
Crash ==
  /\ move.pc \notin {"idle", "ended"} /\ env.faults < MaxFaults
  /\ move' = [move EXCEPT !.pc = "ended", !.outcome = "crashed"]
  /\ env' = [env EXCEPT !.faults = @ + 1]
  /\ UNCHANGED <<path, inode, trash>>

Next ==
  \/ Appends \/ Replaces \/ Removes
  \/ Delete \/ Lstat \/ Open \/ Reserve \/ Metadata \/ Stat \/ Rename \/ Moved
  \/ Link \/ Unlink \/ Quarantine \/ Clean \/ Crash

Spec == Init /\ [][Next]_vars

-----------------------------------------------------------------------------
(* What must hold.                                                          *)

Recoverable(i) ==
  \E e \in Entry : trash[e] # None /\ trash[e].file = i /\ trash[e].metadata

\* A file nobody else removed or replaced is at the path or in an entry whose
\* metadata says where it came from: no step and no crash loses or overwrites
\* one.  A deletion that was answered moved the file it had inspected, and one
\* that failed left at its path, or marked, what it should not have moved.
NothingLost ==
  /\ \A i \in Inode : inode[i].state = "live" => path = i \/ Recoverable(i)
  /\ move.outcome = "trashed" => inode[trash[move.entry].file].ours /\ trash[move.entry].file = move.fd
  /\ move.pc = "ended" /\ move.outcome = "failed" /\ env.faults = 0 /\ trash[move.entry] # None =>
       trash[move.entry].file # None /\ trash[move.entry].quarantine
=============================================================================
