----------------------------- MODULE MCGateway -----------------------------
(***************************************************************************)
(* Parts of the server that are only asked what they may never do, side by *)
(* side in one run: what the gateway holds for its sockets, the catalog of *)
(* native Sessions, the deletion of one of them, and the dialogs of Pi's   *)
(* extensions.  `part` says which one moves; the others stay where they    *)
(* began.                                                                  *)
(***************************************************************************)
EXTENDS BridgeOutbound

CONSTANTS
  F1, F2, D1, D2,           \* two Session files, and the directories they are in
  Inode, MaxMoves,          \* SessionTrash
  Dialog, Key, PendingLimit, MaxItems, MaxRequests, MaxDown, MaxResyncs, \* ExtensionDialogs
  MaxWrites, MaxFaults      \* bounds of the deletion

VARIABLES
  disk, catalog, asks, past, env,          \* NativeCatalog
  path, inode, trash, move, env_t,         \* SessionTrash
  runtime, down, browser, up, told,        \* ExtensionDialogs
  part

\* There is a file to delete, and no entry of the trash is taken for none.
ASSUME GatewayBounds ==
  /\ MaxMoves \in Nat /\ Inode # {} /\ None \notin Inode
  /\ None \notin [file : Inode \union {None}, metadata : BOOLEAN, quarantine : BOOLEAN]
  /\ None \notin {"failed", "trashed", "crashed"} /\ None \notin Nat

\* NativeCatalog, with what is proved of it.
\* One file, which changes twice or meets a fault; and a file whose header
\* names the workspace of another.
Changing == INSTANCE NativeCatalogProofs WITH
  File <- {F1}, Dir <- {D1}, DirOf <- [x \in {F1} |-> D1], Reveals <- [x \in {F1} |-> None], Hints <- {{D1}},
  Ask <- 1..2, MaxLines <- 3, MaxWrites <- 2, MaxFaults <- 0
Failing == INSTANCE NativeCatalogProofs WITH
  File <- {F1}, Dir <- {D1}, DirOf <- [x \in {F1} |-> D1], Reveals <- [x \in {F1} |-> None], Hints <- {{D1}},
  Ask <- 1..2, MaxLines <- 3, MaxWrites <- 1, MaxFaults <- 1
Revealing == INSTANCE NativeCatalogProofs WITH
  File <- {F1, F2}, Dir <- {D1, D2}, DirOf <- [x \in {F1, F2} |-> IF x = F1 THEN D1 ELSE D2],
  Reveals <- [x \in {F1, F2} |-> IF x = F1 THEN D2 ELSE None], Hints <- {{D1}, {D1, D2}},
  Ask <- 1..2, MaxLines <- 3, MaxWrites <- 1, MaxFaults <- 0
Trash == INSTANCE SessionTrash WITH env <- env_t
Dialogs == INSTANCE ExtensionDialogs

\* None is none of what the files and their list hold.
ASSUME CatalogBounds ==
  Changing!CatalogAssumption /\ Failing!CatalogAssumption /\ Revealing!CatalogAssumption

files == <<disk, catalog, asks, past, env>>
deletion == <<path, inode, trash, move, env_t>>
extension == <<runtime, down, browser, up, told>>
all == <<vars, files, deletion, extension, part>>

MCInit ==
  /\ Init /\ Trash!Init /\ Dialogs!Init
  /\ \/ part \in {"bridge", "deletion", "extension"} /\ Changing!Init /\ disk[F1] = None
     \/ part = "changing" /\ Changing!Init
     \/ part = "failing" /\ Failing!Init
     \/ part = "revealing" /\ Revealing!Init

Sends(A) == part = "bridge" /\ A /\ UNCHANGED <<files, deletion, extension, part>>
Lists(p, A) == part = p /\ A /\ UNCHANGED <<vars, deletion, extension, part>>
Deletes(A) == part = "deletion" /\ A /\ UNCHANGED <<vars, files, extension, part>>
Extends(A) == part = "extension" /\ A /\ UNCHANGED <<vars, files, deletion, part>>

MCNext ==
  \/ Sends(Next)
  \/ Lists("changing", Changing!Next) \/ Lists("failing", Failing!Next) \/ Lists("revealing", Revealing!Next)
  \/ Deletes(Trash!Next)
  \/ Extends(Dialogs!Next)
MCSpec == MCInit /\ [][MCNext]_all

\* What the gateway holds for its sockets is counted exactly, and a page of
\* history never follows the frames of a newer snapshot (BridgeOutbound).
BridgeExact == OutboundExact /\ PagesFollowSnapshot

\* Those of NativeCatalog, SessionTrash and ExtensionDialogs: the list says
\* what was true of the files since it was asked for; a deletion loses no file;
\* the browser shows the dialogs Pi waits for.
CatalogTruthful ==
  CASE part = "revealing" -> Revealing!CatalogTruthful
    [] part = "failing" -> Failing!CatalogTruthful
    [] OTHER -> Changing!CatalogTruthful
NothingLost == Trash!NothingLost
DialogsAgree == Dialogs!DialogsAgree
=============================================================================
