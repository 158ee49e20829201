---------------------------- MODULE ContentStore ----------------------------
(***************************************************************************)
(* EpochContentStore: content addressed by digest, kept while a hold or a  *)
(* stream of a download refers to it, within a quota of items.             *)
(*                                                                         *)
(* Operations of one digest run one at a time under its lock, renames and  *)
(* removals under the tombstone lock; pin() takes no lock at all.  A token *)
(* <<a, k>> is what actor a has on content k: a frame of Pi's output takes *)
(* a hold, a download a pin.  A step runs the code between two awaits.     *)
(* Bytes are counted as items are and are left out.                        *)
(***************************************************************************)
EXTENDS Naturals, FiniteSets

CONSTANTS
    Key,        \* digests
    Frame,      \* frames of Pi's output, each with content to hold
    Reader,     \* downloads
    Gc,         \* the actor of gc()
    Nobody,     \* the holder of a free lock
    MaxItems    \* maxCacheItems

VARIABLES
    entry,      \* #entries
    stray,      \* directories a failed stage could not remove
    dead,       \* #tombstones, by content
    items,      \* #items
    reserved,   \* #reservedItems
    op,         \* how far the operation on each token is
    active,     \* the tokens that are active
    lock,       \* #digestTails: who runs under the lock of each digest
    tombLock,   \* #tombstoneTail: who runs under it
    sweeping,   \* gc(): it is about to remove, or removes, the tombstones left behind
    phase       \* #state

storeVars == <<entry, stray, dead, items, reserved, op, active, lock, tombLock,
               sweeping, phase>>

-----------------------------------------------------------------------------
(* Data. *)

Token == (Frame \cup Reader \cup {Gc}) \X Key
IsHold(t) == t[1] \in Frame
Absent == [here |-> FALSE, published |-> FALSE, deleting |-> FALSE, holds |-> 0, pins |-> 0]

\* A token waits for its digest lock at the pcs in Waits and runs under it at
\* those in Runs; the others need no lock.
Waits == {"asking", "committing", "publish", "releasing", "collect"}
Runs == {"verifying", "matching", "building", "publishing", "deleting", "renaming", "removing"}
PC == Waits \cup Runs \cup
      {"none", "missed", "writing", "staged", "held", "failed", "opening", "streaming",
       "unreleased", "lost", "released"}

Ready == phase = "ready"
Unused(k) == entry[k].holds = 0 /\ entry[k].pins = 0

Goto(t, pc) == op' = [op EXCEPT ![t] = pc]
Free(k) == lock' = [lock EXCEPT ![k] = Nobody]
Take(k, who) == lock' = [lock EXCEPT ![k] = who]

-----------------------------------------------------------------------------
(* The collector's view of one entry, with the fault of a missing recheck. *)

\* The fault of deleting what was unused when the collection began.
CollectableOnce(k) == entry[k].here /\ ~entry[k].deleting

\* What gc() may delete, checked again under the lock
Collectable(k) ==
    /\ entry[k].here /\ entry[k].published /\ ~entry[k].deleting /\ Unused(k)

\* The fault of counting only the items that are committed.
RoomWithoutReserved == items < MaxItems

\* #reserve
Room == items + reserved < MaxItems

-----------------------------------------------------------------------------
(* Holds on published content. *)

StoreInit ==
    /\ entry = [k \in Key |-> Absent] /\ stray = {} /\ dead = [k \in Key |-> 0]
    /\ items = 0 /\ reserved = 0
    /\ op = [t \in Token |-> "none"] /\ active = {}
    /\ lock = [k \in Key |-> Nobody] /\ tombLock = Nobody
    /\ sweeping = "no" /\ phase = "ready"

\* holdPublished() and holdPublishedUtf8(), until the digest lock is asked for
HoldPublished(t) ==
    /\ IsHold(t) /\ op[t] = "none"
    /\ Goto(t, IF Ready THEN "asking" ELSE "failed")
    /\ UNCHANGED <<entry, stray, dead, items, reserved, active, lock, tombLock,
                   sweeping, phase>>

\* #holdPublishedInternal: content that is there and published is verified.
Look(t) ==
    /\ op[t] = "asking" /\ lock[t[2]] = Nobody
    /\ IF entry[t[2]].here /\ ~entry[t[2]].deleting /\ entry[t[2]].published
       THEN Take(t[2], t) /\ Goto(t, "verifying")
       ELSE Goto(t, "missed") /\ UNCHANGED lock
    /\ UNCHANGED <<entry, stray, dead, items, reserved, active, tombLock,
                   sweeping, phase>>

\* #createHold
Held(t) ==
    /\ entry' = [entry EXCEPT ![t[2]].holds = @ + 1]
    /\ active' = active \cup {t}

\* #verifyManifest resolves, or the content is not what it should be.
Verify(t, sound) ==
    /\ op[t] = "verifying" /\ Free(t[2])
    /\ IF sound /\ Ready
       THEN Held(t) /\ Goto(t, "held")
       ELSE Goto(t, "failed") /\ UNCHANGED <<entry, active>>
    /\ UNCHANGED <<stray, dead, items, reserved, tombLock, sweeping, phase>>

-----------------------------------------------------------------------------
(* Staging and publishing. *)

\* stage() and stageUtf8(): room is reserved before a byte is written.
Stage(t) ==
    /\ op[t] = "missed"
    /\ IF Ready /\ Room
       THEN reserved' = reserved + 1 /\ Goto(t, "writing")
       ELSE Goto(t, "failed") /\ UNCHANGED reserved
    /\ UNCHANGED <<entry, stray, dead, items, active, lock, tombLock,
                   sweeping, phase>>

\* The temporary file is complete, or the write failed or was aborted.
Write(t, whole) ==
    /\ op[t] = "writing"
    /\ IF whole /\ Ready
       THEN Goto(t, "committing") /\ UNCHANGED reserved
       ELSE Goto(t, "failed") /\ reserved' = reserved - 1
    /\ UNCHANGED <<entry, stray, dead, items, active, lock, tombLock,
                   sweeping, phase>>

\* #commitStage up to its first await
CommitStage(t) ==
    /\ op[t] = "committing" /\ lock[t[2]] = Nobody
    /\ IF ~Ready \/ entry[t[2]].deleting \/ (~entry[t[2]].here /\ t[2] \in stray)
       THEN Goto(t, "failed") /\ reserved' = reserved - 1 /\ UNCHANGED lock
       ELSE /\ Take(t[2], t) /\ UNCHANGED reserved
            /\ Goto(t, IF entry[t[2]].here THEN "matching" ELSE "building")
    /\ UNCHANGED <<entry, stray, dead, items, active, tombLock, sweeping, phase>>

\* #verifyEntry of content that is there already: the stage ends as a hold on it.
Match(t, sound) ==
    /\ op[t] = "matching" /\ Free(t[2]) /\ reserved' = reserved - 1
    /\ IF sound THEN Held(t) /\ Goto(t, "staged")
                ELSE Goto(t, "failed") /\ UNCHANGED <<entry, active>>
    /\ UNCHANGED <<stray, dead, items, tombLock, sweeping, phase>>

\* The directory and its manifest are written: a new entry, not yet published.
\* A failure removes the directory, and the removal may fail.
Build(t, whole, removed) ==
    /\ op[t] = "building" /\ Free(t[2]) /\ reserved' = reserved - 1
    /\ IF whole /\ Ready
       THEN /\ entry' = [entry EXCEPT ![t[2]] = [Absent EXCEPT !.here = TRUE, !.holds = 1]]
            /\ items' = items + 1 /\ active' = active \cup {t} /\ Goto(t, "staged")
            /\ UNCHANGED stray
       ELSE /\ Goto(t, "failed") /\ stray' = IF removed THEN stray ELSE stray \cup {t[2]}
            /\ UNCHANGED <<entry, items, active>>
    /\ UNCHANGED <<dead, tombLock, sweeping, phase>>

\* publish(): the token is checked when it is called and again under the lock.
Publish(t) ==
    /\ op[t] = "staged"
    /\ Goto(t, IF Ready /\ t \in active THEN "publish" ELSE "failed")
    /\ UNCHANGED <<entry, stray, dead, items, reserved, active, lock, tombLock,
                   sweeping, phase>>

PublishLocked(t) ==
    /\ op[t] = "publish" /\ lock[t[2]] = Nobody
    /\ IF t \notin active \/ ~entry[t[2]].here \/ entry[t[2]].deleting
       THEN Goto(t, "failed") /\ UNCHANGED lock
       ELSE IF entry[t[2]].published
       THEN Goto(t, "held") /\ UNCHANGED lock
       ELSE Take(t[2], t) /\ Goto(t, "publishing")
    /\ UNCHANGED <<entry, stray, dead, items, reserved, active, tombLock,
                   sweeping, phase>>

\* The entry is verified and its manifest rewritten.
Published(t, written) ==
    /\ op[t] = "publishing" /\ Free(t[2])
    /\ IF written
       THEN Goto(t, "held") /\ entry' = [entry EXCEPT ![t[2]].published = TRUE]
       ELSE Goto(t, "failed") /\ UNCHANGED entry
    /\ UNCHANGED <<stray, dead, items, reserved, active, tombLock, sweeping, phase>>

-----------------------------------------------------------------------------
(* Downloads. *)

\* pinByDigest() and #pinInternal: the pin is counted before anything is awaited.
Pin(t) ==
    /\ t[1] \in Reader /\ op[t] = "none" /\ Ready
    /\ \A k \in Key : op[<<t[1], k>>] = "none"
    /\ entry[t[2]].here /\ ~entry[t[2]].deleting /\ entry[t[2]].published
    /\ entry' = [entry EXCEPT ![t[2]].pins = @ + 1] /\ Goto(t, "opening")
    /\ UNCHANGED <<stray, dead, items, reserved, active, lock, tombLock, sweeping, phase>>

\* The blob is verified and its stream opened, or the pin is given back.
Open(t, opened) ==
    /\ op[t] = "opening"
    /\ IF opened
       THEN Goto(t, "streaming") /\ active' = active \cup {t} /\ UNCHANGED entry
       ELSE /\ Goto(t, "none") /\ UNCHANGED active
            /\ entry' = [entry EXCEPT ![t[2]].pins = IF @ = 0 THEN 0 ELSE @ - 1]
    /\ UNCHANGED <<stray, dead, items, reserved, lock, tombLock, sweeping, phase>>

-----------------------------------------------------------------------------
(* Release. *)

Ended(t) == IF IsHold(t) THEN "released" ELSE "none"

\* release() of each token of a set: an inactive token is released already.
ReleaseAll(ts) ==
    /\ \A t \in ts : op[t] \in {"staged", "held", "failed", "streaming", "unreleased", "lost", "released"}
    /\ active' = active \ ts
    /\ op' = [t \in Token |-> IF t \notin ts THEN op[t]
                             ELSE IF t \in active THEN "releasing" ELSE Ended(t)]
    /\ UNCHANGED <<entry, stray, dead, items, reserved, lock, tombLock, sweeping, phase>>

Lowered(e, t) ==
    IF IsHold(t) THEN [e EXCEPT !.holds = IF @ = 0 THEN 0 ELSE @ - 1]
                 ELSE [e EXCEPT !.pins = IF @ = 0 THEN 0 ELSE @ - 1]

\* The fault of deleting an unpublished entry whatever else is held on it.
LastWithoutCounts(e) == ~e.published /\ ~e.deleting

\* An unpublished entry goes with the last that holds it.
Last(e) == ~e.published /\ e.holds = 0 /\ e.pins = 0 /\ ~e.deleting

\* #releaseInternal under the digest lock
ReleaseLocked(t) ==
    /\ op[t] = "releasing" /\ lock[t[2]] = Nobody
    /\ LET e == Lowered(entry[t[2]], t)
           deletes == entry[t[2]].here /\ Last(e)
       IN  /\ entry' = [entry EXCEPT ![t[2]] = IF ~@.here THEN @ ELSE [e EXCEPT !.deleting = @ \/ deletes]]
           /\ IF deletes THEN Take(t[2], t) /\ Goto(t, "deleting")
                         ELSE Goto(t, Ended(t)) /\ UNCHANGED lock
    /\ UNCHANGED <<stray, dead, items, reserved, active, tombLock, sweeping, phase>>

-----------------------------------------------------------------------------
(* Deleting an entry: of a release, and of gc(). *)

\* #deleteEntry asks for the tombstone lock and renames the directory.
Delete(t) ==
    /\ op[t] = "deleting" /\ tombLock = Nobody
    /\ tombLock' = t /\ Goto(t, "renaming")
    /\ UNCHANGED <<entry, stray, dead, items, reserved, active, lock, sweeping, phase>>

\* The fault of a restored token that is not counted again.
RestoredWithoutHold(e) == [e EXCEPT !.deleting = FALSE]

\* What a failed release leaves of its entry
Restored(e) == [e EXCEPT !.deleting = FALSE, !.holds = @ + 1]

\* The directory is renamed and the entry forgotten.  A failure undoes the
\* release: the token is active again; gc() gives up.
Rename(t, renamed) ==
    /\ op[t] = "renaming"
    /\ IF renamed
       THEN /\ entry' = [entry EXCEPT ![t[2]] = Absent]
            /\ dead' = [dead EXCEPT ![t[2]] = @ + 1] /\ Goto(t, "removing")
            /\ UNCHANGED <<active, lock, tombLock>>
       ELSE /\ tombLock' = Nobody /\ Free(t[2]) /\ UNCHANGED dead
            /\ IF IsHold(t)
               THEN /\ entry' = [entry EXCEPT ![t[2]] = Restored(@)]
                    /\ active' = active \cup {t} /\ Goto(t, "unreleased")
               ELSE /\ entry' = [entry EXCEPT ![t[2]].deleting = FALSE]
                    /\ UNCHANGED active
                    /\ op' = [u \in Token |-> IF u[1] = Gc THEN "none" ELSE op[u]]
    /\ UNCHANGED <<stray, items, reserved, sweeping, phase>>

\* The fault of keeping the item of a removed tombstone in the count.
UncountedKept(n) == n

\* #removeTrackedTombstone lowers the count.
Uncounted(n) == n - 1

\* The renamed directory is removed; until it is, its item is counted.
Remove(t, removed) ==
    /\ op[t] = "removing" /\ tombLock' = Nobody /\ Free(t[2])
    /\ IF removed
       THEN /\ dead' = [dead EXCEPT ![t[2]] = @ - 1] /\ items' = Uncounted(items)
            /\ Goto(t, Ended(t))
       ELSE /\ UNCHANGED <<dead, items>>
            /\ op' = [u \in Token |-> IF u = t /\ IsHold(t) THEN "lost"
                                      ELSE IF u[1] = Gc /\ t[1] = Gc THEN "none" ELSE op[u]]
    /\ UNCHANGED <<entry, stray, reserved, active, sweeping, phase>>

\* gc(): the entries that can be collected are listed at once, then looked at
\* one by one after the tombstones of earlier failures are removed.
Collect ==
    /\ Ready /\ sweeping = "no" /\ \A k \in Key : op[<<Gc, k>>] = "none"
    /\ op' = [t \in Token |-> IF t[1] = Gc /\ Collectable(t[2]) THEN "collect" ELSE op[t]]
    /\ sweeping' = "asked"
    /\ UNCHANGED <<entry, stray, dead, items, reserved, active, lock, tombLock, phase>>

\* #cleanupBlobTombstones
Sweep ==
    /\ sweeping = "asked" /\ tombLock = Nobody /\ sweeping' = "running"
    /\ tombLock' = <<Gc>>
    /\ UNCHANGED <<entry, stray, dead, items, reserved, op, active, lock, phase>>

SweepOne(k, removed) ==
    /\ sweeping = "running" /\ dead[k] > 0
    /\ IF removed
       THEN dead' = [dead EXCEPT ![k] = @ - 1] /\ items' = Uncounted(items)
            /\ UNCHANGED <<op, tombLock, sweeping>>
       ELSE /\ op' = [t \in Token |-> IF t[1] = Gc THEN "none" ELSE op[t]]
            /\ tombLock' = Nobody /\ sweeping' = "no" /\ UNCHANGED <<dead, items>>
    /\ UNCHANGED <<entry, stray, reserved, active, lock, phase>>

Swept ==
    /\ sweeping = "running" /\ \A k \in Key : dead[k] = 0
    /\ tombLock' = Nobody /\ sweeping' = "no"
    /\ UNCHANGED <<entry, stray, dead, items, reserved, op, active, lock, phase>>

\* #gcInternal under the digest lock
CollectLocked(t) ==
    /\ op[t] = "collect" /\ sweeping = "no" /\ lock[t[2]] = Nobody
    /\ \A k \in Key : op[<<Gc, k>>] \notin Runs
    /\ IF Collectable(t[2])
       THEN /\ Take(t[2], t) /\ Goto(t, "deleting")
            /\ entry' = [entry EXCEPT ![t[2]].deleting = TRUE]
       ELSE Goto(t, "none") /\ UNCHANGED <<entry, lock>>
    /\ UNCHANGED <<stray, dead, items, reserved, active, tombLock, sweeping, phase>>

-----------------------------------------------------------------------------
(* Shutdown. *)

\* shutdown(): every token is given up at once; what runs is awaited.
Shutdown ==
    /\ Ready /\ phase' = "closing" /\ active' = {}
    /\ entry' = [k \in Key |-> [entry[k] EXCEPT
                     !.holds = @ - Cardinality({t \in active : IsHold(t) /\ t[2] = k}),
                     !.pins = @ - Cardinality({t \in active : ~IsHold(t) /\ t[2] = k})]]
    /\ UNCHANGED <<stray, dead, items, reserved, op, lock, tombLock, sweeping>>

InFlight(t) == op[t] \in Waits \cup Runs \cup {"writing", "opening"}

\* Nothing runs any more: unpublished entries are deleted and the store closed.
Close ==
    /\ phase = "closing" /\ sweeping = "no" /\ \A t \in Token : ~InFlight(t)
    /\ phase' = "closed" /\ reserved' = 0
    /\ LET drafts == {k \in Key : entry[k].here /\ ~entry[k].published}
       IN  /\ entry' = [k \in Key |-> IF k \in drafts THEN Absent ELSE entry[k]]
           /\ items' = items - Cardinality(drafts)
    /\ UNCHANGED <<stray, dead, op, active, lock, tombLock, sweeping>>

\* The steps the store takes by itself; ok is whether the file system obliges.
StoreStep(t) ==
    \/ Look(t) \/ CommitStage(t) \/ PublishLocked(t) \/ ReleaseLocked(t)
    \/ Delete(t) \/ CollectLocked(t)
    \/ \E ok \in BOOLEAN :
          \/ Verify(t, ok) \/ Write(t, ok) \/ Match(t, ok) \/ Published(t, ok)
          \/ Open(t, ok) \/ Rename(t, ok) \/ Remove(t, ok)
          \/ \E removed \in BOOLEAN : (ok => removed) /\ Build(t, ok, removed)

\* A stream ends, fails or is cancelled.
EndStream(t) == op[t] = "streaming" /\ ReleaseAll({t})

\* The steps gc() takes before it looks at an entry
SweepStep == Sweep \/ Swept \/ \E k \in Key, ok \in BOOLEAN : SweepOne(k, ok)

StoreNext ==
    \/ \E t \in Token : StoreStep(t) \/ EndStream(t) \/ Pin(t)
    \/ SweepStep \/ Collect \/ Shutdown \/ Close

-----------------------------------------------------------------------------
(* Properties. *)

StoreTypeOK ==
    /\ entry \in [Key -> [here : BOOLEAN, published : BOOLEAN, deleting : BOOLEAN,
                          holds : Nat, pins : Nat]]
    /\ stray \subseteq Key /\ dead \in [Key -> Nat] /\ items \in Nat /\ reserved \in Nat
    /\ op \in [Token -> PC] /\ active \subseteq Token
    /\ lock \in [Key -> Token \cup {Nobody}] /\ tombLock \in Token \cup {<<Gc>>, Nobody}
    /\ sweeping \in {"no", "asked", "running"} /\ phase \in {"ready", "closing", "closed"}

\* While the store is open, the counts of an entry are those of the tokens that
\* stand for them, at every await of every operation: an active token, a
\* release that has not had the lock, a pin whose stream is being opened.
\* (#createHold, #pinInternal, #releaseInternal and its restore)
CountsExact ==
    Ready => \A k \in Key :
        /\ entry[k].holds = Cardinality({t \in Token : IsHold(t) /\ t[2] = k
                                           /\ (t \in active \/ op[t] = "releasing")})
        /\ entry[k].pins = Cardinality({t \in Token : t[1] \in Reader /\ t[2] = k
                                          /\ (t \in active \/ op[t] \in {"opening", "releasing"})})

\* The quota is kept, and counts exactly what is or may come to be on the disk:
\* the entries, the tombstones whose removal failed, and a reservation for
\* every stage that still writes.  (#reserve, #removeTrackedTombstone)
QuotaExact ==
    /\ items + reserved <= MaxItems
    /\ phase # "closed" =>
       items = Cardinality({k \in Key : entry[k].here})
               + Cardinality(UNION {{k} \X (1..dead[k]) : k \in Key})
    /\ Ready => reserved = Cardinality({t \in Token :
                    op[t] \in {"writing", "committing", "matching", "building"}})
=============================================================================
