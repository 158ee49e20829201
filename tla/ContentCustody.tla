--------------------------- MODULE ContentCustody ---------------------------
(***************************************************************************)
(* Who answers for a hold on content.  A frame of Pi's output takes a hold *)
(* on each content it carries, or gives all back; then a lease, a transfer *)
(* in the ledger of a fork, or the owner of the Session's generation has   *)
(* them, and the owner keeps one hold of each content.                     *)
(***************************************************************************)
EXTENDS ContentStore, Sequences

S == INSTANCE SequencesExt

CONSTANTS
    Wants,      \* the content of each frame, in the order it is met
    MaxHeld     \* maxHeldItems of the ledger

VARIABLES
    frame,      \* where each frame's holds are
    at,         \* the content a frame is acquiring, or the hold it releases
    ledger,     \* TransitionPayloadLedger: currentState
    admitted,   \* entries: frames, in the order they were admitted
    owner,      \* GenerationContentOwner: state
    reachable,  \* byContentKey
    primary,    \* primaryHolds
    duplicates, \* duplicateHolds
    cleaning,   \* duplicateCleanupInFlight
    attempt     \* release() of the owner: its step, the hold it is at, a failure

custodyVars == <<frame, at, ledger, admitted, owner, reachable, primary, duplicates,
                 cleaning, attempt>>
vars == <<storeVars, custodyVars>>

-----------------------------------------------------------------------------
(* Data. *)

FrameState == {"new", "building", "failing", "failed", "leased", "pending", "dropping",
               "dropped", "adopted"}
Settled == {"released", "unreleased", "lost"}
Failure == {"unreleased", "lost"}

Hold(f) == <<f, Wants[f][at[f]]>>
Holds(f) == {<<f, Wants[f][i]>> : i \in 1..Len(Wants[f])}
Tokens(f) == [i \in 1..Len(Wants[f]) |-> <<f, Wants[f][i]>>]
Ranged(s) == {s[i] : i \in 1..Len(s)}
KeysOf(ts) == {t[2] : t \in ts}

Rest == [pc |-> "none", index |-> 0, failed |-> FALSE]

-----------------------------------------------------------------------------
(* externalizePiPayload: a frame acquires its content, one after another. *)

Init ==
    /\ StoreInit
    /\ frame = [f \in Frame |-> "new"] /\ at = [f \in Frame |-> 1]
    /\ ledger = "open" /\ admitted = <<>>
    /\ owner = "active" /\ reachable = {} /\ primary = <<>>
    /\ duplicates = {} /\ cleaning = {} /\ attempt = Rest

LaterUnchanged ==
    UNCHANGED <<ledger, admitted, owner, reachable, primary, duplicates, cleaning, attempt>>

Begin(f) ==
    /\ frame[f] = "new" /\ frame' = [frame EXCEPT ![f] = "building"]
    /\ HoldPublished(Hold(f)) /\ UNCHANGED at /\ LaterUnchanged

\* acquireExactContent and acquireExactUtf8Content: what is not published is
\* staged and published; an abort is noticed between the two.
Acquire(f) ==
    /\ frame[f] = "building" /\ (Stage(Hold(f)) \/ Publish(Hold(f)))
    /\ UNCHANGED <<frame, at>> /\ LaterUnchanged

\* The next content of the frame, or its lease when the product guard accepts it.
Advance(f) ==
    /\ frame[f] = "building" /\ op[Hold(f)] = "held"
    /\ IF at[f] < Len(Wants[f])
       THEN /\ at' = [at EXCEPT ![f] = @ + 1] /\ HoldPublished(<<f, Wants[f][at[f] + 1]>>)
            /\ UNCHANGED frame
       ELSE frame' = [frame EXCEPT ![f] = "leased"] /\ UNCHANGED <<at, storeVars>>
    /\ LaterUnchanged

\* The fault of a failure that forgets the hold it was about to publish.
FailedFromBefore(f) == [at EXCEPT ![f] = IF @ = 1 THEN 1 ELSE @ - 1]

\* releaseHolds starts from the last hold the frame has taken.
FailedFrom(f) == at

\* An operation failed, or an abort or the product guard ends the frame.
FailFrame(f) ==
    /\ frame[f] = "building" /\ op[Hold(f)] \in {"failed", "missed", "staged", "held"}
    /\ frame' = [frame EXCEPT ![f] = "failing"] /\ at' = FailedFrom(f)
    /\ op' = [op EXCEPT ![Hold(f)] = IF @ = "missed" THEN "failed" ELSE @]
    /\ UNCHANGED <<entry, stray, dead, items, reserved, active, lock, tombLock, sweeping, phase>>
    /\ LaterUnchanged

\* releaseHolds: the holds are released in reverse, each awaited; a failure
\* does not stop it.
ReleaseHolds(f) ==
    /\ frame[f] \in {"failing", "dropping"}
    /\ op[Hold(f)] \in {"failed", "staged", "held"} /\ ReleaseAll({Hold(f)})
    /\ UNCHANGED <<frame, at>> /\ LaterUnchanged

\* The fault of an index that runs one too far.
BeforeIsTooFar(f) == at[f] > 0

\* Another hold is left below the one just released.
Before(f) == at[f] > 1

HoldReleased(f) ==
    /\ frame[f] \in {"failing", "dropping"} /\ op[Hold(f)] \in Settled
    /\ IF Before(f)
       THEN at' = [at EXCEPT ![f] = @ - 1] /\ UNCHANGED frame
       ELSE frame' = [frame EXCEPT ![f] = IF @ = "failing" THEN "failed" ELSE "dropped"]
            /\ UNCHANGED at
    /\ UNCHANGED storeVars /\ LaterUnchanged

-----------------------------------------------------------------------------
(* GenerationContentOwner: adoption. *)

\* What an adoption of the tokens s leaves: the first hold of each content is
\* kept, the others are released at once.
Additions(s) ==
    {s[i] : i \in {j \in 1..Len(s) : /\ s[j][2] \notin reachable
                                     /\ \A m \in 1..(j - 1) : s[m][2] # s[j][2]}}
Duplicates(s) == Ranged(s) \ Additions(s)

Adopted(s) ==
    /\ reachable' = reachable \cup KeysOf(Ranged(s))
    /\ primary' = primary \o SelectSeq(s, LAMBDA t : t \in Additions(s))
    /\ duplicates' = duplicates \cup Duplicates(s)
    /\ cleaning' = cleaning \cup Duplicates(s)
    /\ ReleaseAll(Duplicates(s))

\* A frame of the current generation is adopted before its value is used.
Adopt(f) ==
    /\ frame[f] = "leased" /\ owner = "active"
    /\ frame' = [frame EXCEPT ![f] = "adopted"] /\ Adopted(Tokens(f))
    /\ UNCHANGED <<at, ledger, admitted, owner, attempt>>

\* A frame that is late, stale, refused or ownerless gives its holds back.
Drop(f) ==
    /\ frame[f] = "leased" /\ frame' = [frame EXCEPT ![f] = "dropping"]
    /\ UNCHANGED <<at, storeVars>> /\ LaterUnchanged

\* poison: an owner that still has a use is of none
Poison == owner' = IF owner \in {"active", "sealed"} THEN "poisoned" ELSE owner

\* releaseDuplicate
DuplicateReleased(t) ==
    /\ t \in cleaning /\ op[t] \in Settled /\ cleaning' = cleaning \ {t}
    /\ IF op[t] = "released" THEN duplicates' = duplicates \ {t} /\ UNCHANGED owner
                             ELSE Poison /\ UNCHANGED duplicates
    /\ UNCHANGED <<frame, at, ledger, admitted, reachable, primary, attempt, storeVars>>

\* seal(): the content of a crashed runtime stays reachable.
Seal ==
    /\ owner = "active" /\ owner' = "sealed"
    /\ UNCHANGED <<frame, at, ledger, admitted, reachable, primary, duplicates, cleaning,
                   attempt, storeVars>>

-----------------------------------------------------------------------------
(* GenerationContentOwner: release, and again after a failure. *)

OwnerRelease ==
    /\ owner # "closed" /\ attempt.pc = "none"
    /\ owner' = "closing" /\ reachable' = {}
    /\ attempt' = [Rest EXCEPT !.pc = "cleanups"]
    /\ UNCHANGED <<frame, at, ledger, admitted, primary, duplicates, cleaning, storeVars>>

\* The fault of asserting, after the wait, an activity that release() ended.
CleanedUpIfActive == cleaning = {} /\ owner \in {"active", "sealed"}

\* Promise.all of the cleanups that run
CleanedUp == cleaning = {}

\* The cleanups that run are awaited, then duplicates that failed are retried.
RetryDuplicates ==
    /\ attempt.pc = "cleanups" /\ CleanedUp
    /\ attempt' = [attempt EXCEPT !.pc = "duplicates"] /\ ReleaseAll(duplicates)
    /\ UNCHANGED <<frame, at, ledger, admitted, owner, reachable, primary, duplicates, cleaning>>

\* The attempt goes on to the primary hold with index n, or ends.
Onward(n, failed) ==
    IF n > 0
    THEN /\ attempt' = [pc |-> "primaries", index |-> n, failed |-> failed]
         /\ ReleaseAll({primary[n]}) /\ UNCHANGED <<owner, primary>>
    ELSE /\ attempt' = Rest /\ UNCHANGED storeVars
         /\ owner' = IF failed THEN "poisoned" ELSE "closed"
         /\ primary' = IF failed THEN primary ELSE <<>>

DuplicatesSettled ==
    /\ attempt.pc = "duplicates" /\ \A t \in duplicates : op[t] \in Settled
    /\ duplicates' = {t \in duplicates : op[t] # "released"}
    /\ Onward(Len(primary), duplicates' # {})
    /\ UNCHANGED <<frame, at, ledger, admitted, reachable, cleaning>>

\* The primary holds are released one by one, the last adopted first.
PrimaryReleased ==
    /\ attempt.pc = "primaries" /\ op[primary[attempt.index]] \in Settled
    /\ Onward(attempt.index - 1, attempt.failed \/ op[primary[attempt.index]] \in Failure)
    /\ UNCHANGED <<frame, at, ledger, admitted, reachable, duplicates, cleaning>>

-----------------------------------------------------------------------------
(* TransitionPayloadLedger. *)

Pending == {f \in Ranged(admitted) : frame[f] = "pending"}
HeldItems == Cardinality(UNION {Holds(f) : f \in Ranged(admitted)})

\* admit(): a frame that does not fit stays with the sender, who drops it.
Admit(f) ==
    /\ frame[f] = "leased" /\ ledger = "open"
    /\ HeldItems + Len(Wants[f]) <= MaxHeld
    /\ frame' = [frame EXCEPT ![f] = "pending"] /\ admitted' = Append(admitted, f)
    /\ UNCHANGED <<at, ledger, owner, reachable, primary, duplicates, cleaning, attempt, storeVars>>

\* drainTo(): every frame is adopted in turn, or, when the owner is not active,
\* none is.
DrainTo ==
    /\ ledger = "open"
    /\ IF owner = "active"
       THEN /\ ledger' = "drained"
            /\ frame' = [f \in Frame |-> IF f \in Pending THEN "adopted" ELSE frame[f]]
            /\ Adopted(S!FlattenSeq([i \in 1..Len(admitted) |-> Tokens(admitted[i])]))
       ELSE /\ ledger' = IF Pending = {} THEN "drained" ELSE "drain_failed"
            /\ UNCHANGED <<frame, reachable, primary, duplicates, cleaning, storeVars>>
    /\ UNCHANGED <<at, admitted, owner, attempt>>

\* releaseRemaining(): every frame the ledger still has starts to be released.
ReleaseRemaining ==
    /\ ledger \in {"open", "drain_failed"} /\ ledger' = "releasing"
    /\ frame' = [f \in Frame |-> IF f \in Pending THEN "dropping" ELSE frame[f]]
    /\ UNCHANGED <<at, admitted, owner, reachable, primary, duplicates, cleaning, attempt, storeVars>>

RemainingReleased ==
    /\ ledger = "releasing" /\ \A f \in Ranged(admitted) : frame[f] # "dropping"
    /\ ledger' = IF \E f \in Ranged(admitted), t \in Token :
                       frame[f] = "dropped" /\ t[1] = f /\ op[t] \in Failure
                 THEN "release_failed" ELSE "released"
    /\ UNCHANGED <<frame, at, admitted, owner, reachable, primary, duplicates, cleaning,
                   attempt, storeVars>>

-----------------------------------------------------------------------------

FrameStep(f) ==
    \/ Begin(f) \/ Acquire(f) \/ Advance(f) \/ FailFrame(f)
    \/ ReleaseHolds(f) \/ HoldReleased(f)
    \/ Adopt(f) \/ Admit(f) \/ Drop(f)

OwnerStep ==
    \/ RetryDuplicates \/ DuplicatesSettled \/ PrimaryReleased \/ \E t \in cleaning : DuplicateReleased(t)

CustodyStep ==
    \/ \E f \in Frame : FrameStep(f)
    \/ Seal \/ OwnerRelease \/ OwnerStep
    \/ DrainTo \/ ReleaseRemaining \/ RemainingReleased

Next ==
    \/ StoreNext /\ UNCHANGED custodyVars
    \/ CustodyStep

\* Promises settle and their continuations run, of frames and the owner, and of
\* a collection; nothing waits for a download to end.
OwnWork ==
    \/ (\E t \in Frame \X Key : StoreStep(t)) /\ UNCHANGED custodyVars
    \/ \E f \in Frame : FrameStep(f)
    \/ OwnerStep
CollectorWork ==
    (SweepStep \/ \E t \in {Gc} \X Key : StoreStep(t)) /\ UNCHANGED custodyVars
Fairness == WF_vars(OwnWork) /\ WF_vars(CollectorWork)

Spec == Init /\ [][Next]_vars
FairSpec == Spec /\ Fairness

-----------------------------------------------------------------------------
(* Properties. *)

TypeOK ==
    /\ StoreTypeOK
    /\ frame \in [Frame -> FrameState] /\ \A f \in Frame : at[f] \in 1..Len(Wants[f])
    /\ ledger \in {"open", "drained", "drain_failed", "releasing", "released", "release_failed"}
    /\ Ranged(admitted) \subseteq Frame
    /\ owner \in {"active", "sealed", "closing", "closed", "poisoned"}
    /\ reachable \subseteq Key /\ Ranged(primary) \subseteq Token
    /\ duplicates \subseteq Token /\ cleaning \subseteq Token

\* The accounts of the store: its counts and its quota.
Accounts == TypeOK /\ CountsExact /\ QuotaExact

\* Content that someone holds, streams or made reachable in a generation stays:
\* while the store is open it is there and is not being deleted, whatever
\* other frames, forks, downloads and collections do; what is reachable is
\* published.  (GenerationContentOwner.adopt, #releaseInternal, gc(), #pinInternal)
ContentKept ==
    Ready => /\ \A k \in reachable \cup {t[2] : t \in active} :
                   entry[k].here /\ ~entry[k].deleting
             /\ \A k \in reachable : entry[k].published

\* Every hold has exactly one custodian who will release it: the frame that is
\* acquiring or giving back, the lease or the ledger, or the owner; only a hold
\* whose release failed can be left.  (externalizePiPayload's rollback,
\* PiPayloadLeaseTransfer.adopt, TransitionPayloadLedger.drainTo)
CustodyExact ==
    \A t \in active : IsHold(t) /\ op[t] # "unreleased" =>
        \/ /\ frame[t[1]] \in {"building", "failing", "dropping"}
           /\ t \in {Tokens(t[1])[i] : i \in 1..at[t[1]]}
        \/ frame[t[1]] \in {"leased", "pending"}
        \/ frame[t[1]] = "adopted" /\ t \in Ranged(primary) \cup duplicates

\* A release of the owner always ends, whatever of the store's file system
\* fails: it waits for cleanups and for the locks of the store.  If it ends closed
\* every hold was given back; one that could not give all back would leave the
\* owner poisoned with the rest.  (GenerationContentOwner.release,
\* #releaseInternal, #withDigestLock)
OwnerReleaseEnds ==
    []<>(owner # "closing" /\ (owner = "closed" => primary = <<>> /\ duplicates = {}))
=============================================================================
