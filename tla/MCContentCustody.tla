-------------------------- MODULE MCContentCustody --------------------------
(***************************************************************************)
(* What a browser is shown of a Session, and the content it refers to, side  *)
(* by side in one run.  Two frames share content 1, in three scenarios: with    *)
(* downloads and collections, with the ledger of a fork, and with a shutdown of   *)
(* the store.  In a fourth the transcript of one Session moves instead.             *)
(***************************************************************************)
EXTENDS ContentCustody

CONSTANTS MaxSuffix, MaxRuns, MaxSteps, MaxDeltas, MaxExtras, MaxPipe, MaxLag, Stops

VARIABLES
  messages, pi, commands, out, proj, compaction, turns, up, link, page, extras,
  scenario

Projection == INSTANCE LiveProjection
projectionVars == <<messages, pi, commands, out, proj, compaction, turns, up, link, page, extras>>

MCWants == [f \in Frame |-> IF f = CHOOSE g \in Frame : TRUE THEN <<1, 2>> ELSE <<1>>]
MCInit == Init /\ Projection!Init /\ scenario \in {"downloads", "forks", "shutdown", "transcript"}
Stores ==
    /\ scenario # "transcript" /\ Next /\ UNCHANGED <<projectionVars, scenario>>
    /\ scenario # "downloads" => sweeping' = "no" /\ \A k \in Key : entry'[k].pins = 0
    /\ scenario # "forks" => ledger' = "open" /\ admitted' = <<>>
    /\ scenario # "shutdown" => phase' = "ready"
Shows == scenario = "transcript" /\ Projection!Next /\ UNCHANGED <<vars, scenario>>
MCSpec == MCInit /\ [][Stores \/ Shows]_<<vars, projectionVars, scenario>> /\ Fairness

\* The store counts what it keeps and keeps what is counted on, and every hold a
\* frame was given is in one place (ContentCustody).
StoreExact == Accounts /\ ContentKept /\ CustodyExact

\* A browser that joins is shown what one that followed every event shows, and
\* when Pi rests that is Pi's own conversation (LiveProjection).
TranscriptExact == Projection!TranscriptExact
=============================================================================
