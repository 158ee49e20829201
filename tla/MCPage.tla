------------------------------- MODULE MCPage -------------------------------
(***************************************************************************)
(* Parts of the page that are only asked what they may never do, side by   *)
(* side in one run: the directory of the Sessions, the control of one and  *)
(* the recovery of the hot ones.  `part` says which one moves; the others  *)
(* stay where they began.                                                  *)
(***************************************************************************)
EXTENDS SessionDirectory, BrowserControl

CONSTANTS Hot, Nothing, Happens, MaxAttempts, MaxBudget

VARIABLES
  r_generation, r_hot, r_transitioning, r_refresh, r_inventory, r_revision, r_live, r_catchUp,
  r_up, r_down, r_browser, r_budget,
  part

Recovery == INSTANCE HotRecovery WITH
  Session <- Hot, MaxInFlight <- 2,
  generation <- r_generation, hot <- r_hot, transitioning <- r_transitioning,
  refresh <- r_refresh, inventory <- r_inventory, revision <- r_revision, live <- r_live,
  catchUp <- r_catchUp, up <- r_up, down <- r_down, browser <- r_browser, budget <- r_budget

recoveryVars ==
  <<r_generation, r_hot, r_transitioning, r_refresh, r_inventory, r_revision, r_live, r_catchUp,
    r_up, r_down, r_browser, r_budget>>
all == <<vars, controlVars, recoveryVars, part>>

MCInit ==
  Init /\ ControlInit /\ Recovery!Init /\ part \in {"directory", "control", "recovery"}

Directs(A) == part = "directory" /\ A /\ UNCHANGED <<controlVars, recoveryVars, part>>
Controls(A) == part = "control" /\ A /\ UNCHANGED <<vars, recoveryVars, part>>
Recovers(A) == part = "recovery" /\ A /\ UNCHANGED <<vars, controlVars, part>>

MCSpec == MCInit /\ [][Directs(Next) \/ Controls(ControlNext) \/ Recovers(Recovery!Next)]_all

\* Each of the three alone.
DirectorySpec == MCInit /\ part = "directory" /\ [][Directs(Next)]_all
ControlOnly == MCInit /\ part = "control" /\ [][Controls(ControlNext)]_all
RecoverySpec == MCInit /\ part = "recovery" /\ [][Recovers(Recovery!Next)]_all

\* Every hot Session is followed, and none waits for ever behind another
\* (HotRecovery).
RecoveryExact == Recovery!TypeOK /\ Recovery!RecoveryExact
NoneBlocked == Recovery!NoneBlocked
=============================================================================
