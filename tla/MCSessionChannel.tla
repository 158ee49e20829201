-------------------------- MODULE MCSessionChannel --------------------------
(***************************************************************************)
(* SessionChannel for TLC.  MCSpec explores three instances, each on its   *)
(* own: one connection that comes and goes while a runtime restarts, and a *)
(* Session that is forked while it is followed, by a browser that comes    *)
(* and goes and by one that is notified.                                   *)
(***************************************************************************)
EXTENDS SessionChannel

VARIABLE mix

Follow == INSTANCE SessionChannel WITH
  Handle <- {First}, Runtime <- {FirstRuntime},
  Happens <- {"state", "notify", "restart", "disconnect", "unsubscribe"}
Fork == INSTANCE SessionChannel WITH
  Happens <- {"lease", "fork", "open", "fail", "unsubscribe", "refresh"},
  MaxSeq <- 1, MaxInbox <- 1
ForkHeard == INSTANCE SessionChannel WITH
  Happens <- {"notify", "lease", "fork", "open", "fail", "refresh"},
  MaxSeq <- 1, MaxInbox <- 1

MCInit ==
  \/ mix = "follow" /\ Follow!Init
  \/ mix \in {"fork", "forkHeard"} /\ Fork!Init
MCNext ==
  /\ \/ mix = "follow" /\ Follow!Next
     \/ mix = "fork" /\ Fork!Next
     \/ mix = "forkHeard" /\ ForkHeard!Next
  /\ UNCHANGED mix
MCSpec == MCInit /\ [][MCNext]_<<vars, mix>>

\* A subscriber sees what its runtime published, all of it that a view keeps,
\* in every instance.
ViewsExact == IF mix = "follow" THEN Follow!TypeOK /\ Follow!ViewExact ELSE TypeOK /\ ViewExact

\* A connection shows the lease the supervisor has, in every instance.
LeasesExact == IF mix = "follow" THEN Follow!LeaseExact ELSE LeaseExact

\* A subscriber of a Session that stays where it is is served, and notified.
FollowerServed == mix = "follow" => Follow!Served /\ Follow!NotifyDelivered

=============================================================================
