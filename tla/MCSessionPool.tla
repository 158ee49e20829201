--------------------------- MODULE MCSessionPool ---------------------------
(***************************************************************************)
(* SessionPool for TLC.  MCSpec explores four mixes of operations, each on  *)
(* its own: commands that start and evict processes, activations with      *)
(* restarts, idle sweeps and shutdown, the creation of Sessions and the    *)
(* removal from their workspace, and the operations that rename and delete *)
(* Sessions, which are the Requests of the configuration.                  *)
(***************************************************************************)
EXTENDS SessionPool, TLC

VARIABLE mix

Processes == INSTANCE SessionPool WITH
  Persisted <- Handle, Requests <- {"command"}
Upkeep == INSTANCE SessionPool WITH
  Persisted <- Handle, Requests <- {"view", "restart", "reap", "stopAll"}
Workspaces == INSTANCE SessionPool WITH
  Requests <- {"create", "delete", "abandon", "remove", "reap", "stopAll"}

MCInit ==
  \/ mix \in {"processes", "upkeep"} /\ Processes!Init
  \/ mix \in {"workspaces", "identities"} /\ Init
MCNext ==
  /\ \/ mix = "processes" /\ Processes!Next
     \/ mix = "upkeep" /\ Upkeep!Next
     \/ mix = "workspaces" /\ Workspaces!Next
     \/ mix = "identities" /\ Next
  /\ UNCHANGED mix
MCSpec == MCInit /\ [][MCNext]_<<vars, mix>>

\* The operations that the configuration asks for.
GivenSpec == Init /\ mix = "identities" /\ [][Next /\ UNCHANGED mix]_<<vars, mix>>

Symmetry == Permutations(Task) \union Permutations(Runtime)
=============================================================================
