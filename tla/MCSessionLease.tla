--------------------------- MODULE MCSessionLease ---------------------------
(***************************************************************************)
(* SessionLease for TLC, in two parts, each on its own.  Races: one        *)
(* Session, its claims, takeovers, releases, restarts, deletion and a      *)
(* second runtime.  Fork: one runtime that forks from one Session to       *)
(* another, with fewer tokens.  `part` says which of the two it is.        *)
(***************************************************************************)
EXTENDS SessionLease, TLC

CONSTANT MaxForkToken   \* bound of the exploration: fencing tokens of the second part

VARIABLE part

Sessions == deleting \union {h \in Handle : \E r \in Runtime : sessionHandle[r] = h}
Started == {r \in Runtime : phase[r] # "unborn"}

MCInit == Init /\ part \in {"races", "fork"}
MCNext ==
  /\ Next /\ UNCHANGED part
  /\ part = "races" => Cardinality(Sessions') <= 1
  /\ part = "fork" => Cardinality(Started') <= 1 /\ nextToken' <= MaxForkToken
MCSpec == MCInit /\ [][MCNext]_<<vars, part>>

Symmetry == Permutations(Handle) \union Permutations(Conn) \union Permutations(Runtime)
=============================================================================
