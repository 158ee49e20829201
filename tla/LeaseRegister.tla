--------------------------- MODULE LeaseRegister ---------------------------
(***************************************************************************)
(* What the lease authority promises of each Session, without handles that *)
(* are rekeyed, revisions, requests or restarts: a register that holds one *)
(* owner or none.                                                          *)
(*                                                                         *)
(* A free register is granted, a held one is replaced by another           *)
(* connection, and any set of them may be revoked.  Each grant draws its   *)
(* fencing token.  The process behind a Session may change at any time,    *)
(* and the new one is unowned.                                             *)
(***************************************************************************)
EXTENDS Naturals

CONSTANTS Handle, Conn, None

VARIABLES
    owner,  \* the accepted owner of each Session, or None
    life,   \* the process generation behind each Session
    drawn   \* fencing tokens drawn

vars == <<owner, life, drawn>>

Init ==
    /\ owner = [h \in Handle |-> None]
    /\ life = [h \in Handle |-> <<>>]
    /\ drawn = 0

Install(h, c) ==
    /\ owner' = [owner EXCEPT ![h] = [connectionId |-> c, fencingToken |-> drawn]]
    /\ drawn' = drawn + 1
    /\ UNCHANGED life

Grant(h, c) == owner[h] = None /\ Install(h, c)

Replace(h, c) == owner[h] # None /\ owner[h].connectionId # c /\ Install(h, c)

\* Any of them lose their owner.  A grant that an exhausted revision refuses has
\* drawn its token already.
Revoke ==
    /\ UNCHANGED life
    /\ drawn' \in {drawn, drawn + 1}
    /\ owner' = [h \in Handle |-> owner'[h]]
    /\ \A h \in Handle : owner'[h] \in {owner[h], None}

\* Any of them get a new process, and lose their owner with the old one.
NewProcess ==
    /\ UNCHANGED drawn
    /\ owner' = [h \in Handle |-> owner'[h]]
    /\ life' = [h \in Handle |-> life'[h]]
    /\ \A h \in Handle :
         owner'[h] = None \/ (owner'[h] = owner[h] /\ life'[h] = life[h])

Next ==
    \/ Revoke \/ NewProcess
    \/ \E h \in Handle, c \in Conn : Grant(h, c) \/ Replace(h, c)

Spec == Init /\ [][Next]_vars
=============================================================================
