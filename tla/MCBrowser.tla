----------------------------- MODULE MCBrowser -----------------------------
(***************************************************************************)
(* Two parts of the browser side by side in one run: the stream of one     *)
(* Session and the connection to the gateway.  `part` says which one       *)
(* moves; the other stays where it began.                                  *)
(***************************************************************************)
EXTENDS BrowserStream

CONSTANTS MaxEpoch, MaxGateway

ASSUME BrowserBounds == MaxEpoch \in Nat \ {0} /\ MaxGateway \in Nat \ {0}

VARIABLES
  phase, shown, epoch, accepted, enabled, socket, content, helloTimer, retryTimer,
  authOwner, authPending, waiting, disposed, ws, peer, hello, inbox, conn, alive, gateway,
  speaks, lateHello,
  part

Connection == INSTANCE GatewayConnection

connectionVars ==
  <<phase, shown, epoch, accepted, enabled, socket, content, helloTimer, retryTimer,
    authOwner, authPending, waiting, disposed, ws, peer, hello, inbox, conn, alive, gateway,
    speaks, lateHello>>
all == <<vars, connectionVars, part>>

Streams(A) == part = "stream" /\ A /\ UNCHANGED <<connectionVars, part>>
Connects(A) == part = "connection" /\ A /\ UNCHANGED <<vars, part>>

MCInit ==
  /\ Init
  /\ Connection!Init
  /\ part \in {"stream", "connection"}
  /\ part = "stream" => speaks = {}
MCNext == Streams(Next) \/ Connects(Connection!Next)

\* With the fairness of both.
MCSpec ==
  /\ MCInit
  /\ [][MCNext]_all
  /\ WF_all(Streams(Runs) \/ Connects(Connection!RetryTimer))
  /\ WF_all(Connects(Connection!Answered))
  /\ \A e \in Connection!Epoch : WF_all(Connects(Connection!Beat(e)))

\* Recovers of BrowserStream, when the stream is the part that moves.
StreamRecovers == <>[](part = "stream" => Settled)

\* What the browser shows of the connection is so: online on one socket that is
\* spoken for, never without a way back, and incompatible only with a gateway
\* that is (GatewayConnection).
ConnectionExact ==
  /\ Connection!TypeOK /\ Connection!OnlineExact /\ Connection!NeverStranded
  /\ Connection!IncompatibleOnlyIfSo

\* Those of GatewayConnection: a browser that wants a connection comes to have
\* one, and the gateway is rid of a connection whose socket is gone.
Reconnects == Connection!Reconnects
PeersReaped == Connection!PeersReaped
=============================================================================
