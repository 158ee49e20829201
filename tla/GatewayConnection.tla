-------------------------- MODULE GatewayConnection --------------------------
(***************************************************************************)
(* The connection between one browser and the gateway: the browser's       *)
(* connection machine with its timers and its re-authentication            *)
(* (connection-machine.ts and the driver in session-transport.ts), the     *)
(* sockets it opens, and the gateway's side of the handshake               *)
(* (session-ws-bridge.ts: handleConnection, handleClientHello, heartbeat,  *)
(* disconnect).  Sockets fail at any moment, the gateway may restart, and  *)
(* the page may connect, disconnect or dispose of the transport.  A socket *)
(* is named by the socket epoch it was opened in.                          *)
(***************************************************************************)
EXTENDS Naturals, Sequences, FiniteSets

CONSTANTS
  MaxEpoch,      \* sockets the browser may open (socketEpoch is bounded)
  MaxGateway     \* incarnations of the gateway (server epochs)

VARIABLES
  phase,       \* the machine's phase
  shown,       \* observableState, which the store publishes as connectionState
  epoch,       \* socketEpoch
  accepted,    \* serverEpoch of the hello accepted on this socket, 0 for null
  enabled,     \* reconnectEnabled
  socket,      \* the transport's socket, 0 for null
  content,     \* serverEpoch of contentRefGuardContext, 0 for null
  helloTimer,  \* the socket the hello timer was started for, 0 for none
  retryTimer,  \* the epoch the reconnect timer was started for, 0 for none
  authOwner,   \* the epoch cancelReconnectAuthentication belongs to, 0 for none
  authPending, \* epochs whose reauthenticate() promise is unsettled
  waiting,     \* somebody awaits the initial inventory
  disposed,
  ws,          \* the network's view of each socket
  peer,        \* the gateway incarnation a socket leads to
  hello,       \* the client hello is on its way
  inbox,       \* frames on their way to the browser
  conn,        \* the gateway's connection object of a socket
  alive,       \* its heartbeat flag
  gateway,     \* the incarnation that runs
  speaks,      \* the incarnations that speak the browser's protocol
  lateHello    \* history: a hello timer ran out

machine == <<phase, shown, epoch, accepted, enabled>>
driver == <<socket, content, helloTimer, retryTimer, authOwner, authPending, waiting, disposed>>
network == <<ws, peer, hello, inbox, conn, alive, gateway, speaks>>
vars == <<machine, driver, network, lateHello>>

Epoch == 1..MaxEpoch
Frame == {"error", "hello", "inventory", "message"}

TypeOK ==
  /\ phase \in {"closed", "connecting", "awaiting-hello", "ready", "backoff", "terminal"}
  /\ shown \in {"idle", "connecting", "online", "offline", "incompatible"}
  /\ epoch \in 0..MaxEpoch /\ socket \in 0..MaxEpoch
  /\ accepted \in 0..MaxGateway /\ content \in 0..MaxGateway
  /\ enabled \in BOOLEAN /\ waiting \in BOOLEAN /\ disposed \in BOOLEAN /\ lateHello \in BOOLEAN
  /\ helloTimer \in 0..MaxEpoch /\ retryTimer \in 0..MaxEpoch /\ authOwner \in 0..MaxEpoch
  /\ authPending \subseteq Epoch
  /\ ws \in [Epoch -> {"none", "connecting", "open", "lost", "closed"}]
  /\ peer \in [Epoch -> 0..MaxGateway]
  /\ hello \subseteq Epoch
  /\ \A e \in Epoch : inbox[e] \in Seq(Frame)
  /\ conn \in [Epoch -> {"none", "greeting", "ready", "refusing", "closed"}]
  /\ alive \in [Epoch -> BOOLEAN]
  /\ gateway \in 1..MaxGateway
  /\ speaks \subseteq 1..MaxGateway

Init ==
  /\ phase = "closed" /\ shown = "idle" /\ epoch = 0 /\ accepted = 0 /\ enabled = FALSE
  /\ socket = 0 /\ content = 0 /\ helloTimer = 0 /\ retryTimer = 0
  /\ authOwner = 0 /\ authPending = {} /\ waiting = FALSE /\ disposed = FALSE
  /\ ws = [e \in Epoch |-> "none"] /\ peer = [e \in Epoch |-> 0]
  /\ hello = {} /\ inbox = [e \in Epoch |-> <<>>]
  /\ conn = [e \in Epoch |-> "none"] /\ alive = [e \in Epoch |-> TRUE]
  /\ gateway = 1 /\ speaks \in SUBSET (1..MaxGateway) /\ lateHello = FALSE

-----------------------------------------------------------------------------
\* The browser

\* close_socket: the handlers are removed first, so that nothing the socket
\* still delivers reaches the machine.
Closed(e) == [ws EXCEPT ![e] = "closed"]

\* openAuthenticatedSocket
OpenSocket(e) == socket' = e /\ ws' = [ws EXCEPT ![e] = "connecting"]

\* The fault: only a socket that had its hello is opened again.
BackoffAfterHello ==
  /\ phase' = IF enabled THEN "backoff" ELSE "closed"
  /\ accepted' = 0
  /\ retryTimer' = IF enabled /\ ~disposed /\ accepted # 0 THEN epoch ELSE retryTimer

\* socket_failed and socket_closed: the phase after the loss of a socket.
Backoff ==
  /\ phase' = IF enabled THEN "backoff" ELSE "closed"
  /\ accepted' = 0
  /\ retryTimer' = IF enabled /\ ~disposed /\ retryTimer = 0 THEN epoch ELSE retryTimer

\* The fault: the origin of the content is only changed by the next hello.
ResetDisconnectedKeepsContent(state) ==
  /\ helloTimer' = 0 /\ shown' = state
  /\ UNCHANGED content

\* resetDisconnectedState: what is negotiated per socket is dropped.
ResetDisconnected(state) ==
  /\ content' = 0 /\ helloTimer' = 0
  /\ shown' = state

\* connect(): a new epoch, with a re-authentication unless it is the first.
Opening ==
  /\ phase' = "connecting" /\ shown' = "connecting" /\ epoch' = epoch + 1
  /\ accepted' = 0 /\ enabled' = TRUE /\ retryTimer' = 0
  /\ IF epoch = 0
     THEN OpenSocket(1) /\ UNCHANGED <<authOwner, authPending>>
     ELSE /\ authOwner' = epoch + 1 /\ authPending' = authPending \cup {epoch + 1}
          /\ UNCHANGED <<socket, ws>>

Connect ==
  /\ ~disposed /\ phase \in {"closed", "backoff", "ready"}
  /\ IF phase = "ready"
     THEN ~enabled /\ enabled' = TRUE
          /\ UNCHANGED <<phase, shown, epoch, accepted, retryTimer, authOwner, authPending, socket, ws>>
     ELSE epoch < MaxEpoch /\ Opening
  /\ UNCHANGED <<content, helloTimer, waiting, disposed, peer, hello, inbox, conn, alive,
                 gateway, speaks, lateHello>>

RetryTimer ==
  /\ retryTimer # 0 /\ epoch < MaxEpoch
  /\ IF retryTimer = epoch /\ phase = "backoff" /\ enabled
     THEN Opening
     ELSE retryTimer' = 0
          /\ UNCHANGED <<phase, shown, epoch, accepted, enabled, authOwner, authPending, socket, ws>>
  /\ UNCHANGED <<content, helloTimer, waiting, disposed, peer, hello, inbox, conn, alive,
                 gateway, speaks, lateHello>>

\* The attempt of this epoch failed before its socket was open: socket_failed
\* with handleDisconnected.
Failed ==
  /\ Backoff /\ ResetDisconnected("offline")
  /\ UNCHANGED <<epoch, enabled>>

\* The re-authentication of an epoch settles; the callbacks of one that was
\* cancelled or superseded do nothing.
Authenticated(e) ==
  /\ e \in authPending /\ authPending' = authPending \ {e}
  /\ IF authOwner = e /\ ~disposed /\ enabled /\ epoch = e
     THEN /\ authOwner' = 0
          /\ \/ OpenSocket(e) /\ UNCHANGED <<machine, content, helloTimer, retryTimer>>
             \/ epoch < MaxEpoch /\ Failed /\ UNCHANGED <<socket, ws>>
     ELSE UNCHANGED <<machine, authOwner, content, helloTimer, retryTimer, socket, ws>>
  /\ UNCHANGED <<waiting, disposed, peer, hello, inbox, conn, alive, gateway, speaks, lateHello>>

AuthTimeout ==
  /\ authOwner # 0 /\ epoch < MaxEpoch
  /\ authOwner' = 0
  /\ IF ~disposed /\ enabled /\ epoch = authOwner
     THEN Failed
     ELSE UNCHANGED <<machine, content, helloTimer, retryTimer>>
  /\ UNCHANGED <<authPending, socket, waiting, disposed, network, lateHello>>

\* onopen: the gateway has accepted the socket; the hello goes out.
SocketOpens(e) ==
  /\ ws[e] = "connecting" /\ socket = e
  /\ ws' = [ws EXCEPT ![e] = "open"]
  /\ peer' = [peer EXCEPT ![e] = gateway] /\ conn' = [conn EXCEPT ![e] = "greeting"]
  /\ IF ~disposed /\ epoch = e /\ phase = "connecting"
     THEN phase' = "awaiting-hello" /\ hello' = hello \cup {e} /\ helloTimer' = e
     ELSE UNCHANGED <<phase, hello, helloTimer>>
  /\ UNCHANGED <<shown, epoch, accepted, enabled, socket, content, retryTimer, authOwner, authPending,
                 waiting, disposed, inbox, alive, gateway, speaks, lateHello>>

\* onclose, once the frames that arrived before it have been delivered.
SocketCloses(e) ==
  /\ ws[e] = "lost" /\ inbox[e] = <<>> /\ socket = e
  /\ ws' = Closed(e) /\ socket' = 0
  /\ IF epoch = e /\ phase \notin {"terminal", "closed"}
     THEN Backoff
     ELSE UNCHANGED <<phase, accepted, retryTimer>>
  /\ ResetDisconnected("offline")
  /\ UNCHANGED <<epoch, enabled, authOwner, authPending, waiting, disposed, peer, hello, inbox, conn, alive,
                 gateway, speaks, lateHello>>

\* enterIncompatible: the machine's terminal phase.
Incompatible ==
  /\ phase' = "terminal" /\ accepted' = 0 /\ enabled' = FALSE /\ retryTimer' = 0
  /\ socket' = 0 /\ ws' = Closed(socket)
  /\ authOwner' = 0
  /\ waiting' = FALSE
  /\ ResetDisconnected("incompatible")
  /\ UNCHANGED epoch

HelloTimeout ==
  /\ helloTimer # 0
  /\ IF socket # 0 /\ epoch = helloTimer
     THEN Incompatible /\ lateHello' = TRUE
     ELSE helloTimer' = 0
          /\ UNCHANGED <<machine, socket, content, retryTimer, authOwner, waiting, ws, lateHello>>
  /\ UNCHANGED <<authPending, disposed, peer, hello, inbox, conn, alive, gateway, speaks>>

\* installContentForHello
InstallContent(server) == content = 0 /\ content' = server

\* onmessage: the first frame must be the hello, the second the inventory of
\* the same gateway; whatever else arrives before makes the peers incompatible.
Receive(e) ==
  /\ socket = e /\ ws[e] \in {"open", "lost"} /\ inbox[e] # <<>>
  /\ LET f == Head(inbox[e]) IN
       CASE f = "hello" /\ content = 0 /\ phase = "awaiting-hello" ->
              /\ InstallContent(peer[e]) /\ accepted' = peer[e]
              /\ UNCHANGED <<phase, shown, epoch, enabled, helloTimer, retryTimer, socket, ws, authOwner, waiting>>
         [] f = "inventory" /\ content # 0 /\ phase = "awaiting-hello" /\ accepted = peer[e] ->
              /\ phase' = "ready" /\ shown' = "online" /\ helloTimer' = 0 /\ waiting' = FALSE
              /\ UNCHANGED <<epoch, accepted, enabled, content, retryTimer, socket, ws, authOwner>>
         [] f \in {"inventory", "message"} /\ content # 0 /\ phase = "ready" ->
              UNCHANGED <<machine, content, helloTimer, retryTimer, socket, ws, authOwner, waiting>>
         [] OTHER -> Incompatible
  /\ inbox' = [inbox EXCEPT ![e] = Tail(@)]
  /\ UNCHANGED <<authPending, disposed, peer, hello, conn, alive, gateway, speaks, lateHello>>

\* disconnect(), which dispose() calls as well.
Leave ==
  /\ phase' = "closed" /\ accepted' = 0 /\ enabled' = FALSE /\ retryTimer' = 0
  /\ authOwner' = 0
  /\ IF socket # 0 THEN socket' = 0 /\ ws' = Closed(socket) ELSE UNCHANGED <<socket, ws>>
  /\ ResetDisconnected("offline")
  /\ UNCHANGED epoch

Disconnect ==
  /\ ~disposed /\ phase # "closed" /\ Leave
  /\ UNCHANGED <<authPending, waiting, disposed, peer, hello, inbox, conn, alive, gateway, speaks, lateHello>>

Dispose ==
  /\ ~disposed /\ disposed' = TRUE /\ Leave /\ waiting' = FALSE
  /\ UNCHANGED <<authPending, peer, hello, inbox, conn, alive, gateway, speaks, lateHello>>

\* waitForInitialHotInventory, when it does not answer at once.
Wait ==
  /\ ~disposed /\ shown \notin {"incompatible", "online"} /\ ~waiting
  /\ waiting' = TRUE
  /\ UNCHANGED <<machine, socket, content, helloTimer, retryTimer, authOwner, authPending, disposed,
                 network, lateHello>>

-----------------------------------------------------------------------------
\* The network and the gateway

\* A socket fails, at either end or between; an attempt may fail as well.
SocketFails(e) ==
  /\ ws[e] \in {"connecting", "open"} /\ epoch < MaxEpoch
  /\ ws' = [ws EXCEPT ![e] = "lost"]
  /\ inbox' = [inbox EXCEPT ![e] = <<>>] /\ hello' = hello \ {e}
  /\ UNCHANGED <<machine, driver, peer, conn, alive, gateway, speaks, lateHello>>

\* disconnect(connection) of the gateway; the browser sees its socket close
\* behind the frames that are already on their way.
Disconnected(e) ==
  /\ conn' = [conn EXCEPT ![e] = "closed"]
  /\ ws' = IF ws[e] = "open" THEN [ws EXCEPT ![e] = "lost"] ELSE ws
  /\ hello' = hello \ {e}

\* handleClientHello: the hello and the inventory leave together, or the
\* protocol error after which the connection is closed.
ClientHello(e) ==
  /\ e \in hello /\ conn[e] = "greeting" /\ ws[e] = "open"
  /\ hello' = hello \ {e}
  /\ IF peer[e] \in speaks
     THEN /\ conn' = [conn EXCEPT ![e] = "ready"]
          /\ inbox' = [inbox EXCEPT ![e] = @ \o <<"hello", "inventory">>]
     ELSE /\ conn' = [conn EXCEPT ![e] = "refusing"]
          /\ inbox' = [inbox EXCEPT ![e] = Append(@, "error")]
  /\ UNCHANGED <<machine, driver, ws, peer, alive, gateway, speaks, lateHello>>

\* The send of the protocol error completes.
Refused(e) ==
  /\ conn[e] = "refusing" /\ Disconnected(e)
  /\ UNCHANGED <<machine, driver, peer, inbox, alive, gateway, speaks, lateHello>>

\* Only connections whose hello is complete are sent anything.
Broadcast(e) ==
  /\ conn[e] = "ready" /\ ws[e] = "open" /\ Len(inbox[e]) < 3
  /\ \E f \in {"inventory", "message"} : inbox' = [inbox EXCEPT ![e] = Append(@, f)]
  /\ UNCHANGED <<machine, driver, ws, peer, hello, conn, alive, gateway, speaks, lateHello>>

\* The gateway's hello timer.
GreetingTimeout(e) ==
  /\ conn[e] = "greeting" /\ (epoch < MaxEpoch \/ ws[e] # "open") /\ Disconnected(e)
  /\ UNCHANGED <<machine, driver, peer, inbox, alive, gateway, speaks, lateHello>>

\* The fault: a socket that cannot be pinged is passed over.
HeartbeatWhenOpen(e) ==
  /\ conn[e] \in {"greeting", "ready"} /\ ws[e] = "open"
  /\ IF alive[e]
     THEN alive' = [alive EXCEPT ![e] = FALSE] /\ UNCHANGED <<ws, conn, hello>>
     ELSE Disconnected(e) /\ UNCHANGED alive
  /\ UNCHANGED <<machine, driver, peer, inbox, gateway, speaks, lateHello>>

\* heartbeat: a connection that has not answered the last ping is ended.
Heartbeat(e) ==
  /\ conn[e] \in {"greeting", "ready"}
  /\ IF alive[e]
     THEN alive' = [alive EXCEPT ![e] = FALSE] /\ UNCHANGED <<ws, conn, hello>>
     ELSE ws[e] # "open" /\ Disconnected(e) /\ UNCHANGED alive
  /\ UNCHANGED <<machine, driver, peer, inbox, gateway, speaks, lateHello>>

Pong(e) ==
  /\ conn[e] \in {"greeting", "ready"} /\ ws[e] = "open" /\ ~alive[e]
  /\ alive' = [alive EXCEPT ![e] = TRUE]
  /\ UNCHANGED <<machine, driver, ws, peer, hello, inbox, conn, gateway, speaks, lateHello>>

\* The gateway is restarted; the next one has another server epoch and may be
\* of another version.
GatewayRestarts ==
  /\ gateway < MaxGateway /\ epoch < MaxEpoch
  /\ gateway' = gateway + 1
  /\ conn' = [e \in Epoch |-> IF conn[e] = "none" THEN "none" ELSE "closed"]
  /\ ws' = [e \in Epoch |-> IF ws[e] = "open" THEN "lost" ELSE ws[e]]
  /\ hello' = {}
  /\ UNCHANGED <<machine, driver, peer, inbox, alive, speaks, lateHello>>

-----------------------------------------------------------------------------
Browser ==
  \/ RetryTimer \/ AuthTimeout \/ HelloTimeout
  \/ \E e \in Epoch : Authenticated(e) \/ SocketOpens(e) \/ SocketCloses(e) \/ Receive(e)

Gateway == \E e \in Epoch :
  ClientHello(e) \/ Refused(e) \/ Heartbeat(e) \/ Pong(e) \/ GreetingTimeout(e)

Next ==
  \/ Browser \/ Gateway
  \/ Connect \/ Disconnect \/ Dispose \/ Wait
  \/ \E e \in Epoch : SocketFails(e) \/ Broadcast(e)
  \/ GatewayRestarts

\* Timers run out, promises settle, and frames and answers arrive.
Answered == \E e \in Epoch :
  Authenticated(e) \/ SocketOpens(e) \/ SocketCloses(e) \/ Receive(e) \/ ClientHello(e) \/ Refused(e)

\* A connection object whose socket is gone is found by the heartbeat.
Beat(e) == Heartbeat(e) /\ ws[e] # "open"

Spec ==
  /\ Init /\ [][Next]_vars
  /\ WF_vars(Answered) /\ WF_vars(RetryTimer)
  /\ \A e \in Epoch : WF_vars(Beat(e))

-----------------------------------------------------------------------------
(* What the connection promises                                            *)

\* While the browser is shown online its frames are read with the budgets and
\* the content origin of the gateway that sends them, on the one socket that
\* is open; a socket the transport has let go is closed.
OnlineExact ==
  /\ shown = "online" => /\ phase = "ready" /\ socket = epoch
                         /\ content = peer[socket] /\ accepted = content
  /\ \A e \in Epoch : ws[e] \in {"connecting", "open", "lost"} => socket = e
  /\ phase \in {"connecting", "closed", "backoff", "terminal"} => content = 0

\* The machine is never left waiting for an event nobody will send: each phase
\* that is to be left has its timer, its promise or its socket, of this epoch.
NeverStranded ==
  /\ phase = "backoff" => retryTimer = epoch
  /\ phase = "connecting" => \/ authOwner = epoch /\ epoch \in authPending
                             \/ socket = epoch
  /\ phase = "awaiting-hello" => helloTimer = epoch /\ socket = epoch
  /\ phase = "ready" => socket = epoch /\ helloTimer = 0

\* The page is told to give up only by a gateway of another version or one
\* that did not answer the hello in time, never because something of an
\* earlier socket was left behind.
IncompatibleOnlyIfSo ==
  phase = "terminal" => lateHello \/ \E e \in Epoch : peer[e] \notin speaks \cup {0}

\* Once the network stops failing, a browser that wants to be connected gets
\* online again and again, or learns that it cannot be.
Reconnects == []<>(enabled /\ speaks = 1..MaxGateway => shown = "online")

\* The gateway ends the connection object of every socket that is gone, which
\* is what releases its leases.
Reaped == \A e \in Epoch : ws[e] = "closed" /\ conn[e] # "none" => conn[e] = "closed"
PeersReaped == []<>Reaped
=============================================================================
