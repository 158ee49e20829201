--------------------------- MODULE MCBrowserProofs ---------------------------
(***************************************************************************)
(* Proofs about the connection between the browser and the gateway         *)
(* (GatewayConnection), in the specification of its run: what the browser  *)
(* shows is so, no phase waits for an event nobody sends, and the page     *)
(* gives up only for a reason.  ConnInv is inductive; SANY and tlapm see   *)
(* GatewayConnection through the instance Connection of MCBrowser.         *)
(***************************************************************************)
EXTENDS MCBrowser, SequenceTheorems, TLAPS

-----------------------------------------------------------------------------
(* The inductive invariant                                                 *)

ConnShape == Connection!TypeOK /\ inbox \in [Connection!Epoch -> Seq(Connection!Frame)]

\* The wish to be connected and the phase agree, and nothing is shown online
\* that is not ready.
WishFits ==
  /\ enabled <=> phase \notin {"closed", "terminal"}
  /\ disposed => phase = "closed"
  /\ phase # "closed" => epoch # 0
  /\ shown = "online" => phase = "ready"

\* A timer runs in its phase only, and then for the epoch at hand.
TimersFit ==
  /\ retryTimer # 0 => phase = "backoff"
  /\ phase = "backoff" => retryTimer = epoch
  /\ helloTimer # 0 => phase = "awaiting-hello"
  /\ phase = "awaiting-hello" => helloTimer = epoch

\* At most one socket is not closed, the one of the epoch at hand.
OneSocket ==
  /\ socket # 0 => /\ socket = epoch
                   /\ phase \in {"connecting", "awaiting-hello", "ready"}
                   /\ ws[socket] \in {"connecting", "open", "lost"}
  /\ \A e \in Connection!Epoch : ws[e] \in {"connecting", "open", "lost"} => socket = e
  /\ phase \in {"awaiting-hello", "ready"} => /\ socket = epoch
                                              /\ ws[epoch] \in {"open", "lost"}
  /\ phase = "connecting" /\ socket # 0 => /\ ws[socket] \in {"connecting", "lost"}
                                           /\ conn[socket] = "none"

\* A re-authentication is awaited before the socket of its epoch exists, and
\* nothing exists of an epoch to come.
AskingFits ==
  /\ authOwner # 0 => /\ authOwner = epoch /\ phase = "connecting" /\ socket = 0
                      /\ ws[authOwner] = "none" /\ authOwner \in authPending
  /\ phase = "connecting" => authOwner = epoch \/ socket = epoch
  /\ \A e \in Connection!Epoch : e > epoch => ws[e] = "none" /\ e \notin authPending

\* The content origin is the gateway whose hello was accepted on this socket.
OriginFits ==
  /\ phase \in {"connecting", "closed", "backoff", "terminal"} => content = 0 /\ accepted = 0
  /\ phase = "awaiting-hello" => accepted = content /\ content \in {0, peer[epoch]}
  /\ phase = "ready" => accepted = content /\ content = peer[epoch] /\ content # 0

\* What the gateway's side of a socket has come to.
PeerFits == \A e \in Connection!Epoch :
  /\ ws[e] \in {"none", "connecting"} => conn[e] = "none" /\ peer[e] = 0
  /\ ws[e] = "open" => peer[e] # 0
  /\ conn[e] = "none" => inbox[e] = <<>> /\ e \notin hello
  /\ e \in hello => conn[e] = "greeting"
  /\ inbox[e] # <<>> => peer[e] # 0
  /\ conn[e] = "greeting" => inbox[e] = <<>>
  /\ conn[e] = "greeting" /\ socket = e => phase = "awaiting-hello" /\ content = 0

\* Frames that may follow the inventory.
Told(s) == \A i \in 1..Len(s) : s[i] \in {"inventory", "message"}
InventoryFirst(s) == s # <<>> => s[1] = "inventory" /\ Told(s)
HelloFirst(s) == s # <<>> => /\ s[1] = "hello" /\ Tail(s) # <<>>
                             /\ InventoryFirst(Tail(s))

\* The frames on their way from a gateway of the browser's version are the
\* ones its phase takes.
FramesFit == \A e \in Connection!Epoch : socket = e /\ peer[e] \in speaks =>
  /\ phase = "awaiting-hello" /\ content = 0 => HelloFirst(inbox[e])
  /\ phase = "awaiting-hello" /\ content # 0 => InventoryFirst(inbox[e])
  /\ phase = "awaiting-hello" /\ conn[e] = "ready" /\ ws[e] = "open" => inbox[e] # <<>>
  /\ phase = "ready" => Told(inbox[e])

ConnInv ==
  /\ ConnShape /\ WishFits /\ TimersFit /\ OneSocket /\ AskingFits /\ OriginFits /\ PeerFits
  /\ FramesFit /\ Connection!IncompatibleOnlyIfSo

-----------------------------------------------------------------------------
(* The browser's steps                                                     *)

LEMMA EpochIs == Connection!Epoch = 1..MaxEpoch /\ 0 \notin Connection!Epoch /\ 1 \in Connection!Epoch
  BY BrowserBounds DEF Connection!Epoch

\* Without a socket there is nothing open, and nobody asks before connecting.
LEMMA ApartIs ==
  ASSUME ConnInv
  PROVE  /\ epoch \in Nat /\ socket \in Nat
         /\ phase \notin {"connecting", "awaiting-hello", "ready"} => socket = 0 /\ authOwner = 0
         /\ socket = 0 => \A e \in Connection!Epoch : ws[e] \in {"none", "closed"}
         /\ socket # 0 => socket \in Connection!Epoch /\ socket = epoch /\ authOwner = 0
         /\ authOwner # 0 => authOwner \in Connection!Epoch /\ socket = 0
  <1> USE BrowserBounds, EpochIs DEF ConnInv, ConnShape, Connection!TypeOK
  <1>1. epoch \in Nat /\ socket \in Nat
    OBVIOUS
  <1>2. phase \notin {"connecting", "awaiting-hello", "ready"} => socket = 0 /\ authOwner = 0
    BY DEF OneSocket, AskingFits
  <1>3. socket = 0 => \A e \in Connection!Epoch : ws[e] \in {"none", "closed"}
    BY DEF OneSocket
  <1>4. socket # 0 => socket \in Connection!Epoch /\ socket = epoch /\ authOwner = 0
    BY DEF OneSocket, AskingFits
  <1>5. authOwner # 0 => authOwner \in Connection!Epoch /\ socket = 0
    BY DEF AskingFits
  <1> QED BY <1>1, <1>2, <1>3, <1>4, <1>5

\* A new epoch begins when nothing is left of the last one.
LEMMA OpeningKeeps ==
  ASSUME ConnInv, ~disposed, phase \in {"closed", "backoff"}, epoch < MaxEpoch, Connection!Opening,
         UNCHANGED <<content, helloTimer, waiting, disposed, peer, hello, inbox, conn, alive,
                     gateway, speaks, lateHello>>
  PROVE  ConnInv'
  <1> USE BrowserBounds, EpochIs DEF ConnInv
  <1>0. /\ epoch + 1 \in Connection!Epoch /\ epoch \in Nat /\ socket = 0 /\ authOwner = 0
        /\ \A e \in Connection!Epoch : ws[e] \in {"none", "closed"}
    BY ApartIs
  <1>1. /\ phase' = "connecting" /\ shown' = "connecting" /\ epoch' = epoch + 1 /\ accepted' = 0
        /\ enabled' = TRUE /\ retryTimer' = 0
    BY DEF Connection!Opening
  <1>2. \/ epoch = 0 /\ socket' = 1 /\ ws' = [ws EXCEPT ![1] = "connecting"]
           /\ UNCHANGED <<authOwner, authPending>>
        \/ /\ epoch # 0 /\ authOwner' = epoch + 1 /\ authPending' = authPending \cup {epoch + 1}
           /\ UNCHANGED <<socket, ws>>
    BY DEF Connection!Opening, Connection!OpenSocket
  <1>3. socket' \in 0..MaxEpoch /\ authOwner' \in 0..MaxEpoch /\ authPending' \subseteq Connection!Epoch
    <2>1. /\ 1 \in 0..MaxEpoch /\ epoch + 1 \in 0..MaxEpoch /\ socket \in 0..MaxEpoch
          /\ authOwner \in 0..MaxEpoch /\ authPending \subseteq Connection!Epoch
      BY <1>0 DEF ConnShape, Connection!TypeOK
    <2> QED BY <2>1, <1>0, <1>2
  <1>4. ws' \in [Connection!Epoch -> {"none", "connecting", "open", "lost", "closed"}]
    BY <1>0, <1>2 DEF ConnShape, Connection!TypeOK
  <1>5. ConnShape'
    BY <1>0, <1>1, <1>3, <1>4 DEF ConnShape, Connection!TypeOK
  <1>6. WishFits'
    BY <1>0, <1>1 DEF WishFits
  <1>7. TimersFit'
    BY <1>1 DEF TimersFit
  <1>8. CASE epoch = 0
    <2>1. ws[1] = "none" /\ ws' = [ws EXCEPT ![1] = "connecting"] /\ socket' = 1 /\ epoch' = 1
      BY <1>0, <1>1, <1>2, <1>8 DEF AskingFits
    <2>2. conn[1] = "none" /\ peer[1] = 0 /\ inbox[1] = <<>> /\ 1 \notin hello /\ authOwner' = 0
      BY <2>1, <1>0, <1>2, <1>8 DEF PeerFits
    <2>3. \A e \in Connection!Epoch : ws'[e] = IF e = 1 THEN "connecting" ELSE ws[e]
      BY <2>1 DEF ConnShape, Connection!TypeOK
    <2>4. OneSocket'
      BY <2>1, <2>2, <2>3, <1>0, <1>1 DEF OneSocket
    <2>5. AskingFits'
      BY <2>1, <2>2, <2>3, <1>0, <1>1, <1>2, <1>8 DEF AskingFits
    <2>6. OriginFits'
      BY <1>1 DEF OriginFits
    <2>7. PeerFits'
      BY <2>1, <2>2, <2>3, <1>0 DEF PeerFits
    <2>8. FramesFit' /\ Connection!IncompatibleOnlyIfSo'
      BY <1>1 DEF FramesFit, Connection!IncompatibleOnlyIfSo
    <2> QED BY <1>5, <1>6, <1>7, <2>4, <2>5, <2>6, <2>7, <2>8
  <1>9. CASE epoch # 0
    <2>1. UNCHANGED <<socket, ws>> /\ authOwner' = epoch + 1 /\ authPending' = authPending \cup {epoch + 1}
      BY <1>2, <1>9
    <2>2. ws[epoch + 1] = "none"
      BY <1>0 DEF AskingFits
    <2>3. OneSocket'
      BY <2>1, <1>0, <1>1 DEF OneSocket
    <2>4. AskingFits'
      BY <2>1, <2>2, <1>0, <1>1 DEF AskingFits
    <2>5. OriginFits'
      BY <1>1 DEF OriginFits
    <2>6. PeerFits'
      BY <2>1, <1>0 DEF PeerFits
    <2>7. FramesFit' /\ Connection!IncompatibleOnlyIfSo'
      BY <1>1 DEF FramesFit, Connection!IncompatibleOnlyIfSo
    <2> QED BY <1>5, <1>6, <1>7, <2>3, <2>4, <2>5, <2>6, <2>7
  <1> QED BY <1>8, <1>9

LEMMA ConnectKeeps ==
  ASSUME ConnInv, Connection!Connect
  PROVE  ConnInv'
  <1>1. phase # "ready"
    BY DEF Connection!Connect, ConnInv, WishFits
  <1>2. /\ ~disposed /\ phase \in {"closed", "backoff"} /\ epoch < MaxEpoch /\ Connection!Opening
        /\ UNCHANGED <<content, helloTimer, waiting, disposed, peer, hello, inbox, conn, alive,
                       gateway, speaks, lateHello>>
    BY <1>1 DEF Connection!Connect
  <1> QED BY <1>2, OpeningKeeps

LEMMA RetryTimerKeeps ==
  ASSUME ConnInv, Connection!RetryTimer
  PROVE  ConnInv'
  <1>1. phase = "backoff" /\ retryTimer = epoch /\ enabled /\ ~disposed
    BY DEF Connection!RetryTimer, ConnInv, WishFits, TimersFit
  <1>2. /\ epoch < MaxEpoch /\ Connection!Opening
        /\ UNCHANGED <<content, helloTimer, waiting, disposed, peer, hello, inbox, conn, alive,
                       gateway, speaks, lateHello>>
    BY <1>1 DEF Connection!RetryTimer
  <1> QED BY <1>1, <1>2, OpeningKeeps

\* An attempt that fails before its socket exists leaves the retry timer.
LEMMA FailedKeeps ==
  ASSUME ConnInv, Connection!Failed, authOwner # 0, authOwner' = 0, authPending' \subseteq authPending,
         ~disposed, enabled,
         UNCHANGED <<socket, waiting, disposed, ws, peer, hello, inbox, conn, alive, gateway, speaks,
                     lateHello>>
  PROVE  ConnInv'
  <1> USE BrowserBounds, EpochIs DEF ConnInv
  <1>1. socket = 0 /\ phase = "connecting" /\ authOwner = epoch
    BY ApartIs DEF AskingFits
  <1>2. /\ phase' = "backoff" /\ accepted' = 0 /\ content' = 0 /\ helloTimer' = 0
        /\ shown' = "offline" /\ UNCHANGED <<epoch, enabled>>
    BY DEF Connection!Failed, Connection!Backoff, Connection!ResetDisconnected
  <1>3. retryTimer = 0
    BY <1>1 DEF TimersFit
  <1>4. retryTimer' = epoch
    BY <1>3 DEF Connection!Failed, Connection!Backoff
  <1>5. ConnShape'
    BY <1>2, <1>4 DEF ConnShape, Connection!TypeOK
  <1>6. WishFits' /\ TimersFit'
    BY <1>1, <1>2, <1>4 DEF WishFits, TimersFit
  <1>7. OneSocket'
    BY <1>1, <1>2 DEF OneSocket
  <1>8. AskingFits'
    BY <1>1, <1>2 DEF AskingFits
  <1>9. OriginFits' /\ FramesFit' /\ Connection!IncompatibleOnlyIfSo'
    BY <1>2 DEF OriginFits, FramesFit, Connection!IncompatibleOnlyIfSo
  <1>10. PeerFits'
    BY <1>1, <1>2 DEF PeerFits
  <1> QED BY <1>5, <1>6, <1>7, <1>8, <1>9, <1>10

\* The socket of an epoch is opened once its re-authentication is through.
LEMMA OpenSocketKeeps ==
  ASSUME ConnInv, NEW e \in Connection!Epoch, authOwner = e, epoch = e, Connection!OpenSocket(e), authOwner' = 0,
         authPending' = authPending \ {e},
         UNCHANGED <<phase, shown, epoch, accepted, enabled, content, helloTimer, retryTimer, waiting,
                     disposed, peer, hello, inbox, conn, alive, gateway, speaks, lateHello>>
  PROVE  ConnInv'
  <1> USE BrowserBounds, EpochIs DEF ConnInv
  <1>1. socket = 0 /\ phase = "connecting" /\ ws[e] = "none"
    BY ApartIs DEF AskingFits
  <1>2. socket' = e /\ ws' = [ws EXCEPT ![e] = "connecting"]
    BY DEF Connection!OpenSocket
  <1>3. /\ ws' \in [Connection!Epoch -> {"none", "connecting", "open", "lost", "closed"}]
        /\ \A d \in Connection!Epoch : ws'[d] = IF d = e THEN "connecting" ELSE ws[d]
    BY <1>2 DEF ConnShape, Connection!TypeOK
  <1>4. conn[e] = "none" /\ peer[e] = 0
    BY <1>1 DEF PeerFits
  <1>5. ConnShape'
    BY <1>2, <1>3 DEF ConnShape, Connection!TypeOK
  <1>6. WishFits' /\ TimersFit'
    BY DEF WishFits, TimersFit
  <1>7. OneSocket'
    BY <1>1, <1>2, <1>3, <1>4, ApartIs DEF OneSocket
  <1>8. AskingFits'
    BY <1>1, <1>2, <1>3 DEF AskingFits, ConnShape, Connection!TypeOK
  <1>9. OriginFits' /\ FramesFit' /\ Connection!IncompatibleOnlyIfSo'
    BY <1>1 DEF OriginFits, FramesFit, Connection!IncompatibleOnlyIfSo
  <1>10. PeerFits'
    BY <1>1, <1>2, <1>3, <1>4, ApartIs DEF PeerFits
  <1> QED BY <1>5, <1>6, <1>7, <1>8, <1>9, <1>10

LEMMA AuthenticatedKeeps ==
  ASSUME ConnInv, NEW e \in Connection!Epoch, Connection!Authenticated(e)
  PROVE  ConnInv'
  <1> USE BrowserBounds, EpochIs DEF ConnInv
  <1>0. /\ authPending' = authPending \ {e}
        /\ UNCHANGED <<waiting, disposed, peer, hello, inbox, conn, alive, gateway, speaks, lateHello>>
    BY DEF Connection!Authenticated
  <1>1. CASE authOwner = e /\ ~disposed /\ enabled /\ epoch = e /\ Connection!OpenSocket(e)
    <2>1. /\ authOwner' = 0
          /\ UNCHANGED <<phase, shown, epoch, accepted, enabled, content, helloTimer, retryTimer>>
      BY <1>1, ApartIs DEF Connection!Authenticated, Connection!machine, Connection!OpenSocket
    <2> QED BY <1>0, <1>1, <2>1, OpenSocketKeeps
  <1>2. CASE authOwner = e /\ ~disposed /\ enabled /\ epoch = e /\ ~Connection!OpenSocket(e)
    <2>1. authOwner' = 0 /\ Connection!Failed /\ UNCHANGED <<socket, ws>>
      BY <1>2 DEF Connection!Authenticated
    <2>2. authPending' \subseteq authPending /\ authOwner # 0
      BY <1>0, <1>2
    <2> QED BY <1>0, <1>2, <2>1, <2>2, FailedKeeps
  <1>3. CASE ~(authOwner = e /\ ~disposed /\ enabled /\ epoch = e)
    <2>1. UNCHANGED <<phase, shown, epoch, accepted, enabled, authOwner, content, helloTimer,
                      retryTimer, socket, ws>>
      BY <1>3 DEF Connection!Authenticated, Connection!machine
    <2>2. authOwner # e
      BY <1>3, ApartIs DEF AskingFits, WishFits
    <2>3. ConnShape'
      BY <1>0, <2>1 DEF ConnShape, Connection!TypeOK
    <2>4. WishFits' /\ TimersFit'
      BY <1>0, <2>1 DEF WishFits, TimersFit
    <2>5. OneSocket'
      BY <1>0, <2>1 DEF OneSocket
    <2>6. AskingFits'
      BY <1>0, <2>1, <2>2 DEF AskingFits
    <2>7. OriginFits' /\ FramesFit' /\ Connection!IncompatibleOnlyIfSo'
      BY <1>0, <2>1 DEF OriginFits, FramesFit, Connection!IncompatibleOnlyIfSo
    <2>8. PeerFits'
      BY <1>0, <2>1 DEF PeerFits
    <2> QED BY <2>3, <2>4, <2>5, <2>6, <2>7, <2>8
  <1> QED BY <1>1, <1>2, <1>3

LEMMA AuthTimeoutKeeps ==
  ASSUME ConnInv, Connection!AuthTimeout
  PROVE  ConnInv'
  <1>1. epoch = authOwner /\ ~disposed /\ enabled
    BY DEF Connection!AuthTimeout, ConnInv, AskingFits, WishFits
  <1>2. authOwner # 0 /\ authOwner' = 0 /\ Connection!Failed
    BY <1>1 DEF Connection!AuthTimeout
  <1>3. /\ authPending' \subseteq authPending
        /\ UNCHANGED <<socket, waiting, disposed, ws, peer, hello, inbox, conn, alive, gateway, speaks,
                       lateHello>>
    BY DEF Connection!AuthTimeout, Connection!network
  <1> QED BY <1>1, <1>2, <1>3, FailedKeeps

LEMMA SocketOpensKeeps ==
  ASSUME ConnInv, NEW e \in Connection!Epoch, Connection!SocketOpens(e)
  PROVE  ConnInv'
  <1> USE BrowserBounds, EpochIs DEF ConnInv
  <1>1. /\ ws[e] = "connecting" /\ socket = e /\ epoch = e /\ phase = "connecting" /\ ~disposed
        /\ content = 0
    BY DEF Connection!SocketOpens, OneSocket, WishFits, OriginFits
  <1>2. /\ phase' = "awaiting-hello" /\ helloTimer' = e
        /\ UNCHANGED <<shown, epoch, accepted, enabled, socket, content, retryTimer, authOwner,
                       authPending, waiting, disposed, inbox, alive, gateway, speaks, lateHello>>
    BY <1>1 DEF Connection!SocketOpens
  <1>3. hello' = hello \cup {e}
    BY <1>1 DEF Connection!SocketOpens
  <1>4. /\ ws' = [ws EXCEPT ![e] = "open"] /\ peer' = [peer EXCEPT ![e] = gateway]
        /\ conn' = [conn EXCEPT ![e] = "greeting"]
    BY DEF Connection!SocketOpens
  <1>5. /\ ws' \in [Connection!Epoch -> {"none", "connecting", "open", "lost", "closed"}]
        /\ peer' \in [Connection!Epoch -> 0..MaxGateway] /\ gateway # 0
        /\ conn' \in [Connection!Epoch -> {"none", "greeting", "ready", "refusing", "closed"}]
    BY <1>4 DEF ConnShape, Connection!TypeOK
  <1>6. /\ \A d \in Connection!Epoch : ws'[d] = IF d = e THEN "open" ELSE ws[d]
        /\ \A d \in Connection!Epoch : peer'[d] = IF d = e THEN gateway ELSE peer[d]
        /\ \A d \in Connection!Epoch : conn'[d] = IF d = e THEN "greeting" ELSE conn[d]
    <2>1. /\ ws \in [Connection!Epoch -> {"none", "connecting", "open", "lost", "closed"}]
          /\ peer \in [Connection!Epoch -> 0..MaxGateway]
          /\ conn \in [Connection!Epoch -> {"none", "greeting", "ready", "refusing", "closed"}]
      BY DEF ConnShape, Connection!TypeOK
    <2>2. \A d \in Connection!Epoch : ws'[d] = IF d = e THEN "open" ELSE ws[d]
      BY <2>1, <1>4
    <2>3. \A d \in Connection!Epoch : peer'[d] = IF d = e THEN gateway ELSE peer[d]
      BY <2>1, <1>4
    <2>4. \A d \in Connection!Epoch : conn'[d] = IF d = e THEN "greeting" ELSE conn[d]
      BY <2>1, <1>4
    <2> QED BY <2>2, <2>3, <2>4
  <1>7. conn[e] = "none" /\ peer[e] = 0 /\ inbox[e] = <<>>
    BY <1>1 DEF PeerFits
  <1>8. ConnShape'
    BY <1>2, <1>3, <1>5 DEF ConnShape, Connection!TypeOK
  <1>9. WishFits' /\ TimersFit'
    BY <1>1, <1>2 DEF WishFits, TimersFit
  <1>10. OneSocket'
    BY <1>1, <1>2, <1>6 DEF OneSocket
  <1>11. AskingFits'
    BY <1>1, <1>2, <1>6, ApartIs DEF AskingFits
  <1>12. accepted = 0
    BY <1>1, <1>7 DEF OriginFits
  <1>13. OriginFits'
    BY <1>1, <1>2, <1>12 DEF OriginFits
  <1>14. PeerFits'
    <2>1. SUFFICES ASSUME NEW d \in Connection!Epoch
                   PROVE  /\ ws'[d] \in {"none", "connecting"} => conn'[d] = "none" /\ peer'[d] = 0
                          /\ ws'[d] = "open" => peer'[d] # 0
                          /\ conn'[d] = "none" => inbox'[d] = <<>> /\ d \notin hello'
                          /\ d \in hello' => conn'[d] = "greeting"
                          /\ inbox'[d] # <<>> => peer'[d] # 0
                          /\ conn'[d] = "greeting" => inbox'[d] = <<>>
                          /\ conn'[d] = "greeting" /\ socket' = d => phase' = "awaiting-hello" /\ content' = 0
      BY DEF PeerFits
    <2>2. CASE d = e
      <3>1. ws'[d] = "open" /\ peer'[d] # 0 /\ conn'[d] = "greeting" /\ inbox'[d] = <<>>
        BY <2>2, <1>2, <1>5, <1>6, <1>7
      <3> QED BY <3>1, <1>1, <1>2
    <2>3. CASE d # e
      <3>1. /\ ws'[d] = ws[d] /\ peer'[d] = peer[d] /\ conn'[d] = conn[d] /\ inbox'[d] = inbox[d]
            /\ d \in hello' <=> d \in hello
        BY <2>3, <1>2, <1>3, <1>6
      <3> QED BY <2>3, <3>1, <1>1, <1>2 DEF PeerFits
    <2> QED BY <2>2, <2>3
  <1>15. FramesFit'
    <2>1. socket' = e /\ phase' = "awaiting-hello" /\ content' = 0 /\ inbox'[e] = <<>> /\ conn'[e] = "greeting"
      BY <1>1, <1>2, <1>6, <1>7
    <2>2. HelloFirst(inbox'[e])
      BY <2>1 DEF HelloFirst
    <2> QED BY <2>1, <2>2 DEF FramesFit
  <1>16. Connection!IncompatibleOnlyIfSo'
    BY <1>2 DEF Connection!IncompatibleOnlyIfSo
  <1> QED BY <1>8, <1>9, <1>10, <1>11, <1>13, <1>14, <1>15, <1>16

\* A step of the browser that gives its socket up, whatever phase it goes to.
LEMMA SocketGone ==
  ASSUME ConnInv, socket' = 0, authOwner' = 0, content' = 0, accepted' = 0, helloTimer' = 0, shown' # "online",
         IF socket = 0 THEN ws' = ws ELSE ws' = [ws EXCEPT ![socket] = "closed"],
         phase' \in {"closed", "backoff", "terminal"}, ConnShape',
         UNCHANGED <<epoch, authPending, peer, hello, conn, speaks>>,
         \A e \in Connection!Epoch : inbox[e] = <<>> => inbox'[e] = <<>>
  PROVE  OneSocket' /\ AskingFits' /\ OriginFits' /\ PeerFits' /\ FramesFit'
  <1> USE BrowserBounds, EpochIs DEF ConnInv
  <1>1. \A e \in Connection!Epoch : ws'[e] = IF e = socket THEN "closed" ELSE ws[e]
    BY DEF ConnShape, Connection!TypeOK
  <1>2. OneSocket'
    BY <1>1, ApartIs DEF OneSocket
  <1>3. \A e \in Connection!Epoch : e > epoch => e # socket
    BY ApartIs
  <1>4. AskingFits'
    BY <1>1, <1>3 DEF AskingFits
  <1>5. OriginFits'
    BY DEF OriginFits
  <1>6. PeerFits'
    BY <1>1 DEF PeerFits
  <1>7. FramesFit'
    BY DEF FramesFit
  <1> QED BY <1>2, <1>4, <1>5, <1>6, <1>7

LEMMA SocketClosesKeeps ==
  ASSUME ConnInv, NEW e \in Connection!Epoch, Connection!SocketCloses(e)
  PROVE  ConnInv'
  <1> USE BrowserBounds, EpochIs DEF ConnInv
  <1>1. /\ socket = e /\ socket # 0 /\ epoch = e /\ phase \notin {"terminal", "closed"} /\ enabled /\ ~disposed
        /\ retryTimer = 0 /\ authOwner = 0
    BY ApartIs DEF Connection!SocketCloses, OneSocket, WishFits, TimersFit
  <1>2. Connection!Backoff /\ Connection!ResetDisconnected("offline")
    BY <1>1 DEF Connection!SocketCloses
  <1>3. /\ socket' = 0 /\ ws' = [ws EXCEPT ![socket] = "closed"]
        /\ UNCHANGED <<epoch, enabled, authOwner, authPending, waiting, disposed, peer, hello, inbox, conn,
                       alive, gateway, speaks, lateHello>>
    BY <1>1 DEF Connection!SocketCloses, Connection!Closed
  <1>4. /\ phase' = "backoff" /\ accepted' = 0 /\ retryTimer' = epoch /\ content' = 0 /\ helloTimer' = 0
        /\ shown' = "offline"
    BY <1>1, <1>2 DEF Connection!Backoff, Connection!ResetDisconnected
  <1>5. ws' \in [Connection!Epoch -> {"none", "connecting", "open", "lost", "closed"}]
    BY <1>1, <1>3 DEF ConnShape, Connection!TypeOK
  <1>6. ConnShape'
    BY <1>1, <1>3, <1>4, <1>5 DEF ConnShape, Connection!TypeOK
  <1>7. WishFits'
    BY <1>1, <1>3, <1>4 DEF WishFits
  <1>8. TimersFit'
    BY <1>3, <1>4 DEF TimersFit
  <1>9. OneSocket' /\ AskingFits' /\ OriginFits' /\ PeerFits' /\ FramesFit'
    BY <1>1, <1>3, <1>4, <1>6, SocketGone
  <1>10. Connection!IncompatibleOnlyIfSo'
    BY <1>4 DEF Connection!IncompatibleOnlyIfSo
  <1> QED BY <1>6, <1>7, <1>8, <1>9, <1>10

\* The terminal phase, entered with a socket and for one of the two reasons.
LEMMA IncompatibleKeeps ==
  ASSUME ConnInv, Connection!Incompatible, socket # 0,
         inbox' \in [Connection!Epoch -> Seq(Connection!Frame)], \A e \in Connection!Epoch : inbox[e] = <<>> => inbox'[e] = <<>>,
         lateHello' \in BOOLEAN, lateHello' \/ \E e \in Connection!Epoch : peer[e] \notin speaks \cup {0},
         UNCHANGED <<authPending, disposed, peer, hello, conn, alive, gateway, speaks>>
  PROVE  ConnInv'
  <1> USE BrowserBounds, EpochIs DEF ConnInv
  <1>1. socket \in Connection!Epoch /\ ~disposed
    BY ApartIs DEF WishFits, OneSocket
  <1>2. /\ phase' = "terminal" /\ accepted' = 0 /\ enabled' = FALSE /\ retryTimer' = 0 /\ socket' = 0
        /\ ws' = [ws EXCEPT ![socket] = "closed"] /\ authOwner' = 0 /\ waiting' = FALSE /\ content' = 0
        /\ helloTimer' = 0 /\ shown' = "incompatible" /\ epoch' = epoch
    BY DEF Connection!Incompatible, Connection!Closed, Connection!ResetDisconnected
  <1>3. ws' \in [Connection!Epoch -> {"none", "connecting", "open", "lost", "closed"}]
    BY <1>1, <1>2 DEF ConnShape, Connection!TypeOK
  <1>4. ConnShape'
    <2>1. 0 \in 0..MaxEpoch /\ 0 \in 0..MaxGateway /\ \A e \in Connection!Epoch : inbox'[e] \in Seq(Connection!Frame)
      OBVIOUS
    <2> QED BY <2>1, <1>1, <1>2, <1>3 DEF ConnShape, Connection!TypeOK
  <1>5. WishFits'
    BY <1>1, <1>2, ApartIs DEF WishFits
  <1>6. TimersFit'
    BY <1>2 DEF TimersFit
  <1>7. OneSocket' /\ AskingFits' /\ OriginFits' /\ PeerFits' /\ FramesFit'
    BY <1>2, <1>4, SocketGone
  <1>8. Connection!IncompatibleOnlyIfSo'
    BY DEF Connection!IncompatibleOnlyIfSo
  <1> QED BY <1>4, <1>5, <1>6, <1>7, <1>8

LEMMA HelloTimeoutKeeps ==
  ASSUME ConnInv, Connection!HelloTimeout
  PROVE  ConnInv'
  <1>1. socket # 0 /\ epoch = helloTimer
    BY DEF Connection!HelloTimeout, ConnInv, TimersFit, OneSocket, WishFits
  <1>2. Connection!Incompatible /\ lateHello' = TRUE
    BY <1>1 DEF Connection!HelloTimeout
  <1>3. UNCHANGED <<authPending, disposed, peer, hello, conn, alive, gateway, speaks, inbox>>
    BY DEF Connection!HelloTimeout
  <1>4. inbox' \in [Connection!Epoch -> Seq(Connection!Frame)] /\ \A e \in Connection!Epoch : inbox[e] = <<>> => inbox'[e] = <<>>
    BY <1>3 DEF ConnInv, ConnShape
  <1>5. lateHello' \in BOOLEAN /\ (lateHello' \/ \E e \in Connection!Epoch : peer[e] \notin speaks \cup {0})
    BY <1>2
  <1> QED BY <1>1, <1>2, <1>3, <1>4, <1>5, IncompatibleKeeps

\* disconnect(), called by the page or by dispose().
LEMMA LeaveKeeps ==
  ASSUME ConnInv, Connection!Leave, waiting' \in BOOLEAN, disposed' \in BOOLEAN,
         UNCHANGED <<authPending, peer, hello, inbox, conn, alive, gateway, speaks, lateHello>>
  PROVE  ConnInv'
  <1> USE BrowserBounds, EpochIs DEF ConnInv
  <1>1. /\ phase' = "closed" /\ accepted' = 0 /\ enabled' = FALSE /\ retryTimer' = 0 /\ socket' = 0
        /\ authOwner' = 0 /\ content' = 0 /\ helloTimer' = 0 /\ shown' = "offline" /\ epoch' = epoch
    BY DEF Connection!Leave, Connection!Closed, Connection!ResetDisconnected
  <1>2. IF socket = 0 THEN ws' = ws ELSE ws' = [ws EXCEPT ![socket] = "closed"]
    BY DEF Connection!Leave, Connection!Closed
  <1>3. ws' \in [Connection!Epoch -> {"none", "connecting", "open", "lost", "closed"}]
    BY <1>2, ApartIs DEF ConnShape, Connection!TypeOK
  <1>4. ConnShape'
    <2>1. 0 \in 0..MaxEpoch /\ 0 \in 0..MaxGateway
      OBVIOUS
    <2> QED BY <2>1, <1>1, <1>3 DEF ConnShape, Connection!TypeOK
  <1>5. WishFits' /\ TimersFit' /\ Connection!IncompatibleOnlyIfSo'
    BY <1>1 DEF WishFits, TimersFit, Connection!IncompatibleOnlyIfSo
  <1>6. \A e \in Connection!Epoch : inbox[e] = <<>> => inbox'[e] = <<>>
    OBVIOUS
  <1>7. OneSocket' /\ AskingFits' /\ OriginFits' /\ PeerFits' /\ FramesFit'
    BY <1>1, <1>2, <1>4, <1>6, SocketGone
  <1> QED BY <1>4, <1>5, <1>7

LEMMA DisconnectKeeps ==
  ASSUME ConnInv, Connection!Disconnect
  PROVE  ConnInv'
  <1>1. waiting' \in BOOLEAN /\ disposed' \in BOOLEAN
    BY DEF Connection!Disconnect, ConnInv, ConnShape, Connection!TypeOK
  <1> QED BY <1>1, LeaveKeeps DEF Connection!Disconnect

LEMMA DisposeKeeps ==
  ASSUME ConnInv, Connection!Dispose
  PROVE  ConnInv'
  <1>1. waiting' \in BOOLEAN /\ disposed' \in BOOLEAN
    BY DEF Connection!Dispose
  <1> QED BY <1>1, LeaveKeeps DEF Connection!Dispose

LEMMA WaitKeeps ==
  ASSUME ConnInv, Connection!Wait
  PROVE  ConnInv'
  <1> USE DEF ConnInv, Connection!Wait, Connection!machine, Connection!network
  <1>1. ConnShape'
    BY DEF ConnShape, Connection!TypeOK
  <1>2. WishFits' /\ TimersFit'
    BY DEF WishFits, TimersFit
  <1>3. OneSocket' /\ AskingFits' /\ OriginFits'
    BY DEF OneSocket, AskingFits, OriginFits
  <1>4. PeerFits' /\ FramesFit' /\ Connection!IncompatibleOnlyIfSo'
    BY DEF PeerFits, FramesFit, Connection!IncompatibleOnlyIfSo
  <1> QED BY <1>1, <1>2, <1>3, <1>4

LEMMA SeqSteps ==
  ASSUME NEW s \in Seq(Connection!Frame), s # <<>>
  PROVE  /\ Head(s) = s[1] /\ Head(s) \in Connection!Frame /\ Tail(s) \in Seq(Connection!Frame)
         /\ Len(Tail(s)) = Len(s) - 1
         /\ \A i \in 1..Len(Tail(s)) : Tail(s)[i] = s[i + 1]
  BY HeadTailProperties DEF Connection!Frame

LEMMA ToldTail ==
  ASSUME NEW s \in Seq(Connection!Frame), s # <<>>, Told(s)
  PROVE  Told(Tail(s)) /\ Head(s) \in {"inventory", "message"}
  <1>1. /\ Head(s) = s[1] /\ Len(Tail(s)) = Len(s) - 1
        /\ \A i \in 1..Len(Tail(s)) : Tail(s)[i] = s[i + 1]
    BY SeqSteps
  <1>2. Len(s) \in Nat /\ Len(s) # 0
    OBVIOUS
  <1>3. \A i \in 1..Len(Tail(s)) : i + 1 \in 1..Len(s)
    BY <1>1, <1>2
  <1>4. 1 \in 1..Len(s)
    BY <1>2
  <1> QED BY <1>1, <1>3, <1>4 DEF Told

LEMMA ToldAppend ==
  ASSUME NEW s \in Seq(Connection!Frame), Told(s), NEW f \in {"inventory", "message"}
  PROVE  Told(Append(s, f))
  BY DEF Told, Connection!Frame

\* The first frame of one's own gateway is the hello, then comes the inventory.
LEMMA ReceiveKeeps ==
  ASSUME ConnInv, NEW e \in Connection!Epoch, Connection!Receive(e)
  PROVE  ConnInv'
  <1> USE EpochIs DEF ConnInv
  <1>1. /\ socket = e /\ epoch = e /\ ws[e] \in {"open", "lost"} /\ inbox[e] # <<>>
        /\ inbox[e] \in Seq(Connection!Frame) /\ socket # 0
    BY DEF Connection!Receive, OneSocket, ConnShape
  <1>2. inbox' = [inbox EXCEPT ![e] = Tail(inbox[e])]
    BY DEF Connection!Receive
  <1>3. UNCHANGED <<authPending, disposed, peer, hello, conn, alive, gateway, speaks, lateHello>>
    BY DEF Connection!Receive
  <1>4. /\ inbox' \in [Connection!Epoch -> Seq(Connection!Frame)]
        /\ \A d \in Connection!Epoch : inbox'[d] = IF d = e THEN Tail(inbox[e]) ELSE inbox[d]
    <2>1. Tail(inbox[e]) \in Seq(Connection!Frame)
      BY <1>1, SeqSteps
    <2> QED BY <1>2, <2>1 DEF ConnShape
  <1>5. peer[e] # 0 /\ phase \in {"awaiting-hello", "ready"} /\ conn[e] \notin {"none", "greeting"}
    BY <1>1 DEF PeerFits, OneSocket
  <1>6. \A d \in Connection!Epoch : inbox[d] = <<>> => inbox'[d] = <<>>
    BY <1>1, <1>4
  <1> DEFINE f == Head(inbox[e])
             greets == f = "hello" /\ content = 0 /\ phase = "awaiting-hello"
             starts == f = "inventory" /\ content # 0 /\ phase = "awaiting-hello" /\ accepted = peer[e]
             goesOn == f \in {"inventory", "message"} /\ content # 0 /\ phase = "ready"
  <1>7. CASE greets
    <2>1. /\ content' = peer[e] /\ accepted' = peer[e]
          /\ UNCHANGED <<phase, shown, epoch, enabled, helloTimer, retryTimer, socket, ws, authOwner, waiting>>
      BY <1>7 DEF Connection!Receive, Connection!InstallContent
    <2>2. ConnShape'
      BY <2>1, <1>3, <1>4 DEF ConnShape, Connection!TypeOK
    <2>3. WishFits' /\ TimersFit'
      BY <2>1, <1>3 DEF WishFits, TimersFit
    <2>4. OneSocket' /\ AskingFits'
      BY <2>1, <1>3 DEF OneSocket, AskingFits
    <2>5. OriginFits'
      BY <2>1, <1>1, <1>3, <1>7 DEF OriginFits
    <2>6. PeerFits'
      BY <2>1, <1>1, <1>3, <1>5, <1>6 DEF PeerFits
    <2>7. FramesFit'
      <3>1. SUFFICES ASSUME peer[e] \in speaks
                     PROVE  InventoryFirst(Tail(inbox[e])) /\ Tail(inbox[e]) # <<>>
        BY <2>1, <1>1, <1>3, <1>4, <1>5, <1>7 DEF FramesFit
      <3>2. HelloFirst(inbox[e])
        BY <3>1, <1>1, <1>7 DEF FramesFit
      <3> QED BY <3>2, <1>1 DEF HelloFirst
    <2>8. Connection!IncompatibleOnlyIfSo'
      BY <2>1, <1>3 DEF Connection!IncompatibleOnlyIfSo
    <2> QED BY <2>2, <2>3, <2>4, <2>5, <2>6, <2>7, <2>8
  <1>8. CASE starts
    <2>1. /\ phase' = "ready" /\ shown' = "online" /\ helloTimer' = 0 /\ waiting' = FALSE
          /\ UNCHANGED <<epoch, accepted, enabled, content, retryTimer, socket, ws, authOwner>>
      BY <1>8 DEF Connection!Receive
    <2>2. ConnShape'
      <3>1. 0 \in 0..MaxEpoch
        BY BrowserBounds
      <3> QED BY <3>1, <2>1, <1>3, <1>4 DEF ConnShape, Connection!TypeOK
    <2>3. WishFits' /\ TimersFit'
      BY <2>1, <1>1, <1>3, <1>8 DEF WishFits, TimersFit
    <2>4. OneSocket' /\ AskingFits'
      BY <2>1, <1>1, <1>3, <1>8 DEF OneSocket, AskingFits
    <2>5. OriginFits'
      BY <2>1, <1>1, <1>3, <1>8 DEF OriginFits
    <2>6. PeerFits'
      BY <2>1, <1>1, <1>3, <1>5, <1>6, <1>8 DEF PeerFits
    <2>7. FramesFit'
      <3>1. SUFFICES ASSUME peer[e] \in speaks
                     PROVE  Told(Tail(inbox[e]))
        BY <2>1, <1>1, <1>3, <1>4 DEF FramesFit
      <3>2. InventoryFirst(inbox[e])
        BY <3>1, <1>1, <1>8 DEF FramesFit
      <3> QED BY <3>2, <1>1, ToldTail DEF InventoryFirst
    <2>8. Connection!IncompatibleOnlyIfSo'
      BY <2>1, <1>3 DEF Connection!IncompatibleOnlyIfSo
    <2> QED BY <2>2, <2>3, <2>4, <2>5, <2>6, <2>7, <2>8
  <1>9. CASE goesOn
    <2>1. UNCHANGED <<phase, shown, epoch, accepted, enabled, content, helloTimer, retryTimer, socket, ws,
                      authOwner, waiting>>
      BY <1>9 DEF Connection!Receive, Connection!machine
    <2>2. ConnShape'
      BY <2>1, <1>3, <1>4 DEF ConnShape, Connection!TypeOK
    <2>3. WishFits' /\ TimersFit'
      BY <2>1, <1>3 DEF WishFits, TimersFit
    <2>4. OneSocket' /\ AskingFits' /\ OriginFits'
      BY <2>1, <1>3 DEF OneSocket, AskingFits, OriginFits
    <2>5. PeerFits'
      BY <2>1, <1>1, <1>3, <1>5, <1>6 DEF PeerFits
    <2>6. FramesFit'
      <3>1. SUFFICES ASSUME peer[e] \in speaks
                     PROVE  Told(Tail(inbox[e]))
        BY <2>1, <1>1, <1>3, <1>4, <1>9 DEF FramesFit
      <3>2. Told(inbox[e])
        BY <3>1, <1>1, <1>9 DEF FramesFit
      <3> QED BY <3>2, <1>1, ToldTail
    <2>7. Connection!IncompatibleOnlyIfSo'
      BY <2>1, <1>3 DEF Connection!IncompatibleOnlyIfSo
    <2> QED BY <2>2, <2>3, <2>4, <2>5, <2>6, <2>7
  <1>10. CASE ~greets /\ ~starts /\ ~goesOn
    <2>1. Connection!Incompatible
      BY <1>10 DEF Connection!Receive
    <2>2. SUFFICES ASSUME peer[e] \in speaks PROVE FALSE
      <3>1. lateHello' \in BOOLEAN
        BY <1>3 DEF ConnShape, Connection!TypeOK
      <3>2. lateHello' \/ \E d \in Connection!Epoch : peer[d] \notin speaks \cup {0}
        BY <2>2, <1>5
      <3> QED BY <2>1, <3>1, <3>2, <1>1, <1>3, <1>4, <1>6, IncompatibleKeeps
    <2>3. CASE phase = "awaiting-hello" /\ content = 0
      <3>1. HelloFirst(inbox[e])
        BY <2>2, <2>3, <1>1 DEF FramesFit
      <3> QED BY <3>1, <2>3, <1>1, <1>10, SeqSteps DEF HelloFirst
    <2>4. CASE phase = "awaiting-hello" /\ content # 0
      <3>1. InventoryFirst(inbox[e]) /\ accepted = peer[e]
        BY <2>2, <2>4, <1>1 DEF FramesFit, OriginFits
      <3> QED BY <3>1, <2>4, <1>1, <1>10, SeqSteps DEF InventoryFirst
    <2>5. CASE phase = "ready"
      <3>1. Told(inbox[e]) /\ content # 0
        BY <2>2, <2>5, <1>1 DEF FramesFit, OriginFits
      <3> QED BY <3>1, <2>5, <1>1, <1>10, ToldTail
    <2> QED BY <2>3, <2>4, <2>5, <1>5
  <1> QED BY <1>7, <1>8, <1>9, <1>10

-----------------------------------------------------------------------------
(* The steps of the network and the gateway                                *)

\* A step that leaves the browser alone may cut sockets off; the rest is about
\* the frames and the gateway's connections.
BrowserStill ==
  UNCHANGED <<phase, shown, epoch, accepted, enabled, socket, content, helloTimer, retryTimer,
              authOwner, authPending, waiting, disposed, peer, speaks, lateHello>>

SocketsOnlyCut ==
  /\ \A d \in Connection!Epoch : ws'[d] # ws[d] => ws[d] \in {"connecting", "open"} /\ ws'[d] = "lost"
  /\ \A d \in Connection!Epoch : conn[d] = "none" => conn'[d] = "none"

LEMMA FarStep ==
  ASSUME ConnInv, ConnShape', PeerFits', FramesFit', BrowserStill, SocketsOnlyCut
  PROVE  ConnInv'
  <1> USE EpochIs DEF ConnInv, BrowserStill, SocketsOnlyCut
  <1>1. WishFits' /\ TimersFit' /\ OriginFits' /\ Connection!IncompatibleOnlyIfSo'
    BY DEF WishFits, TimersFit, OriginFits, Connection!IncompatibleOnlyIfSo
  <1>2. AskingFits'
    <2>1. \A d \in Connection!Epoch : ws[d] = "none" => ws'[d] = "none"
      OBVIOUS
    <2> QED BY <2>1, ApartIs DEF AskingFits
  <1>3. OneSocket'
    <2>1. \A d \in Connection!Epoch :
            /\ ws'[d] \in {"connecting", "open", "lost"} <=> ws[d] \in {"connecting", "open", "lost"}
            /\ ws[d] \in {"open", "lost"} => ws'[d] \in {"open", "lost"}
            /\ ws[d] \in {"connecting", "lost"} => ws'[d] \in {"connecting", "lost"}
      OBVIOUS
    <2>2. socket # 0 => socket \in Connection!Epoch
      BY ApartIs
    <2>3. phase \in {"awaiting-hello", "ready"} => epoch \in Connection!Epoch
      BY <2>2 DEF OneSocket, WishFits
    <2> QED BY <2>1, <2>2, <2>3 DEF OneSocket
  <1> QED BY <1>1, <1>2, <1>3

LEMMA SocketFailsKeeps ==
  ASSUME ConnInv, NEW e \in Connection!Epoch, Connection!SocketFails(e)
  PROVE  ConnInv'
  <1> USE EpochIs DEF ConnInv
  <1>1. /\ UNCHANGED <<phase, shown, epoch, accepted, enabled, socket, content, helloTimer, retryTimer,
                       authOwner, authPending, waiting, disposed, peer, conn, alive, gateway, speaks, lateHello>>
        /\ ws' = [ws EXCEPT ![e] = "lost"] /\ inbox' = [inbox EXCEPT ![e] = <<>>]
        /\ hello' = hello \ {e} /\ ws[e] \in {"connecting", "open"}
    BY DEF Connection!SocketFails, Connection!machine, Connection!driver
  <1>2. ConnShape'
    BY <1>1, SMTT(60) DEF ConnShape, Connection!TypeOK
  <1>3. /\ \A d \in Connection!Epoch : ws'[d] = IF d = e THEN "lost" ELSE ws[d]
        /\ \A d \in Connection!Epoch : inbox'[d] = IF d = e THEN <<>> ELSE inbox[d]
    BY <1>1 DEF ConnShape, Connection!TypeOK
  <1>4. PeerFits'
    BY <1>1, <1>3 DEF PeerFits
  <1>5. FramesFit'
    <2>1. Told(<<>>) /\ HelloFirst(<<>>) /\ InventoryFirst(<<>>)
      BY DEF Told, HelloFirst, InventoryFirst
    <2> QED BY <2>1, <1>1, <1>3 DEF FramesFit
  <1> HIDE DEF ConnInv
  <1>6. BrowserStill
    BY <1>1 DEF BrowserStill
  <1>7. SocketsOnlyCut
    BY <1>1, <1>3 DEF SocketsOnlyCut
  <1> QED BY <1>2, <1>4, <1>5, <1>6, <1>7, FarStep

LEMMA ClientHelloKeeps ==
  ASSUME ConnInv, NEW e \in Connection!Epoch, Connection!ClientHello(e)
  PROVE  ConnInv'
  <1> USE EpochIs DEF ConnInv
  <1>1. /\ UNCHANGED <<phase, shown, epoch, accepted, enabled, socket, content, helloTimer, retryTimer,
                       authOwner, authPending, waiting, disposed, ws, peer, alive, gateway, speaks, lateHello>>
        /\ conn[e] = "greeting" /\ ws[e] = "open" /\ hello' = hello \ {e} /\ e \in hello
    BY DEF Connection!ClientHello, Connection!machine, Connection!driver
  <1>2. /\ socket = e /\ inbox[e] = <<>> /\ phase = "awaiting-hello" /\ content = 0 /\ peer[e] # 0
        /\ inbox \in [Connection!Epoch -> Seq(Connection!Frame)]
        /\ conn \in [Connection!Epoch -> {"none", "greeting", "ready", "refusing", "closed"}]
    BY <1>1 DEF PeerFits, OneSocket, ConnShape, Connection!TypeOK
  <1>3. PICK s \in Seq(Connection!Frame), c \in {"ready", "refusing"} :
          /\ inbox' = [inbox EXCEPT ![e] = s] /\ conn' = [conn EXCEPT ![e] = c]
          /\ s # <<>> /\ (peer[e] \in speaks => s = <<"hello", "inventory">>)
    <2>1. CASE peer[e] \in speaks
      <3>1. inbox[e] \o <<"hello", "inventory">> = <<"hello", "inventory">>
        BY <1>2
      <3>2. <<"hello", "inventory">> \in Seq(Connection!Frame) /\ <<"hello", "inventory">> # <<>>
        BY DEF Connection!Frame
      <3> QED BY <2>1, <3>1, <3>2 DEF Connection!ClientHello
    <2>2. CASE peer[e] \notin speaks
      <3>1. Append(inbox[e], "error") \in Seq(Connection!Frame) /\ Append(inbox[e], "error") # <<>>
        BY <1>2 DEF Connection!Frame
      <3> QED BY <2>2, <3>1 DEF Connection!ClientHello
    <2> QED BY <2>1, <2>2
  <1>4. /\ \A d \in Connection!Epoch : inbox'[d] = IF d = e THEN s ELSE inbox[d]
        /\ \A d \in Connection!Epoch : conn'[d] = IF d = e THEN c ELSE conn[d]
    BY <1>2, <1>3
  <1>5. /\ inbox' \in [Connection!Epoch -> Seq(Connection!Frame)]
        /\ conn' \in [Connection!Epoch -> {"none", "greeting", "ready", "refusing", "closed"}]
    BY <1>2, <1>3
  <1>6. ConnShape'
    BY <1>1, <1>5 DEF ConnShape, Connection!TypeOK
  <1>7. PeerFits'
    BY <1>1, <1>2, <1>3, <1>4 DEF PeerFits
  <1>8. FramesFit'
    <2>1. ASSUME peer[e] \in speaks PROVE HelloFirst(s)
      <3>0. s = <<"hello", "inventory">>
        BY <2>1, <1>3
      <3>1. /\ s # <<>> /\ s[1] = "hello" /\ Tail(s) # <<>> /\ Tail(s)[1] = "inventory" /\ Len(Tail(s)) = 1
        BY <3>0
      <3>2. Tail(s) = <<"inventory">>
        BY <3>0
      <3>3. Told(<<"inventory">>)
        BY DEF Told
      <3> QED BY <3>1, <3>2, <3>3 DEF HelloFirst, InventoryFirst
    <2> QED BY <2>1, <1>1, <1>2, <1>3, <1>4 DEF FramesFit
  <1> HIDE DEF ConnInv
  <1>9. BrowserStill
    BY <1>1 DEF BrowserStill
  <1>10. SocketsOnlyCut
    BY <1>1, <1>2, <1>4 DEF SocketsOnlyCut
  <1> QED BY <1>6, <1>7, <1>8, <1>9, <1>10, FarStep

\* The gateway lets a connection go; what it sent is still delivered.
LEMMA DisconnectedKeeps ==
  ASSUME ConnInv, NEW e \in Connection!Epoch, Connection!Disconnected(e), conn[e] # "none", alive' \in [Connection!Epoch -> BOOLEAN],
         UNCHANGED <<phase, shown, epoch, accepted, enabled, socket, content, helloTimer, retryTimer, authOwner,
                     authPending, waiting, disposed, peer, inbox, gateway, speaks, lateHello>>
  PROVE  ConnInv'
  <1> USE EpochIs DEF ConnInv
  <1>1. /\ conn' = [conn EXCEPT ![e] = "closed"] /\ hello' = hello \ {e}
        /\ ws' = IF ws[e] = "open" THEN [ws EXCEPT ![e] = "lost"] ELSE ws
    BY DEF Connection!Disconnected
  <1>2. /\ \A d \in Connection!Epoch : conn'[d] = IF d = e THEN "closed" ELSE conn[d]
        /\ \A d \in Connection!Epoch : ws'[d] = IF d = e /\ ws[e] = "open" THEN "lost" ELSE ws[d]
    BY <1>1 DEF ConnShape, Connection!TypeOK
  <1>3. /\ conn' \in [Connection!Epoch -> {"none", "greeting", "ready", "refusing", "closed"}]
        /\ ws' \in [Connection!Epoch -> {"none", "connecting", "open", "lost", "closed"}]
    BY <1>1 DEF ConnShape, Connection!TypeOK
  <1>4. ConnShape'
    BY <1>1, <1>3 DEF ConnShape, Connection!TypeOK
  <1>5. PeerFits'
    BY <1>1, <1>2 DEF PeerFits
  <1>6. FramesFit'
    BY <1>2 DEF FramesFit
  <1> HIDE DEF ConnInv
  <1>7. BrowserStill
    BY DEF BrowserStill
  <1>8. SocketsOnlyCut
    BY <1>2 DEF SocketsOnlyCut
  <1> QED BY <1>4, <1>5, <1>6, <1>7, <1>8, FarStep

LEMMA RefusedKeeps ==
  ASSUME ConnInv, NEW e \in Connection!Epoch, Connection!Refused(e)
  PROVE  ConnInv'
  <1>1. Connection!Disconnected(e) /\ conn[e] # "none" /\ alive' \in [Connection!Epoch -> BOOLEAN]
    BY DEF Connection!Refused, ConnInv, ConnShape, Connection!TypeOK
  <1> QED BY <1>1, DisconnectedKeeps DEF Connection!Refused, Connection!machine, Connection!driver

LEMMA GreetingTimeoutKeeps ==
  ASSUME ConnInv, NEW e \in Connection!Epoch, Connection!GreetingTimeout(e)
  PROVE  ConnInv'
  <1>1. Connection!Disconnected(e) /\ conn[e] # "none" /\ alive' \in [Connection!Epoch -> BOOLEAN]
    BY DEF Connection!GreetingTimeout, ConnInv, ConnShape, Connection!TypeOK
  <1> QED BY <1>1, DisconnectedKeeps DEF Connection!GreetingTimeout, Connection!machine, Connection!driver

\* The heartbeat flag is of no consequence to anything else.
LEMMA BeatKeeps ==
  ASSUME ConnInv, alive' \in [Connection!Epoch -> BOOLEAN],
         UNCHANGED <<phase, shown, epoch, accepted, enabled, socket, content, helloTimer, retryTimer, authOwner,
                     authPending, waiting, disposed, ws, peer, hello, inbox, conn, gateway, speaks, lateHello>>
  PROVE  ConnInv'
  <1>1. ConnShape'
    BY DEF ConnInv, ConnShape, Connection!TypeOK
  <1>2. PeerFits' /\ FramesFit'
    BY DEF ConnInv, PeerFits, FramesFit
  <1> HIDE DEF ConnInv
  <1>3. BrowserStill
    BY DEF BrowserStill
  <1>4. SocketsOnlyCut
    BY DEF SocketsOnlyCut
  <1> QED BY <1>1, <1>2, <1>3, <1>4, FarStep

LEMMA HeartbeatKeeps ==
  ASSUME ConnInv, NEW e \in Connection!Epoch, Connection!Heartbeat(e)
  PROVE  ConnInv'
  <1>1. CASE alive[e]
    <2>1. alive' \in [Connection!Epoch -> BOOLEAN] /\ UNCHANGED <<ws, conn, hello>>
      BY <1>1 DEF Connection!Heartbeat, ConnInv, ConnShape, Connection!TypeOK
    <2> QED BY <2>1, BeatKeeps DEF Connection!Heartbeat, Connection!machine, Connection!driver
  <1>2. CASE ~alive[e]
    <2>1. Connection!Disconnected(e) /\ conn[e] # "none" /\ alive' \in [Connection!Epoch -> BOOLEAN]
      BY <1>2 DEF Connection!Heartbeat, ConnInv, ConnShape, Connection!TypeOK
    <2> QED BY <2>1, DisconnectedKeeps DEF Connection!Heartbeat, Connection!machine, Connection!driver
  <1> QED BY <1>1, <1>2

LEMMA PongKeeps ==
  ASSUME ConnInv, NEW e \in Connection!Epoch, Connection!Pong(e)
  PROVE  ConnInv'
  <1>1. alive' \in [Connection!Epoch -> BOOLEAN]
    BY DEF Connection!Pong, ConnInv, ConnShape, Connection!TypeOK
  <1> QED BY <1>1, BeatKeeps DEF Connection!Pong, Connection!machine, Connection!driver

LEMMA BroadcastKeeps ==
  ASSUME ConnInv, NEW e \in Connection!Epoch, Connection!Broadcast(e)
  PROVE  ConnInv'
  <1> USE EpochIs DEF ConnInv
  <1>1. /\ UNCHANGED <<phase, shown, epoch, accepted, enabled, socket, content, helloTimer, retryTimer, authOwner,
                       authPending, waiting, disposed, ws, peer, hello, conn, alive, gateway, speaks, lateHello>>
        /\ conn[e] = "ready" /\ ws[e] = "open"
    BY DEF Connection!Broadcast, Connection!machine, Connection!driver
  <1>2. PICK f \in {"inventory", "message"} : inbox' = [inbox EXCEPT ![e] = Append(inbox[e], f)]
    BY DEF Connection!Broadcast
  <1>3. /\ inbox \in [Connection!Epoch -> Seq(Connection!Frame)] /\ inbox[e] \in Seq(Connection!Frame) /\ f \in Connection!Frame
        /\ Append(inbox[e], f) \in Seq(Connection!Frame) /\ Append(inbox[e], f) # <<>>
    BY DEF ConnShape, Connection!Frame
  <1>4. /\ inbox' \in [Connection!Epoch -> Seq(Connection!Frame)]
        /\ \A d \in Connection!Epoch : inbox'[d] = IF d = e THEN Append(inbox[e], f) ELSE inbox[d]
    BY <1>2, <1>3
  <1>5. ConnShape'
    BY <1>1, <1>4 DEF ConnShape, Connection!TypeOK
  <1>6. PeerFits'
    BY <1>1, <1>3, <1>4 DEF PeerFits
  <1>7. FramesFit'
    <2>1. SUFFICES ASSUME socket = e, peer[e] \in speaks
                   PROVE  /\ phase = "awaiting-hello" /\ content = 0 => HelloFirst(Append(inbox[e], f))
                          /\ phase = "awaiting-hello" /\ content # 0 => InventoryFirst(Append(inbox[e], f))
                          /\ phase = "ready" => Told(Append(inbox[e], f))
      BY <1>1, <1>3, <1>4 DEF FramesFit
    <2>2. ASSUME phase = "awaiting-hello", content = 0 PROVE HelloFirst(Append(inbox[e], f))
      <3>1. HelloFirst(inbox[e]) /\ inbox[e] # <<>>
        BY <2>1, <2>2, <1>1 DEF FramesFit
      <3>2. /\ inbox[e][1] = "hello" /\ Tail(inbox[e]) # <<>> /\ Tail(inbox[e])[1] = "inventory"
            /\ Told(Tail(inbox[e]))
        BY <3>1 DEF HelloFirst, InventoryFirst
      <3>3. Tail(inbox[e]) \in Seq(Connection!Frame)
        BY <3>1, <1>3, SeqSteps
      <3>4. Tail(Append(inbox[e], f)) = Append(Tail(inbox[e]), f) /\ Append(inbox[e], f)[1] = "hello"
        BY <3>1, <3>2, <1>3
      <3>5. Told(Append(Tail(inbox[e]), f))
        BY <3>2, <3>3, ToldAppend
      <3>6. Append(Tail(inbox[e]), f)[1] = "inventory" /\ Append(Tail(inbox[e]), f) # <<>>
        BY <3>2, <3>3, <1>3
      <3> QED BY <3>4, <3>5, <3>6 DEF HelloFirst, InventoryFirst
    <2>3. ASSUME phase = "awaiting-hello", content # 0 PROVE InventoryFirst(Append(inbox[e], f))
      <3>1. inbox[e] # <<>> /\ inbox[e][1] = "inventory" /\ Told(inbox[e])
        BY <2>1, <2>3, <1>1 DEF FramesFit, InventoryFirst
      <3>2. Append(inbox[e], f)[1] = "inventory"
        BY <3>1, <1>3
      <3>3. Told(Append(inbox[e], f))
        BY <3>1, <1>3, ToldAppend
      <3> QED BY <3>2, <3>3 DEF InventoryFirst
    <2>4. ASSUME phase = "ready" PROVE Told(Append(inbox[e], f))
      <3>1. Told(inbox[e])
        BY <2>1, <2>4 DEF FramesFit
      <3> QED BY <3>1, <1>3, ToldAppend
    <2> QED BY <2>2, <2>3, <2>4
  <1> HIDE DEF ConnInv
  <1>8. BrowserStill
    BY <1>1 DEF BrowserStill
  <1>9. SocketsOnlyCut
    BY <1>1 DEF SocketsOnlyCut
  <1> QED BY <1>5, <1>6, <1>7, <1>8, <1>9, FarStep

LEMMA GatewayRestartsKeeps ==
  ASSUME ConnInv, Connection!GatewayRestarts
  PROVE  ConnInv'
  <1> USE BrowserBounds, EpochIs DEF ConnInv
  <1>1. /\ UNCHANGED <<phase, shown, epoch, accepted, enabled, socket, content, helloTimer, retryTimer, authOwner,
                       authPending, waiting, disposed, peer, inbox, alive, speaks, lateHello>>
        /\ gateway < MaxGateway /\ gateway' = gateway + 1 /\ hello' = {}
        /\ conn' = [d \in Connection!Epoch |-> IF conn[d] = "none" THEN "none" ELSE "closed"]
        /\ ws' = [d \in Connection!Epoch |-> IF ws[d] = "open" THEN "lost" ELSE ws[d]]
    BY DEF Connection!GatewayRestarts, Connection!machine, Connection!driver
  <1>2. ConnShape'
    <2>1. gateway' \in 1..MaxGateway /\ hello' \subseteq Connection!Epoch
      BY <1>1 DEF ConnShape, Connection!TypeOK
    <2>2. /\ conn' \in [Connection!Epoch -> {"none", "greeting", "ready", "refusing", "closed"}]
          /\ ws' \in [Connection!Epoch -> {"none", "connecting", "open", "lost", "closed"}]
      BY <1>1 DEF ConnShape, Connection!TypeOK
    <2> QED BY <1>1, <2>1, <2>2 DEF ConnShape, Connection!TypeOK
  <1>3. PeerFits'
    BY <1>1 DEF PeerFits
  <1>4. FramesFit'
    BY <1>1 DEF FramesFit
  <1> HIDE DEF ConnInv
  <1>5. BrowserStill
    BY <1>1 DEF BrowserStill
  <1>6. SocketsOnlyCut
    BY <1>1 DEF SocketsOnlyCut
  <1> QED BY <1>2, <1>3, <1>4, <1>5, <1>6, FarStep

-----------------------------------------------------------------------------
(* The theorem                                                             *)

LEMMA ConnInvInit == MCInit => ConnInv
  <1> SUFFICES ASSUME Connection!Init PROVE ConnInv
    BY DEF MCInit
  <1> USE BrowserBounds, EpochIs DEF Connection!Init
  <1>1. ConnShape
    <2>1. 0 \in 0..MaxEpoch /\ 0 \in 0..MaxGateway /\ gateway \in 1..MaxGateway /\ <<>> \in Seq(Connection!Frame)
      OBVIOUS
    <2>2. inbox \in [Connection!Epoch -> Seq(Connection!Frame)] /\ \A e \in Connection!Epoch : inbox[e] \in Seq(Connection!Frame)
      BY <2>1
    <2>3. /\ ws \in [Connection!Epoch -> {"none", "connecting", "open", "lost", "closed"}]
          /\ conn \in [Connection!Epoch -> {"none", "greeting", "ready", "refusing", "closed"}]
          /\ peer \in [Connection!Epoch -> 0..MaxGateway] /\ alive \in [Connection!Epoch -> BOOLEAN]
      BY <2>1
    <2> QED BY <2>1, <2>2, <2>3 DEF ConnShape, Connection!TypeOK
  <1>2. WishFits /\ TimersFit /\ OneSocket /\ AskingFits /\ OriginFits
    BY DEF WishFits, TimersFit, OneSocket, AskingFits, OriginFits
  <1>3. PeerFits /\ FramesFit /\ Connection!IncompatibleOnlyIfSo
    BY DEF PeerFits, FramesFit, Connection!IncompatibleOnlyIfSo
  <1> QED BY <1>1, <1>2, <1>3 DEF ConnInv

LEMMA ConnInvStep == ConnInv /\ [MCNext]_all => ConnInv'
  <1> SUFFICES ASSUME ConnInv, MCNext \/ UNCHANGED all PROVE ConnInv'
    OBVIOUS
  <1>1. CASE UNCHANGED connectionVars
    BY <1>1 DEF connectionVars, ConnInv, ConnShape, Connection!TypeOK, WishFits, TimersFit, OneSocket, AskingFits,
                OriginFits, PeerFits, FramesFit, Connection!IncompatibleOnlyIfSo
  <1>2. CASE Connection!Next
    <2>1. CASE Connection!Browser
      BY <2>1, RetryTimerKeeps, AuthTimeoutKeeps, HelloTimeoutKeeps, AuthenticatedKeeps, SocketOpensKeeps,
         SocketClosesKeeps, ReceiveKeeps DEF Connection!Browser
    <2>2. CASE Connection!Gateway
      BY <2>2, ClientHelloKeeps, RefusedKeeps, HeartbeatKeeps, PongKeeps, GreetingTimeoutKeeps DEF Connection!Gateway
    <2>3. CASE Connection!Connect \/ Connection!Disconnect \/ Connection!Dispose \/ Connection!Wait \/ Connection!GatewayRestarts
      BY <2>3, ConnectKeeps, DisconnectKeeps, DisposeKeeps, WaitKeeps, GatewayRestartsKeeps
    <2>4. CASE \E e \in Connection!Epoch : Connection!SocketFails(e) \/ Connection!Broadcast(e)
      BY <2>4, SocketFailsKeeps, BroadcastKeeps
    <2> QED BY <1>2, <2>1, <2>2, <2>3, <2>4 DEF Connection!Next
  <1> QED BY <1>1, <1>2 DEF MCNext, Streams, Connects, all

LEMMA ConnInvExact == ConnInv => ConnectionExact
  <1> SUFFICES ASSUME ConnInv PROVE ConnectionExact
    OBVIOUS
  <1> USE EpochIs DEF ConnInv
  <1>1. Connection!TypeOK /\ Connection!IncompatibleOnlyIfSo
    BY DEF ConnShape
  <1>2. Connection!OnlineExact
    BY DEF Connection!OnlineExact, WishFits, OneSocket, OriginFits
  <1>3. Connection!NeverStranded
    BY DEF Connection!NeverStranded, TimersFit, AskingFits, OneSocket
  <1> QED BY <1>1, <1>2, <1>3 DEF ConnectionExact

\* What the browser shows of the connection is so, for any number of sockets
\* and of gateway restarts: it is online only on the one open socket, with the
\* content origin and the budgets of the gateway that sends on it; every phase
\* that waits has its timer, its promise or its socket, of this epoch; and the
\* terminal phase has its reason (connection-machine.ts, session-transport.ts).
THEOREM ConnectionHolds == MCSpec => []ConnectionExact
  <1>1. MCSpec => []ConnInv
    BY ConnInvInit, ConnInvStep, PTL DEF MCSpec
  <1> QED BY <1>1, ConnInvExact, PTL
=============================================================================
