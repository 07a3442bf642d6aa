--------------------------- MODULE SessionsProofs ---------------------------
(***************************************************************************)
(* Theorems about Sessions, for every set of players and connections and   *)
(* every bound.                                                            *)
(*                                                                         *)
(* The safety properties of Sessions are not inductive one by one.  They   *)
(* hold because of how epochs are handed out: every epoch is younger than  *)
(* the counter (EpochsIssued), no two connections share one (EpochsUnique) *)
(* and a session's socket is always the connection its epoch was issued to *)
(* (SocketIsEpoch), unless that connection has already closed (EpochSeated)*)
(***************************************************************************)
EXTENDS Sessions, FiniteSetTheorems, TLAPS

\* A connection that has said no hello, or waits for its check, has no session.
Fresh ==
  \A c \in Conn :
    /\ sock[c] = "idle" => owner[c] = NoPlayer /\ verifying[c] = NoPlayer
    /\ verifying[c] # NoPlayer => owner[c] = NoPlayer

\* Every epoch in use was handed out by Registry.newConnId.
EpochsIssued ==
  /\ \A c \in Conn : epoch[c] < nextConnId
  /\ \A c \in Conn : owner[c] # NoPlayer => epoch[c] # 0
  /\ \A p \in Player : connId[p] < nextConnId

\* newConnId never hands out the same epoch twice.
EpochsUnique ==
  \A c, d \in Conn :
    owner[c] # NoPlayer /\ owner[d] # NoPlayer /\ epoch[c] = epoch[d] => c = d

\* A session's socket is the connection its epoch was issued to.
SocketIsEpoch ==
  \A p \in Player :
    /\ p \notin registered => socket[p] = NoConn
    /\ socket[p] # NoConn => owner[socket[p]] = p /\ epoch[socket[p]] = connId[p]

\* Until it closes, the connection of the current epoch is the session's socket.
EpochSeated ==
  \A c \in Conn :
    Current(c) /\ sock[c] # "closed" => socket[owner[c]] = c

\* The inductive invariant: the properties together with the epoch discipline.
IInv ==
  /\ TypeOK
  /\ Fresh
  /\ EpochsIssued
  /\ EpochsUnique
  /\ SocketIsEpoch
  /\ EpochSeated
  /\ OpenPageOwnsSession
  /\ LingerMatchesSocket

-----------------------------------------------------------------------------

\* The empty registry satisfies every part of the invariant.
LEMMA InitIInv == Init => IInv
<1> SUFFICES ASSUME Init PROVE IInv OBVIOUS
<1> USE DEF Init
<1>1. TypeOK
  <2>1. shuttingDown \in BOOLEAN
    BY Zenon
  <2>2. missed \in [Player -> 0..2]
    BY SMT
  <2>3. /\ mute \subseteq Conn
        /\ dead \subseteq Conn
        /\ registered \subseteq Player
    BY SMT
  <2>4. sock \in [Conn -> SockState]
    BY SMT DEF SockState
  <2>5. /\ verifying \in [Conn -> Player \cup {NoPlayer}]
        /\ owner \in [Conn -> Player \cup {NoPlayer}]
    BY SMT
  <2>6. /\ epoch \in [Conn -> Nat]
        /\ outSeq \in [Conn -> Nat]
        /\ connId \in [Player -> Nat]
        /\ linger \in [Player -> Nat]
        /\ lastSeq \in [Player -> Nat]
        /\ nextConnId \in Nat \ {0}
        /\ openSockets \in Nat
        /\ socket \in [Player -> Conn \cup {NoConn}]
    BY SMT
  <2> QED BY <2>1, <2>2, <2>3, <2>4, <2>5, <2>6 DEF TypeOK
<1>2. Fresh BY NoPlayerAssumption, NoConnAssumption DEF Fresh, Current, SockState
<1>3. EpochsIssued BY NoPlayerAssumption, NoConnAssumption DEF EpochsIssued, Current, SockState
<1>4. EpochsUnique BY NoPlayerAssumption, NoConnAssumption DEF EpochsUnique, Current, SockState
<1>5. SocketIsEpoch BY NoPlayerAssumption, NoConnAssumption DEF SocketIsEpoch, Current, SockState
<1>6. EpochSeated BY NoPlayerAssumption, NoConnAssumption DEF EpochSeated, Current, SockState
<1>7. OpenPageOwnsSession BY NoPlayerAssumption, NoConnAssumption DEF OpenPageOwnsSession, Current, SockState
<1>8. LingerMatchesSocket BY NoPlayerAssumption, NoConnAssumption DEF LingerMatchesSocket, Current, SockState
<1> QED BY <1>1, <1>2, <1>3, <1>4, <1>5, <1>6, <1>7, <1>8 DEF IInv

\* A new connection has no session yet.
LEMMA ConnectInv ==
  ASSUME IInv, NEW c \in Conn, Connect(c)
  PROVE  IInv'
<1>1. TypeOK'
  BY DEF IInv, SockState, TypeOK, Connect, sessionVars
<1>2. Fresh'
  BY DEF IInv, TypeOK, Fresh, Connect, sessionVars
<1>3. EpochsIssued'
  BY DEF IInv, TypeOK, EpochsIssued, Connect, sessionVars
<1>4. EpochsUnique'
  BY DEF IInv, TypeOK, EpochsIssued, EpochsUnique, Connect, sessionVars
<1>5. SocketIsEpoch'
  BY DEF IInv, TypeOK, EpochsIssued, SocketIsEpoch, Connect, sessionVars
<1>6. EpochSeated'
  BY DEF IInv, TypeOK, EpochsIssued, EpochsUnique, SocketIsEpoch, EpochSeated, Current, Connect, sessionVars
<1>7. OpenPageOwnsSession'
  BY DEF IInv, TypeOK, Fresh, EpochSeated, SocketIsEpoch, OpenPageOwnsSession, Current, Connect, sessionVars
<1>8. LingerMatchesSocket'
  BY DEF IInv, TypeOK, EpochsIssued, SocketIsEpoch, LingerMatchesSocket, Connect, sessionVars
<1> QED BY <1>1, <1>2, <1>3, <1>4, <1>5, <1>6, <1>7, <1>8 DEF IInv

\* The step every successful hello takes: the fresh epoch outdates every other
\* connection of the player, and the one that held the session is closed.
LEMMA EstablishInv ==
  ASSUME IInv, NEW c \in Conn, NEW p \in Player,
         owner[c] = NoPlayer, sock[c] # "idle", Establish(c, p),
         UNCHANGED <<mute, dead, outSeq, openSockets, shuttingDown>>,
         verifying' = [verifying EXCEPT ![c] = NoPlayer]
  PROVE  IInv'
<1>1. TypeOK'
  <2>1. sock' \in [Conn -> SockState]
    BY DEF IInv, SockState, TypeOK, Establish, Closing
  <2>2. verifying' \in [Conn -> Player \cup {NoPlayer}]
    BY DEF IInv, TypeOK
  <2>3. /\ owner' \in [Conn -> Player \cup {NoPlayer}]
        /\ socket' \in [Player -> Conn \cup {NoConn}]
        /\ registered' \subseteq Player
    BY DEF IInv, TypeOK, Establish
  <2>4. /\ nextConnId' \in Nat \ {0}
        /\ epoch' \in [Conn -> Nat]
        /\ connId' \in [Player -> Nat]
        /\ linger' \in [Player -> Nat]
        /\ lastSeq' \in [Player -> Nat]
        /\ missed' \in [Player -> 0..2]
    BY DEF IInv, TypeOK, Establish
  <2>5. mute' \subseteq Conn /\ dead' \subseteq Conn
    BY DEF IInv, TypeOK
  <2>6. outSeq' \in [Conn -> Nat] /\ openSockets' \in Nat
    BY DEF IInv, TypeOK
  <2>7. shuttingDown' \in BOOLEAN
    BY DEF IInv, TypeOK
  <2> QED BY <2>1, <2>2, <2>3, <2>4, <2>5, <2>6, <2>7 DEF TypeOK
<1>2. Fresh'
  BY NoPlayerAssumption, NoConnAssumption DEF IInv, TypeOK, Fresh, Establish, Closing
<1>3. EpochsIssued'
  BY NoPlayerAssumption, NoConnAssumption DEF IInv, TypeOK, EpochsIssued, Establish, Closing
<1>4. EpochsUnique'
  BY NoPlayerAssumption, NoConnAssumption DEF IInv, TypeOK, EpochsIssued, EpochsUnique, Establish, Closing
<1>5. SocketIsEpoch'
  BY NoPlayerAssumption, NoConnAssumption DEF IInv, TypeOK, EpochsIssued, SocketIsEpoch, Establish, Closing
<1>6. EpochSeated'
  BY NoPlayerAssumption, NoConnAssumption DEF IInv, TypeOK, EpochsIssued, EpochsUnique, SocketIsEpoch, EpochSeated, Current, Establish, Closing
<1>7. OpenPageOwnsSession'
  BY NoPlayerAssumption, NoConnAssumption DEF IInv, TypeOK, Fresh, EpochSeated, SocketIsEpoch, OpenPageOwnsSession, Current, Establish, Closing
<1>8. LingerMatchesSocket'
  BY NoPlayerAssumption, NoConnAssumption DEF IInv, TypeOK, EpochsIssued, SocketIsEpoch, LingerMatchesSocket, Establish, Closing
<1> QED BY <1>1, <1>2, <1>3, <1>4, <1>5, <1>6, <1>7, <1>8 DEF IInv

\* A hello that has to wait for its password check takes no session yet.
LEMMA HelloWithAccountInv ==
  ASSUME IInv, NEW c \in Conn, NEW p \in Player, HelloWithAccount(c, p)
  PROVE  IInv'
<1>1. TypeOK'
  BY DEF IInv, SockState, TypeOK, HelloWithAccount, HelloExpected, Heard, sessionVars
<1>2. Fresh'
  BY DEF IInv, TypeOK, Fresh, HelloWithAccount, HelloExpected, Heard, sessionVars
<1>3. EpochsIssued'
  BY DEF IInv, TypeOK, EpochsIssued, HelloWithAccount, HelloExpected, Heard, sessionVars
<1>4. EpochsUnique'
  BY DEF IInv, TypeOK, EpochsIssued, EpochsUnique, HelloWithAccount, HelloExpected, Heard, sessionVars
<1>5. SocketIsEpoch'
  BY DEF IInv, TypeOK, EpochsIssued, SocketIsEpoch, HelloWithAccount, HelloExpected, Heard, sessionVars
<1>6. EpochSeated'
  BY DEF IInv, TypeOK, EpochsIssued, EpochsUnique, SocketIsEpoch, EpochSeated, Current, HelloWithAccount, HelloExpected, Heard, sessionVars
<1>7. OpenPageOwnsSession'
  BY DEF IInv, TypeOK, Fresh, EpochSeated, SocketIsEpoch, OpenPageOwnsSession, Current, HelloWithAccount, HelloExpected, Heard, sessionVars
<1>8. LingerMatchesSocket'
  BY DEF IInv, TypeOK, EpochsIssued, SocketIsEpoch, LingerMatchesSocket, HelloWithAccount, HelloExpected, Heard, sessionVars
<1> QED BY <1>1, <1>2, <1>3, <1>4, <1>5, <1>6, <1>7, <1>8 DEF IInv

\* Failing a connection only closes it.
LEMMA BreachInv ==
  ASSUME IInv, NEW c \in Conn, Breach(c)
  PROVE  IInv'
<1>1. TypeOK'
  BY DEF IInv, SockState, TypeOK, Breach, Heard, Fatal, Closing, sessionVars
<1>2. Fresh'
  BY DEF IInv, TypeOK, Fresh, Breach, Heard, Fatal, Closing, sessionVars
<1>3. EpochsIssued'
  BY DEF IInv, TypeOK, EpochsIssued, Breach, Heard, Fatal, Closing, sessionVars
<1>4. EpochsUnique'
  BY DEF IInv, TypeOK, EpochsIssued, EpochsUnique, Breach, Heard, Fatal, Closing, sessionVars
<1>5. SocketIsEpoch'
  BY DEF IInv, TypeOK, EpochsIssued, SocketIsEpoch, Breach, Heard, Fatal, Closing, sessionVars
<1>6. EpochSeated'
  BY DEF IInv, TypeOK, EpochsIssued, EpochsUnique, SocketIsEpoch, EpochSeated, Current, Breach, Heard, Fatal, Closing, sessionVars
<1>7. OpenPageOwnsSession'
  BY DEF IInv, TypeOK, Fresh, EpochSeated, SocketIsEpoch, OpenPageOwnsSession, Current, Breach, Heard, Fatal, Closing, sessionVars
<1>8. LingerMatchesSocket'
  BY DEF IInv, TypeOK, EpochsIssued, SocketIsEpoch, LingerMatchesSocket, Breach, Heard, Fatal, Closing, sessionVars
<1> QED BY <1>1, <1>2, <1>3, <1>4, <1>5, <1>6, <1>7, <1>8 DEF IInv

\* A frame may end its connection; it moves no epoch and no socket.
LEMMA ActionFrameInv ==
  ASSUME IInv, NEW c \in Conn, NEW n \in Nat, ActionFrame(c, n)
  PROVE  IInv'
<1>1. TypeOK'
  BY DEF IInv, SockState, TypeOK, ActionFrame, Heard, Fatal, Closing
<1>2. Fresh'
  BY DEF IInv, TypeOK, Fresh, ActionFrame, Heard, Fatal, Closing
<1>3. EpochsIssued'
  BY DEF IInv, TypeOK, EpochsIssued, ActionFrame, Heard, Fatal, Closing
<1>4. EpochsUnique'
  BY DEF IInv, TypeOK, EpochsIssued, EpochsUnique, ActionFrame, Heard, Fatal, Closing
<1>5. SocketIsEpoch'
  BY DEF IInv, TypeOK, EpochsIssued, SocketIsEpoch, ActionFrame, Heard, Fatal, Closing
<1>6. EpochSeated'
  BY DEF IInv, TypeOK, EpochsIssued, EpochsUnique, SocketIsEpoch, EpochSeated, Current, ActionFrame, Heard, Fatal, Closing
<1>7. OpenPageOwnsSession'
  BY DEF IInv, TypeOK, Fresh, EpochSeated, SocketIsEpoch, OpenPageOwnsSession, Current, ActionFrame, Heard, Fatal, Closing
<1>8. LingerMatchesSocket'
  BY DEF IInv, TypeOK, EpochsIssued, SocketIsEpoch, LingerMatchesSocket, ActionFrame, Heard, Fatal, Closing
<1> QED BY <1>1, <1>2, <1>3, <1>4, <1>5, <1>6, <1>7, <1>8 DEF IInv

\* A pong only clears the missed heartbeats of the session it came for.
LEMMA PongInv ==
  ASSUME IInv, NEW c \in Conn, Pong(c)
  PROVE  IInv'
<1>1. TypeOK'
  BY DEF IInv, SockState, TypeOK, Current, Pong, connVars
<1>2. Fresh'
  BY DEF IInv, TypeOK, Fresh, Pong, connVars
<1>3. EpochsIssued'
  BY DEF IInv, TypeOK, EpochsIssued, Pong, connVars
<1>4. EpochsUnique'
  BY DEF IInv, TypeOK, EpochsIssued, EpochsUnique, Pong, connVars
<1>5. SocketIsEpoch'
  BY DEF IInv, TypeOK, EpochsIssued, SocketIsEpoch, Pong, connVars
<1>6. EpochSeated'
  BY DEF IInv, TypeOK, EpochsIssued, EpochsUnique, SocketIsEpoch, EpochSeated, Current, Pong, connVars
<1>7. OpenPageOwnsSession'
  BY DEF IInv, TypeOK, Fresh, EpochSeated, SocketIsEpoch, OpenPageOwnsSession, Current, Pong, connVars
<1>8. LingerMatchesSocket'
  BY DEF IInv, TypeOK, EpochsIssued, SocketIsEpoch, LingerMatchesSocket, Pong, connVars
<1> QED BY <1>1, <1>2, <1>3, <1>4, <1>5, <1>6, <1>7, <1>8 DEF IInv

\* The peer's close puts the socket in its closing state and nothing else.
LEMMA PeerClosesInv ==
  ASSUME IInv, NEW c \in Conn, PeerCloses(c)
  PROVE  IInv'
<1>1. TypeOK'
  BY DEF IInv, SockState, TypeOK, PeerCloses, sessionVars
<1>2. Fresh'
  BY DEF IInv, TypeOK, Fresh, PeerCloses, sessionVars
<1>3. EpochsIssued'
  BY DEF IInv, TypeOK, EpochsIssued, PeerCloses, sessionVars
<1>4. EpochsUnique'
  BY DEF IInv, TypeOK, EpochsIssued, EpochsUnique, PeerCloses, sessionVars
<1>5. SocketIsEpoch'
  BY DEF IInv, TypeOK, EpochsIssued, SocketIsEpoch, PeerCloses, sessionVars
<1>6. EpochSeated'
  BY DEF IInv, TypeOK, EpochsIssued, EpochsUnique, SocketIsEpoch, EpochSeated, Current, PeerCloses, sessionVars
<1>7. OpenPageOwnsSession'
  BY DEF IInv, TypeOK, Fresh, EpochSeated, SocketIsEpoch, OpenPageOwnsSession, Current, PeerCloses, sessionVars
<1>8. LingerMatchesSocket'
  BY DEF IInv, TypeOK, EpochsIssued, SocketIsEpoch, LingerMatchesSocket, PeerCloses, sessionVars
<1> QED BY <1>1, <1>2, <1>3, <1>4, <1>5, <1>6, <1>7, <1>8 DEF IInv

\* A peer that falls silent changes nothing the server can see.
LEMMA PeerVanishesInv ==
  ASSUME IInv, NEW c \in Conn, PeerVanishes(c)
  PROVE  IInv'
<1>1. TypeOK'
  BY DEF IInv, SockState, TypeOK, PeerVanishes, sessionVars
<1>2. Fresh'
  BY DEF IInv, TypeOK, Fresh, PeerVanishes, sessionVars
<1>3. EpochsIssued'
  BY DEF IInv, TypeOK, EpochsIssued, PeerVanishes, sessionVars
<1>4. EpochsUnique'
  BY DEF IInv, TypeOK, EpochsIssued, EpochsUnique, PeerVanishes, sessionVars
<1>5. SocketIsEpoch'
  BY DEF IInv, TypeOK, EpochsIssued, SocketIsEpoch, PeerVanishes, sessionVars
<1>6. EpochSeated'
  BY DEF IInv, TypeOK, EpochsIssued, EpochsUnique, SocketIsEpoch, EpochSeated, Current, PeerVanishes, sessionVars
<1>7. OpenPageOwnsSession'
  BY DEF IInv, TypeOK, Fresh, EpochSeated, SocketIsEpoch, OpenPageOwnsSession, Current, PeerVanishes, sessionVars
<1>8. LingerMatchesSocket'
  BY DEF IInv, TypeOK, EpochsIssued, SocketIsEpoch, LingerMatchesSocket, PeerVanishes, sessionVars
<1> QED BY <1>1, <1>2, <1>3, <1>4, <1>5, <1>6, <1>7, <1>8 DEF IInv

\* Only the connection the session's epoch was issued to detaches it.
LEMMA CloseEventInv ==
  ASSUME IInv, NEW c \in Conn, CloseEvent(c)
  PROVE  IInv'
<1>1. TypeOK'
  BY NoPlayerAssumption, NoConnAssumption DEF IInv, SockState, TypeOK, Current, CloseEvent, Detach
<1>2. Fresh'
  BY NoPlayerAssumption, NoConnAssumption DEF IInv, TypeOK, Fresh, Current, CloseEvent, Detach
<1>3. EpochsIssued'
  BY NoPlayerAssumption, NoConnAssumption DEF IInv, TypeOK, EpochsIssued, Current, CloseEvent, Detach
<1>4. EpochsUnique'
  BY NoPlayerAssumption, NoConnAssumption DEF IInv, TypeOK, EpochsIssued, EpochsUnique, Current, CloseEvent, Detach
<1>5. SocketIsEpoch'
  BY NoPlayerAssumption, NoConnAssumption DEF IInv, TypeOK, EpochsIssued, SocketIsEpoch, Current, CloseEvent, Detach
<1>6. EpochSeated'
  BY NoPlayerAssumption, NoConnAssumption DEF IInv, TypeOK, EpochsIssued, EpochsUnique, SocketIsEpoch, EpochSeated, Current, CloseEvent, Detach
<1>7. OpenPageOwnsSession'
  BY NoPlayerAssumption, NoConnAssumption DEF IInv, TypeOK, Fresh, EpochSeated, SocketIsEpoch, OpenPageOwnsSession, Current, CloseEvent, Detach
<1>8. LingerMatchesSocket'
  BY NoPlayerAssumption, NoConnAssumption DEF IInv, TypeOK, EpochsIssued, SocketIsEpoch, LingerMatchesSocket, Current, CloseEvent, Detach
<1> QED BY <1>1, <1>2, <1>3, <1>4, <1>5, <1>6, <1>7, <1>8 DEF IInv

\* The player that leaves has no socket, hence no open page.
LEMMA GraceExpiresInv ==
  ASSUME IInv, NEW p \in Player, GraceExpires(p)
  PROVE  IInv'
<1>1. TypeOK'
  BY NoConnAssumption DEF IInv, SockState, TypeOK, GraceExpires, connVars
<1>2. Fresh'
  BY NoConnAssumption DEF IInv, TypeOK, Fresh, GraceExpires, connVars
<1>3. EpochsIssued'
  BY NoConnAssumption DEF IInv, TypeOK, EpochsIssued, GraceExpires, connVars
<1>4. EpochsUnique'
  BY NoConnAssumption DEF IInv, TypeOK, EpochsIssued, EpochsUnique, GraceExpires, connVars
<1>5. SocketIsEpoch'
  BY NoConnAssumption DEF IInv, TypeOK, EpochsIssued, SocketIsEpoch, GraceExpires, connVars
<1>6. EpochSeated'
  BY NoConnAssumption DEF IInv, TypeOK, EpochsIssued, EpochsUnique, SocketIsEpoch, EpochSeated, Current, GraceExpires, connVars
<1>7. OpenPageOwnsSession'
  BY NoConnAssumption DEF IInv, TypeOK, Fresh, EpochSeated, SocketIsEpoch, OpenPageOwnsSession, Current, GraceExpires, connVars
<1>8. LingerMatchesSocket'
  BY NoConnAssumption DEF IInv, TypeOK, EpochsIssued, SocketIsEpoch, LingerMatchesSocket, GraceExpires, connVars
<1> QED BY <1>1, <1>2, <1>3, <1>4, <1>5, <1>6, <1>7, <1>8 DEF IInv

\* The heartbeat only closes sockets.
LEMMA BeatInv ==
  ASSUME IInv, Beat
  PROVE  IInv'
<1>1. TypeOK'
  BY DEF IInv, SockState, TypeOK, Beat, Closing
<1>2. Fresh'
  BY DEF IInv, TypeOK, Fresh, Beat, Closing
<1>3. EpochsIssued'
  BY DEF IInv, TypeOK, EpochsIssued, Beat, Closing
<1>4. EpochsUnique'
  BY DEF IInv, TypeOK, EpochsIssued, EpochsUnique, Beat, Closing
<1>5. SocketIsEpoch'
  BY DEF IInv, TypeOK, EpochsIssued, SocketIsEpoch, Beat, Closing
<1>6. EpochSeated'
  BY DEF IInv, TypeOK, EpochsIssued, EpochsUnique, SocketIsEpoch, EpochSeated, Current, Beat, Closing
<1>7. OpenPageOwnsSession'
  BY DEF IInv, TypeOK, Fresh, EpochSeated, SocketIsEpoch, OpenPageOwnsSession, Current, Beat, Closing
<1>8. LingerMatchesSocket'
  BY DEF IInv, TypeOK, EpochsIssued, SocketIsEpoch, LingerMatchesSocket, Beat, Closing
<1> QED BY <1>1, <1>2, <1>3, <1>4, <1>5, <1>6, <1>7, <1>8 DEF IInv

\* The shutdown of index.ts ends every socket and timer and moves no epoch.
LEMMA ShutdownInv ==
  ASSUME IInv, Shutdown
  PROVE  IInv'
<1>1. TypeOK'
  BY DEF IInv, SockState, TypeOK, Shutdown, Closing
<1>2. Fresh'
  BY DEF IInv, TypeOK, Fresh, Shutdown, Closing
<1>3. EpochsIssued'
  BY DEF IInv, TypeOK, EpochsIssued, Shutdown, Closing
<1>4. EpochsUnique'
  BY DEF IInv, TypeOK, EpochsIssued, EpochsUnique, Shutdown, Closing
<1>5. SocketIsEpoch'
  BY DEF IInv, TypeOK, EpochsIssued, SocketIsEpoch, Shutdown, Closing
<1>6. EpochSeated'
  BY DEF IInv, TypeOK, EpochsIssued, EpochsUnique, SocketIsEpoch, EpochSeated, Current, Shutdown, Closing
<1>7. OpenPageOwnsSession'
  BY DEF IInv, TypeOK, Fresh, EpochSeated, SocketIsEpoch, OpenPageOwnsSession, Current, Shutdown, Closing
<1>8. LingerMatchesSocket'
  BY DEF IInv, TypeOK, EpochsIssued, SocketIsEpoch, LingerMatchesSocket, Shutdown, Closing
<1> QED BY <1>1, <1>2, <1>3, <1>4, <1>5, <1>6, <1>7, <1>8 DEF IInv

\* The three outcomes of a password check.
LEMMA AuthSettlesInv ==
  ASSUME IInv, NEW c \in Conn, AuthSettles(c)
  PROVE  IInv'
<1>1. owner[c] = NoPlayer /\ sock[c] # "idle" /\ verifying[c] \in Player
  BY DEF IInv, TypeOK, Fresh, AuthSettles
<1>2. CASE UNCHANGED <<sock, dead, owner, epoch, sessionVars>>
  <2>1. TypeOK'
    BY <1>2 DEF IInv, SockState, TypeOK, AuthSettles, sessionVars
  <2>2. Fresh'
    BY <1>2 DEF IInv, TypeOK, Fresh, AuthSettles, sessionVars
  <2>3. EpochsIssued'
    BY <1>2 DEF IInv, TypeOK, EpochsIssued, AuthSettles, sessionVars
  <2>4. EpochsUnique'
    BY <1>2 DEF IInv, TypeOK, EpochsIssued, EpochsUnique, AuthSettles, sessionVars
  <2>5. SocketIsEpoch'
    BY <1>2 DEF IInv, TypeOK, EpochsIssued, SocketIsEpoch, AuthSettles, sessionVars
  <2>6. EpochSeated'
    BY <1>2 DEF IInv, TypeOK, EpochsIssued, EpochsUnique, SocketIsEpoch, EpochSeated, Current, AuthSettles, sessionVars
  <2>7. OpenPageOwnsSession'
    BY <1>2 DEF IInv, TypeOK, Fresh, EpochSeated, SocketIsEpoch, OpenPageOwnsSession, Current, AuthSettles, sessionVars
  <2>8. LingerMatchesSocket'
    BY <1>2 DEF IInv, TypeOK, EpochsIssued, SocketIsEpoch, LingerMatchesSocket, AuthSettles, sessionVars
  <2> QED BY <2>1, <2>2, <2>3, <2>4, <2>5, <2>6, <2>7, <2>8 DEF IInv
<1>3. CASE Fatal(c) /\ UNCHANGED <<owner, epoch, sessionVars>>
  <2>1. TypeOK'
    BY <1>3 DEF IInv, SockState, TypeOK, AuthSettles, Fatal, Closing, sessionVars
  <2>2. Fresh'
    BY <1>3 DEF IInv, TypeOK, Fresh, AuthSettles, Fatal, Closing, sessionVars
  <2>3. EpochsIssued'
    BY <1>3 DEF IInv, TypeOK, EpochsIssued, AuthSettles, Fatal, Closing, sessionVars
  <2>4. EpochsUnique'
    BY <1>3 DEF IInv, TypeOK, EpochsIssued, EpochsUnique, AuthSettles, Fatal, Closing, sessionVars
  <2>5. SocketIsEpoch'
    BY <1>3 DEF IInv, TypeOK, EpochsIssued, SocketIsEpoch, AuthSettles, Fatal, Closing, sessionVars
  <2>6. EpochSeated'
    BY <1>3 DEF IInv, TypeOK, EpochsIssued, EpochsUnique, SocketIsEpoch, EpochSeated, Current, AuthSettles, Fatal, Closing, sessionVars
  <2>7. OpenPageOwnsSession'
    BY <1>3 DEF IInv, TypeOK, Fresh, EpochSeated, SocketIsEpoch, OpenPageOwnsSession, Current, AuthSettles, Fatal, Closing, sessionVars
  <2>8. LingerMatchesSocket'
    BY <1>3 DEF IInv, TypeOK, EpochsIssued, SocketIsEpoch, LingerMatchesSocket, AuthSettles, Fatal, Closing, sessionVars
  <2> QED BY <2>1, <2>2, <2>3, <2>4, <2>5, <2>6, <2>7, <2>8 DEF IInv
<1>4. CASE Establish(c, verifying[c]) /\ UNCHANGED dead
  BY <1>1, <1>4, EstablishInv DEF AuthSettles
<1> QED BY <1>2, <1>3, <1>4 DEF AuthSettles

\* A hello without an account takes the session at once.
LEMMA HelloAnonymousInv ==
  ASSUME IInv, NEW c \in Conn, NEW p \in Player, HelloAnonymous(c, p)
  PROVE  IInv'
<1>1. owner[c] = NoPlayer /\ sock[c] # "idle"
  BY DEF HelloAnonymous, HelloExpected, Heard
<1>2. verifying' = [verifying EXCEPT ![c] = NoPlayer]
  BY DEF HelloAnonymous, HelloExpected, IInv, TypeOK
<1> QED BY <1>1, <1>2, EstablishInv DEF HelloAnonymous

\* Every step of the server keeps the invariant: one case per action of Next.
LEMMA NextIInv == IInv /\ [Next]_vars => IInv'
<1> SUFFICES ASSUME IInv, [Next]_vars PROVE IInv'
  OBVIOUS
<1>1. ASSUME NEW c \in Conn, Connect(c) PROVE IInv'
  BY <1>1, ConnectInv
<1>2. ASSUME NEW c \in Conn, NEW p \in Player, HelloAnonymous(c, p) PROVE IInv'
  BY <1>2, HelloAnonymousInv
<1>3. ASSUME NEW c \in Conn, NEW p \in Player, HelloWithAccount(c, p) PROVE IInv'
  BY <1>3, HelloWithAccountInv
<1>4. ASSUME NEW c \in Conn, AuthSettles(c) PROVE IInv'
  BY <1>4, AuthSettlesInv
<1>5. ASSUME NEW c \in Conn, Breach(c) PROVE IInv'
  BY <1>5, BreachInv
<1>6. ASSUME NEW c \in Conn, NEW n \in 1..MaxSeq, ActionFrame(c, n) PROVE IInv'
  BY <1>6, ActionFrameInv, BoundAssumption
<1>7. ASSUME NEW c \in Conn, Pong(c) PROVE IInv'
  BY <1>7, PongInv
<1>8. ASSUME NEW c \in Conn, PeerCloses(c) PROVE IInv'
  BY <1>8, PeerClosesInv
<1>9. ASSUME NEW c \in Conn, PeerVanishes(c) PROVE IInv'
  BY <1>9, PeerVanishesInv
<1>10. ASSUME NEW c \in Conn, CloseEvent(c) PROVE IInv'
  BY <1>10, CloseEventInv
<1>11. ASSUME NEW p \in Player, GraceExpires(p) PROVE IInv'
  BY <1>11, GraceExpiresInv
<1>12. CASE Beat
  BY <1>12, BeatInv
<1>13. CASE Shutdown
  BY <1>13, ShutdownInv
<1>14. CASE UNCHANGED vars
  BY <1>14 DEF IInv, TypeOK, Fresh, EpochsIssued, EpochsUnique, SocketIsEpoch,
               EpochSeated, OpenPageOwnsSession, LingerMatchesSocket, Current,
               vars, connVars, sessionVars
<1> QED BY <1>1, <1>2, <1>3, <1>4, <1>5, <1>6, <1>7, <1>8, <1>9, <1>10, <1>11,
           <1>12, <1>13, <1>14 DEF Next

\* The strengthened invariant holds in every reachable state.
THEOREM Invariance == Spec => []IInv
<1>1. Init => IInv
  BY InitIInv
<1>2. IInv /\ [Next]_vars => IInv'
  BY NextIInv
<1> QED BY <1>1, <1>2, PTL DEF Spec

-----------------------------------------------------------------------------
(* The properties the runs check.                                          *)

\* Every variable keeps its type.
THEOREM TypeCorrect == Spec => []TypeOK
BY Invariance, PTL DEF IInv

\* A connected page that was given a character always is that character's
\* session (the epoch guard of handleClose and of handleHello).
THEOREM PagesOwnSessions == Spec => []OpenPageOwnsSession
BY Invariance, PTL DEF IInv

\* The grace timer is armed exactly while a session has no socket.
THEOREM LingerCorrect == Spec => []LingerMatchesSocket
BY Invariance, PTL DEF IInv

\* The seq check of server.ts never turns away a client whose numbers grow.
THEOREM SeqCorrect == Spec => []SeqBelongsToConnection
<1>1. Init => SeqBelongsToConnection
  BY DEF Init, SeqBelongsToConnection, Current
<1>2. IInv /\ SeqBelongsToConnection /\ [Next]_vars => SeqBelongsToConnection'
  <2> SUFFICES ASSUME IInv, SeqBelongsToConnection, [Next]_vars
               PROVE  SeqBelongsToConnection'
    OBVIOUS
  <2> USE DEF IInv, TypeOK, SeqBelongsToConnection, Current
  <2>1. ASSUME NEW c \in Conn, NEW p \in Player, Establish(c, p), UNCHANGED outSeq
        PROVE  SeqBelongsToConnection'
    BY <2>1, NoPlayerAssumption DEF Establish, EpochsIssued
  <2>2. ASSUME NEW c \in Conn, NEW n \in 1..MaxSeq, ActionFrame(c, n)
        PROVE  SeqBelongsToConnection'
    BY <2>2, BoundAssumption, NoPlayerAssumption DEF ActionFrame, EpochsUnique
  <2>3. ASSUME UNCHANGED <<owner, epoch, connId, lastSeq, outSeq>>,
               registered' \subseteq registered
        PROVE  SeqBelongsToConnection'
    BY <2>3
  <2>4. ASSUME NEW c \in Conn, AuthSettles(c) PROVE SeqBelongsToConnection'
    BY <2>4, <2>1, <2>3 DEF AuthSettles, Fresh, sessionVars
  <2>5. ASSUME NEW c \in Conn, NEW p \in Player, HelloAnonymous(c, p)
        PROVE  SeqBelongsToConnection'
    BY <2>5, <2>1 DEF HelloAnonymous
  <2>6. ASSUME NEW c \in Conn,
               Connect(c) \/ (\E p \in Player : HelloWithAccount(c, p)) \/ Breach(c)
                 \/ Pong(c) \/ PeerCloses(c) \/ PeerVanishes(c) \/ CloseEvent(c)
        PROVE  SeqBelongsToConnection'
    BY <2>6, <2>3 DEF Connect, HelloWithAccount, Breach, Pong, PeerCloses,
                      PeerVanishes, CloseEvent, sessionVars, connVars
  <2>7. ASSUME NEW p \in Player, GraceExpires(p) PROVE SeqBelongsToConnection'
    BY <2>7, <2>3 DEF GraceExpires, connVars
  <2>8. CASE Beat \/ Shutdown \/ UNCHANGED vars
    BY <2>8, <2>3 DEF Beat, Shutdown, vars, connVars, sessionVars
  <2> QED BY <2>2, <2>4, <2>5, <2>6, <2>7, <2>8 DEF Next
<1> QED BY <1>1, <1>2, Invariance, PTL DEF Spec

\* Only a grace timer removes a player, and never one with an open page.
THEOREM DepartureCorrect == Spec => DepartsOnlyWhenGone
<1>1. IInv /\ [Next]_vars =>
        [\A p \in registered \ registered' :
           ~\E c \in Conn : owner[c] = p /\ sock[c] = "open"]_vars
  <2> SUFFICES ASSUME IInv, Next, NEW p \in registered \ registered',
                      NEW c \in Conn, owner[c] = p, sock[c] = "open"
               PROVE  FALSE
    BY DEF vars
  <2>1. socket[p] = c
    BY NoPlayerAssumption DEF IInv, TypeOK, OpenPageOwnsSession
  <2>2. PICK q \in Player : GraceExpires(q)
    BY DEF Next, Connect, HelloAnonymous, HelloWithAccount, AuthSettles, Establish,
           Breach, ActionFrame, Pong, PeerCloses, PeerVanishes, CloseEvent, Beat,
           Shutdown, sessionVars, connVars
  <2>3. q = p /\ socket[q] = NoConn
    BY <2>2 DEF GraceExpires
  <2> QED BY <2>1, <2>3, NoConnAssumption
<1> QED BY <1>1, Invariance, PTL DEF Spec, DepartsOnlyWhenGone

\* The close of the socket a session is using always starts its grace period.
THEOREM CloseCorrect == Spec => CloseDetaches
<1>1. IInv /\ [Next]_vars =>
        [\A p \in Player :
           \A c \in Conn :
             p \in registered /\ socket[p] = c /\ sock[c] = "closing" /\ sock'[c] = "closed"
               => shuttingDown \/ (socket'[p] = NoConn /\ linger'[p] = connId[p])]_vars
  <2> SUFFICES ASSUME IInv, Next, NEW p \in Player, NEW c \in Conn,
                      p \in registered, socket[p] = c, sock[c] = "closing",
                      sock'[c] = "closed", ~shuttingDown
               PROVE  socket'[p] = NoConn /\ linger'[p] = connId[p]
    BY DEF vars
  <2>1. owner[c] = p /\ epoch[c] = connId[p]
    BY NoConnAssumption DEF IInv, TypeOK, SocketIsEpoch
  <2>2. PICK d \in Conn : CloseEvent(d)
    BY DEF Next, Connect, HelloAnonymous, HelloWithAccount, AuthSettles, Establish,
           Breach, ActionFrame, Pong, PeerCloses, PeerVanishes, GraceExpires, Beat,
           Shutdown, Fatal, Closing, sessionVars, connVars, IInv, TypeOK
  <2>3. d = c
    BY <2>2 DEF CloseEvent, IInv, TypeOK
  <2> QED BY <2>1, <2>2, <2>3, NoConnAssumption
          DEF CloseEvent, Detach, Current, IInv, TypeOK
<1> QED BY <1>1, Invariance, PTL DEF Spec, CloseDetaches

-----------------------------------------------------------------------------
(* The budget of sockets per address.                                      *)

OpenSet == {c \in Conn : sock[c] \in {"open", "closing"}}

\* The sockets that exist can be counted.
LEMMA OpenSetFinite == IsFiniteSet(OpenSet)
BY ConnAssumption, FS_Subset DEF OpenSet

\* Only an accepted connection and a close event change the set of sockets.
LEMMA OpenSetStep ==
  ASSUME IInv, Next
  PROVE  \/ OpenSet' = OpenSet /\ openSockets' = openSockets
         \/ \E c \in Conn \ OpenSet : OpenSet' = OpenSet \cup {c} /\ Connect(c)
         \/ \E c \in OpenSet : OpenSet' = OpenSet \ {c} /\ CloseEvent(c)
<1> USE DEF IInv, TypeOK, OpenSet, SockState
<1>1. ASSUME NEW c \in Conn, Connect(c)
      PROVE  \E d \in Conn \ OpenSet : OpenSet' = OpenSet \cup {d} /\ Connect(d)
  <2>1. c \in Conn \ OpenSet /\ OpenSet' = OpenSet \cup {c}
    BY <1>1 DEF Connect
  <2> QED BY <1>1, <2>1
<1>2. ASSUME NEW c \in Conn, CloseEvent(c)
      PROVE  \E d \in OpenSet : OpenSet' = OpenSet \ {d} /\ CloseEvent(d)
  <2>1. c \in OpenSet /\ OpenSet' = OpenSet \ {c}
    BY <1>2 DEF CloseEvent
  <2> QED BY <1>2, <2>1
<1>3. ASSUME NEW c \in Conn, NEW p \in Player, Establish(c, p)
      PROVE  OpenSet' = OpenSet
  BY <1>3 DEF Establish, Closing
<1>4. ASSUME NEW c \in Conn, Fatal(c) PROVE OpenSet' = OpenSet
  BY <1>4 DEF Fatal, Closing
<1>5. ASSUME NEW c \in Conn, AuthSettles(c)
      PROVE  OpenSet' = OpenSet /\ openSockets' = openSockets
  <2>1. verifying[c] \in Player
    BY <1>5 DEF AuthSettles
  <2> QED BY <1>5, <2>1, <1>3, <1>4 DEF AuthSettles
<1>6. ASSUME NEW c \in Conn, NEW n \in 1..MaxSeq, ActionFrame(c, n)
      PROVE  OpenSet' = OpenSet /\ openSockets' = openSockets
  BY <1>6, <1>4 DEF ActionFrame
<1>7. ASSUME NEW c \in Conn, NEW p \in Player,
             HelloAnonymous(c, p) \/ HelloWithAccount(c, p)
      PROVE  OpenSet' = OpenSet /\ openSockets' = openSockets
  BY <1>7, <1>3 DEF HelloAnonymous, HelloWithAccount
<1>8. ASSUME NEW c \in Conn, Breach(c) \/ Pong(c) \/ PeerCloses(c) \/ PeerVanishes(c)
      PROVE  OpenSet' = OpenSet /\ openSockets' = openSockets
  BY <1>8, <1>4 DEF Breach, Pong, PeerCloses, PeerVanishes, connVars
<1>9. ASSUME NEW p \in Player, GraceExpires(p)
      PROVE  OpenSet' = OpenSet /\ openSockets' = openSockets
  BY <1>9 DEF GraceExpires, connVars
<1>10. ASSUME Beat \/ Shutdown PROVE OpenSet' = OpenSet /\ openSockets' = openSockets
  BY <1>10 DEF Beat, Shutdown, Closing
<1> QED BY <1>1, <1>2, <1>5, <1>6, <1>7, <1>8, <1>9, <1>10 DEF Next

\* The counter of sockets per address never drifts, whatever is refused,
\* replaced or lost.
THEOREM CounterCorrect == Spec => []SocketsCounted
<1>1. Init => SocketsCounted
  <2> SUFFICES ASSUME Init PROVE SocketsCounted
    OBVIOUS
  <2>1. OpenSet = {}
    BY DEF Init, OpenSet
  <2> QED BY <2>1, FS_EmptySet DEF Init, SocketsCounted, OpenSet
<1>2. IInv /\ SocketsCounted /\ [Next]_vars => SocketsCounted'
  <2> SUFFICES ASSUME IInv, SocketsCounted, [Next]_vars PROVE SocketsCounted'
    OBVIOUS
  <2>1. openSockets = Cardinality(OpenSet) /\ Cardinality(OpenSet) \in Nat
    BY OpenSetFinite, FS_CardinalityType DEF SocketsCounted, OpenSet
  <2>2. ASSUME NEW c \in Conn \ OpenSet, OpenSet' = OpenSet \cup {c}, Connect(c)
        PROVE  openSockets' = Cardinality(OpenSet')
    <3>1. Cardinality(OpenSet \cup {c}) = Cardinality(OpenSet) + 1
      BY <2>2, OpenSetFinite, FS_AddElement
    <3> QED BY <2>1, <2>2, <3>1 DEF Connect
  <2>3. ASSUME NEW c \in OpenSet, OpenSet' = OpenSet \ {c}, CloseEvent(c)
        PROVE  openSockets' = Cardinality(OpenSet')
    <3>1. Cardinality(OpenSet \ {c}) = Cardinality(OpenSet) - 1
      BY <2>3, OpenSetFinite, FS_RemoveElement
    <3>2. Cardinality(OpenSet) # 0
      BY <2>3, OpenSetFinite, FS_EmptySet
    <3> QED BY <2>1, <2>3, <3>1, <3>2 DEF CloseEvent
  <2>4. ASSUME OpenSet' = OpenSet, openSockets' = openSockets
        PROVE  openSockets' = Cardinality(OpenSet')
    BY <2>1, <2>4
  <2>5. CASE UNCHANGED vars
    BY <2>4, <2>5 DEF vars, connVars, OpenSet, SocketsCounted
  <2>6. CASE Next
    BY <2>2, <2>3, <2>4, <2>6, OpenSetStep DEF SocketsCounted, OpenSet
  <2> QED BY <2>5, <2>6
<1> QED BY <1>1, <1>2, Invariance, PTL DEF Spec

-----------------------------------------------------------------------------
(* Sessions implements Seats.                                              *)

\* The empty registry is the contract's initial state.
LEMMA InitSeats == Init => SeatContract!SeatInit
BY DEF Init, SeatContract!SeatInit

\* Every step of the server is a step of the contract or leaves it alone.
LEMMA StepSeats ==
  ASSUME IInv, [Next]_vars
  PROVE  [SeatContract!SeatNext]_(SeatContract!seatVars)
<1> USE DEF SeatContract!seatVars
<1>1. ASSUME NEW c \in Conn, NEW p \in Player, owner[c] = NoPlayer,
             Establish(c, p), shuttingDown' = shuttingDown
      PROVE  SeatContract!Take(p, c)
  BY <1>1, NoPlayerAssumption
     DEF Establish, Closing, SeatContract!Take, IInv, TypeOK
<1>2. ASSUME NEW c \in Conn, CloseEvent(c)
      PROVE  SeatContract!Close(c)
  <2>1. \A q \in Player : socket[q] = c => q = owner[c] /\ Current(c)
    BY NoConnAssumption DEF IInv, TypeOK, SocketIsEpoch, Current
  <2>2. socket' = IF shuttingDown THEN socket
                  ELSE [q \in Player |-> IF socket[q] = c THEN NoConn ELSE socket[q]]
    <3>1. CASE ~shuttingDown /\ Current(c) /\ socket[owner[c]] # NoConn
      <4>1. socket[owner[c]] = c /\ owner[c] \in Player
        BY <1>2, <3>1 DEF CloseEvent, EpochSeated, IInv, TypeOK, Current
      <4> QED BY <1>2, <2>1, <3>1, <4>1 DEF CloseEvent, Detach, IInv, TypeOK
    <3>2. CASE ~(~shuttingDown /\ Current(c) /\ socket[owner[c]] # NoConn)
      <4>1. shuttingDown \/ \A q \in Player : socket[q] # c
        BY <2>1, <3>2, NoConnAssumption
      <4> QED BY <1>2, <3>2, <4>1 DEF CloseEvent, Detach, IInv, TypeOK
    <3> QED BY <3>1, <3>2
  <2>3. {d \in Conn : sock'[d] = "closed"} = {d \in Conn : sock[d] = "closed"} \cup {c}
    BY <1>2 DEF CloseEvent, IInv, TypeOK
  <2> QED BY <1>2, <2>2, <2>3 DEF CloseEvent, SeatContract!Close
<1>3. ASSUME NEW p \in Player, GraceExpires(p)
      PROVE  SeatContract!Depart(p)
  BY <1>3 DEF GraceExpires, SeatContract!Depart, connVars
<1>4. ASSUME UNCHANGED <<registered, socket, owner, shuttingDown>>,
             \A c \in Conn : sock'[c] = "closed" <=> sock[c] = "closed"
      PROVE  UNCHANGED SeatContract!seatVars
  BY <1>4
<1>5. ASSUME NEW c \in Conn, Fatal(c) PROVE \A d \in Conn : sock'[d] = "closed" <=> sock[d] = "closed"
  BY <1>5 DEF Fatal, Closing, IInv, TypeOK
<1>6. ASSUME NEW c \in Conn, AuthSettles(c)
      PROVE  [SeatContract!SeatNext]_(SeatContract!seatVars)
  <2>1. verifying[c] \in Player /\ owner[c] = NoPlayer
    BY <1>6 DEF AuthSettles, IInv, TypeOK, Fresh
  <2>2. CASE Establish(c, verifying[c])
    BY <1>1, <1>6, <2>1, <2>2 DEF AuthSettles, SeatContract!SeatNext
  <2>3. CASE ~Establish(c, verifying[c])
    <3>1. UNCHANGED <<registered, socket, owner, shuttingDown>>
      BY <1>6, <2>3 DEF AuthSettles, sessionVars
    <3>2. \A d \in Conn : sock'[d] = "closed" <=> sock[d] = "closed"
      BY <1>5, <1>6, <2>3 DEF AuthSettles
    <3> QED BY <1>4, <3>1, <3>2
  <2> QED BY <2>2, <2>3
<1>7. ASSUME NEW c \in Conn, NEW p \in Player, HelloAnonymous(c, p)
      PROVE  SeatContract!SeatNext
  BY <1>1, <1>7 DEF HelloAnonymous, HelloExpected, SeatContract!SeatNext
<1>8. ASSUME NEW c \in Conn,
             Connect(c) \/ (\E p \in Player : HelloWithAccount(c, p)) \/ Breach(c)
               \/ (\E n \in 1..MaxSeq : ActionFrame(c, n)) \/ Pong(c) \/ PeerCloses(c)
               \/ PeerVanishes(c)
      PROVE  UNCHANGED SeatContract!seatVars
  <2>1. UNCHANGED <<registered, socket, owner, shuttingDown>>
    BY <1>8 DEF Connect, HelloWithAccount, Breach, ActionFrame, Pong, PeerCloses,
                PeerVanishes, sessionVars, connVars
  <2>2. \A d \in Conn : sock'[d] = "closed" <=> sock[d] = "closed"
    BY <1>5, <1>8 DEF Connect, HelloWithAccount, Breach, ActionFrame, Pong, PeerCloses,
                      PeerVanishes, connVars, IInv, TypeOK
  <2> QED BY <1>4, <2>1, <2>2
<1>9. CASE Beat
  BY <1>4, <1>9 DEF Beat, Closing
<1>10. CASE Shutdown
  <2>1. {d \in Conn : sock'[d] = "closed"} = {d \in Conn : sock[d] = "closed"}
    BY <1>10 DEF Shutdown, Closing
  <2> QED BY <1>10, <2>1 DEF Shutdown, SeatContract!SeatNext, SeatContract!Stop
<1>11. CASE UNCHANGED vars
  BY <1>4, <1>11 DEF vars, connVars, sessionVars
<1> QED BY <1>2, <1>3, <1>6, <1>7, <1>8, <1>9, <1>10, <1>11
        DEF Next, SeatContract!SeatNext

\* The registry keeps the contract of Seats in every behaviour.
THEOREM Refinement == Spec => ImplementsSeats
<1>1. Init => SeatContract!SeatInit
  BY InitSeats
<1>2. IInv /\ [Next]_vars => [SeatContract!SeatNext]_(SeatContract!seatVars)
  BY StepSeats
<1> QED BY <1>1, <1>2, Invariance, PTL DEF Spec, ImplementsSeats, SeatContract!SeatSpec

=============================================================================
