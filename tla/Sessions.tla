------------------------------ MODULE Sessions ------------------------------
(***************************************************************************)
(* Connections, sessions and the grace period of the game server.          *)
(*                                                                         *)
(* A connection (net/server.ts, interface Conn) is one accepted WebSocket. *)
(* A session (net/session.ts) is a player's seat in the registry.  It      *)
(* outlives its socket: when the socket closes, the session "lingers" for  *)
(* GRACE_MS and can be adopted by a new connection of the same player.     *)
(* Every connection that is given a session takes a fresh number, its      *)
(* epoch, and late work of older connections is recognised by comparing    *)
(* epochs.                                                                 *)
(*                                                                         *)
(* The server is one Node process: a handler runs to completion, so each   *)
(* action below is one callback.  The only wait inside a handler modelled  *)
(* here is the password check of a hello that carries an account, which    *)
(* splits that hello in two actions.                                       *)
(*                                                                         *)
(* A Session object is identified with its player.  Nothing is lost: once  *)
(* an object has left the registry its socket has delivered its close      *)
(* event, so no connection that still refers to it can deliver anything.   *)
(***************************************************************************)
EXTENDS Naturals, FiniteSets

CONSTANTS
  Player,       \* the characters in the database
  Conn,         \* the WebSocket connections a behaviour may open
  NoPlayer,     \* "no session yet" of a connection
  NoConn,       \* "socket === null" of a session
  MaxSockets,   \* MAX_SOCKETS_PER_IP; all connections come from one address
  MaxSeq        \* bound: the largest number an action frame carries

ASSUME NoPlayerAssumption == NoPlayer \notin Player
ASSUME NoConnAssumption == NoConn \notin Conn
ASSUME ConnAssumption == IsFiniteSet(Conn)
ASSUME BoundAssumption == MaxSockets \in Nat /\ MaxSeq \in Nat

VARIABLES
  \* --- per connection
  sock,         \* readyState, as the server's event loop has seen it
  mute,         \* connections whose peer vanished without closing
  dead,         \* conn.dead: fatal() was called, inbound frames are dropped
  verifying,    \* whose hello the running password check is for (helloPending)
  owner,        \* conn.session
  epoch,        \* conn.epoch
  outSeq,       \* the highest action number this connection has sent
  \* --- per session
  registered,   \* the players that have a session in the registry
  connId,       \* session.connId
  socket,       \* session.socket
  linger,       \* the epoch captured by the armed grace timer, 0 if none
  missed,       \* session.awaitingPong
  lastSeq,      \* session.lastSeq
  \* --- process wide
  nextConnId,   \* Registry.nextConnId
  openSockets,  \* socketsPerIp of the one address
  shuttingDown

connVars == <<sock, mute, dead, verifying, owner, epoch, outSeq>>
sessionVars == <<registered, connId, socket, linger, missed, lastSeq, nextConnId>>
vars == <<connVars, sessionVars, openSockets, shuttingDown>>

(***************************************************************************)
(* "idle": not opened.  "open": usable.  "closing": either end has closed  *)
(* and the close event has not been delivered yet.  "closed": it has been. *)
(***************************************************************************)
SockState == {"idle", "open", "closing", "closed"}

TypeOK ==
  /\ sock \in [Conn -> SockState]
  /\ mute \subseteq Conn
  /\ dead \subseteq Conn
  /\ verifying \in [Conn -> Player \cup {NoPlayer}]
  /\ owner \in [Conn -> Player \cup {NoPlayer}]
  /\ epoch \in [Conn -> Nat]
  /\ outSeq \in [Conn -> Nat]
  /\ registered \subseteq Player
  /\ connId \in [Player -> Nat]
  /\ socket \in [Player -> Conn \cup {NoConn}]
  /\ linger \in [Player -> Nat]
  /\ missed \in [Player -> 0..2]
  /\ lastSeq \in [Player -> Nat]
  /\ nextConnId \in Nat \ {0}
  /\ openSockets \in Nat
  /\ shuttingDown \in BOOLEAN

Init ==
  /\ sock = [c \in Conn |-> "idle"]
  /\ mute = {}
  /\ dead = {}
  /\ verifying = [c \in Conn |-> NoPlayer]
  /\ owner = [c \in Conn |-> NoPlayer]
  /\ epoch = [c \in Conn |-> 0]
  /\ outSeq = [c \in Conn |-> 0]
  /\ registered = {}
  /\ connId = [p \in Player |-> 0]
  /\ socket = [p \in Player |-> NoConn]
  /\ linger = [p \in Player |-> 0]
  /\ missed = [p \in Player |-> 0]
  /\ lastSeq = [p \in Player |-> 0]
  /\ nextConnId = 1
  /\ openSockets = 0
  /\ shuttingDown = FALSE

-----------------------------------------------------------------------------
(* Guards and updates shared by the handlers.                              *)

\* The connection has a session and nobody has taken that session over.
Current(c) ==
  /\ owner[c] \in registered
  /\ connId[owner[c]] = epoch[c]

\* A frame of c can still reach its message listener and get past conn.dead.
\* A socket the server closed because it was replaced delivers what its peer
\* had already sent.
Heard(c) ==
  /\ c \notin dead
  /\ c \notin mute
  /\ \/ sock[c] = "open"
     \/ sock[c] = "closing" /\ owner[c] # NoPlayer /\ ~Current(c)

\* socket.close() and socket.terminate(): no effect on a socket already closed.
Closing(c) == IF sock[c] = "open" THEN "closing" ELSE sock[c]

\* fatal(): mark the connection dead, tell the peer, close.
Fatal(c) ==
  /\ dead' = dead \cup {c}
  /\ sock' = [sock EXCEPT ![c] = Closing(c)]

\* Mutant of Establish: the adopted session keeps the numbering of its old tab.
EstablishKeepsSeq(c, p) ==
  LET old == socket[p]
  IN  /\ nextConnId' = nextConnId + 1
      /\ connId' = [connId EXCEPT ![p] = nextConnId]
      /\ registered' = registered \cup {p}
      /\ linger' = [linger EXCEPT ![p] = 0]
      /\ sock' = [d \in Conn |-> IF d = old THEN Closing(d) ELSE sock[d]]
      /\ socket' = [socket EXCEPT ![p] = c]
      /\ missed' = [missed EXCEPT ![p] = 0]
      /\ owner' = [owner EXCEPT ![c] = p]
      /\ epoch' = [epoch EXCEPT ![c] = nextConnId]
      /\ UNCHANGED lastSeq

(***************************************************************************)
(* The part of handleHello every successful hello goes through: take a     *)
(* fresh epoch, then adopt the player's session if there is one (cancel    *)
(* the grace timer, close the socket being replaced, reset the counters    *)
(* that belong to the connection) or add a new one.                        *)
(***************************************************************************)
Establish(c, p) ==
  LET old == socket[p]
  IN  /\ nextConnId' = nextConnId + 1
      /\ connId' = [connId EXCEPT ![p] = nextConnId]
      /\ registered' = registered \cup {p}
      /\ linger' = [linger EXCEPT ![p] = 0]
      /\ sock' = [d \in Conn |-> IF d = old THEN Closing(d) ELSE sock[d]]
      /\ socket' = [socket EXCEPT ![p] = c]
      /\ lastSeq' = [lastSeq EXCEPT ![p] = 0]
      /\ missed' = [missed EXCEPT ![p] = 0]
      /\ owner' = [owner EXCEPT ![c] = p]
      /\ epoch' = [epoch EXCEPT ![c] = nextConnId]

-----------------------------------------------------------------------------
(* Opening a connection.                                                   *)

\* The counter is raised, and its decrement registered, before the limit is
\* looked at; a connection over the limit is refused at once.
Connect(c) ==
  /\ sock[c] = "idle"
  /\ ~shuttingDown
  /\ openSockets' = openSockets + 1
  /\ IF openSockets + 1 > MaxSockets
       THEN dead' = dead \cup {c} /\ sock' = [sock EXCEPT ![c] = "closing"]
       ELSE sock' = [sock EXCEPT ![c] = "open"] /\ UNCHANGED dead
  /\ UNCHANGED <<mute, verifying, owner, epoch, outSeq, sessionVars, shuttingDown>>

(***************************************************************************)
(* hello.  Without an account the whole handler runs at once.  With one,   *)
(* the connection first waits for the password check; until then it has no *)
(* session.                                                                *)
(***************************************************************************)
HelloExpected(c) == Heard(c) /\ owner[c] = NoPlayer /\ verifying[c] = NoPlayer

HelloAnonymous(c, p) ==
  /\ HelloExpected(c)
  /\ Establish(c, p)
  /\ UNCHANGED <<mute, dead, verifying, outSeq, openSockets, shuttingDown>>

HelloWithAccount(c, p) ==
  /\ HelloExpected(c)
  /\ verifying' = [verifying EXCEPT ![c] = p]
  /\ UNCHANGED <<sock, mute, dead, owner, epoch, outSeq, sessionVars, openSockets,
                 shuttingDown>>

\* The password check of c's hello settles: the connection may have failed
\* meanwhile (nothing is done), the check may fail (fatal), or c is given p.
AuthSettles(c) ==
  /\ verifying[c] # NoPlayer
  /\ verifying' = [verifying EXCEPT ![c] = NoPlayer]
  /\ \/ c \in dead /\ UNCHANGED <<sock, dead, owner, epoch, sessionVars>>
     \/ c \notin dead /\ Fatal(c) /\ UNCHANGED <<owner, epoch, sessionVars>>
     \/ c \notin dead /\ Establish(c, verifying[c]) /\ UNCHANGED dead
  /\ UNCHANGED <<mute, outSeq, openSockets, shuttingDown>>

-----------------------------------------------------------------------------
(* Frames after hello.                                                     *)

\* Any breach of the protocol: unparsable JSON, an unknown envelope, a second
\* hello, an action before hello, too many frames, a hello that is refused.
Breach(c) ==
  /\ Heard(c)
  /\ Fatal(c)
  /\ UNCHANGED <<mute, verifying, owner, epoch, outSeq, sessionVars, openSockets,
                 shuttingDown>>

\* An action frame with number n.  One from a connection that has lost its
\* session to a newer connection is ignored; a number that does not grow is a
\* breach of the protocol.
ActionFrame(c, n) ==
  /\ Heard(c)
  /\ owner[c] # NoPlayer
  /\ outSeq' = [outSeq EXCEPT ![c] = IF n > @ THEN n ELSE @]
  /\ \/ ~Current(c) /\ UNCHANGED <<sock, dead, lastSeq>>
     \/ Current(c) /\ n <= lastSeq[owner[c]] /\ Fatal(c) /\ UNCHANGED lastSeq
     \/ /\ Current(c)
        /\ n > lastSeq[owner[c]]
        /\ lastSeq' = [lastSeq EXCEPT ![owner[c]] = n]
        /\ UNCHANGED <<sock, dead>>
  /\ UNCHANGED <<mute, verifying, owner, epoch, registered, connId, socket, linger,
                 missed, nextConnId, openSockets, shuttingDown>>

Pong(c) ==
  /\ Heard(c)
  /\ Current(c)
  /\ missed' = [missed EXCEPT ![owner[c]] = 0]
  /\ UNCHANGED <<connVars, registered, connId, socket, linger, lastSeq, nextConnId,
                 openSockets, shuttingDown>>

-----------------------------------------------------------------------------
(* Losing a connection.                                                    *)

\* The peer closes its end (tab closed, page reloaded, network reset).
PeerCloses(c) ==
  /\ sock[c] = "open"
  /\ sock' = [sock EXCEPT ![c] = "closing"]
  /\ UNCHANGED <<mute, dead, verifying, owner, epoch, outSeq, sessionVars, openSockets,
                 shuttingDown>>

\* The peer goes silent without closing (laptop lid, lost network).
PeerVanishes(c) ==
  /\ sock[c] = "open"
  /\ c \notin mute
  /\ mute' = mute \cup {c}
  /\ UNCHANGED <<sock, dead, verifying, owner, epoch, outSeq, sessionVars, openSockets,
                 shuttingDown>>

\* Mutants of Detach: the session is looked up by player and not by epoch; a
\* connection that failed is taken to be dealt with already; the exception of a
\* failed last_seen write escapes before the timer is armed.
DetachByPlayer(c) ==
  IF ~shuttingDown /\ owner[c] \in registered
    THEN /\ socket' = [socket EXCEPT ![owner[c]] = NoConn]
         /\ linger' = [linger EXCEPT ![owner[c]] = connId[owner[c]]]
    ELSE UNCHANGED <<socket, linger>>

DetachUnlessDead(c) ==
  IF ~shuttingDown /\ Current(c) /\ socket[owner[c]] # NoConn /\ c \notin dead
    THEN /\ socket' = [socket EXCEPT ![owner[c]] = NoConn]
         /\ linger' = [linger EXCEPT ![owner[c]] = epoch[c]]
    ELSE UNCHANGED <<socket, linger>>

DetachWithoutTimer(c) ==
  /\ socket' = IF ~shuttingDown /\ Current(c)
                 THEN [socket EXCEPT ![owner[c]] = NoConn] ELSE socket
  /\ UNCHANGED linger

\* handleClose: the session of the closed connection, if it is still its own,
\* loses its socket and starts to linger.
Detach(c) ==
  LET p == owner[c]
  IN  IF ~shuttingDown /\ Current(c) /\ socket[p] # NoConn
        THEN /\ socket' = [socket EXCEPT ![p] = NoConn]
             /\ linger' = [linger EXCEPT ![p] = epoch[c]]
        ELSE UNCHANGED <<socket, linger>>

\* The close event: both close listeners run.
CloseEvent(c) ==
  /\ sock[c] = "closing"
  /\ sock' = [sock EXCEPT ![c] = "closed"]
  /\ openSockets' = IF openSockets = 0 THEN 0 ELSE openSockets - 1
  /\ Detach(c)
  /\ UNCHANGED <<mute, dead, verifying, owner, epoch, outSeq, registered, connId,
                 missed, lastSeq, nextConnId, shuttingDown>>

\* The grace timer of p fires and its three guards hold: p leaves the world.
\* (When one of them fails the callback returns without a change.)
GraceExpires(p) ==
  /\ linger[p] # 0
  /\ p \in registered
  /\ connId[p] = linger[p]
  /\ socket[p] = NoConn
  /\ linger' = [linger EXCEPT ![p] = 0]
  /\ registered' = registered \ {p}
  /\ UNCHANGED <<connVars, connId, socket, missed, lastSeq, nextConnId, openSockets,
                 shuttingDown>>

BeatWithoutEnd ==
  /\ missed' = [p \in Player |->
       IF p \in registered /\ socket[p] # NoConn /\ missed[p] < 2
         THEN missed[p] + 1 ELSE missed[p]]
  /\ UNCHANGED <<connVars, registered, connId, socket, linger, lastSeq, nextConnId,
                 openSockets, shuttingDown>>

\* One heartbeat visits every session with a socket: two unanswered pings end
\* the socket, otherwise one more ping goes out.
Beat ==
  LET held == {p \in registered : socket[p] # NoConn}
      silent == {p \in held : missed[p] >= 2}
      ended == {socket[p] : p \in silent}
  IN  /\ sock' = [c \in Conn |-> IF c \in ended THEN Closing(c) ELSE sock[c]]
      /\ missed' = [p \in Player |->
                      IF p \in held \ silent THEN missed[p] + 1 ELSE missed[p]]
      /\ UNCHANGED <<mute, dead, verifying, owner, epoch, outSeq, registered, connId,
                     socket, linger, lastSeq, nextConnId, openSockets, shuttingDown>>

\* close() of index.ts: cancel every grace timer, terminate every socket.
Shutdown ==
  /\ ~shuttingDown
  /\ shuttingDown' = TRUE
  /\ linger' = [p \in Player |-> 0]
  /\ sock' = [c \in Conn |-> Closing(c)]
  /\ UNCHANGED <<mute, dead, verifying, owner, epoch, outSeq, registered, connId,
                 socket, missed, lastSeq, nextConnId, openSockets>>

-----------------------------------------------------------------------------
Next ==
  \/ \E c \in Conn : Connect(c)
  \/ \E c \in Conn, p \in Player : HelloAnonymous(c, p)
  \/ \E c \in Conn, p \in Player : HelloWithAccount(c, p)
  \/ \E c \in Conn : AuthSettles(c)
  \/ \E c \in Conn : Breach(c)
  \/ \E c \in Conn, n \in 1..MaxSeq : ActionFrame(c, n)
  \/ \E c \in Conn : Pong(c)
  \/ \E c \in Conn : PeerCloses(c)
  \/ \E c \in Conn : PeerVanishes(c)
  \/ \E c \in Conn : CloseEvent(c)
  \/ \E p \in Player : GraceExpires(p)
  \/ Beat
  \/ Shutdown

Spec == Init /\ [][Next]_vars

(***************************************************************************)
(* What the process does by itself: timers fire, close events of sockets   *)
(* that are being closed arrive, password checks settle.  Nothing is       *)
(* assumed of the peers.                                                   *)
(***************************************************************************)
Fairness ==
  /\ WF_vars(Beat)
  /\ \A c \in Conn : WF_vars(CloseEvent(c)) /\ WF_vars(AuthSettles(c))
  /\ \A p \in Player : WF_vars(GraceExpires(p))

FairSpec == Spec /\ Fairness

-----------------------------------------------------------------------------
(* Safety.                                                                 *)

\* Session.linger is armed exactly while the session has no socket, and always
\* with the session's own epoch: no session is left that nobody will ever
\* remove, and no timer can fire for a session that is in use.
LingerMatchesSocket ==
  \A p \in registered :
    ~shuttingDown =>
      /\ linger[p] # 0 <=> socket[p] = NoConn
      /\ linger[p] # 0 => linger[p] = connId[p]

\* A page that is connected and was given a character is that character's
\* session: a late close or a newer tab may not take the session away from it
\* without closing it (the "refresh deletes the new session" bug that the
\* epoch guard of session.ts is there for).
OpenPageOwnsSession ==
  \A c \in Conn :
    sock[c] = "open" /\ owner[c] # NoPlayer =>
      Current(c) /\ socket[owner[c]] = c

\* A client whose numbers grow is never refused for its numbering: on the
\* current connection the server has accepted no seq beyond the ones that
\* connection itself sent (lastSeq restarts with every connection and late
\* frames of a replaced tab do not move it).
SeqBelongsToConnection ==
  \A c \in Conn : Current(c) => lastSeq[owner[c]] <= outSeq[c]

\* socketsPerIp counts the sockets that exist, refused ones included: it never
\* drifts up and locks everyone out, nor down and stops limiting.
SocketsCounted ==
  openSockets = Cardinality({c \in Conn : sock[c] \in {"open", "closing"}})

\* Nobody leaves the world while one of their pages is still connected.
DepartsOnlyWhenGone ==
  [][\A p \in registered \ registered' :
       ~\E c \in Conn : owner[c] = p /\ sock[c] = "open"]_vars

\* The epoch guard never swallows the close that matters: when the socket a
\* session is using closes, that session starts to linger in the same step.
CloseDetaches ==
  [][\A p \in Player :
       \A c \in Conn :
         p \in registered /\ socket[p] = c /\ sock[c] = "closing" /\ sock'[c] = "closed"
           => shuttingDown \/ (socket'[p] = NoConn /\ linger'[p] = connId[p])]_vars

-----------------------------------------------------------------------------
(* Liveness, under Fairness.                                               *)

Holds(c) == owner[c] \in registered /\ socket[owner[c]] = c

\* The heartbeat finds every peer that vanished without closing: its
\* connection does not keep its character in the world.
VanishedPeerIsDropped ==
  \A c \in Conn : (c \in mute /\ sock[c] = "open" /\ Holds(c)) ~> ~Holds(c) \/ shuttingDown

\* A session without a socket is either resumed or removed: grace ends.
GraceEnds ==
  \A p \in Player : (p \in registered /\ socket[p] = NoConn) ~>
    p \notin registered \/ socket[p] # NoConn \/ shuttingDown

\* What the heartbeat comment of server.ts promises without exception: no
\* session keeps a socket that has closed ("or a ghost stays on the minimap").
Ghost(p) == p \in registered /\ socket[p] # NoConn /\ sock[socket[p]] = "closed"

NoEternalGhost == \A p \in Player : Ghost(p) ~> ~Ghost(p) \/ shuttingDown

-----------------------------------------------------------------------------
(* What the registry promises the rest of the world, see Seats.            *)

SeatContract == INSTANCE Seats WITH
  present <- registered,
  holder <- socket,
  used <- {c \in Conn : owner[c] # NoPlayer},
  gone <- {c \in Conn : sock[c] = "closed"},
  stopped <- shuttingDown

\* Sessions implements the seat contract: a session loses its socket only by
\* the close of that very socket, its player leaves only afterwards, and a
\* connection that was replaced never gets a seat again.
ImplementsSeats == SeatContract!SeatSpec
=============================================================================
