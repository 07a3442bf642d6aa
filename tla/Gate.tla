-------------------------------- MODULE Gate --------------------------------
(* What the server lets in (net/server.ts, the budgets of net/handlers.ts): *)
(* sockets per address, new characters per address and window, the token   *)
(* buckets of frames, actions, resyncs and yells on a clock that may jump  *)
(* back, and the heartbeat that finds the sockets nobody is behind.        *)
(* A hello is one step here; Accounts has its await.                       *)
EXTENDS Integers, FiniteSets, SequencesExt

CONSTANTS
  Conn, Address, From,   \* sockets over the server's life; From[c] : the address of c
  Char,
  MaxPerIp, MaxSockets, NewCharsPerIp, NewCharWindow,
  Cap, Per,              \* Cap[b] tokens of bucket b come back in Per[b] ticks
  MaxClock, MaxJumps, MaxFrames,  \* bounds: clock, jumps of it, actions of a socket
  MaxSilent              \* bound: sockets that fall silent

Bucket == {"frames", "actions", "resync", "yell"}
None == "none"
GateAssumption ==
  /\ IsFiniteSet(Conn) /\ None \notin Conn /\ "linger" \notin Conn /\ None \notin Char
  /\ From \in [Conn -> Address]
  /\ {MaxPerIp, MaxSockets, NewCharsPerIp, NewCharWindow, MaxClock, MaxJumps, MaxFrames, MaxSilent} \subseteq Nat
  /\ Cap \in [Bucket -> Nat \ {0}] /\ Per \in [Bucket -> Nat \ {0}]

VARIABLES
  clock, jumps,
  state,           \* state[c] : "free", "open", "dying" (its close event is to come), "closed"
  frames, seenAt,  \* conn.frameTokens, conn.lastRefill
  bound,           \* bound[c] : the character of conn.session, or None
  socketsPerIp,
  newCharsPerIp,   \* newCharsPerIp[ip] : the births remembered, [char, at]
  known,           \* the characters that have a row
  sess,            \* sess[p] : the session of p, or NoSession
  silent,          \* the sockets nobody is behind any more
  unanswered,      \* history: pings on a socket since its last pong
  asked, acked,    \* history: action frames and acks of a socket
  yelled, passed,  \* history: yells of a session, ticks since it began
  made             \* history: made[ip] : every birth at an address

times == <<clock, jumps>>
door == <<state, frames, seenAt, bound, socketsPerIp>>
births == <<known, newCharsPerIp, made>>
history == <<unanswered, asked, acked, yelled, passed>>
vars == <<times, door, births, sess, silent, history>>

Least(a, b) == IF a < b THEN a ELSE b
Most(a, b) == IF a > b THEN a ELSE b
Full(b) == Cap[b] * Per[b]
\* Tokens are counted in units of 1/Per[b]; one costs Per[b].
Refilled(b, tokens, dt) == Least(Full(b), tokens + Most(0, dt) * Cap[b])

NoSession == [sock |-> None]
NewSession(c) == [sock |-> c, pong |-> 0, at |-> clock, last |-> {},
                  actions |-> Full("actions"), resync |-> Full("resync"), yell |-> Full("yell")]
IsCurrent(c) == bound[c] # None /\ sess[bound[c]].sock = c
-----------------------------------------------------------------------------
(* The door *)

Sockets(st) == {c \in Conn : st[c] \in {"open", "dying"}}

Connect(c) ==
  /\ state[c] = "free"
  /\ LET open == socketsPerIp[From[c]] + 1
         over == open > MaxPerIp \/ Cardinality(Sockets(state)) + 1 > MaxSockets
     IN /\ socketsPerIp' = [socketsPerIp EXCEPT ![From[c]] = open]
        /\ state' = [state EXCEPT ![c] = IF over THEN "dying" ELSE "open"]
  /\ frames' = [frames EXCEPT ![c] = Full("frames")]
  /\ seenAt' = [seenAt EXCEPT ![c] = clock]
  /\ UNCHANGED <<times, bound, births, sess, silent, history>>

\* The close event: the count goes down, a current session is left to its grace.
CloseEvent(c) ==
  /\ state[c] \in {"open", "dying"}
  /\ state[c] = "open" => c \notin silent
  /\ state' = [state EXCEPT ![c] = "closed"]
  /\ socketsPerIp' = [socketsPerIp EXCEPT ![From[c]] = Most(0, @ - 1)]
  /\ sess' = IF IsCurrent(c) THEN [sess EXCEPT ![bound[c]].sock = "linger"] ELSE sess
  /\ UNCHANGED <<times, frames, seenAt, bound, births, silent, history>>
GraceEnds(p) ==
  /\ sess[p].sock = "linger" /\ sess' = [sess EXCEPT ![p] = NoSession]
  /\ UNCHANGED <<times, door, births, silent, history>>

\* Every inbound frame is charged first; a frame too many is fatal.
Frame(c) == state[c] = "open" /\ c \notin silent
Left(c) == Refilled("frames", frames[c], clock - seenAt[c])
Charge(c) ==
  /\ seenAt' = [seenAt EXCEPT ![c] = clock]
  /\ frames' = [frames EXCEPT ![c] = IF Left(c) < Per["frames"] THEN Left(c) ELSE Left(c) - Per["frames"]]
Flooding(c) ==
  /\ Frame(c) /\ Left(c) < Per["frames"] /\ Charge(c)
  /\ state' = [state EXCEPT ![c] = "dying"]
  /\ UNCHANGED <<times, bound, socketsPerIp, births, sess, silent, history>>
Charged(c) == Frame(c) /\ Left(c) >= Per["frames"] /\ Charge(c)
              /\ UNCHANGED <<times, socketsPerIp, silent>>

\* Mutant: a character created in the window's first tick is forgotten too soon.
LiveHitsShort(ip) == {b \in newCharsPerIp[ip] : clock - b.at < NewCharWindow - 1}
LiveHits(ip) == {b \in newCharsPerIp[ip] : clock - b.at < NewCharWindow}
MayCreate(ip) == Cardinality(LiveHits(ip)) < NewCharsPerIp

Close(c) == state' = [state EXCEPT ![c] = "dying"]

\* A hit of the budget; one whose insert failed has only its socket for a name.
Birth(x) == [char |-> x, at |-> clock]

\* A hello of a new character: the budget of the address is looked at and
\* spent before the insert, which may throw.
HelloNew(c) ==
  /\ Charged(c) /\ bound[c] = None
  /\ LET hits == LiveHits(From[c])
     IN IF ~ MayCreate(From[c])
        THEN /\ Close(c) /\ newCharsPerIp' = [newCharsPerIp EXCEPT ![From[c]] = hits]
             /\ UNCHANGED <<bound, known, made, sess, history>>
        ELSE \/ /\ Close(c) /\ newCharsPerIp' = [newCharsPerIp EXCEPT ![From[c]] = hits \cup {Birth(c)}]
                /\ UNCHANGED <<bound, known, made, sess, history>>
             \/ \E p \in Char \ known :
                  /\ known' = known \cup {p}
                  /\ newCharsPerIp' = [newCharsPerIp EXCEPT ![From[c]] = hits \cup {Birth(p)}]
                  /\ made' = [made EXCEPT ![From[c]] = @ \cup {Birth(p)}]
                  /\ sess' = [sess EXCEPT ![p] = NewSession(c)]
                  /\ bound' = [bound EXCEPT ![c] = p] /\ passed' = [passed EXCEPT ![p] = 0]
                  /\ UNCHANGED <<state, unanswered, asked, acked, yelled>>

\* The newest socket wins; the buckets stay those of the session.
Adopted(s, c) == [s EXCEPT !.sock = c, !.pong = 0, !.last = {}]

HelloKnown(c, p) ==
  /\ Charged(c) /\ bound[c] = None /\ p \in known
  /\ LET s == sess[p]
     IN /\ sess' = [sess EXCEPT ![p] = IF s = NoSession THEN NewSession(c) ELSE Adopted(s, c)]
        /\ state' = IF s.sock \in Conn /\ state[s.sock] = "open"
                    THEN [state EXCEPT ![s.sock] = "dying"] ELSE state
        /\ yelled' = IF s = NoSession THEN [yelled EXCEPT ![p] = 0] ELSE yelled
        /\ passed' = IF s = NoSession THEN [passed EXCEPT ![p] = 0] ELSE passed
  /\ bound' = [bound EXCEPT ![c] = p]
  /\ UNCHANGED <<births, unanswered, asked, acked>>

Pong(c) ==
  /\ Charged(c) /\ IsCurrent(c) /\ unanswered[c] > 0
  /\ sess' = [sess EXCEPT ![bound[c]].pong = 0]
  /\ unanswered' = [unanswered EXCEPT ![c] = 0]
  /\ UNCHANGED <<state, bound, births, asked, acked, yelled, passed>>
-----------------------------------------------------------------------------
(* Actions.  Each handler gives the session after it and how many acks it  *)
(* sends; `text` is refused (empty or too long, once sanitized) or fine.   *)

Out(s, acks) == [sess |-> s, acks |-> acks]
Say(s, text) == Out(s, 1)   \* say, unparsed: refused or told, an ack either way
\* The length is looked at before the token: a refused text costs nothing.
Yell(s, text) ==
  IF text # "fine" \/ s.yell < Per["yell"] THEN Out(s, 1)
  ELSE Out([s EXCEPT !.yell = @ - Per["yell"], !.last = {"yell"}], 1)
Resync(s) ==
  IF s.resync < Per["resync"] THEN Out(s, 1) ELSE Out([s EXCEPT !.resync = @ - Per["resync"]], 1)

Refill(s) ==
  LET dt == clock - s.at
  IN [s EXCEPT !.at = clock, !.last = {},
               !.actions = Refilled("actions", @, dt),
               !.resync = Refilled("resync", @, dt),
               !.yell = Refilled("yell", @, dt)]

HandleAction(s0, kind, text) ==
  LET s == Refill(s0)
      paid == [s EXCEPT !.actions = @ - Per["actions"]]
  IN IF s.actions < Per["actions"] THEN Out(s, 1)
     ELSE CASE kind = "yell" -> Yell(paid, text)
            [] kind = "resync" -> Resync(paid)
            [] OTHER -> Say(paid, text)     \* and every other action: one ack

Action(c, kind, text) ==
  /\ Charged(c) /\ IsCurrent(c) /\ asked[c] < MaxFrames
  /\ LET out == HandleAction(sess[bound[c]], kind, text)
     IN /\ sess' = [sess EXCEPT ![bound[c]] = out.sess]
        /\ acked' = [acked EXCEPT ![c] = @ + out.acks]
        /\ yelled' = [yelled EXCEPT ![bound[c]] = @ + Cardinality(out.sess.last)]
  /\ asked' = [asked EXCEPT ![c] = @ + 1]
  /\ UNCHANGED <<state, bound, births, unanswered, passed>>
-----------------------------------------------------------------------------
(* Time *)

\* The heartbeat: a session that owes two pongs loses its socket, the others
\* are pinged, and the addresses whose window is over are forgotten.
Beat ==
  LET cut == {p \in Char : sess[p].sock \in Conn /\ sess[p].pong >= 2}
      gone == {sess[p].sock : p \in cut}
  IN /\ state' = [c \in Conn |-> IF c \in gone /\ state[c] = "open" THEN "dying" ELSE state[c]]
     /\ sess' = [p \in Char |-> IF sess[p].sock \in Conn /\ p \notin cut
                                THEN [sess[p] EXCEPT !.pong = @ + 1] ELSE sess[p]]
     /\ unanswered' = [c \in Conn |-> IF IsCurrent(c) /\ c \notin gone
                                      THEN Least(2, unanswered[c] + 1) ELSE unanswered[c]]
     /\ newCharsPerIp' = [ip \in Address |-> {b \in newCharsPerIp[ip] : b.at >= clock - NewCharWindow}]
     /\ UNCHANGED <<times, frames, seenAt, bound, socketsPerIp, known, made, silent,
                    asked, acked, yelled, passed>>

Tick ==
  /\ clock < MaxClock /\ clock' = clock + 1
  /\ passed' = [p \in Char |-> passed[p] + 1]
  /\ UNCHANGED <<jumps, door, births, sess, silent, unanswered, asked, acked, yelled>>
JumpBack ==
  /\ jumps < MaxJumps /\ jumps' = jumps + 1
  /\ \E t \in 0 .. clock - 1 : clock' = t
  /\ UNCHANGED <<door, births, sess, silent, history>>
\* A lid is closed: no frame and no close event comes from there again.
FallSilent(c) ==
  /\ state[c] = "open" /\ c \notin silent /\ Cardinality(silent) < MaxSilent
  /\ silent' = silent \cup {c}
  /\ UNCHANGED <<times, door, births, sess, history>>

Init ==
  /\ clock = 0 /\ jumps = 0
  /\ state = [c \in Conn |-> "free"] /\ frames = [c \in Conn |-> 0] /\ seenAt = [c \in Conn |-> 0]
  /\ bound = [c \in Conn |-> None] /\ socketsPerIp = [ip \in Address |-> 0]
  /\ known = {} /\ newCharsPerIp = [ip \in Address |-> {}] /\ made = [ip \in Address |-> {}]
  /\ sess = [p \in Char |-> NoSession] /\ silent = {}
  /\ unanswered = [c \in Conn |-> 0] /\ asked = [c \in Conn |-> 0] /\ acked = [c \in Conn |-> 0]
  /\ yelled = [p \in Char |-> 0] /\ passed = [p \in Char |-> 0]

Next ==
  \/ \E c \in Conn : Connect(c) \/ CloseEvent(c) \/ Flooding(c) \/ HelloNew(c) \/ Pong(c) \/ FallSilent(c)
  \/ \E c \in Conn, p \in Char : HelloKnown(c, p)
  \/ \E c \in Conn, kind \in {"say", "yell", "resync"}, text \in {"refused", "fine"} :
       Action(c, kind, text)
  \/ \E p \in Char : GraceEnds(p)
  \/ Beat \/ Tick \/ JumpBack

Spec == Init /\ [][Next]_vars
\* Timers fire, and a socket that is closed or terminated has its close event.
Fairness == WF_vars(Beat) /\ \A c \in Conn : WF_vars(state[c] = "dying" /\ CloseEvent(c))
            /\ \A p \in Char : WF_vars(GraceEnds(p))
FairSpec == Spec /\ Fairness
-----------------------------------------------------------------------------
(* Properties *)

\* A clock that jumps back never drives a bucket below zero, which would lock
\* the client out for as long as the jump (handlers.ts:385, server.ts:250).
TypeOK ==
  /\ \A c \in Conn : frames[c] \in 0 .. Full("frames") /\ state[c] \in {"free", "open", "dying", "closed"}
  /\ \A p \in Char : sess[p] # NoSession =>
       /\ sess[p].actions \in 0 .. Full("actions") /\ sess[p].resync \in 0 .. Full("resync")
       /\ sess[p].yell \in 0 .. Full("yell") /\ sess[p].pong \in 0 .. 2
       /\ sess[p].sock \in Conn \cup {"linger"}

\* server.ts:218: the count of an address is the number of its sockets whose
\* close event has not come, the refused ones among them: nobody is shut out
\* by sockets that are gone.
SocketsAreCounted ==
  \A ip \in Address : socketsPerIp[ip] = Cardinality({c \in Sockets(state) : From[c] = ip})

\* server.ts:196: no address creates more than NewCharsPerIp characters in a
\* window, with the sweep of the heartbeat in between, while the clock does
\* not jump back (what was swept is not remembered).
NewCharsAreBounded ==
  \A ip \in Address, t \in 0 .. MaxClock : jumps = 0 =>
    Cardinality({b \in made[ip] : b.at > t - NewCharWindow /\ b.at <= t}) <= NewCharsPerIp

\* Every action frame is answered by exactly one ack (handlers.ts:400),
\* whatever refuses it.
OneAckEach == \A c \in Conn : acked[c] = asked[c]

\* A session never yells more than its bucket held and time has refilled,
\* across the sockets that take it over and jumps of the clock back.
YellsArePaid ==
  \A p \in Char : sess[p] # NoSession /\ jumps = 0 =>
    sess[p].yell + yelled[p] * Per["yell"] <= Full("yell") + passed[p] * Cap["yell"]

\* The heartbeat only gives up a socket that has left two pings unanswered
\* itself, not one that has taken over from a silent one.
OnlySilentAreCut ==
  [][Beat => \A c \in Conn : state[c] = "open" /\ state'[c] = "dying" => unanswered[c] >= 2]_vars

\* server.ts:384: nobody stays on the others' maps as a ghost for ever: a
\* session whose socket has fallen silent ends or moves to another socket.
GhostsEnd ==
  \A c \in Conn, p \in Char :
    (c \in silent /\ sess[p].sock = c) ~> (sess[p].sock # c)
=============================================================================
