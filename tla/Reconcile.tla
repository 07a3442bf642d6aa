----------------------------- MODULE Reconcile -----------------------------
(* Where a player sees itself: client/net/reconcile.ts over the ordered    *)
(* link of one page, against the position net/handlers.ts owns.  The page  *)
(* shows at once the moves it has sent and folds the unanswered ones over  *)
(* the last position the server told it; there is no roll-back code.       *)
EXTENDS Integers, SequencesExt

CONSTANTS
  Dir, Delta,   \* directions; Delta[d] : what a step adds to x
  Walkable,     \* the cells one can stand on, as <<region, x>>
  Spawn,
  Exit,         \* [<<cell, direction>> -> cell] : the doors
  Sealed,       \* the doors that need the flag
  MaxPending,   \* LIMITS.maxPending
  MaxSeq,       \* bound: actions per connection
  MaxLinks,     \* bound: connections
  MaxFalls      \* bound: deaths

ASSUME ReconcileAssumption ==
  /\ Delta \in [Dir -> {-1, 1}]
  /\ Spawn \in Walkable
  /\ DOMAIN Exit \subseteq Walkable \X Dir
  /\ \A e \in DOMAIN Exit : Exit[e] \in Walkable
  /\ Sealed \subseteq DOMAIN Exit
  /\ {MaxPending, MaxSeq, MaxLinks, MaxFalls} \subseteq Nat

VARIABLES
  confirmed, pending, outSeq,   \* the page: Reconciler
  link,        \* the page's socket: "open" or "down"
  up, down,    \* frames under way to the server, messages under way to the page
  phase,       \* the server's side of the link: "new", "verifying", "session", "dead"
  pos,         \* Session.pos
  lastSeq,     \* Session.lastSeq
  fallen,      \* the respawn timer is armed
  open,        \* the world flag that unseals the doors
  untold,      \* history: a revival has moved the player and no position was sent since
  links, falls \* counters for the bounds

page == <<confirmed, pending, outSeq>>
server == <<pos, lastSeq, fallen, untold>>
bounds == <<links, falls>>
vars == <<page, link, up, down, phase, server, open, bounds>>
-----------------------------------------------------------------------------
(* shared/ids.ts, used by both sides; engine/move.ts *)
\* Mutant: the page's east is the server's west.
StepBackwards(p, d) == <<p[1], p[2] - Delta[d]>>

StepOf(p, d) == <<p[1], p[2] + Delta[d]>>

\* resolveMove: a door comes before a step; NoMove when neither is possible.
NoMove == <<>>
Resolve(p, d) ==
  LET exit == <<p, d>>
      next == <<p[1], p[2] + Delta[d]>>
  IN  IF exit \in DOMAIN Exit
      THEN IF exit \in Sealed /\ ~open THEN NoMove ELSE Exit[exit]
      ELSE IF next \in Walkable THEN next ELSE NoMove

\* Reconciler.view: the unanswered moves on top of a position, one after another.
Replay(p, moves) ==
  LET at[i \in 0..Len(moves)] == IF i = 0 THEN p ELSE StepOf(at[i - 1], moves[i].dir)
  IN  at[Len(moves)]
View == Replay(confirmed, pending)
-----------------------------------------------------------------------------
(* The page *)

Predicted(seq, d) ==
  IF Len(pending) >= MaxPending THEN pending ELSE Append(pending, [seq |-> seq, dir |-> d])

\* A frame; `shown` says whether the page predicts it (it is not sent).
Frame(kind, d) == [t |-> kind, seq |-> outSeq', dir |-> d, shown |-> kind # "move" \/ pending' # pending]

\* App.act: the number is taken whether or not the frame leaves.
Act(kind, d) ==
  /\ outSeq < MaxSeq
  /\ outSeq' = outSeq + 1
  /\ IF link = "open"
     THEN /\ pending' = IF kind = "move" THEN Predicted(outSeq', d) ELSE pending
          /\ up' = Append(up, Frame(kind, d))
     ELSE UNCHANGED <<up, pending>>
  /\ UNCHANGED <<confirmed, link, down, phase, server, open, bounds>>

\* onAck: moves leave the front as long as their number is not beyond the ack's.
Answered(seq) ==
  CHOOSE n \in 0..Len(pending) :
    /\ \A i \in 1..n : pending[i].seq <= seq
    /\ n < Len(pending) => pending[n + 1].seq > seq
Unacked(seq) == SubSeq(pending, Answered(seq) + 1, Len(pending))

\* onMessage: onAck reads neither ok nor reason; onSnapshot never rewinds the counter.
Receive ==
  /\ down # <<>>
  /\ down' = Tail(down)
  /\ LET m == Head(down)
     IN  CASE m.t = "ack" -> confirmed' = m.pos /\ pending' = Unacked(m.seq) /\ UNCHANGED outSeq
           [] m.t = "snapshot" ->
                /\ confirmed' = m.pos /\ pending' = <<>>
                /\ outSeq' = IF m.seq > outSeq THEN m.seq ELSE outSeq
           [] OTHER -> UNCHANGED page
  /\ UNCHANGED <<link, up, phase, server, open, bounds>>

\* The socket opens (connect, and again after every close that allows it).
Reopen(auth) ==
  /\ link = "down" /\ links < MaxLinks
  /\ link' = "open" /\ links' = links + 1 /\ phase' = "new"
  /\ outSeq' = 0 /\ pending' = <<>>
  /\ up' = <<[t |-> "hello", auth |-> auth]>> /\ down' = <<>>
  /\ UNCHANGED <<confirmed, server, open, falls>>

\* The link breaks: what was under way in either direction is lost.
Break ==
  /\ link = "open"
  /\ link' = "down" /\ up' = <<>> /\ down' = <<>> /\ phase' = "new"
  /\ UNCHANGED <<page, server, open, bounds>>
-----------------------------------------------------------------------------
(* The server *)

\* handleHello: the session starts counting at 0 and a snapshot follows.
\* A player that is down is raised here, and its timer finds another epoch.
Welcome ==
  /\ phase' = "session" /\ lastSeq' = 0
  /\ pos' = IF fallen THEN Spawn ELSE pos
  /\ fallen' = FALSE /\ untold' = FALSE
  /\ down' = Append(down, [t |-> "snapshot", seq |-> 0, pos |-> pos'])

Hello ==
  /\ up # <<>> /\ Head(up).t = "hello" /\ phase = "new"
  /\ up' = Tail(up)
  /\ IF Head(up).auth
     THEN phase' = "verifying" /\ UNCHANGED <<down, server>>
     ELSE Welcome
  /\ UNCHANGED <<page, link, open, bounds>>

Cut == phase' = "dead" /\ down' = Append(down, [t |-> "error"])

AuthSettles ==
  /\ phase = "verifying"
  /\ (Welcome \/ (Cut /\ UNCHANGED server))
  /\ UNCHANGED <<page, link, up, open, bounds>>

\* Frames that arrive while the password is checked, or after an error.
Ignored ==
  /\ up # <<>> /\ phase \in {"verifying", "dead"}
  /\ up' = Tail(up)
  /\ UNCHANGED <<page, link, down, phase, server, open, bounds>>

\* `shown` and `step` are for the properties only; the page reads seq and pos.
AckOf(f, p, ok) ==
  [t |-> "ack", seq |-> f.seq, pos |-> p, ok |-> ok, shown |-> f.shown,
   step |-> f.t = "move" /\ ok /\ ~untold /\ <<pos, f.dir>> \notin DOMAIN Exit]

\* Out of tokens, a malformed action, or a commit that throws: an ack all the same.
Refuse(f) ==
  /\ down' = Append(down, AckOf(f, pos, FALSE))
  /\ untold' = FALSE
  /\ UNCHANGED <<pos, fallen>>

\* Mutant: the ack is made before the position changes.
MoveAckFirst(f) ==
  LET to == Resolve(pos, f.dir)
  IN  /\ pos' = IF to = NoMove THEN pos ELSE to
      /\ down' = Append(down, AckOf(f, pos, to # NoMove))
      /\ untold' = FALSE
      /\ UNCHANGED fallen

\* doMove
Move(f) ==
  LET to == Resolve(pos, f.dir)
  IN  /\ pos' = IF to = NoMove THEN pos ELSE to
      /\ down' = Append(down, AckOf(f, pos', to # NoMove))
      /\ untold' = FALSE
      /\ UNCHANGED fallen

\* doResync; every other action is an ack with the position.
Answer(f) ==
  /\ down' = IF f.t = "resync"
             THEN down \o <<AckOf(f, pos, TRUE), [t |-> "snapshot", seq |-> f.seq, pos |-> pos]>>
             ELSE Append(down, AckOf(f, pos, TRUE))
  /\ untold' = FALSE
  /\ UNCHANGED <<pos, fallen>>

Handle ==
  /\ up # <<>> /\ phase = "session"
  /\ up' = Tail(up)
  /\ LET f == Head(up)
     IN  IF f.seq <= lastSeq
         THEN Cut /\ UNCHANGED server
         ELSE /\ lastSeq' = f.seq
              /\ UNCHANGED phase
              /\ \/ Refuse(f)
                 \/ f.t = "move" /\ Move(f)
                 \/ f.t # "move" /\ Answer(f)
  /\ UNCHANGED <<page, link, open, bounds>>

Fall ==
  /\ ~fallen /\ falls < MaxFalls
  /\ fallen' = TRUE /\ falls' = falls + 1
  /\ UNCHANGED <<page, link, up, down, phase, pos, lastSeq, untold, open, links>>

\* The respawn timer: hit points and the room are sent, a position is not.
Revive ==
  /\ fallen
  /\ pos' = Spawn /\ fallen' = FALSE /\ untold' = (untold \/ pos # Spawn)
  /\ UNCHANGED <<page, link, up, down, phase, lastSeq, open, bounds>>

Unseal == ~open /\ open' = TRUE /\ UNCHANGED <<page, link, up, down, phase, server, bounds>>
-----------------------------------------------------------------------------
Init ==
  /\ confirmed = Spawn /\ pending = <<>> /\ outSeq = 0
  /\ link = "down" /\ up = <<>> /\ down = <<>> /\ phase = "new"
  /\ pos \in Walkable /\ lastSeq = 0 /\ fallen = FALSE
  /\ open = FALSE /\ untold = FALSE /\ links = 0 /\ falls = 0

Next ==
  \/ \E d \in Dir : Act("move", d)
  \/ \E kind \in {"look", "resync"} : Act(kind, "none")
  \/ \E auth \in BOOLEAN : Reopen(auth)
  \/ Receive \/ Break \/ Hello \/ AuthSettles \/ Ignored \/ Handle
  \/ Fall \/ Revive \/ Unseal

Spec == Init /\ [][Next]_vars

\* What was sent arrives or the link breaks; the check of a password ends.
MoveFairness ==
  /\ WF_vars(Receive) /\ WF_vars(Hello) /\ WF_vars(Handle)
  /\ WF_vars(AuthSettles) /\ WF_vars(Ignored)
LiveSpec == Spec /\ MoveFairness
-----------------------------------------------------------------------------
(* Numbers, phases and cells are what they should be, and the page never   *)
(* predicts more than maxPending moves.                                    *)
TypeOK ==
  /\ confirmed \in Walkable /\ pos \in Walkable
  /\ outSeq \in 0..MaxSeq /\ lastSeq \in 0..MaxSeq
  /\ Len(pending) <= MaxPending
  /\ \A i \in DOMAIN pending : pending[i].seq \in 1..MaxSeq /\ pending[i].dir \in Dir
  /\ link \in {"open", "down"} /\ phase \in {"new", "verifying", "session", "dead"}

(* No legal sequence of actions, snapshots and reconnections makes the     *)
(* page reuse a number, so the server never cuts it off as bad_seq: what   *)
(* is under way is always newer than what the server has seen, and what    *)
(* the page sends next is newer still.                                     *)
NumbersGoForward ==
  LET frames == {i \in DOMAIN up : up[i].t # "hello"}
  IN  /\ \A i, j \in frames : i < j => up[i].seq < up[j].seq
      /\ phase = "session" => \A i \in frames : up[i].seq > lastSeq
      /\ link = "open" => \A i \in frames : up[i].seq <= outSeq
      /\ link = "open" /\ phase = "session" => lastSeq <= outSeq

(* A predicted move is always going to be taken back or confirmed: its     *)
(* frame or its ack is under way, or a snapshot or the end of the          *)
(* connection is coming.                                                   *)
PendingIsAnswered ==
  \A i \in DOMAIN pending :
    \/ link = "down" \/ phase \in {"verifying", "dead"}
    \/ \E f \in ToSet(up) : f.t = "hello" \/ f.seq = pending[i].seq
    \/ \E m \in ToSet(down) : m.t = "snapshot" \/ (m.t = "ack" /\ m.seq >= pending[i].seq)

(* Whatever was predicted, refused, blocked or lost on the way: once       *)
(* nothing is under way the page shows the position the server holds,      *)
(* unless a revival has moved the player (see RevivalIsShown).             *)
Quiet == link = "open" /\ phase = "session" /\ up = <<>> /\ down = <<>>
Settled == Quiet /\ ~untold => View = pos /\ pending = <<>>

(* However moves are predicted, refused, lost or overtaken by a revival,   *)
(* the server never sees a number twice, every prediction is going to be   *)
(* answered, and on a quiet link the page draws its player where the       *)
(* server has it (reconcile.ts:35, handlers.ts, doMove).                   *)
SeesItself == TypeOK /\ NumbersGoForward /\ PendingIsAnswered /\ Settled

(* The page and the server compute a step alike: when the ack says the     *)
(* oldest predicted move was taken as one step, the position on the screen *)
(* stays what it was, whatever was refused or lost before it.              *)
SmoothWhenRight ==
  [][/\ down # <<>> /\ down' = Tail(down) /\ Head(down).t = "ack" /\ Head(down).step
     /\ pending # <<>> /\ Head(down).seq = Head(pending).seq
     => View' = View]_vars

(* While a session listens, no frame and no message is lost without the    *)
(* link breaking, so every prediction is settled in the end.               *)
PendingClears ==
  \A n \in 1..MaxSeq :
    (\E i \in DOMAIN pending : pending[i].seq = n /\ link = "open")
      ~> (link = "down" \/ phase = "dead" \/ \A i \in DOMAIN pending : pending[i].seq # n)

(* shared/protocol.ts: the only sources of one's own position are the ack  *)
(* and the snapshot.  A revival moves the player and sends neither.        *)
RevivalIsShown == Quiet => View = pos

(* client/net/reconcile.ts: an error always ends the connection, so the    *)
(* pending moves disappear with it.                                        *)
PendingDiesWithLink == link = "down" => pending = <<>>

(* client/net/reconcile.ts: a move beyond maxPending is not predicted,     *)
(* because the server refuses it anyway.                                   *)
BeyondPendingIsRefused == \A m \in ToSet(down) : m.t = "ack" /\ m.ok => m.shown
=============================================================================
