---------------------------- MODULE PageProofs ----------------------------
(***************************************************************************)
(* Theorems about the page: Reconcile, for every map, every number of      *)
(* actions, connections and deaths and every limit of predicted moves;     *)
(* ClientLink, for all tabs and sockets and any number of logins and       *)
(* breaks; and Menu, for every world and any number of messages under way. *)
(*                                                                         *)
(* The ordered link is one line: what the page has been told, what is on   *)
(* its way to it, and what it has asked for.  The inductive invariant      *)
(* says that numbers grow along this line (Numbers), that its end towards  *)
(* the server is the position the server has (Told), and that an ack that  *)
(* took a predicted move as one step stands one step after whatever the    *)
(* page hears before it (Stepwise).                                        *)
(*                                                                         *)
(* The connection of a tab: it has one socket or one retry (OneEach), what *)
(* the server takes a socket for agrees with what is under way on it       *)
(* (Ends), a session's welcome is on its way or on the screen (Shows), and *)
(* every hello with credentials has its login (Sent).                      *)
(*                                                                         *)
(* The window: its path leads through lists of this moment (PathInv), and  *)
(* the screen, told all that is under way, agrees with the server          *)
(* (ScreenInv).                                                            *)
(***************************************************************************)
EXTENDS Page, FiniteSetTheorems, SequenceTheorems, WellFoundedInduction, TLAPS

Hellos == [t : {"hello"}, auth : BOOLEAN]
Frames == [t : {"move", "look", "resync"}, seq : 1..MaxSeq, dir : Dir \cup {"none"}, shown : BOOLEAN]
Acks == [t : {"ack"}, seq : 1..MaxSeq, pos : Walkable, ok : BOOLEAN, shown : BOOLEAN, step : BOOLEAN]
Snapshots == [t : {"snapshot"}, seq : 0..MaxSeq, pos : Walkable]
Errors == [t : {"error"}]
Moves == [seq : 1..MaxSeq, dir : Dir]

Types ==
  /\ TypeOK
  /\ pending \in Seq(Moves)
  /\ up \in Seq(Hellos \cup Frames)
  /\ \A i \in 1..Len(up) : up[i].t = "move" => up[i].dir \in Dir
  /\ down \in Seq(Acks \cup Snapshots \cup Errors)
  /\ fallen \in BOOLEAN /\ open \in BOOLEAN /\ untold \in BOOLEAN
  /\ links \in Nat /\ falls \in Nat

\* A connection begins with its hello, and an error is the last word on it.
Linked ==
  /\ link = "down" => up = <<>> /\ phase = "new"
  /\ phase \in {"new", "verifying"} => down = <<>>
  /\ \A i \in 1..Len(up) : up[i].t = "hello" => i = 1 /\ phase = "new"
  /\ link = "open" /\ phase = "new" => up # <<>> /\ up[1].t = "hello"
  /\ \A i \in 1..Len(down) : down[i].t = "error" => phase = "dead" /\ i = Len(down)

\* Numbers grow from what was answered to what is predicted.
Numbers ==
  /\ NumbersGoForward
  /\ \A i, j \in 1..Len(pending) : i < j => pending[i].seq < pending[j].seq
  /\ \A i \in 1..Len(pending) : pending[i].seq <= outSeq
  /\ \A i \in 1..Len(down) : down[i].t # "error" => down[i].seq <= outSeq
  /\ \A i \in 1..Len(up), j \in 1..Len(pending) :
       up[i].t = "move" /\ up[i].seq = pending[j].seq => up[i].dir = pending[j].dir

\* The position of the page when it has read i messages.
Heard(i) == IF i = 0 THEN confirmed ELSE down[i].pos

\* What the page will have heard is where the server has the player.
Told == phase = "session" /\ ~untold => Heard(Len(down)) = pos

\* An ack of a predicted move that was taken as a step is one step on.
Stepwise ==
  \A i \in 1..Len(down), j \in 1..Len(pending) :
    down[i].t = "ack" /\ down[i].step /\ pending[j].seq = down[i].seq
      => down[i].pos = StepOf(Heard(i - 1), pending[j].dir)

IInv == Types /\ Linked /\ Numbers /\ PendingIsAnswered /\ Told /\ Stepwise

-----------------------------------------------------------------------------
(* Lemmas about sequences and positions.                                   *)

LEMMA AppendTo ==
  ASSUME NEW S, NEW s \in Seq(S), NEW e \in S
  PROVE  /\ Append(s, e) \in Seq(S)
         /\ Len(s) \in Nat /\ Len(Append(s, e)) = Len(s) + 1
         /\ Append(s, e)[Len(s) + 1] = e
         /\ \A i \in 1..Len(s) : Append(s, e)[i] = s[i]
BY AppendProperties, LenProperties

LEMMA TailOf ==
  ASSUME NEW S, NEW s \in Seq(S), s # <<>>
  PROVE  /\ Tail(s) \in Seq(S)
         /\ Len(s) \in Nat \ {0} /\ Len(Tail(s)) = Len(s) - 1
         /\ Head(s) = s[1] /\ Head(s) \in S
         /\ \A i \in 1..Len(Tail(s)) : i + 1 \in 1..Len(s) /\ Tail(s)[i] = s[i + 1]
<1>1. Len(s) \in Nat \ {0}
  BY EmptySeq, LenProperties
<1> QED BY <1>1, HeadTailProperties, ElementOfSeq

\* A set of naturals that is not empty has a least element.
LEMMA NatLeast ==
  ASSUME NEW S, S \subseteq Nat, S # {}
  PROVE  \E m \in S : \A n \in S : m <= n
<1>1. PICK m \in S : \A n \in S : <<n, m>> \notin OpToRel(<, Nat)
  BY NatLessThanWellFounded, WFMin
<1>2. ASSUME NEW n \in S PROVE m <= n
  <2>1. <<n, m>> \in Nat \X Nat
    OBVIOUS
  <2>2. ~(n < m)
    BY <1>1, <2>1 DEF OpToRel
  <2> QED BY <2>2
<1> QED BY <1>2

\* A member of a sequence has a place in it.
LEMMA Places ==
  ASSUME NEW S, NEW s \in Seq(S)
  PROVE  /\ \A i \in 1..Len(s) : s[i] \in ToSet(s) /\ s[i] \in S
         /\ \A e \in ToSet(s) : \E i \in 1..Len(s) : e = s[i]
         /\ DOMAIN s = 1..Len(s)
<1>1. DOMAIN s = 1..Len(s)
  BY LenProperties
<1> QED BY <1>1, ElementOfSeq DEF ToSet

\* A refusal is no cell; a move that is possible ends on one.
LEMMA ResolveType ==
  ASSUME Types, NEW d \in Dir, Resolve(pos, d) # NoMove
  PROVE  /\ Resolve(pos, d) \in Walkable
         /\ <<pos, d>> \notin DOMAIN Exit => Resolve(pos, d) = StepOf(pos, d)
BY ReconcileAssumption DEF Resolve, StepOf

\* The moves that an ack leaves are the end of the line that began behind it.
LEMMA UnackedIs ==
  ASSUME Types, Numbers, NEW seq \in Nat
  PROVE  \E n \in 0..Len(pending) :
           /\ n = Answered(seq)
           /\ \A i \in 1..n : pending[i].seq <= seq
           /\ \A i \in (n + 1)..Len(pending) : pending[i].seq > seq
           /\ Unacked(seq) \in Seq(Moves)
           /\ Len(Unacked(seq)) = Len(pending) - n
           /\ \A i \in 1..Len(Unacked(seq)) : Unacked(seq)[i] = pending[i + n]
<1> DEFINE len == Len(pending)
           Fits(n) == /\ \A i \in 1..n : pending[i].seq <= seq
                      /\ n < len => pending[n + 1].seq > seq
           late == {n \in Nat : n = len \/ (n < len /\ pending[n + 1].seq > seq)}
<1>1. len \in Nat /\ \A i \in 1..len : pending[i] \in Moves
  BY LenProperties, ElementOfSeq DEF Types
<1>2. \A i \in 1..len : pending[i].seq \in Nat
  BY <1>1 DEF Moves
<1>3. PICK m \in late : \A n \in late : m <= n
  <2>1. late \subseteq Nat /\ len \in late
    BY <1>1
  <2> HIDE DEF late
  <2> QED BY <2>1, NatLeast
<1>4. m \in 0..len /\ Fits(m)
  <2>1. m \in Nat /\ m <= len /\ (m < len => pending[m + 1].seq > seq)
    BY <1>1, <1>3
  <2>2. ASSUME NEW i \in 1..m, ~(pending[i].seq <= seq) PROVE FALSE
    <3>1. i - 1 \in Nat /\ i - 1 < len /\ (i - 1) + 1 = i /\ i \in 1..len
      BY <1>1, <2>1
    <3>2. pending[i].seq > seq
      BY <1>2, <2>2, <3>1
    <3>3. i - 1 \in late
      BY <3>1, <3>2
    <3>4. m <= i - 1
      BY <1>3, <3>3
    <3> QED BY <2>1, <3>4
  <2> QED BY <1>1, <2>1, <2>2
<1> DEFINE n == Answered(seq)
<1>5. n \in 0..len /\ Fits(n)
  BY <1>4 DEF Answered
<1>6. Unacked(seq) = SubSeq(pending, n + 1, len)
  BY DEF Unacked
<1> HIDE DEF n
<1>7. \A i \in (n + 1)..len : pending[i].seq > seq
  <2> TAKE i \in (n + 1)..len
  <2>1. i \in 1..len /\ n + 1 \in 1..len /\ n < len /\ n + 1 <= i
    BY <1>1, <1>5
  <2>2. pending[n + 1].seq > seq
    BY <1>5, <2>1
  <2>3. n + 1 < i => pending[n + 1].seq < pending[i].seq
    BY <2>1 DEF Numbers
  <2> HIDE DEF len
  <2> QED BY <1>2, <2>1, <2>2, <2>3
<1>8. /\ Unacked(seq) \in Seq(Moves)
      /\ Len(Unacked(seq)) = len - n
      /\ \A i \in 1..Len(Unacked(seq)) : Unacked(seq)[i] = pending[i + n]
  <2>1. SubSeq(pending, n + 1, len) \in Seq(Moves)
    BY <1>1, <1>5, SubSeqProperties DEF Types
  <2>2. Len(SubSeq(pending, n + 1, len)) = len - n
    BY <1>1, <1>5, SubSeqProperties DEF Types
  <2>3. \A i \in 1..(len - n) : SubSeq(pending, n + 1, len)[i] = pending[i + n]
    BY <1>1, <1>5, SubSeqProperties DEF Types
  <2> QED BY <1>6, <2>1, <2>2, <2>3
<1> QED BY <1>5, <1>7, <1>8 DEF n

-----------------------------------------------------------------------------
(* What the line says of its two ends.                                     *)

\* The messages on their way, one by one.
LEMMA DownIs ==
  ASSUME Types, NEW i \in 1..Len(down)
  PROVE  /\ Len(down) \in Nat
         /\ down[i] \in Acks \cup Snapshots \cup Errors
         /\ down[i].t # "error" => down[i].pos \in Walkable /\ down[i].seq \in Nat
         /\ down[i].t \in {"ack", "snapshot", "error"}
BY LenProperties, ElementOfSeq DEF Types, Acks, Snapshots, Errors

LEMMA UpIs ==
  ASSUME Types, NEW i \in 1..Len(up)
  PROVE  /\ Len(up) \in Nat
         /\ up[i] \in Hellos \cup Frames
         /\ up[i].t # "hello" => up[i].seq \in 1..MaxSeq /\ up[i].t \in {"move", "look", "resync"}
BY LenProperties, ElementOfSeq DEF Types, Hellos, Frames

LEMMA PendingIs ==
  ASSUME Types, Numbers
  PROVE  /\ Len(pending) \in Nat
         /\ \A i \in 1..Len(pending) :
              /\ pending[i].seq \in 1..MaxSeq /\ pending[i].seq \in Nat /\ pending[i].dir \in Dir
              /\ pending[i].seq <= outSeq
<1>1. Len(pending) \in Nat /\ \A i \in 1..Len(pending) : pending[i] \in Moves
  BY LenProperties, ElementOfSeq DEF Types
<1>2. \A i \in 1..Len(pending) : pending[i].seq \in 1..MaxSeq /\ pending[i].dir \in Dir
  BY <1>1 DEF Moves
<1>3. \A i \in 1..Len(pending) : pending[i].seq <= outSeq
  BY DEF Numbers
<1> QED BY <1>1, <1>2, <1>3

\* The invariant does not depend on what the world does beside the link.
LEMMA ServerMoves ==
  ASSUME IInv, UNCHANGED <<page, link, up, down, phase, lastSeq>>,
         links' \in Nat, falls' \in Nat, pos' \in Walkable,
         fallen' \in BOOLEAN, open' \in BOOLEAN, untold' \in BOOLEAN,
         ~untold' => ~untold /\ pos' = pos
  PROVE  IInv'
<1>1. Types' /\ TypeOK'
  BY DEF IInv, Types, TypeOK, page
<1>2. Linked'
  BY DEF IInv, Linked
<1>3. Numbers'
  BY DEF IInv, Numbers, NumbersGoForward, page
<1>4. PendingIsAnswered'
  BY DEF IInv, PendingIsAnswered, page
<1>5. Told'
  BY DEF IInv, Told, Heard, page
<1>6. Stepwise'
  BY DEF IInv, Stepwise, Heard, page
<1> QED BY <1>1, <1>2, <1>3, <1>4, <1>5, <1>6 DEF IInv

LEMMA InitOK == Init => IInv
<1> SUFFICES ASSUME Init PROVE IInv
  OBVIOUS
<1>1. /\ Len(pending) = 0 /\ Len(up) = 0 /\ Len(down) = 0
      /\ DOMAIN pending = {} /\ DOMAIN up = {} /\ DOMAIN down = {}
  BY DEF Init
<1>2. Types
  <2>1. TypeOK
    BY <1>1, ReconcileAssumption DEF Init, TypeOK
  <2>2. pending \in Seq(Moves) /\ up \in Seq(Hellos \cup Frames)
        /\ down \in Seq(Acks \cup Snapshots \cup Errors)
    BY DEF Init
  <2>3. links \in Nat /\ falls \in Nat /\ fallen \in BOOLEAN /\ open \in BOOLEAN /\ untold \in BOOLEAN
    BY DEF Init
  <2>4. \A i \in 1..Len(up) : up[i].t = "move" => up[i].dir \in Dir
    BY <1>1
  <2> QED BY <2>1, <2>2, <2>3, <2>4 DEF Types
<1>3. Linked /\ Told
  BY <1>1 DEF Init, Linked, Told
<1>4. Numbers /\ PendingIsAnswered /\ Stepwise
  BY <1>1 DEF Init, Numbers, NumbersGoForward, PendingIsAnswered, Stepwise
<1> QED BY <1>2, <1>3, <1>4 DEF IInv

-----------------------------------------------------------------------------
(* The page.                                                               *)

\* A number that is taken while the socket is down is never sent.
LEMMA ActDownOK ==
  ASSUME IInv, link = "down", outSeq < MaxSeq, outSeq' = outSeq + 1,
         UNCHANGED <<up, pending>>,
         UNCHANGED <<confirmed, link, down, phase, server, open, bounds>>
  PROVE  IInv'
<1>1. outSeq \in Nat /\ MaxSeq \in Nat /\ outSeq <= outSeq'
  BY ReconcileAssumption DEF IInv, Types, TypeOK
<1>2. Types'
  BY <1>1 DEF IInv, Types, TypeOK, server, bounds
<1>3. Linked'
  BY DEF IInv, Linked
<1>4. Numbers'
  <2>1. up = <<>> /\ phase = "new" /\ down = <<>>
    BY DEF IInv, Linked
  <2>2. \A i \in 1..Len(pending) : pending[i].seq \in Nat /\ pending[i].seq <= outSeq
    BY PendingIs DEF IInv
  <2>3. \A i \in 1..Len(pending) : pending'[i].seq <= outSeq'
    BY <1>1, <2>2
  <2>4. Len(up) = 0 /\ Len(down) = 0 /\ DOMAIN up = {}
    BY <2>1
  <2> QED BY <2>1, <2>3, <2>4 DEF IInv, Numbers, NumbersGoForward
<1>5. PendingIsAnswered'
  BY DEF IInv, PendingIsAnswered
<1>6. Told'
  BY DEF IInv, Told, Heard, server
<1>7. Stepwise'
  BY DEF IInv, Stepwise, Heard
<1> QED BY <1>2, <1>3, <1>4, <1>5, <1>6, <1>7 DEF IInv

\* A frame goes out with the next number, and the move it may carry is
\* predicted or not.
Sends(kind, d) ==
  /\ link = "open" /\ outSeq < MaxSeq /\ outSeq' = outSeq + 1
  /\ pending' = IF kind = "move" THEN Predicted(outSeq', d) ELSE pending
  /\ up' = Append(up, Frame(kind, d))
  /\ UNCHANGED <<confirmed, link, down, phase, server, open, bounds>>

LEMMA ActOpenOK ==
  ASSUME IInv, NEW kind \in {"move", "look", "resync"}, NEW d \in Dir \cup {"none"},
         kind = "move" => d \in Dir, Sends(kind, d)
  PROVE  IInv'
<1> DEFINE f == Frame(kind, d)
           n == Len(up)
           k == Len(pending)
           more == [seq |-> outSeq', dir |-> d]
<1>0. /\ link = "open" /\ outSeq' = outSeq + 1 /\ outSeq < MaxSeq
      /\ UNCHANGED <<confirmed, link, down, phase, server, open, bounds>>
  BY DEF Sends
<1>1. /\ outSeq \in Nat /\ MaxSeq \in Nat /\ outSeq < outSeq' /\ outSeq' \in 1..MaxSeq
      /\ n \in Nat /\ k \in Nat
  BY <1>0, ReconcileAssumption, LenProperties DEF IInv, Types, TypeOK
<1>2. f \in Frames /\ f.t = kind /\ f.seq = outSeq' /\ f.dir = d
  BY <1>1 DEF Frame, Frames
<1>3. \/ pending' = pending
      \/ kind = "move" /\ k < MaxPending /\ pending' = Append(pending, more)
  BY <1>1, ReconcileAssumption DEF Predicted, Sends
<1>4. more \in Moves \/ kind # "move"
  BY <1>1 DEF Moves
<1> HIDE DEF f
<1>5. /\ up' \in Seq(Hellos \cup Frames) /\ Len(up') = n + 1 /\ up'[n + 1] = f
      /\ \A i \in 1..n : up'[i] = up[i]
  <2>1. up' = Append(up, f) /\ up \in Seq(Hellos \cup Frames) /\ f \in Hellos \cup Frames
    BY <1>2 DEF IInv, Types, f, Sends
  <2> QED BY <2>1, AppendTo
<1>6. /\ pending' \in Seq(Moves)
      /\ Len(pending') \in {k, k + 1} /\ Len(pending') <= MaxPending
      /\ \A i \in 1..k : pending'[i] = pending[i]
      /\ Len(pending') = k + 1 => kind = "move" /\ pending'[k + 1] = more
  <2>1. k <= MaxPending
    BY DEF IInv, Types, TypeOK
  <2>2. CASE pending' = pending
    BY <1>1, <2>1, <2>2 DEF IInv, Types
  <2>3. CASE kind = "move" /\ k < MaxPending /\ pending' = Append(pending, more)
    <3>3. pending' = Append(pending, more)
      BY <2>3
    <3>1. more \in Moves /\ pending \in Seq(Moves) /\ MaxPending \in Nat
      BY <1>4, <2>3, ReconcileAssumption DEF IInv, Types
    <3> HIDE DEF more
    <3>2. /\ pending' \in Seq(Moves) /\ Len(pending') = k + 1
          /\ pending'[k + 1] = more /\ \A i \in 1..k : pending'[i] = pending[i]
      BY <3>1, <3>3, AppendTo
    <3> QED BY <1>1, <2>3, <3>1, <3>2
  <2> QED BY <1>3, <2>2, <2>3
<1>16. \A i \in 1..(n + 1) : (i \in 1..n /\ up'[i] = up[i]) \/ (i = n + 1 /\ up'[i] = f)
  BY <1>1, <1>5
<1>17. \A j \in 1..Len(pending') :
         \/ j \in 1..k /\ pending'[j] = pending[j]
         \/ j = k + 1 /\ kind = "move" /\ pending'[j].seq = outSeq' /\ pending'[j].dir = d
  <2> TAKE j \in 1..Len(pending')
  <2>1. j \in 1..k \/ (j = k + 1 /\ Len(pending') = k + 1)
    BY <1>1, <1>6
  <2> QED BY <1>6, <2>1
<1>7. \A i \in 1..k : pending[i].seq \in Nat /\ pending[i].seq <= outSeq
  BY PendingIs DEF IInv
<1>8. \A i \in 1..n : up[i].t # "hello" => up[i].seq \in Nat /\ up[i].seq <= outSeq
  <2>1. DOMAIN up = 1..n
    BY LenProperties DEF IInv, Types
  <2> QED BY <1>0, <2>1, UpIs DEF IInv, Numbers, NumbersGoForward
<1>9. DOMAIN up = 1..n /\ DOMAIN up' = 1..(n + 1)
      /\ DOMAIN pending' = 1..Len(pending') /\ DOMAIN pending = 1..k
  BY <1>5, <1>6, LenProperties DEF IInv, Types
<1>10. Types'
  <2>1. \A i \in 1..Len(pending') : pending'[i].seq \in 1..MaxSeq /\ pending'[i].dir \in Dir
    <3>1. \A i \in 1..Len(pending') : pending'[i] \in Moves
      BY <1>6, ElementOfSeq
    <3> QED BY <3>1 DEF Moves
  <2>2. \A i \in 1..Len(up') : up'[i].t = "move" => up'[i].dir \in Dir
    <3>1. \A i \in 1..n : up[i].t = "move" => up[i].dir \in Dir
      BY DEF IInv, Types
    <3> QED BY <1>2, <1>5, <1>16, <3>1
  <2>3. TypeOK'
    <3>1. outSeq' \in 0..MaxSeq
      BY <1>1
    <3>2. /\ confirmed \in Walkable /\ pos \in Walkable /\ lastSeq \in 0..MaxSeq
          /\ phase \in {"new", "verifying", "session", "dead"}
      BY DEF IInv, Types, TypeOK
    <3> QED BY <1>0, <1>6, <1>9, <2>1, <3>1, <3>2 DEF TypeOK, server
  <2> QED BY <1>0, <1>5, <1>6, <2>2, <2>3 DEF IInv, Types, server, bounds
<1>11. Linked'
  <2>1. \A i \in 1..(n + 1) : up'[i].t = "hello" => i = 1 /\ phase = "new"
    BY <1>2, <1>16 DEF IInv, Linked
  <2>2. phase = "new" => n # 0 /\ 1 \in 1..n /\ up[1].t = "hello"
    BY <1>0, <1>1, EmptySeq DEF IInv, Linked, Types
  <2>3. up' # <<>>
    BY <1>1, <1>5
  <2> QED BY <1>0, <1>5, <2>1, <2>2, <2>3 DEF IInv, Linked
<1>12. Numbers'
  <2>1. \A i, j \in 1..(n + 1) : up'[i].t # "hello" /\ up'[j].t # "hello" /\ i < j => up'[i].seq < up'[j].seq
    <3>1. \A i, j \in 1..n : up[i].t # "hello" /\ up[j].t # "hello" /\ i < j => up[i].seq < up[j].seq
      BY <1>9 DEF IInv, Numbers, NumbersGoForward
    <3> TAKE i, j \in 1..(n + 1)
    <3>2. i < j => i \in 1..n /\ up'[i] = up[i]
      BY <1>1, <1>16
    <3>3. CASE j \in 1..n /\ up'[j] = up[j]
      BY <3>1, <3>2, <3>3
    <3>4. CASE up'[j] = f
      BY <1>1, <1>2, <1>8, <3>2, <3>4
    <3> QED BY <1>16, <3>3, <3>4
  <2>2. phase = "session" => lastSeq <= outSeq /\ lastSeq \in Nat
                             /\ \A i \in 1..n : up[i].t # "hello" => up[i].seq > lastSeq
    <3>1. lastSeq \in Nat
      BY DEF IInv, Types, TypeOK
    <3>2. NumbersGoForward
      BY DEF IInv, Numbers
    <3>3. phase = "session" => lastSeq <= outSeq
      BY <1>0, <3>2 DEF NumbersGoForward
    <3>4. phase = "session" => \A i \in 1..n : up[i].t # "hello" => up[i].seq > lastSeq
      BY <1>9, <3>2 DEF NumbersGoForward
    <3> QED BY <3>1, <3>3, <3>4
  <2>3. phase = "session" => \A i \in 1..(n + 1) : up'[i].t # "hello" => up'[i].seq > lastSeq
    BY <1>1, <1>2, <1>5, <2>2
  <2>4. \A i \in 1..(n + 1) : up'[i].t # "hello" => up'[i].seq <= outSeq'
    BY <1>1, <1>2, <1>5, <1>8
  <2>5. phase = "session" => lastSeq <= outSeq'
    BY <1>1, <2>2
  <2>6. NumbersGoForward'
    BY <1>0, <1>9, <2>1, <2>3, <2>4, <2>5 DEF NumbersGoForward, server
  <2>7. /\ \A i, j \in 1..Len(pending') : i < j => pending'[i].seq < pending'[j].seq
        /\ \A i \in 1..Len(pending') : pending'[i].seq <= outSeq'
    <3>1. \A i, j \in 1..k : i < j => pending[i].seq < pending[j].seq
      BY DEF IInv, Numbers
    <3>2. Len(pending') \in {k, k + 1}
      BY <1>6
    <3>3. \A i, j \in 1..Len(pending') : i < j => i \in 1..k /\ pending'[i] = pending[i]
      <4> TAKE i, j \in 1..Len(pending')
      <4>1. j <= k + 1 /\ (i < j => i # k + 1)
        BY <1>1, <3>2
      <4> QED BY <1>17, <4>1
    <3>4. \A i, j \in 1..Len(pending') : i < j => pending'[i].seq < pending'[j].seq
      <4> TAKE i, j \in 1..Len(pending')
      <4>1. i < j => i \in 1..k /\ pending'[i].seq = pending[i].seq /\ pending[i].seq < outSeq'
        BY <1>1, <1>7, <3>3
      <4>2. CASE j \in 1..k /\ pending'[j] = pending[j]
        BY <3>1, <4>1, <4>2
      <4>3. CASE pending'[j].seq = outSeq'
        BY <4>1, <4>3
      <4> QED BY <1>17, <4>2, <4>3
    <3>5. \A i \in 1..Len(pending') : pending'[i].seq <= outSeq'
      BY <1>1, <1>7, <1>17
    <3> QED BY <3>4, <3>5
  <2>8. \A i \in 1..Len(down) : down[i].t # "error" => down[i].seq <= outSeq'
    BY <1>1, DownIs DEF IInv, Numbers
  <2>9. \A i \in 1..(n + 1), j \in 1..Len(pending') :
          up'[i].t = "move" /\ up'[i].seq = pending'[j].seq => up'[i].dir = pending'[j].dir
    <3>1. \A i \in 1..n, j \in 1..k :
            up[i].t = "move" /\ up[i].seq = pending[j].seq => up[i].dir = pending[j].dir
      BY DEF IInv, Numbers
    <3>2. \A i \in 1..n : up[i].t = "move" => up[i].seq \in Nat /\ up[i].seq < outSeq'
      BY <1>1, <1>8
    <3>3. \A j \in 1..k : pending[j].seq \in Nat /\ pending[j].seq < outSeq'
      BY <1>1, <1>7
    <3> TAKE i \in 1..(n + 1), j \in 1..Len(pending')
    <3>4. CASE i \in 1..n /\ up'[i] = up[i] /\ j \in 1..k /\ pending'[j] = pending[j]
      BY <3>1, <3>4
    <3>5. CASE i \in 1..n /\ up'[i] = up[i] /\ pending'[j].seq = outSeq'
      BY <1>1, <3>2, <3>5
    <3>6. CASE up'[i] = f /\ j \in 1..k /\ pending'[j] = pending[j]
      BY <1>1, <1>2, <3>3, <3>6
    <3>7. CASE up'[i] = f /\ pending'[j].dir = d
      BY <1>2, <3>7
    <3> QED BY <1>16, <1>17, <3>4, <3>5, <3>6, <3>7
  <2> QED BY <1>0, <1>5, <2>6, <2>7, <2>8, <2>9 DEF Numbers
<1>13. PendingIsAnswered'
  <2>1. ToSet(up') = ToSet(up) \cup {f}
    BY <1>1, <1>5, <1>9 DEF ToSet
  <2>2. \A i \in 1..Len(pending') : pending'[i].seq = f.seq \/ (i \in 1..k /\ pending'[i] = pending[i])
    BY <1>2, <1>17
  <2>3. f \in ToSet(up') /\ \A x \in ToSet(up) : x \in ToSet(up')
    BY <2>1
  <2> QED BY <1>0, <1>9, <2>2, <2>3 DEF IInv, PendingIsAnswered
<1>14. Told'
  BY <1>0 DEF IInv, Told, Heard, server
<1>15. Stepwise'
  <2>1. \A i \in 1..Len(down) : down[i].t # "error" => down[i].seq <= outSeq /\ down[i].seq \in Nat
    BY DownIs DEF IInv, Numbers
  <2>2. \A i \in 1..Len(down) : down[i].t # "error" => down[i].seq # outSeq'
    BY <1>1, <2>1
  <2>3. \A i \in 1..Len(down), j \in 1..Len(pending') :
          down[i].t = "ack" /\ pending'[j].seq = down[i].seq
            => j \in 1..k /\ pending'[j] = pending[j]
    BY <1>17, <2>2
  <2> QED BY <1>0, <2>3 DEF IInv, Stepwise, Heard
<1> QED BY <1>10, <1>11, <1>12, <1>13, <1>14, <1>15 DEF IInv

\* What is left of the messages when the first has been read.
LEMMA RestIs ==
  ASSUME Types, Linked, down # <<>>, down' = Tail(down)
  PROVE  /\ down' \in Seq(Acks \cup Snapshots \cup Errors)
         /\ Len(down) \in Nat \ {0} /\ Len(down') = Len(down) - 1
         /\ Head(down) = down[1] /\ Head(down) \in Acks \cup Snapshots \cup Errors
         /\ \A i \in 1..Len(down') : i + 1 \in 1..Len(down) /\ down'[i] = down[i + 1]
         /\ phase \in {"session", "dead"} /\ link = "open"
         /\ Head(down).t = "error" => Len(down') = 0 /\ phase = "dead"
<1>1. /\ down' \in Seq(Acks \cup Snapshots \cup Errors)
      /\ Len(down) \in Nat \ {0} /\ Len(down') = Len(down) - 1
      /\ Head(down) = down[1] /\ Head(down) \in Acks \cup Snapshots \cup Errors
      /\ \A i \in 1..Len(down') : i + 1 \in 1..Len(down) /\ down'[i] = down[i + 1]
  BY TailOf DEF Types
<1>2. phase \in {"session", "dead"} /\ link = "open"
  BY DEF Types, TypeOK, Linked
<1>3. Head(down).t = "error" => Len(down') = 0 /\ phase = "dead"
  <2>1. 1 \in 1..Len(down)
    BY <1>1
  <2>2. down[1].t = "error" => phase = "dead" /\ 1 = Len(down)
    BY <2>1 DEF Linked
  <2> QED BY <1>1, <2>2
<1> QED BY <1>1, <1>2, <1>3

\* What the page has heard after a message is what it was about to hear.
LEMMA HeardNext ==
  ASSUME Types, Linked, down # <<>>, down' = Tail(down), Head(down).t # "error",
         confirmed' = Head(down).pos
  PROVE  \A i \in 0..Len(down') : Heard(i)' = Heard(i + 1)
<1>1. /\ Len(down) \in Nat \ {0} /\ Len(down') = Len(down) - 1 /\ Head(down) = down[1]
      /\ \A i \in 1..Len(down') : down'[i] = down[i + 1]
  BY RestIs
<1> TAKE i \in 0..Len(down')
<1>2. CASE i = 0
  BY <1>1, <1>2 DEF Heard
<1>3. CASE i # 0
  BY <1>1, <1>3 DEF Heard
<1> QED BY <1>2, <1>3

\* A message with a position is read, and the first n moves are answered by it.
Reads(n) ==
  /\ down # <<>> /\ down' = Tail(down) /\ Head(down).t # "error"
  /\ confirmed' = Head(down).pos /\ outSeq' = outSeq
  /\ pending' \in Seq(Moves) /\ Len(pending') = Len(pending) - n
  /\ \A j \in 1..Len(pending') : pending'[j] = pending[j + n]
  /\ Head(down).t = "snapshot" => pending' = <<>>
  /\ Head(down).t = "ack" => \A j \in 1..Len(pending') : pending'[j].seq > Head(down).seq
  /\ UNCHANGED <<link, up, phase, server, open, bounds>>

\* onMessage: moves leave the page only when their answer is read.
LEMMA ReadOK ==
  ASSUME IInv, NEW n \in 0..Len(pending), Reads(n)
  PROVE  IInv'
<1> DEFINE m == down[1]
<1>0. /\ Head(down) = m /\ m.t # "error" /\ confirmed' = m.pos /\ outSeq' = outSeq
      /\ pending' \in Seq(Moves) /\ Len(pending') = Len(pending) - n
      /\ \A j \in 1..Len(pending') : pending'[j] = pending[j + n]
      /\ m.t = "snapshot" => pending' = <<>>
      /\ m.t = "ack" => \A j \in 1..Len(pending') : pending'[j].seq > m.seq
      /\ UNCHANGED <<link, up, phase, server, open, bounds>>
  <2>1. Head(down) = m
    BY RestIs DEF IInv, Reads
  <2> QED BY <2>1 DEF Reads
<1>1. /\ down' \in Seq(Acks \cup Snapshots \cup Errors)
      /\ Len(down) \in Nat \ {0} /\ Len(down') = Len(down) - 1
      /\ \A i \in 1..Len(down') : i + 1 \in 1..Len(down) /\ down'[i] = down[i + 1]
      /\ phase \in {"session", "dead"} /\ link = "open"
  BY RestIs DEF IInv, Reads
<1> HIDE DEF m
<1>2. m.pos \in Walkable /\ m.t \in {"ack", "snapshot"} /\ m.seq \in Nat
  <2>1. 1 \in 1..Len(down)
    BY <1>1
  <2> QED BY <1>0, <2>1, DownIs DEF IInv, m
<1>3. /\ Len(pending) \in Nat /\ Len(pending') \in Nat /\ Len(pending') <= Len(pending)
      /\ \A j \in 1..Len(pending') : j + n \in 1..Len(pending) /\ pending'[j] = pending[j + n]
      /\ DOMAIN pending' = 1..Len(pending')
  <2>1. Len(pending) \in Nat
    BY PendingIs DEF IInv
  <2>2. Len(pending') \in Nat /\ DOMAIN pending' = 1..Len(pending')
    BY <1>0, LenProperties
  <2>3. Len(pending') <= Len(pending) /\ \A j \in 1..Len(pending') : j + n \in 1..Len(pending)
    BY <1>0, <2>1, <2>2
  <2> QED BY <1>0, <2>1, <2>2, <2>3
<1>4. \A j \in 1..Len(pending') : pending'[j].seq \in 1..MaxSeq /\ pending'[j].seq \in Nat
                                /\ pending'[j].dir \in Dir /\ pending'[j].seq <= outSeq
  BY <1>3, PendingIs DEF IInv
<1>5. Types'
  <2>1. Len(pending') <= MaxPending
    BY <1>3, ReconcileAssumption DEF IInv, Types, TypeOK
  <2>2. TypeOK'
    BY <1>0, <1>2, <1>3, <1>4, <2>1 DEF IInv, Types, TypeOK, server
  <2> QED BY <1>0, <1>1, <2>2 DEF IInv, Types, server, bounds
<1>6. Linked'
  <2>1. \A i \in 1..Len(down') : down'[i].t = "error" => phase = "dead" /\ i = Len(down')
    <3>1. \A i \in 1..Len(down) : down[i].t = "error" => phase = "dead" /\ i = Len(down)
      BY DEF IInv, Linked
    <3> TAKE i \in 1..Len(down')
    <3>2. i + 1 \in 1..Len(down) /\ down'[i] = down[i + 1] /\ Len(down) \in Nat /\ Len(down') = Len(down) - 1
      BY <1>1
    <3>3. down'[i].t = "error" => phase = "dead" /\ i + 1 = Len(down)
      BY <3>1, <3>2
    <3>4. i \in Nat
      BY <1>1
    <3>5. i + 1 = Len(down) => i = Len(down')
      <4>1. Len(down') = Len(down) - 1
        BY <1>1
      <4>2. ASSUME i + 1 = Len(down) PROVE i = Len(down) - 1
        BY <3>4, <4>2
      <4> QED BY <4>1, <4>2
    <3> QED BY <3>3, <3>5
  <2> QED BY <1>0, <1>1, <2>1 DEF IInv, Linked
<1>7. Numbers'
  <2>1. NumbersGoForward'
    BY <1>0 DEF IInv, Numbers, NumbersGoForward, server
  <2>2. \A i, j \in 1..Len(pending') : i < j => pending'[i].seq < pending'[j].seq
    <3> TAKE i, j \in 1..Len(pending')
    <3>1. i < j => i + n < j + n
      BY <1>3
    <3> QED BY <1>3, <3>1 DEF IInv, Numbers
  <2>3. \A i \in 1..Len(down') : down'[i].t # "error" => down'[i].seq <= outSeq
    BY <1>1 DEF IInv, Numbers
  <2>4. \A i \in 1..Len(up), j \in 1..Len(pending') :
          up[i].t = "move" /\ up[i].seq = pending'[j].seq => up[i].dir = pending'[j].dir
    <3>1. \A i \in 1..Len(up), j \in 1..Len(pending) :
            up[i].t = "move" /\ up[i].seq = pending[j].seq => up[i].dir = pending[j].dir
      BY DEF IInv, Numbers
    <3> TAKE i \in 1..Len(up), j \in 1..Len(pending')
    <3>2. j + n \in 1..Len(pending) /\ pending'[j] = pending[j + n]
      BY <1>3
    <3> QED BY <3>1, <3>2
  <2> QED BY <1>0, <1>4, <2>1, <2>2, <2>3, <2>4 DEF Numbers
<1>8. PendingIsAnswered'
  <2> SUFFICES ASSUME NEW j \in 1..Len(pending'), link = "open", phase = "session"
               PROVE  \/ \E f \in ToSet(up) : f.t = "hello" \/ f.seq = pending'[j].seq
                      \/ \E x \in ToSet(down') : x.t = "snapshot" \/ (x.t = "ack" /\ x.seq >= pending'[j].seq)
    BY <1>0, <1>1, <1>3 DEF PendingIsAnswered
  <2>1. j + n \in DOMAIN pending /\ pending'[j] = pending[j + n]
    BY <1>3, LenProperties DEF IInv, Types
  <2>2. CASE \E f \in ToSet(up) : f.t = "hello" \/ f.seq = pending[j + n].seq
    BY <2>1, <2>2
  <2>3. CASE \E x \in ToSet(down) : x.t = "snapshot" \/ (x.t = "ack" /\ x.seq >= pending[j + n].seq)
    <3>1. PICK i \in 1..Len(down) : down[i].t = "snapshot" \/ (down[i].t = "ack" /\ down[i].seq >= pending[j + n].seq)
      <4>1. PICK x \in ToSet(down) : x.t = "snapshot" \/ (x.t = "ack" /\ x.seq >= pending[j + n].seq)
        BY <2>3
      <4>2. PICK i \in 1..Len(down) : x = down[i]
        BY Places DEF IInv, Types
      <4> QED BY <4>1, <4>2
    <3>2. i # 1
      <4>1. Len(pending') # 0
        BY <1>3
      <4>2. m.t = "ack" /\ pending'[j].seq > m.seq
        BY <1>0, <1>2, <4>1
      <4> QED BY <1>2, <1>4, <2>1, <3>1, <4>2 DEF m
    <3>3. i - 1 \in 1..Len(down') /\ down'[i - 1] = down[i]
      BY <1>1, <3>2
    <3>4. down[i] \in ToSet(down')
      BY <1>1, <3>3, Places
    <3> QED BY <2>1, <3>1, <3>4
  <2> QED BY <2>1, <2>2, <2>3 DEF IInv, PendingIsAnswered
<1>9. \A i \in 0..Len(down') : Heard(i)' = Heard(i + 1)
  BY HeardNext DEF IInv, Reads
<1>10. Told'
  <2>5. Len(down') \in Nat
    BY <1>1
  <2>1. PICK l \in Nat : l = Len(down')
    BY <2>5
  <2>2. l \in 0..Len(down') /\ l + 1 = Len(down)
    BY <1>1, <2>1
  <2>3. Heard(l)' = Heard(Len(down))
    BY <1>9, <2>2
  <2>4. (IF l = 0 THEN confirmed' ELSE down'[l].pos) = Heard(Len(down))
    BY <2>3 DEF Heard
  <2> QED BY <1>0, <2>1, <2>4 DEF IInv, Told, server, Heard
<1>11. Stepwise'
  <2> SUFFICES ASSUME NEW i \in 1..Len(down'), NEW j \in 1..Len(pending'),
                      down'[i].t = "ack", down'[i].step, pending'[j].seq = down'[i].seq
               PROVE  down'[i].pos = StepOf(Heard(i - 1)', pending'[j].dir)
    BY DEF Stepwise, Heard
  <2>3. i \in Nat /\ Len(down') \in Nat
    BY <1>1
  <2>1. i - 1 \in 0..Len(down') /\ (i - 1) + 1 = i /\ (i + 1) - 1 = i
    BY <2>3
  <2>2. down'[i].pos = StepOf(Heard(i), pending'[j].dir)
    <3>1. i + 1 \in 1..Len(down) /\ down'[i] = down[i + 1]
          /\ j + n \in 1..Len(pending) /\ pending'[j] = pending[j + n]
      BY <1>1, <1>3
    <3>3. down[i + 1].t = "ack" /\ down[i + 1].step /\ pending[j + n].seq = down[i + 1].seq
      BY <3>1
    <3>2. down[i + 1].pos = StepOf(Heard((i + 1) - 1), pending[j + n].dir)
      BY <3>1, <3>3 DEF IInv, Stepwise
    <3> QED BY <2>1, <3>1, <3>2
  <2> QED BY <1>9, <2>1, <2>2
<1> QED BY <1>5, <1>6, <1>7, <1>8, <1>10, <1>11 DEF IInv

LEMMA ReceiveOK == IInv /\ Receive => IInv'
<1> SUFFICES ASSUME IInv, Receive PROVE IInv'
  OBVIOUS
<1> DEFINE m == Head(down)
<1>1. /\ down # <<>> /\ down' = Tail(down)
      /\ UNCHANGED <<link, up, phase, server, open, bounds>>
  BY DEF Receive
<1>2. /\ m = down[1] /\ Len(down) \in Nat \ {0} /\ Len(down') = Len(down) - 1
      /\ m.t = "error" => Len(down') = 0 /\ phase = "dead"
      /\ down' \in Seq(Acks \cup Snapshots \cup Errors)
  BY <1>1, RestIs DEF IInv
<1>3. m.t \in {"ack", "snapshot", "error"} /\ (m.t # "error" => m.seq \in Nat /\ m.seq <= outSeq)
  BY <1>2, DownIs DEF IInv, Numbers
<1>4. Len(pending) \in Nat /\ outSeq \in Nat
  BY PendingIs, ReconcileAssumption DEF IInv, Types, TypeOK
<1>5. CASE m.t = "ack"
  <2>1. confirmed' = m.pos /\ pending' = Unacked(m.seq) /\ outSeq' = outSeq
    BY <1>5 DEF Receive
  <2>2. PICK n \in 0..Len(pending) :
           /\ \A i \in (n + 1)..Len(pending) : pending[i].seq > m.seq
           /\ pending' \in Seq(Moves) /\ Len(pending') = Len(pending) - n
           /\ \A i \in 1..Len(pending') : pending'[i] = pending[i + n]
    BY <1>3, <1>5, <2>1, UnackedIs DEF IInv
  <2>3. \A j \in 1..Len(pending') : pending'[j].seq > m.seq
    <3> TAKE j \in 1..Len(pending')
    <3>1. j + n \in (n + 1)..Len(pending)
      BY <1>4, <2>2
    <3>2. pending'[j] = pending[j + n]
      BY <2>2
    <3> QED BY <2>2, <3>1, <3>2
  <2> HIDE DEF m
  <2>4. Reads(n)
    BY <1>1, <1>5, <2>1, <2>2, <2>3 DEF Reads, m
  <2> QED BY <2>4, ReadOK
<1>6. CASE m.t = "snapshot"
  <2>1. confirmed' = m.pos /\ pending' = <<>> /\ outSeq' = outSeq
    BY <1>3, <1>4, <1>6 DEF Receive
  <2>2. /\ Len(pending) \in 0..Len(pending) /\ pending' \in Seq(Moves)
        /\ Len(pending') = 0 /\ Len(pending') = Len(pending) - Len(pending)
        /\ \A j \in 1..Len(pending') : FALSE
    BY <1>4, <2>1
  <2> HIDE DEF m
  <2>3. Reads(Len(pending))
    BY <1>1, <1>6, <2>1, <2>2 DEF Reads, m
  <2> QED BY <2>2, <2>3, ReadOK
<1>7. CASE m.t = "error"
  <2>1. UNCHANGED page
    BY <1>7 DEF Receive
  <2>2. Len(down') = 0 /\ phase = "dead" /\ phase' = "dead"
    BY <1>1, <1>2, <1>7
  <2>3. Types'
    BY <1>1, <1>2, <2>1 DEF IInv, Types, TypeOK, page, server, bounds
  <2>4. Linked'
    BY <1>1, <2>2 DEF IInv, Linked
  <2>5. Numbers'
    BY <1>1, <2>1, <2>2 DEF IInv, Numbers, NumbersGoForward, page, server
  <2>6. PendingIsAnswered' /\ Told' /\ Stepwise'
    BY <2>2 DEF PendingIsAnswered, Told, Stepwise
  <2> QED BY <2>3, <2>4, <2>5, <2>6 DEF IInv
<1> QED BY <1>3, <1>5, <1>6, <1>7

\* A new connection begins with nothing but its hello.
LEMMA ReopenOK ==
  ASSUME IInv, NEW auth \in BOOLEAN, Reopen(auth)
  PROVE  IInv'
<1>1. /\ link' = "open" /\ links' = links + 1 /\ phase' = "new" /\ outSeq' = 0
      /\ pending' = <<>> /\ up' = <<[t |-> "hello", auth |-> auth]>> /\ down' = <<>>
      /\ UNCHANGED <<confirmed, server, open, falls>>
  BY DEF Reopen
<1>2. /\ Len(pending') = 0 /\ Len(down') = 0 /\ Len(up') = 1 /\ up'[1].t = "hello"
      /\ DOMAIN pending' = {} /\ DOMAIN up' = {1}
      /\ up' \in Seq(Hellos \cup Frames)
  <2>1. [t |-> "hello", auth |-> auth] \in Hellos
    BY DEF Hellos
  <2>2. \A i \in 1..1 : i = 1
    OBVIOUS
  <2> QED BY <1>1, <2>1, <2>2
<1>3. Types'
  <2>1. pending' \in Seq(Moves) /\ down' \in Seq(Acks \cup Snapshots \cup Errors)
    BY <1>1
  <2>2. TypeOK'
    BY <1>1, <1>2, ReconcileAssumption DEF IInv, Types, TypeOK, server
  <2>3. \A i \in 1..Len(up') : up'[i].t # "move"
    BY <1>2
  <2> QED BY <1>1, <1>2, <2>1, <2>2, <2>3 DEF IInv, Types, server
<1>4. Linked'
  BY <1>1, <1>2 DEF Linked
<1>5. Numbers'
  <2>1. NumbersGoForward'
    BY <1>1, <1>2 DEF NumbersGoForward
  <2> QED BY <1>1, <1>2, <2>1 DEF Numbers
<1>6. PendingIsAnswered' /\ Told' /\ Stepwise'
  BY <1>1, <1>2 DEF PendingIsAnswered, Told, Stepwise
<1> QED BY <1>3, <1>4, <1>5, <1>6 DEF IInv

\* What was on its way is lost with the connection.
LEMMA BreakOK == IInv /\ Break => IInv'
<1> SUFFICES ASSUME IInv, Break PROVE IInv'
  OBVIOUS
<1>1. /\ link' = "down" /\ up' = <<>> /\ down' = <<>> /\ phase' = "new"
      /\ UNCHANGED <<page, server, open, bounds>>
  BY DEF Break
<1>2. /\ Len(up') = 0 /\ Len(down') = 0 /\ DOMAIN up' = {}
      /\ up' \in Seq(Hellos \cup Frames) /\ down' \in Seq(Acks \cup Snapshots \cup Errors)
  BY <1>1
<1>3. Types'
  BY <1>1, <1>2 DEF IInv, Types, TypeOK, page, server, bounds
<1>4. Linked'
  BY <1>1, <1>2 DEF Linked
<1>5. Numbers'
  <2>1. NumbersGoForward'
    BY <1>1, <1>2 DEF NumbersGoForward
  <2> QED BY <1>1, <1>2, <2>1 DEF IInv, Numbers, page
<1>6. PendingIsAnswered' /\ Told' /\ Stepwise'
  BY <1>1, <1>2 DEF PendingIsAnswered, Told, Stepwise
<1> QED BY <1>3, <1>4, <1>5, <1>6 DEF IInv

-----------------------------------------------------------------------------
(* The server.                                                             *)

\* What is left of the frames when the first has been taken.
LEMMA RestOfFrames ==
  ASSUME Types, Linked, Numbers, up # <<>>, up' = Tail(up)
  PROVE  /\ up' \in Seq(Hellos \cup Frames)
         /\ Len(up) \in Nat \ {0} /\ Len(up') = Len(up) - 1 /\ Head(up) = up[1]
         /\ \A i \in 1..Len(up') : i + 1 \in 1..Len(up) /\ up'[i] = up[i + 1]
         /\ \A i \in 1..Len(up') : up'[i].t # "hello"
         /\ \A i \in 1..Len(up') : up'[i].t = "move" => up'[i].dir \in Dir
         /\ DOMAIN up' = 1..Len(up') /\ link = "open" /\ Len(up') \in Nat
         /\ \A i, j \in 1..Len(up') : i < j => up'[i].seq < up'[j].seq
         /\ \A i \in 1..Len(up') : up'[i].seq \in 1..MaxSeq /\ up'[i].seq <= outSeq
         /\ Head(up).t # "hello" => /\ \A i \in 1..Len(up') : Head(up).seq < up'[i].seq
                                    /\ Head(up).seq <= outSeq /\ Head(up) \in Frames
                                    /\ phase = "session" => Head(up).seq > lastSeq
         /\ \A i \in 1..Len(up'), j \in 1..Len(pending) :
              up'[i].t = "move" /\ up'[i].seq = pending[j].seq => up'[i].dir = pending[j].dir
<1>1. /\ up' \in Seq(Hellos \cup Frames) /\ Len(up') \in Nat
      /\ Len(up) \in Nat \ {0} /\ Len(up') = Len(up) - 1
      /\ Head(up) = up[1] /\ Head(up) \in Hellos \cup Frames
      /\ \A i \in 1..Len(up') : i + 1 \in 1..Len(up) /\ up'[i] = up[i + 1]
  BY TailOf DEF Types
<1>2. DOMAIN up = 1..Len(up) /\ DOMAIN up' = 1..Len(up') /\ 1 \in 1..Len(up)
  BY <1>1, LenProperties DEF Types
<1>3. link = "open"
  BY DEF Linked, Types, TypeOK
<1>4. \A i \in 1..Len(up') : i + 1 # 1
  BY <1>1
<1>5. \A i \in 1..Len(up') : up'[i].t # "hello"
  BY <1>1, <1>4 DEF Linked
<1>6. \A i \in 1..Len(up') : up'[i].t = "move" => up'[i].dir \in Dir
  BY <1>1 DEF Types
<1>7. \A i, j \in 1..Len(up) : up[i].t # "hello" /\ up[j].t # "hello" /\ i < j => up[i].seq < up[j].seq
  BY <1>2 DEF Numbers, NumbersGoForward
<1>8. \A i, j \in 1..Len(up') : i < j => up'[i].seq < up'[j].seq
  <2> TAKE i, j \in 1..Len(up')
  <2>1. i < j => i + 1 < j + 1
    BY <1>1
  <2> QED BY <1>1, <1>5, <1>7, <2>1
<1>9. \A i \in 1..Len(up) : up[i].t # "hello" => up[i].seq \in 1..MaxSeq /\ up[i].seq <= outSeq
                                               /\ (phase = "session" => up[i].seq > lastSeq)
  BY <1>2, <1>3, UpIs DEF Numbers, NumbersGoForward
<1>10. \A i \in 1..Len(up') : up'[i].seq \in 1..MaxSeq /\ up'[i].seq <= outSeq
  BY <1>1, <1>5, <1>9
<1>11. Head(up).t # "hello" => /\ \A i \in 1..Len(up') : Head(up).seq < up'[i].seq
                               /\ Head(up).seq <= outSeq /\ Head(up) \in Frames
                               /\ phase = "session" => Head(up).seq > lastSeq
  <2> SUFFICES ASSUME up[1].t # "hello"
               PROVE  /\ \A i \in 1..Len(up') : up[1].seq < up'[i].seq
                      /\ up[1].seq <= outSeq /\ up[1] \in Frames
                      /\ phase = "session" => up[1].seq > lastSeq
    BY <1>1
  <2>1. \A i \in 1..Len(up') : 1 < i + 1
    BY <1>1
  <2>2. \A i \in 1..Len(up') : up[1].seq < up'[i].seq
    BY <1>1, <1>2, <1>5, <1>7, <2>1
  <2>3. up[1] \in Frames
    BY <1>1 DEF Hellos
  <2> QED BY <1>2, <1>9, <2>2, <2>3
<1>12. \A i \in 1..Len(up'), j \in 1..Len(pending) :
         up'[i].t = "move" /\ up'[i].seq = pending[j].seq => up'[i].dir = pending[j].dir
  BY <1>1 DEF Numbers
<1> QED BY <1>1, <1>2, <1>3, <1>5, <1>6, <1>8, <1>10, <1>11, <1>12

\* Frames that nobody listens to.
LEMMA IgnoredOK == IInv /\ Ignored => IInv'
<1> SUFFICES ASSUME IInv, Ignored PROVE IInv'
  OBVIOUS
<1>1. /\ up # <<>> /\ up' = Tail(up) /\ phase \in {"verifying", "dead"}
      /\ UNCHANGED <<page, link, down, phase, server, open, bounds>>
  BY DEF Ignored
<1>2. /\ up' \in Seq(Hellos \cup Frames) /\ Len(up') \in Nat /\ DOMAIN up' = 1..Len(up')
      /\ \A i \in 1..Len(up') : up'[i].t # "hello"
      /\ \A i \in 1..Len(up') : up'[i].t = "move" => up'[i].dir \in Dir
      /\ link = "open"
      /\ \A i, j \in 1..Len(up') : i < j => up'[i].seq < up'[j].seq
      /\ \A i \in 1..Len(up') : up'[i].seq <= outSeq
      /\ \A i \in 1..Len(up'), j \in 1..Len(pending) :
           up'[i].t = "move" /\ up'[i].seq = pending[j].seq => up'[i].dir = pending[j].dir
  BY <1>1, RestOfFrames DEF IInv
<1>3. Types'
  BY <1>1, <1>2 DEF IInv, Types, TypeOK, page, server, bounds
<1>4. Linked'
  BY <1>1, <1>2 DEF IInv, Linked
<1>5. Numbers'
  <2>1. NumbersGoForward'
    BY <1>1, <1>2 DEF NumbersGoForward, page
  <2> QED BY <1>1, <1>2, <2>1 DEF IInv, Numbers, page
<1>6. PendingIsAnswered' /\ Told' /\ Stepwise'
  BY <1>1 DEF IInv, PendingIsAnswered, Told, Stepwise, Heard, page
<1> QED BY <1>3, <1>4, <1>5, <1>6 DEF IInv

\* handleHello: the first message of a session is where the player is.
LEMMA WelcomeOK ==
  ASSUME IInv, Welcome, down = <<>>, link = "open",
         up' \in Seq(Hellos \cup Frames), DOMAIN up' = 1..Len(up'),
         \A i \in 1..Len(up') : up'[i].t # "hello",
         \A i \in 1..Len(up') : up'[i].t = "move" => up'[i].dir \in Dir,
         \A i, j \in 1..Len(up') : i < j => up'[i].seq < up'[j].seq,
         \A i \in 1..Len(up') : up'[i].seq \in 1..MaxSeq /\ up'[i].seq <= outSeq,
         \A i \in 1..Len(up'), j \in 1..Len(pending) :
           up'[i].t = "move" /\ up'[i].seq = pending[j].seq => up'[i].dir = pending[j].dir,
         UNCHANGED <<page, link, open, bounds>>
  PROVE  IInv'
<1> DEFINE s == [t |-> "snapshot", seq |-> 0, pos |-> pos']
<1>1. /\ phase' = "session" /\ lastSeq' = 0 /\ pos' \in Walkable
      /\ fallen' = FALSE /\ untold' = FALSE /\ down' = Append(down, s)
  BY ReconcileAssumption DEF Welcome, IInv, Types, TypeOK
<1>2. s \in Snapshots /\ MaxSeq \in Nat
  BY <1>1, ReconcileAssumption DEF Snapshots
<1>3. s.t = "snapshot" /\ s.seq = 0 /\ s.pos = pos'
  OBVIOUS
<1> HIDE DEF s
<1>4. down' \in Seq(Acks \cup Snapshots \cup Errors) /\ Len(down') = 1 /\ down'[1] = s
  <2>1. down \in Seq(Acks \cup Snapshots \cup Errors) /\ s \in Acks \cup Snapshots \cup Errors
    BY <1>2 DEF IInv, Types
  <2>2. Len(down) = 0
    OBVIOUS
  <2> QED BY <1>1, <2>1, <2>2, AppendTo
<1>5. outSeq \in Nat /\ \A j \in 1..Len(pending) : pending[j].seq \in Nat
  BY PendingIs, ReconcileAssumption DEF IInv, Types, TypeOK
<1>6. Types'
  <2>1. TypeOK'
    BY <1>1, <1>2 DEF IInv, Types, TypeOK, page
  <2>2. fallen' \in BOOLEAN /\ untold' \in BOOLEAN
    BY <1>1
  <2> QED BY <1>4, <2>1, <2>2 DEF IInv, Types, page, bounds
<1>7. Linked'
  BY <1>1, <1>3, <1>4 DEF IInv, Linked
<1>8. Numbers'
  <2>1. NumbersGoForward'
    BY <1>1, <1>2, <1>5 DEF NumbersGoForward, page
  <2>2. \A i \in 1..Len(down') : down'[i].seq <= outSeq
    BY <1>3, <1>4, <1>5
  <2> QED BY <2>1, <2>2 DEF IInv, Numbers, page
<1>9. PendingIsAnswered'
  <2>1. s \in ToSet(down')
    BY <1>4, Places
  <2> QED BY <1>3, <2>1 DEF PendingIsAnswered
<1>10. Told' /\ Stepwise'
  BY <1>1, <1>3, <1>4 DEF Told, Stepwise, Heard
<1> QED BY <1>6, <1>7, <1>8, <1>9, <1>10 DEF IInv

LEMMA HelloOK == IInv /\ Hello => IInv'
<1> SUFFICES ASSUME IInv, Hello PROVE IInv'
  OBVIOUS
<1>1. /\ up # <<>> /\ up' = Tail(up) /\ phase = "new"
      /\ UNCHANGED <<page, link, open, bounds>>
  BY DEF Hello
<1>2. /\ up' \in Seq(Hellos \cup Frames) /\ Len(up') \in Nat /\ DOMAIN up' = 1..Len(up')
      /\ \A i \in 1..Len(up') : up'[i].t # "hello"
      /\ \A i \in 1..Len(up') : up'[i].t = "move" => up'[i].dir \in Dir
      /\ link = "open"
      /\ \A i, j \in 1..Len(up') : i < j => up'[i].seq < up'[j].seq
      /\ \A i \in 1..Len(up') : up'[i].seq \in 1..MaxSeq /\ up'[i].seq <= outSeq
      /\ \A i \in 1..Len(up'), j \in 1..Len(pending) :
           up'[i].t = "move" /\ up'[i].seq = pending[j].seq => up'[i].dir = pending[j].dir
  BY <1>1, RestOfFrames DEF IInv
<1>3. down = <<>>
  BY <1>1 DEF IInv, Linked
<1>4. CASE Head(up).auth
  <2>1. phase' = "verifying" /\ UNCHANGED <<down, server>>
    BY <1>4 DEF Hello
  <2>2. Types'
    BY <1>1, <1>2, <2>1 DEF IInv, Types, TypeOK, page, server, bounds
  <2>3. Linked'
    BY <1>1, <1>2, <1>3, <2>1 DEF IInv, Linked
  <2>4. Numbers'
    <3>1. NumbersGoForward'
      BY <1>1, <1>2, <2>1 DEF NumbersGoForward, page
    <3> QED BY <1>1, <1>2, <2>1, <3>1 DEF IInv, Numbers, page
  <2>5. PendingIsAnswered' /\ Told' /\ Stepwise'
    BY <1>3, <2>1 DEF PendingIsAnswered, Told, Stepwise
  <2> QED BY <2>2, <2>3, <2>4, <2>5 DEF IInv
<1>5. CASE ~Head(up).auth
  <2>1. Welcome
    BY <1>5 DEF Hello
  <2> QED BY <1>1, <1>2, <1>3, <2>1, WelcomeOK
<1> QED BY <1>4, <1>5

\* The connection is cut while a password is checked: nothing was said on it.
LEMMA AuthSettlesOK == IInv /\ AuthSettles => IInv'
<1> SUFFICES ASSUME IInv, AuthSettles PROVE IInv'
  OBVIOUS
<1>1. phase = "verifying" /\ UNCHANGED <<page, link, up, open, bounds>> /\ down = <<>>
  BY DEF AuthSettles, IInv, Linked
<1>2. link = "open"
  BY <1>1 DEF IInv, Linked, Types, TypeOK
<1>3. DOMAIN up = 1..Len(up) /\ \A i \in 1..Len(up) : up[i].t # "hello"
  BY <1>1, LenProperties DEF IInv, Linked, Types
<1>4. CASE Welcome
  <2>1. /\ up' \in Seq(Hellos \cup Frames)
        /\ \A i \in 1..Len(up) : up[i].t = "move" => up[i].dir \in Dir
    BY <1>1 DEF IInv, Types
  <2>2. \A i, j \in 1..Len(up) : i < j => up[i].seq < up[j].seq
    BY <1>3 DEF IInv, Numbers, NumbersGoForward
  <2>3. \A i \in 1..Len(up) : up[i].seq \in 1..MaxSeq /\ up[i].seq <= outSeq
    BY <1>2, <1>3, UpIs DEF IInv, Numbers, NumbersGoForward
  <2>4. \A i \in 1..Len(up), j \in 1..Len(pending) :
          up[i].t = "move" /\ up[i].seq = pending[j].seq => up[i].dir = pending[j].dir
    BY DEF IInv, Numbers
  <2> QED BY <1>1, <1>2, <1>3, <1>4, <2>1, <2>2, <2>3, <2>4, WelcomeOK
<1>5. CASE Cut /\ UNCHANGED server
  <2>1. phase' = "dead" /\ down' = Append(down, [t |-> "error"])
    BY <1>5 DEF Cut
  <2>2. /\ down' \in Seq(Acks \cup Snapshots \cup Errors) /\ Len(down') = 1
        /\ down'[1].t = "error"
    BY <1>1, <2>1 DEF Errors
  <2>3. Types'
    BY <1>1, <1>5, <2>1, <2>2 DEF IInv, Types, TypeOK, page, server, bounds
  <2>4. Linked'
    BY <1>1, <1>2, <2>1, <2>2 DEF IInv, Linked
  <2>5. Numbers'
    BY <1>1, <2>1, <2>2 DEF IInv, Numbers, NumbersGoForward, page
  <2>6. PendingIsAnswered' /\ Told' /\ Stepwise'
    BY <2>1, <2>2 DEF PendingIsAnswered, Told, Stepwise
  <2> QED BY <2>3, <2>4, <2>5, <2>6 DEF IInv
<1> QED BY <1>4, <1>5 DEF AuthSettles

\* An answer: an ack with the position, and a snapshot of it if it was asked for.
AnswerOf(f, a) ==
  /\ a \in Acks /\ a.seq = f.seq /\ a.pos = pos'
  /\ a.step => f.t = "move" /\ ~untold /\ pos' = StepOf(pos, f.dir)
  /\ \/ down' = Append(down, a)
     \/ down' = down \o <<a, [t |-> "snapshot", seq |-> f.seq, pos |-> pos']>>

LEMMA AnswerIs ==
  ASSUME Types, NEW f \in Frames, pos' \in Walkable, NEW a, AnswerOf(f, a)
  PROVE  /\ down' \in Seq(Acks \cup Snapshots \cup Errors)
         /\ Len(down) \in Nat /\ Len(down') \in {Len(down) + 1, Len(down) + 2}
         /\ \A i \in 1..Len(down) : down'[i] = down[i]
         /\ down'[Len(down) + 1] = a
         /\ Len(down') = Len(down) + 2 =>
              /\ down'[Len(down) + 2].t = "snapshot"
              /\ down'[Len(down) + 2].seq = f.seq
              /\ down'[Len(down) + 2].pos = pos'
<1> DEFINE M == Acks \cup Snapshots \cup Errors
           s == [t |-> "snapshot", seq |-> f.seq, pos |-> pos']
<1>1. a \in M /\ s \in M /\ down \in Seq(M) /\ Len(down) \in Nat
  BY LenProperties, ReconcileAssumption DEF AnswerOf, Types, Frames, Snapshots
<1>2. s.t = "snapshot" /\ s.seq = f.seq /\ s.pos = pos'
  OBVIOUS
<1> HIDE DEF M, s
<1>3. CASE down' = Append(down, a)
  <2>1. /\ down' \in Seq(M) /\ Len(down') = Len(down) + 1 /\ down'[Len(down) + 1] = a
        /\ \A i \in 1..Len(down) : down'[i] = down[i]
    BY <1>1, <1>3, AppendTo
  <2>2. Len(down') # Len(down) + 2
    BY <1>1, <2>1
  <2> QED BY <1>1, <2>1, <2>2 DEF M
<1>4. CASE down' = down \o <<a, s>>
  <2>1. <<a, s>> \in Seq(M) /\ Len(<<a, s>>) = 2 /\ <<a, s>>[1] = a /\ <<a, s>>[2] = s
    BY <1>1
  <2>2. /\ down' \in Seq(M) /\ Len(down') = Len(down) + 2
        /\ \A i \in 1..(Len(down) + 2) :
             down'[i] = IF i <= Len(down) THEN down[i] ELSE <<a, s>>[i - Len(down)]
    BY <1>1, <1>4, <2>1, ConcatProperties
  <2>3. \A i \in 1..Len(down) : down'[i] = down[i]
    BY <1>1, <2>2
  <2>4. Len(down) + 1 \in 1..(Len(down) + 2) /\ ~(Len(down) + 1 <= Len(down))
        /\ (Len(down) + 1) - Len(down) = 1
        /\ Len(down) + 2 \in 1..(Len(down) + 2) /\ ~(Len(down) + 2 <= Len(down))
        /\ (Len(down) + 2) - Len(down) = 2
    BY <1>1
  <2>5. down'[Len(down) + 1] = a /\ down'[Len(down) + 2] = s
    BY <2>1, <2>2, <2>4
  <2> QED BY <1>1, <1>2, <2>2, <2>3, <2>5 DEF M
<1> QED BY <1>3, <1>4 DEF AnswerOf, s

\* handleAction: every frame is answered with the position it leads to.
LEMMA AnswerOK ==
  ASSUME IInv, up # <<>>, up' = Tail(up), phase = "session", phase' = "session",
         Head(up) \in Frames, lastSeq' = Head(up).seq, NEW a, AnswerOf(Head(up), a),
         pos' \in Walkable, fallen' \in BOOLEAN, untold' = FALSE,
         UNCHANGED <<page, link, open, bounds>>
  PROVE  IInv'
<1> DEFINE f == Head(up)
           n == Len(down)
<1>1. f = up[1] /\ f.seq \in 1..MaxSeq /\ f.t # "hello" /\ f \in Frames
  BY RestOfFrames DEF IInv, Frames
<1>2. /\ up' \in Seq(Hellos \cup Frames) /\ Len(up') \in Nat /\ DOMAIN up' = 1..Len(up')
      /\ \A i \in 1..Len(up') : up'[i].t # "hello"
      /\ \A i \in 1..Len(up') : up'[i].t = "move" => up'[i].dir \in Dir
      /\ link = "open"
      /\ \A i, j \in 1..Len(up') : i < j => up'[i].seq < up'[j].seq
      /\ \A i \in 1..Len(up') : up'[i].seq <= outSeq
      /\ \A i \in 1..Len(up'), j \in 1..Len(pending) :
           up'[i].t = "move" /\ up'[i].seq = pending[j].seq => up'[i].dir = pending[j].dir
  BY RestOfFrames DEF IInv
<1>3. f.seq <= outSeq /\ f.seq > lastSeq /\ \A i \in 1..Len(up') : f.seq < up'[i].seq
  BY <1>1, RestOfFrames DEF IInv
<1>4. Len(up) \in Nat \ {0} /\ Len(up') = Len(up) - 1
      /\ \A i \in 1..Len(up') : i + 1 \in 1..Len(up) /\ up'[i] = up[i + 1]
  BY RestOfFrames DEF IInv
<1>5. AnswerOf(f, a) /\ lastSeq' = f.seq
  OBVIOUS
<1> HIDE DEF f
<1>6. /\ down' \in Seq(Acks \cup Snapshots \cup Errors)
      /\ n \in Nat /\ Len(down') \in {n + 1, n + 2}
      /\ \A i \in 1..n : down'[i] = down[i]
      /\ down'[n + 1] = a
      /\ Len(down') = n + 2 => /\ down'[n + 2].t = "snapshot" /\ down'[n + 2].seq = f.seq
                               /\ down'[n + 2].pos = pos'
  BY <1>1, <1>5, AnswerIs DEF IInv
<1>7. /\ a.t = "ack" /\ a.seq = f.seq /\ a.pos = pos'
      /\ a.step => f.t = "move" /\ ~untold /\ pos' = StepOf(pos, f.dir)
  BY <1>5 DEF AnswerOf, Acks
<1> HIDE DEF n
<1>8. \A i \in 1..Len(down') :
        \/ i \in 1..n /\ down'[i] = down[i]
        \/ i = n + 1 /\ down'[i] = a
        \/ i = n + 2 /\ down'[i].t = "snapshot" /\ down'[i].seq = f.seq
  <2> TAKE i \in 1..Len(down')
  <2>1. i \in 1..n \/ i = n + 1 \/ (i = n + 2 /\ Len(down') = n + 2)
    BY <1>6
  <2> QED BY <1>6, <2>1
<1>9. Types'
  <2>1. TypeOK'
    BY <1>1 DEF IInv, Types, TypeOK, page
  <2> QED BY <1>2, <1>6, <2>1 DEF IInv, Types, page, bounds
<1>10. Linked'
  <2>1. \A i \in 1..n : down[i].t # "error"
    BY DEF IInv, Linked, n
  <2>2. \A i \in 1..Len(down') : down'[i].t # "error"
    BY <1>7, <1>8, <2>1
  <2> QED BY <1>2, <2>2 DEF Linked
<1>11. Numbers'
  <2>1. NumbersGoForward'
    <3>1. \A i \in 1..Len(up') : up'[i].seq > f.seq
      BY <1>1, <1>2, <1>3
    <3> QED BY <1>2, <1>3, <1>5, <3>1 DEF NumbersGoForward, page
  <2>2. \A i \in 1..n : down[i].t # "error" => down[i].seq <= outSeq
    BY DEF IInv, Numbers, n
  <2>3. \A i \in 1..Len(down') : down'[i].t # "error" => down'[i].seq <= outSeq
    BY <1>3, <1>7, <1>8, <2>2
  <2> QED BY <1>2, <2>1, <2>3 DEF IInv, Numbers, page
<1>12. PendingIsAnswered'
  <2> SUFFICES ASSUME NEW j \in DOMAIN pending
               PROVE  \/ \E x \in ToSet(up') : x.t = "hello" \/ x.seq = pending[j].seq
                      \/ \E m \in ToSet(down') : m.t = "snapshot" \/ (m.t = "ack" /\ m.seq >= pending[j].seq)
    BY DEF PendingIsAnswered, page
  <2>1. pending[j].seq \in Nat
    BY PendingIs, LenProperties DEF IInv, Types
  <2>2. CASE \E x \in ToSet(up) : x.t = "hello" \/ x.seq = pending[j].seq
    <3>1. PICK x \in ToSet(up) : x.t = "hello" \/ x.seq = pending[j].seq
      BY <2>2
    <3>2. PICK i \in 1..Len(up) : x = up[i]
      BY Places DEF IInv, Types
    <3>3. up[i].t # "hello"
      BY DEF IInv, Linked
    <3>4. CASE i = 1
      <4>1. n + 1 \in 1..Len(down')
        BY <1>6
      <4>2. a \in ToSet(down')
        BY <1>6, <4>1, Places
      <4>3. a.seq = pending[j].seq
        BY <1>1, <1>7, <3>1, <3>2, <3>3, <3>4
      <4>4. a.seq >= pending[j].seq
        BY <2>1, <4>3
      <4> QED BY <1>7, <4>2, <4>4
    <3>5. CASE i # 1
      <4>1. i - 1 \in 1..Len(up') /\ up'[i - 1] = up[i]
        BY <1>4, <3>5
      <4>2. up[i] \in ToSet(up')
        BY <1>2, <4>1, Places
      <4> QED BY <3>1, <3>2, <3>3, <4>2
    <3> QED BY <3>4, <3>5
  <2>3. CASE \E m \in ToSet(down) : m.t = "snapshot" \/ (m.t = "ack" /\ m.seq >= pending[j].seq)
    <3>1. PICK m \in ToSet(down) : m.t = "snapshot" \/ (m.t = "ack" /\ m.seq >= pending[j].seq)
      BY <2>3
    <3>2. PICK i \in 1..n : m = down[i]
      BY Places DEF IInv, Types, n
    <3>3. i \in 1..Len(down') /\ down'[i] = down[i]
      BY <1>6
    <3>4. m \in ToSet(down')
      BY <1>6, <3>2, <3>3, Places
    <3> QED BY <3>1, <3>4
  <2> QED BY <1>2, <2>2, <2>3 DEF IInv, PendingIsAnswered
<1>13. Told'
  <2>1. Len(down') # 0 /\ down'[Len(down')].pos = pos'
    BY <1>6, <1>7
  <2> QED BY <2>1 DEF Told, Heard
<1>14. Stepwise'
  <2> SUFFICES ASSUME NEW i \in 1..Len(down'), NEW j \in 1..Len(pending),
                      down'[i].t = "ack", down'[i].step, pending[j].seq = down'[i].seq
               PROVE  down'[i].pos = StepOf(Heard(i - 1)', pending[j].dir)
    BY DEF Stepwise, Heard, page
  <2>1. CASE i \in 1..n
    <3>1. i - 1 = 0 \/ (i - 1 \in 1..n /\ i - 1 # 0)
      BY <1>6
    <3>2. (IF i - 1 = 0 THEN confirmed' ELSE down'[i - 1].pos) = (IF i - 1 = 0 THEN confirmed ELSE down[i - 1].pos)
      BY <1>6, <3>1 DEF page
    <3>3. Heard(i - 1)' = Heard(i - 1)
      BY <3>2 DEF Heard
    <3> QED BY <1>6, <2>1, <3>3 DEF IInv, Stepwise, n
  <2>2. CASE i = n + 1
    <3>1. f.t = "move" /\ ~untold /\ pos' = StepOf(pos, f.dir) /\ pending[j].seq = f.seq
      BY <1>6, <1>7, <2>2
    <3>2. f.dir = pending[j].dir
      <4>1. 1 \in 1..Len(up)
        BY <1>4
      <4> QED BY <1>1, <3>1, <4>1 DEF IInv, Numbers
    <3>3. Heard(n) = pos
      BY <3>1 DEF IInv, Told, n
    <3>4. i - 1 = n /\ (n # 0 => n \in 1..n)
      BY <1>6, <2>2
    <3>5. (IF n = 0 THEN confirmed' ELSE down'[n].pos) = (IF n = 0 THEN confirmed ELSE down[n].pos)
      BY <1>6, <3>4 DEF page
    <3>6. (IF i - 1 = 0 THEN confirmed' ELSE down'[i - 1].pos) = pos
      BY <3>3, <3>4, <3>5 DEF Heard
    <3>7. Heard(i - 1)' = pos
      BY <3>6 DEF Heard
    <3> QED BY <1>6, <1>7, <2>2, <3>1, <3>2, <3>7
  <2>3. CASE i = n + 2
    BY <1>6, <1>8, <2>3
  <2> QED BY <1>8, <2>1, <2>2, <2>3
<1> QED BY <1>9, <1>10, <1>11, <1>12, <1>13, <1>14 DEF IInv

\* The ack of a frame is an ack.
LEMMA AckType ==
  ASSUME Types, NEW f \in Frames, NEW p \in Walkable, NEW ok \in BOOLEAN
  PROVE  /\ AckOf(f, p, ok) \in Acks
         /\ AckOf(f, p, ok).seq = f.seq /\ AckOf(f, p, ok).pos = p
         /\ AckOf(f, p, ok).step = (f.t = "move" /\ ok /\ ~untold /\ <<pos, f.dir>> \notin DOMAIN Exit)
BY DEF AckOf, Acks, Frames, Types

LEMMA HandleOK == IInv /\ Handle => IInv'
<1> SUFFICES ASSUME IInv, Handle PROVE IInv'
  OBVIOUS
<1> DEFINE f == Head(up)
<1>1. up # <<>> /\ phase = "session" /\ up' = Tail(up) /\ UNCHANGED <<page, link, open, bounds>>
  BY DEF Handle
<1>2. f = up[1] /\ 1 \in 1..Len(up) /\ f \in Hellos \cup Frames
  BY <1>1, TailOf DEF IInv, Types
<1>3. f.t # "hello"
  BY <1>1, <1>2 DEF IInv, Linked
<1>4. f \in Frames /\ f.seq > lastSeq /\ f.seq \in Nat /\ lastSeq \in Nat
  BY <1>1, <1>3, RestOfFrames, ReconcileAssumption DEF IInv, Types, TypeOK, Frames
<1>5. /\ lastSeq' = f.seq /\ phase' = "session"
      /\ Refuse(f) \/ (f.t = "move" /\ Move(f)) \/ (f.t # "move" /\ Answer(f))
  <2>1. ~(f.seq <= lastSeq)
    BY <1>4
  <2> QED BY <1>1, <2>1 DEF Handle
<1>6. pos \in Walkable /\ fallen \in BOOLEAN
  BY DEF IInv, Types, TypeOK
<1>7. f.t = "move" => f.dir \in Dir
  BY <1>2 DEF IInv, Types
<1> HIDE DEF f
<1>8. CASE Refuse(f)
  <2> DEFINE a == AckOf(f, pos, FALSE)
  <2>1. down' = Append(down, a) /\ untold' = FALSE /\ pos' = pos /\ fallen' = fallen
    BY <1>8 DEF Refuse
  <2>2. a \in Acks /\ a.seq = f.seq /\ a.pos = pos /\ ~a.step
    BY <1>4, <1>6, AckType DEF IInv
  <2> HIDE DEF a
  <2>3. AnswerOf(f, a)
    BY <2>1, <2>2 DEF AnswerOf
  <2> QED BY <1>1, <1>4, <1>5, <1>6, <2>1, <2>3, AnswerOK DEF f
<1>9. CASE f.t = "move" /\ Move(f)
  <2> DEFINE to == Resolve(pos, f.dir)
             a == AckOf(f, pos', to # NoMove)
  <2>1. /\ down' = Append(down, a) /\ untold' = FALSE /\ fallen' = fallen
        /\ pos' = IF to = NoMove THEN pos ELSE to
    BY <1>9 DEF Move
  <2>2. to # NoMove => to \in Walkable /\ (<<pos, f.dir>> \notin DOMAIN Exit => to = StepOf(pos, f.dir))
    BY <1>7, <1>9, ResolveType DEF IInv
  <2> HIDE DEF to
  <2>3. pos' \in Walkable
    BY <1>6, <2>1, <2>2
  <2>4. (to # NoMove) \in BOOLEAN
    OBVIOUS
  <2>5. /\ a \in Acks /\ a.seq = f.seq /\ a.pos = pos'
        /\ a.step = (f.t = "move" /\ to # NoMove /\ ~untold /\ <<pos, f.dir>> \notin DOMAIN Exit)
    BY <1>4, <2>3, <2>4, AckType DEF IInv
  <2> HIDE DEF a
  <2>6. AnswerOf(f, a)
    BY <2>1, <2>2, <2>5 DEF AnswerOf
  <2> QED BY <1>1, <1>4, <1>5, <1>6, <2>1, <2>3, <2>6, AnswerOK DEF f
<1>10. CASE f.t # "move" /\ Answer(f)
  <2> DEFINE a == AckOf(f, pos, TRUE)
  <2>1. /\ \/ down' = Append(down, a)
           \/ down' = down \o <<a, [t |-> "snapshot", seq |-> f.seq, pos |-> pos]>>
        /\ untold' = FALSE /\ pos' = pos /\ fallen' = fallen
    BY <1>10 DEF Answer
  <2>2. a \in Acks /\ a.seq = f.seq /\ a.pos = pos /\ ~a.step
    BY <1>4, <1>6, <1>10, AckType DEF IInv
  <2> HIDE DEF a
  <2>3. AnswerOf(f, a)
    BY <2>1, <2>2 DEF AnswerOf
  <2> QED BY <1>1, <1>4, <1>5, <1>6, <2>1, <2>3, AnswerOK DEF f
<1> QED BY <1>5, <1>8, <1>9, <1>10

-----------------------------------------------------------------------------
(* The whole service.                                                      *)

LEMMA ActOK ==
  ASSUME IInv, NEW kind \in {"move", "look", "resync"}, NEW d \in Dir \cup {"none"},
         kind = "move" => d \in Dir, Act(kind, d)
  PROVE  IInv'
<1>1. CASE link = "open"
  <2>1. Sends(kind, d)
    BY <1>1 DEF Act, Sends
  <2> QED BY <2>1, ActOpenOK
<1>2. CASE link # "open"
  <2>1. link = "down"
    BY <1>2 DEF IInv, Types, TypeOK
  <2> QED BY <1>2, <2>1, ActDownOK DEF Act
<1> QED BY <1>1, <1>2

LEMMA NextOK == IInv /\ [Next]_vars => IInv'
<1> SUFFICES ASSUME IInv, [Next]_vars PROVE IInv'
  OBVIOUS
<1>0. /\ links \in Nat /\ falls \in Nat /\ pos \in Walkable /\ Spawn \in Walkable
      /\ fallen \in BOOLEAN /\ open \in BOOLEAN /\ untold \in BOOLEAN
  BY ReconcileAssumption DEF IInv, Types, TypeOK
<1>1. ASSUME NEW d \in Dir, Act("move", d) PROVE IInv'
  BY <1>1, ActOK
<1>2. ASSUME NEW kind \in {"look", "resync"}, Act(kind, "none") PROVE IInv'
  BY <1>2, ActOK
<1>3. ASSUME NEW auth \in BOOLEAN, Reopen(auth) PROVE IInv'
  BY <1>3, ReopenOK
<1>4. CASE Receive
  BY <1>4, ReceiveOK
<1>5. CASE Break
  BY <1>5, BreakOK
<1>6. CASE Hello
  BY <1>6, HelloOK
<1>7. CASE AuthSettles
  BY <1>7, AuthSettlesOK
<1>8. CASE Ignored
  BY <1>8, IgnoredOK
<1>9. CASE Handle
  BY <1>9, HandleOK
<1>10. CASE Fall
  <2>1. falls' \in Nat /\ links' = links /\ fallen' = TRUE /\ pos' = pos /\ open' = open /\ untold' = untold
        /\ UNCHANGED <<page, link, up, down, phase, lastSeq>>
    BY <1>0, <1>10 DEF Fall
  <2> QED BY <1>0, <2>1, ServerMoves
<1>11. CASE Revive
  <2>1. falls' = falls /\ links' = links /\ fallen' = FALSE /\ open' = open
        /\ UNCHANGED <<page, link, up, down, phase, lastSeq>>
        /\ pos' = Spawn /\ untold' = (untold \/ pos # Spawn)
    BY <1>11 DEF Revive, bounds
  <2>2. untold' \in BOOLEAN /\ (~untold' => ~untold /\ pos' = pos)
    BY <1>0, <2>1
  <2> QED BY <1>0, <2>1, <2>2, ServerMoves
<1>12. CASE Unseal
  <2>1. falls' = falls /\ links' = links /\ open' = TRUE
        /\ UNCHANGED <<page, link, up, down, phase, lastSeq, pos, fallen, untold>>
    BY <1>12 DEF Unseal, bounds, server
  <2> QED BY <1>0, <2>1, ServerMoves
<1>13. CASE UNCHANGED vars
  <2>1. UNCHANGED <<page, link, up, down, phase, lastSeq, links, falls, pos, fallen, open, untold>>
    BY <1>13 DEF vars, server, bounds
  <2> QED BY <1>0, <2>1, ServerMoves
<1> QED BY <1>1, <1>2, <1>3, <1>4, <1>5, <1>6, <1>7, <1>8, <1>9, <1>10, <1>11, <1>12, <1>13 DEF Next

(* However moves are predicted, refused, lost or overtaken by a revival,   *)
(* the line between page and server is in order (reconcile.ts, the frame   *)
(* handlers of server.ts and handlers.ts).                                 *)
THEOREM LineInOrder == Spec => []IInv
<1>1. Init => IInv
  BY InitOK
<1>2. IInv /\ [Next]_vars => IInv'
  BY NextOK
<1> QED BY <1>1, <1>2, PTL DEF Spec

\* Nothing was predicted: the page draws what it was told.
LEMMA ReplayNothing ==
  ASSUME NEW p
  PROVE  Replay(p, <<>>) = p
<1> DEFINE Run(f) == f = [i \in 0..Len(<<>>) |-> IF i = 0 THEN p ELSE StepOf(f[i - 1], <<>>[i].dir)]
           at == CHOOSE f : Run(f)
<1>1. Len(<<>>) = 0
  OBVIOUS
<1>2. \E f : Run(f)
  <2>1. Run([i \in 0..0 |-> p])
    BY <1>1
  <2> QED BY <2>1
<1>3. Run(at)
  BY <1>2
<1>4. Replay(p, <<>>) = at[0]
  BY <1>1 DEF Replay
<1> HIDE DEF at
<1> QED BY <1>1, <1>3, <1>4

\* On a quiet link there is nothing that could still be answered.
LEMMA QuietIsSettled == IInv => Settled
<1> SUFFICES ASSUME IInv, Quiet, ~untold PROVE View = pos /\ pending = <<>>
  BY DEF Settled
<1>1. up = <<>> /\ down = <<>> /\ link = "open" /\ phase = "session"
  BY DEF Quiet
<1>2. ToSet(up) = {} /\ ToSet(down) = {}
  BY <1>1 DEF ToSet
<1>3. pending = <<>>
  <2>1. DOMAIN pending = {}
    BY <1>1, <1>2 DEF IInv, PendingIsAnswered
  <2>2. Len(pending) \in Nat /\ DOMAIN pending = 1..Len(pending)
    BY LenProperties DEF IInv, Types
  <2>3. Len(pending) = 0
    BY <2>1, <2>2
  <2> QED BY <2>3, EmptySeq DEF IInv, Types
<1>4. Len(down) = 0
  BY <1>1
<1>5. confirmed = pos
  BY <1>1, <1>4 DEF IInv, Told, Heard
<1> QED BY <1>3, <1>5, ReplayNothing DEF View

(* The server never sees a number twice, every prediction is going to be   *)
(* answered, and on a quiet link the page draws its player where the       *)
(* server has it, unless a revival moved it (reconcile.ts:35, handlers.ts, *)
(* doMove).                                                                *)
THEOREM PageSeesItself == Spec => []SeesItself
<1>1. IInv => SeesItself
  BY QuietIsSettled DEF SeesItself, IInv, Types, Numbers
<1> QED BY <1>1, LineInOrder, PTL

-----------------------------------------------------------------------------
(* What the page draws.                                                    *)

\* at[i] is the position after i of the moves.
Replayed(at, p, moves) ==
  /\ at[0] = p
  /\ \A i \in 1..Len(moves) : at[i] = StepOf(at[i - 1], moves[i].dir)
  /\ Replay(p, moves) = at[Len(moves)]

\* The moves are taken one after another.
LEMMA ReplaySteps ==
  ASSUME NEW p, NEW moves, Len(moves) \in Nat
  PROVE  \E at : Replayed(at, p, moves)
<1>0. PICK n \in Nat : n = Len(moves)
  OBVIOUS
<1> DEFINE Run(f, m) == f = [i \in 0..m |-> IF i = 0 THEN p ELSE StepOf(f[i - 1], moves[i].dir)]
           bad == {m \in Nat : ~ \E f : Run(f, m)}
<1>1. ASSUME bad # {} PROVE FALSE
  <2>1. PICK m \in bad : \A i \in bad : m <= i
    <3>1. bad \subseteq Nat
      OBVIOUS
    <3> HIDE DEF bad
    <3> QED BY <1>1, <3>1, NatLeast
  <2>2. m # 0
    <3>1. Run([i \in 0..0 |-> p], 0)
      OBVIOUS
    <3> QED BY <2>1, <3>1
  <2>3. m \in Nat /\ m - 1 \in Nat /\ ~(m <= m - 1)
    BY <2>1, <2>2
  <2>4. m - 1 \notin bad
    <3> HIDE DEF bad
    <3> QED BY <2>1, <2>3
  <2>5. PICK g : Run(g, m - 1)
    BY <2>3, <2>4
  <2> DEFINE f == [i \in 0..m |-> IF i = m THEN StepOf(g[m - 1], moves[m].dir) ELSE g[i]]
  <2>6. \A i \in 0..m : f[i] = IF i = 0 THEN p ELSE StepOf(f[i - 1], moves[i].dir)
    <3>1. \A i \in 0..(m - 1) : g[i] = IF i = 0 THEN p ELSE StepOf(g[i - 1], moves[i].dir)
      BY <2>5
    <3>2. \A i \in 0..(m - 1) : f[i] = g[i]
      BY <2>1
    <3>3. \A i \in 0..m : i = m \/ i \in 0..(m - 1)
      BY <2>1
    <3>4. \A i \in 0..m : i # 0 => i - 1 \in 0..(m - 1)
      BY <2>1
    <3>5. f[m] = StepOf(g[m - 1], moves[m].dir)
      BY <2>1
    <3> HIDE DEF f
    <3> QED BY <2>1, <2>2, <3>1, <3>2, <3>3, <3>4, <3>5
  <2>7. f = [i \in 0..m |-> f[i]]
    OBVIOUS
  <2> HIDE DEF f
  <2>8. Run(f, m)
    BY <2>6, <2>7
  <2> QED BY <2>1, <2>8
<1>2. PICK f0 : Run(f0, n)
  BY <1>1
<1> DEFINE at == CHOOSE f : Run(f, n)
<1>3. Run(at, n)
  BY <1>2
<1>4. Replay(p, moves) = at[n]
  BY <1>0 DEF Replay
<1> HIDE DEF at
<1>5. at[0] = p /\ \A i \in 1..n : at[i] = StepOf(at[i - 1], moves[i].dir)
  BY <1>3
<1>6. Replayed(at, p, moves)
  BY <1>0, <1>4, <1>5 DEF Replayed
<1> QED BY <1>6

\* rest is moves without the first.
RestOf(moves, rest) ==
  /\ Len(moves) \in Nat \ {0} /\ Len(rest) = Len(moves) - 1
  /\ \A i \in 1..Len(rest) : rest[i] = moves[i + 1]

\* The first move may be taken before the others are replayed.
LEMMA ReplayFirst ==
  ASSUME NEW p, NEW moves, NEW rest, RestOf(moves, rest)
  PROVE  Replay(p, moves) = Replay(StepOf(p, moves[1].dir), rest)
<1> DEFINE q == StepOf(p, moves[1].dir)
<1>7. Len(moves) \in Nat \ {0} /\ Len(rest) = Len(moves) - 1 /\ \A i \in 1..Len(rest) : rest[i] = moves[i + 1]
  BY DEF RestOf
<1>0. PICK n \in Nat : n = Len(rest) /\ Len(moves) = n + 1
  BY <1>7
<1>1. PICK f : Replayed(f, p, moves)
  BY ReplaySteps
<1>2. PICK g : Replayed(g, q, rest)
  BY <1>0, ReplaySteps
<1>3. /\ f[0] = p /\ \A i \in 1..(n + 1) : f[i] = StepOf(f[i - 1], moves[i].dir)
      /\ Replay(p, moves) = f[n + 1]
  BY <1>0, <1>1 DEF Replayed
<1>4. /\ g[0] = q /\ \A i \in 1..n : g[i] = StepOf(g[i - 1], moves[i + 1].dir)
      /\ Replay(q, rest) = g[n]
  BY <1>0, <1>2, <1>7 DEF Replayed
<1> DEFINE bad == {m \in Nat : m <= n /\ g[m] # f[m + 1]}
<1>5. ASSUME bad # {} PROVE FALSE
  <2>1. PICK m \in bad : \A i \in bad : m <= i
    <3>1. bad \subseteq Nat
      OBVIOUS
    <3> HIDE DEF bad
    <3> QED BY <1>5, <3>1, NatLeast
  <2>2. m \in Nat /\ m <= n /\ g[m] # f[m + 1]
    BY <2>1
  <2>3. m # 0
    <3>1. f[1] = StepOf(f[0], moves[1].dir)
      <4>1. 1 \in 1..(n + 1) /\ 1 - 1 = 0
        BY <1>0
      <4> QED BY <1>3, <4>1
    <3> QED BY <1>3, <1>4, <2>2, <3>1
  <2>4. /\ m - 1 \in Nat /\ m - 1 <= n /\ ~(m <= m - 1) /\ (m - 1) + 1 = m
        /\ m \in 1..n /\ m + 1 \in 1..(n + 1) /\ (m + 1) - 1 = m
    BY <2>2, <2>3
  <2>5. m - 1 \notin bad
    <3> HIDE DEF bad
    <3> QED BY <2>1, <2>4
  <2>6. g[m - 1] = f[m]
    BY <2>4, <2>5
  <2>7. g[m] = StepOf(g[m - 1], moves[m + 1].dir) /\ f[m + 1] = StepOf(f[m], moves[m + 1].dir)
    BY <1>3, <1>4, <2>4
  <2> QED BY <2>2, <2>6, <2>7
<1>6. g[n] = f[n + 1]
  BY <1>0, <1>5
<1> QED BY <1>3, <1>4, <1>6

\* The ack of the oldest predicted move leaves the later ones.
LEMMA AckOfOldest ==
  ASSUME IInv, pending # <<>>, NEW seq, seq = Head(pending).seq
  PROVE  RestOf(pending, Unacked(seq))
<1>1. Len(pending) \in Nat \ {0} /\ Head(pending) = pending[1]
  BY TailOf DEF IInv, Types
<1>2. 1 \in 1..Len(pending) /\ seq = pending[1].seq /\ seq \in Nat
  BY <1>1, PendingIs DEF IInv
<1>3. PICK n \in 0..Len(pending) :
         /\ \A i \in 1..n : pending[i].seq <= seq
         /\ \A i \in (n + 1)..Len(pending) : pending[i].seq > seq
         /\ Len(Unacked(seq)) = Len(pending) - n
         /\ \A i \in 1..Len(Unacked(seq)) : Unacked(seq)[i] = pending[i + n]
  BY <1>2, UnackedIs DEF IInv
<1>4. n # 0
  <2>1. ASSUME n = 0 PROVE FALSE
    <3>1. 1 \in (n + 1)..Len(pending)
      BY <1>1, <2>1
    <3>2. pending[1].seq > seq
      BY <1>3, <3>1
    <3> QED BY <1>2, <3>2
  <2> QED BY <2>1
<1>5. ~(n > 1)
  <2>1. ASSUME n > 1 PROVE FALSE
    <3>1. 2 \in 1..n /\ 2 \in 1..Len(pending) /\ 1 < 2
      BY <1>1, <1>3, <2>1
    <3>2. pending[2].seq <= seq /\ pending[1].seq < pending[2].seq /\ pending[2].seq \in Nat
      BY <1>2, <1>3, <3>1, PendingIs DEF IInv, Numbers
    <3> QED BY <1>2, <3>2
  <2> QED BY <2>1
<1>6. n = 1
  BY <1>1, <1>3, <1>4, <1>5
<1> QED BY <1>1, <1>3, <1>6 DEF RestOf

\* The page reads that its oldest move was taken as the step it had drawn.
Confirms ==
  /\ down # <<>> /\ down' = Tail(down) /\ Head(down).t = "ack" /\ Head(down).step
  /\ pending # <<>> /\ Head(down).seq = Head(pending).seq

LEMMA SmoothStep ==
  ASSUME IInv, [Next]_vars, Confirms
  PROVE  View' = View
<1> DEFINE m == down[1]
<1>1. /\ Len(down) \in Nat \ {0} /\ Len(down') = Len(down) - 1
      /\ Head(down) = m /\ 1 \in 1..Len(down) /\ link = "open"
  <2>1. down # <<>> /\ down' = Tail(down) /\ Types /\ Linked
    BY DEF Confirms, IInv
  <2> QED BY <2>1, RestIs
<1>2. down' # down
  <2>1. Len(down) # Len(down) - 1
    BY <1>1
  <2> QED BY <1>1, <2>1
<1>11. m.t = "ack" /\ m.step /\ pending # <<>> /\ m.seq = Head(pending).seq
  BY <1>1 DEF Confirms
<1>3. CASE UNCHANGED <<confirmed, pending>>
  BY <1>3 DEF View
<1>4. CASE Receive
  <2>1. confirmed' = m.pos /\ pending' = Unacked(m.seq)
    BY <1>1, <1>4, <1>11 DEF Receive
  <2>2. RestOf(pending, pending') /\ Len(pending) \in Nat \ {0}
    BY <1>11, <2>1, AckOfOldest DEF RestOf
  <2>3. Head(pending) = pending[1] /\ 1 \in 1..Len(pending)
    BY <1>11, <2>2, TailOf DEF IInv, Types
  <2>4. m.pos = StepOf(confirmed, pending[1].dir)
    <3>1. Heard(1 - 1) = confirmed
      BY DEF Heard
    <3> QED BY <1>1, <1>11, <2>3, <3>1 DEF IInv, Stepwise
  <2>5. View = Replay(m.pos, pending')
    BY <2>2, <2>4, ReplayFirst DEF View
  <2> QED BY <2>1, <2>5 DEF View
<1>5. CASE Break
  BY <1>3, <1>5 DEF Break, page
<1>6. ~ \E auth \in BOOLEAN : Reopen(auth)
  BY <1>1 DEF Reopen
<1>7. ~ \E d \in Dir : Act("move", d)
  BY <1>2 DEF Act
<1>8. ~ \E kind \in {"look", "resync"} : Act(kind, "none")
  BY <1>2 DEF Act
<1>9. CASE Hello \/ AuthSettles \/ Ignored \/ Handle
  BY <1>3, <1>9 DEF Hello, AuthSettles, Ignored, Handle, page
<1>10. CASE Fall \/ Revive \/ Unseal \/ UNCHANGED vars
  BY <1>2, <1>10 DEF Fall, Revive, Unseal, vars
<1> QED BY <1>4, <1>5, <1>6, <1>7, <1>8, <1>9, <1>10 DEF Next

(* When the server took the oldest predicted move as one step, the page    *)
(* does not move its player: both compute a step alike (ids.ts, step;      *)
(* reconcile.ts, onAck).                                                   *)
THEOREM RightGuessesAreSmooth == Spec => SmoothWhenRight
<1>1. IInv /\ [Next]_vars =>
        [/\ down # <<>> /\ down' = Tail(down) /\ Head(down).t = "ack" /\ Head(down).step
         /\ pending # <<>> /\ Head(down).seq = Head(pending).seq
         => View' = View]_vars
  BY SmoothStep DEF Confirms
<1> QED BY <1>1, LineInOrder, PTL DEF Spec, SmoothWhenRight
-----------------------------------------------------------------------------
(* The connection (ClientLink).                                            *)
LinkPeers == {"none", "new", "verifying", "dead"} \cup Link!Character
LinkHellos == [auth : BOOLEAN, char : Link!Character]
LinkMessages == [t : {"welcome"}, char : Link!Character] \cup [t : {"error"}, reconnect : BOOLEAN]

LinkTypes ==
  /\ Link!TypeOK
  /\ token \in Link!Character
  /\ allowRetry \in [Tab -> BOOLEAN] /\ pendingAuth \in [Tab -> BOOLEAN]
  /\ peer \in [Tab -> [Slot -> LinkPeers]]
  /\ linkUp \in [Tab -> [Slot -> Seq(LinkHellos)]]
  /\ linkDown \in [Tab -> [Slot -> Seq(LinkMessages)]]
  /\ owner \in [Link!Character -> Link!Sockets \cup {Link!NoSocket}]
  /\ asked \in Nat /\ logins \in Nat /\ breaks \in Nat

\* A tab has as many sockets and retries as it doubled, and one more; one that
\* never did has its newest socket or one retry, or nothing before it runs.
Opened(t) == {k \in Slot : sock[t][k] # "free"}
OneEach ==
  \A t \in Tab :
    /\ IsFiniteSet(Opened(t)) /\ Cardinality(Opened(t)) + timer[t] <= 1 + doubled[t]
    /\ doubled[t] = 0 =>
         /\ timer[t] <= 1
         /\ \A k \in Slot : sock[t][k] # "free" => k = ws[t] /\ timer[t] = 0
    /\ t \in greeted => t \in loaded
    /\ t \notin loaded => timer[t] = 0 /\ \A k \in Slot : sock[t][k] = "free"

\* What a socket is to the server, and what is under way on it.
Up(t, k) == sock[t][k] \in {"open", "closing"}
Ends ==
  \A t \in Tab, k \in Slot :
    /\ peer[t][k] = "none" <=> ~ Up(t, k)
    /\ ~ Up(t, k) => linkUp[t][k] = <<>> /\ linkDown[t][k] = <<>>
    /\ peer[t][k] \in {"new", "verifying"} => linkDown[t][k] = <<>>
    /\ \A c \in Link!Character : peer[t][k] = c <=> owner[c] = <<t, k>>

\* A session of a tab that never doubled has told of itself, or is about to;
\* what is told is shown, and whoever shows it had it.
Shows ==
  /\ \A t \in Tab, k \in Slot : doubled[t] = 0 /\ peer[t][k] \in Link!Character =>
       \/ linkDown[t][k] = <<>> /\ status[t] = "live"
       \/ linkDown[t][k] = <<[t |-> "welcome", char |-> peer[t][k]]>>
  /\ \A t \in Tab : status[t] = "live" =>
       \E k \in Slot : Up(t, k) /\ peer[t][k] \in Link!Character \cup {"dead"}
  /\ \A t \in Tab : notice[t] = "reason" => status[t] # "live"

Waiting == {t \in Tab : pendingAuth[t]}
Sent == IsFiniteSet(Waiting) /\ asked + Cardinality(Waiting) <= logins

LinkInv == LinkTypes /\ OneEach /\ Ends /\ Shows /\ Sent

LEMMA LinkCardinality == \A S : Link!Cardinality(S) = Cardinality(S)
  BY DEF Link!Cardinality, Cardinality

LEMMA LinkInitOK == Link!ClientLinkAssumption /\ Link!Init => LinkInv
<1> SUFFICES ASSUME Slot # {}, Link!Init PROVE LinkInv
  BY DEF Link!ClientLinkAssumption
<1>1. LinkTypes
  BY DEF Link!Init, LinkTypes, Link!TypeOK, Link!Character, Link!NoSocket, LinkPeers
<1>2. OneEach
  <2>1. \A t \in Tab : IsFiniteSet(Opened(t)) /\ Cardinality(Opened(t)) = 0
    <3>1. \A t \in Tab : Opened(t) = {}
      BY DEF Link!Init, Opened
    <3> QED BY <3>1, FS_EmptySet
  <2> QED BY <2>1 DEF Link!Init, OneEach
<1>3. Ends
  BY DEF Link!Init, Ends, Up, Link!Character, Link!NoSocket
<1>4. Shows
  BY DEF Link!Init, Shows, Up, Link!Character
<1>5. Sent
  <2>1. Waiting = {}
    BY DEF Link!Init, Waiting
  <2> QED BY <2>1, FS_EmptySet DEF Sent, Link!Init
<1> QED BY <1>1, <1>2, <1>3, <1>4, <1>5 DEF LinkInv

(* A set of sockets that gains or loses one. *)
LEMMA OpenedMore ==
  ASSUME NEW t \in Tab, IsFiniteSet(Opened(t)), NEW k \in Slot, sock[t][k] = "free",
         sock \in [Tab -> [Slot -> {"free", "connecting", "open", "closing"}]],
         sock' = [sock EXCEPT ![t][k] = "connecting"]
  PROVE  /\ IsFiniteSet(Opened(t)') /\ Cardinality(Opened(t)') = Cardinality(Opened(t)) + 1
         /\ Cardinality(Opened(t)) \in Nat
<1>1. Opened(t)' = Opened(t) \cup {k} /\ k \notin Opened(t)
  BY DEF Opened
<1>2. /\ IsFiniteSet(Opened(t) \cup {k})
      /\ Cardinality(Opened(t) \cup {k}) = Cardinality(Opened(t)) + 1
  BY <1>1, FS_AddElement
<1> QED BY <1>1, <1>2, FS_CardinalityType

LEMMA OpenedLess ==
  ASSUME NEW t \in Tab, IsFiniteSet(Opened(t)), NEW k \in Slot, sock[t][k] # "free",
         sock \in [Tab -> [Slot -> {"free", "connecting", "open", "closing"}]],
         sock' = [sock EXCEPT ![t][k] = "free"]
  PROVE  /\ IsFiniteSet(Opened(t)') /\ Cardinality(Opened(t)') = Cardinality(Opened(t)) - 1
         /\ Cardinality(Opened(t)) \in Nat
<1>1. Opened(t)' = Opened(t) \ {k} /\ k \in Opened(t)
  BY DEF Opened
<1>2. /\ IsFiniteSet(Opened(t) \ {k})
      /\ Cardinality(Opened(t) \ {k}) = Cardinality(Opened(t)) - 1
  BY <1>1, FS_RemoveElement
<1> QED BY <1>1, <1>2, FS_CardinalityType

LEMMA OpenedSame ==
  ASSUME NEW t \in Tab, \A k \in Slot : sock'[t][k] = "free" <=> sock[t][k] = "free"
  PROVE  Opened(t)' = Opened(t)
  BY DEF Opened

LEMMA OpenedNone ==
  ASSUME NEW t \in Tab, \A k \in Slot : sock[t][k] = "free"
  PROVE  Cardinality(Opened(t)) = 0
<1>1. Opened(t) = {}
  BY DEF Opened
<1> QED BY <1>1, FS_EmptySet

(* A tab opens one more socket: its only one if it never doubled. *)
LEMMA OpenSocketOK ==
  ASSUME LinkInv, NEW t \in Tab, Link!OpenSocket(t),
         timer' \in [Tab -> Nat], doubled' \in [Tab -> Nat], doubled[t] <= doubled'[t],
         \A s \in Tab : s # t => timer'[s] = timer[s] /\ doubled'[s] = doubled[s],
         doubled'[t] = 0 => timer'[t] = 0 /\ \A j \in Slot : sock[t][j] = "free",
         Cardinality(Opened(t)) + timer'[t] <= doubled'[t],
         t \in loaded', loaded' \in {loaded, loaded \cup {t}},
         allowRetry' \in [Tab -> BOOLEAN], pendingAuth' \in [Tab -> BOOLEAN], logins' \in Nat,
         UNCHANGED <<greeted, status, notice, token, asked, breaks>>
  PROVE  LinkTypes' /\ OneEach' /\ Ends' /\ Shows'
<1> USE DEF LinkInv
<1>1. PICK k \in Slot :
        /\ sock[t][k] = "free"
        /\ sock' = [sock EXCEPT ![t][k] = "connecting"]
        /\ ws' = [ws EXCEPT ![t] = k]
        /\ peer' = [peer EXCEPT ![t][k] = "none"]
        /\ UNCHANGED <<linkUp, linkDown, owner>>
  BY DEF Link!OpenSocket
<1>2. LinkTypes'
  BY <1>1 DEF LinkTypes, Link!TypeOK, LinkPeers
<1>3. OneEach'
  <2>1. /\ IsFiniteSet(Opened(t)') /\ Cardinality(Opened(t)') = Cardinality(Opened(t)) + 1
        /\ Cardinality(Opened(t)) \in Nat
    BY <1>1, OpenedMore DEF OneEach, LinkTypes, Link!TypeOK
  <2>2. timer'[t] \in Nat /\ doubled'[t] \in Nat
    OBVIOUS
  <2>3. Cardinality(Opened(t)') + timer'[t] <= 1 + doubled'[t]
    BY <2>1, <2>2
  <2>4. ASSUME NEW s \in Tab, s # t
        PROVE  sock'[s] = sock[s] /\ timer'[s] = timer[s] /\ doubled'[s] = doubled[s] /\ ws'[s] = ws[s]
               /\ (s \in loaded' <=> s \in loaded)
    BY <1>1, <2>4 DEF LinkTypes, Link!TypeOK
  <2>5. \A s \in Tab : s # t => Opened(s)' = Opened(s)
    BY <2>4, OpenedSame
  <2>6. doubled'[t] = 0 =>
          /\ timer'[t] <= 1
          /\ \A j \in Slot : sock'[t][j] # "free" => j = ws'[t] /\ timer'[t] = 0
    BY <1>1, <2>2 DEF LinkTypes, Link!TypeOK
  <2>7. ASSUME NEW s \in Tab
        PROVE  /\ IsFiniteSet(Opened(s)') /\ Cardinality(Opened(s)') + timer'[s] <= 1 + doubled'[s]
               /\ doubled'[s] = 0 =>
                    /\ timer'[s] <= 1
                    /\ \A j \in Slot : sock'[s][j] # "free" => j = ws'[s] /\ timer'[s] = 0
               /\ s \in greeted' => s \in loaded'
               /\ s \notin loaded' => timer'[s] = 0 /\ \A j \in Slot : sock'[s][j] = "free"
    <3>1. CASE s = t
      BY <2>1, <2>3, <2>6, <3>1
    <3>2. CASE s # t
      BY <2>4, <2>5, <3>2 DEF OneEach
    <3> QED BY <3>1, <3>2
  <2> QED BY <2>7 DEF OneEach
<1>4. peer' = peer
  <2>1. peer[t][k] = "none"
    BY <1>1 DEF Ends, Up
  <2> QED BY <1>1, <2>1 DEF LinkTypes
<1>5. \A s \in Tab, j \in Slot : Up(s, j)' <=> Up(s, j)
  BY <1>1 DEF Up, LinkTypes, Link!TypeOK
<1>6. Ends'
  BY <1>1, <1>4, <1>5 DEF Ends
<1>7. Shows'
  <2>1. \A s \in Tab : doubled[s] \in Nat /\ (doubled'[s] = 0 => doubled[s] = 0)
    BY DEF LinkTypes, Link!TypeOK
  <2>2. UNCHANGED <<linkDown, status, notice, peer>>
    BY <1>1, <1>4
  <2>3. \A s \in Tab, j \in Slot : doubled'[s] = 0 /\ peer'[s][j] \in Link!Character =>
          \/ linkDown'[s][j] = <<>> /\ status'[s] = "live"
          \/ linkDown'[s][j] = <<[t |-> "welcome", char |-> peer'[s][j]]>>
    BY <2>1, <2>2 DEF Shows
  <2>4. \A s \in Tab : status'[s] = "live" =>
          \E j \in Slot : Up(s, j)' /\ peer'[s][j] \in Link!Character \cup {"dead"}
    BY <1>5, <2>2 DEF Shows
  <2> QED BY <2>2, <2>3, <2>4 DEF Shows
<1> QED BY <1>2, <1>3, <1>6, <1>7

LEMMA LoadOK ==
  ASSUME LinkInv, NEW t \in Tab, Link!Load(t)
  PROVE  LinkInv'
<1>1. (\A j \in Slot : sock[t][j] = "free") /\ timer[t] = 0 /\ doubled[t] \in Nat
  BY DEF Link!Load, LinkInv, OneEach, LinkTypes, Link!TypeOK
<1>2. timer' = timer /\ doubled' = doubled /\ timer' \in [Tab -> Nat] /\ doubled' \in [Tab -> Nat]
  BY DEF Link!Load, LinkInv, LinkTypes, Link!TypeOK
<1>3. Cardinality(Opened(t)) + timer'[t] <= doubled'[t] /\ doubled[t] <= doubled'[t]
  BY <1>1, <1>2, OpenedNone
<1>4. allowRetry' \in [Tab -> BOOLEAN] /\ pendingAuth' \in [Tab -> BOOLEAN] /\ logins' \in Nat
  BY DEF Link!Load, Link!bounds, LinkInv, LinkTypes
<1>5. /\ Link!OpenSocket(t) /\ t \in loaded' /\ loaded' \in {loaded, loaded \cup {t}}
      /\ UNCHANGED <<greeted, status, notice, token, asked, breaks>>
  BY DEF Link!Load, Link!bounds
<1>6. LinkTypes' /\ OneEach' /\ Ends' /\ Shows'
  BY <1>1, <1>2, <1>3, <1>4, <1>5, OpenSocketOK
<1>7. Sent'
  BY DEF Link!Load, Link!bounds, LinkInv, Sent, Waiting
<1> QED BY <1>6, <1>7 DEF LinkInv

LEMMA RetryOK ==
  ASSUME LinkInv, NEW t \in Tab, Link!Retry(t)
  PROVE  LinkInv'
<1>1. timer[t] \in Nat /\ timer[t] > 0 /\ t \in loaded /\ doubled[t] \in Nat
  BY DEF Link!Retry, LinkInv, LinkTypes, Link!TypeOK, OneEach
<1>2. /\ timer' \in [Tab -> Nat] /\ timer'[t] = timer[t] - 1 /\ \A s \in Tab : s # t => timer'[s] = timer[s]
      /\ doubled' = doubled /\ doubled' \in [Tab -> Nat] /\ doubled[t] <= doubled'[t]
  BY <1>1 DEF Link!Retry, LinkInv, LinkTypes, Link!TypeOK
<1>3. doubled'[t] = 0 => timer'[t] = 0 /\ \A j \in Slot : sock[t][j] = "free"
  BY <1>1, <1>2 DEF LinkInv, OneEach
<1>4. Cardinality(Opened(t)) + timer'[t] <= doubled'[t]
  <2>1. Cardinality(Opened(t)) \in Nat /\ Cardinality(Opened(t)) + timer[t] <= 1 + doubled[t]
    BY FS_CardinalityType DEF LinkInv, OneEach
  <2> QED BY <1>1, <1>2, <2>1
<1>5. allowRetry' \in [Tab -> BOOLEAN] /\ pendingAuth' \in [Tab -> BOOLEAN] /\ logins' \in Nat
  BY DEF Link!Retry, Link!bounds, LinkInv, LinkTypes
<1>6. /\ Link!OpenSocket(t) /\ t \in loaded' /\ loaded' = loaded
      /\ UNCHANGED <<greeted, status, notice, token, asked, breaks>>
  BY <1>1 DEF Link!Retry, Link!bounds
<1>7. LinkTypes' /\ OneEach' /\ Ends' /\ Shows'
  BY <1>2, <1>3, <1>4, <1>5, <1>6, OpenSocketOK
<1>8. Sent'
  BY DEF Link!Retry, Link!bounds, LinkInv, Sent, Waiting
<1> QED BY <1>7, <1>8 DEF LinkInv

(* A socket opens; the hello goes to the newest one, if that is open. *)
LEMMA OnOpenOK ==
  ASSUME LinkInv, NEW t \in Tab, NEW k \in Slot, Link!OnOpen(t, k)
  PROVE  LinkInv'
<1> USE DEF LinkInv
<1> DEFINE w == ws[t]
           asks == {s \in {t} : pendingAuth[s] /\ linkUp' # linkUp}
<1>1. peer[t][k] = "none" /\ linkDown[t][k] = <<>> /\ w \in Slot /\ sock[t][k] = "connecting"
  BY DEF Link!OnOpen, Ends, Up, LinkTypes, Link!TypeOK
<1>2. sock' = [sock EXCEPT ![t][k] = "open"] /\ sock'[t][k] = "open" /\ peer' = [peer EXCEPT ![t][k] = "new"]
  BY DEF Link!OnOpen, LinkTypes, Link!TypeOK
<1>3. linkUp' = [linkUp EXCEPT ![t][w] = IF sock'[t][w] = "open" THEN Append(@, Link!HelloOf(t)) ELSE @]
  BY DEF Link!OnOpen
<1>4. Append(linkUp[t][w], Link!HelloOf(t)) \in Seq(LinkHellos)
  <2>1. Link!HelloOf(t) \in LinkHellos
    BY DEF Link!HelloOf, LinkHellos, LinkTypes
  <2> QED BY <1>1, <2>1, AppendProperties DEF LinkTypes
<1>5. /\ linkUp' \in [Tab -> [Slot -> Seq(LinkHellos)]]
      /\ \A s \in Tab, j \in Slot :
           linkUp'[s][j] # linkUp[s][j] => s = t /\ j = w /\ sock'[t][w] = "open"
  <2>1. PICK l \in Seq(LinkHellos) :
          linkUp' = [linkUp EXCEPT ![t][w] = l] /\ (l # linkUp[t][w] => sock'[t][w] = "open")
    <3>1. CASE sock'[t][w] = "open"
      BY <1>3, <1>4, <3>1
    <3>2. CASE sock'[t][w] # "open"
      BY <1>1, <1>3, <3>2 DEF LinkTypes
    <3> QED BY <3>1, <3>2
  <2> QED BY <1>1, <2>1 DEF LinkTypes
<1>6. asked' \in Nat /\ asked' <= asked + (IF pendingAuth[t] THEN 1 ELSE 0)
  <2>1. asked' = asked + Cardinality(asks)
    BY LinkCardinality DEF Link!OnOpen
  <2>2. CASE pendingAuth[t] /\ linkUp' # linkUp
    <3>1. asks = {t}
      BY <2>2
    <3>2. Cardinality(asks) = 1
      BY <3>1, FS_Singleton
    <3> HIDE DEF asks
    <3> QED BY <2>1, <2>2, <3>2 DEF LinkTypes
  <2>3. CASE ~ (pendingAuth[t] /\ linkUp' # linkUp)
    <3>1. asks = {}
      BY <2>3
    <3>2. Cardinality(asks) = 0
      BY <3>1, FS_EmptySet
    <3> HIDE DEF asks
    <3> QED BY <2>1, <3>2 DEF LinkTypes
  <2> QED BY <2>2, <2>3
<1> HIDE DEF asks
<1>8. LinkTypes'
  BY <1>2, <1>5, <1>6 DEF Link!OnOpen, LinkTypes, Link!TypeOK, LinkPeers, Link!bounds
<1>9. OneEach'
  <2>1. \A s \in Tab, j \in Slot : sock'[s][j] = "free" <=> sock[s][j] = "free"
    BY <1>1, <1>2 DEF LinkTypes, Link!TypeOK
  <2>2. \A s \in Tab : Opened(s)' = Opened(s)
    BY <2>1, OpenedSame
  <2> QED BY <2>1, <2>2 DEF Link!OnOpen, OneEach
<1>10. Ends'
  <2>1. \A c \in Link!Character : owner[c] # <<t, k>>
    BY <1>1 DEF Ends, Link!Character
  <2>2. linkDown' = linkDown /\ owner' = owner
    BY DEF Link!OnOpen
  <2>3. ASSUME NEW s \in Tab, NEW j \in Slot
        PROVE  /\ peer'[s][j] = "none" <=> ~ Up(s, j)'
               /\ ~ Up(s, j)' => linkUp'[s][j] = <<>> /\ linkDown'[s][j] = <<>>
               /\ peer'[s][j] \in {"new", "verifying"} => linkDown'[s][j] = <<>>
               /\ \A c \in Link!Character : peer'[s][j] = c <=> owner'[c] = <<s, j>>
    <3>1. CASE s = t /\ j = k
      BY <1>1, <1>2, <2>1, <2>2, <3>1 DEF Up, LinkTypes, Link!TypeOK, Link!Character
    <3>2. CASE ~ (s = t /\ j = k)
      <4>1. sock'[s][j] = sock[s][j] /\ peer'[s][j] = peer[s][j]
        BY <1>2, <3>2 DEF LinkTypes, Link!TypeOK
      <4>2. ~ Up(s, j)' => linkUp'[s][j] = linkUp[s][j]
        BY <1>5 DEF Up
      <4> QED BY <2>2, <4>1, <4>2 DEF Ends, Up
    <3> QED BY <3>1, <3>2
  <2> QED BY <2>3 DEF Ends
<1>11. Shows'
  <2>1. \A s \in Tab, j \in Slot : peer'[s][j] \in Link!Character => peer'[s][j] = peer[s][j]
    BY <1>2 DEF LinkTypes, Link!Character
  <2>2. \A s \in Tab, j \in Slot :
          Up(s, j) /\ peer[s][j] \in Link!Character \cup {"dead"} => Up(s, j)' /\ peer'[s][j] = peer[s][j]
    BY <1>1, <1>2 DEF Up, LinkTypes, Link!TypeOK, Link!Character
  <2>3. UNCHANGED <<status, notice, linkDown, doubled>>
    BY DEF Link!OnOpen
  <2> QED BY <2>1, <2>2, <2>3 DEF Shows
<1>12. Sent'
  <2>1. Waiting' = Waiting \ {t}
    BY DEF Waiting, Link!OnOpen, LinkTypes
  <2>2. pendingAuth[t] <=> t \in Waiting
    BY DEF Waiting
  <2>3. logins' = logins /\ IsFiniteSet(Waiting) /\ Cardinality(Waiting) \in Nat
    BY FS_CardinalityType DEF Link!OnOpen, Link!bounds, Sent
  <2>4. IsFiniteSet(Waiting \ {t}) /\ Cardinality(Waiting \ {t}) = IF t \in Waiting THEN Cardinality(Waiting) - 1 ELSE Cardinality(Waiting)
    BY <2>3, FS_RemoveElement
  <2> QED BY <1>6, <2>1, <2>2, <2>3, <2>4 DEF Sent, LinkTypes
<1> QED BY <1>8, <1>9, <1>10, <1>11, <1>12

(* A message that is read is the welcome of a session, and the page shows  *)
(* it, or it is an error and the session is gone.                          *)
LEMMA OnMessageOK ==
  ASSUME LinkInv, NEW t \in Tab, NEW k \in Slot, Link!OnMessage(t, k)
  PROVE  LinkInv'
<1> USE DEF LinkInv
<1> DEFINE m == Head(linkDown[t][k])
<1>1. m \in LinkMessages /\ Tail(linkDown[t][k]) \in Seq(LinkMessages)
  BY HeadTailProperties DEF Link!OnMessage, LinkTypes
<1>2. Up(t, k)
  BY DEF Link!OnMessage, Ends
<1>2a. peer[t][k] \in Link!Character \cup {"dead"} /\ t \in loaded
  BY <1>2 DEF Link!OnMessage, Ends, Up, OneEach, LinkTypes, Link!TypeOK
<1>3. linkDown' = [linkDown EXCEPT ![t][k] = Tail(@)]
  BY DEF Link!OnMessage
<1>4. UNCHANGED <<loaded, ws, timer, pendingAuth, sock, linkUp, peer, owner, asked, logins, breaks, doubled>>
  BY DEF Link!OnMessage, Link!bounds
<1>5. ASSUME m.t = "welcome" PROVE LinkTypes' /\ Shows'
  <2>1. /\ token' = m.char /\ greeted' = greeted \cup {t}
        /\ status' = [status EXCEPT ![t] = "live"] /\ notice' = [notice EXCEPT ![t] = "none"]
        /\ UNCHANGED allowRetry
    BY <1>5 DEF Link!OnMessage
  <2>2. m.char \in Link!Character
    BY <1>1, <1>5 DEF LinkMessages
  <2>3. LinkTypes'
    BY <1>1, <1>3, <1>4, <2>1, <2>2 DEF LinkTypes, Link!TypeOK
  <2>4. Shows'
    <3>1. ASSUME NEW s \in Tab, NEW j \in Slot, doubled'[s] = 0, peer'[s][j] \in Link!Character
          PROVE  \/ linkDown'[s][j] = <<>> /\ status'[s] = "live"
                 \/ linkDown'[s][j] = <<[t |-> "welcome", char |-> peer'[s][j]]>>
      <4>1. CASE s = t /\ j = k
        <5>1. linkDown[t][k] = <<[t |-> "welcome", char |-> peer[t][k]]>>
          BY <1>4, <3>1, <4>1 DEF Shows, Link!OnMessage
        <5>2. Tail(linkDown[t][k]) = <<>>
          BY <5>1
        <5> QED BY <1>3, <2>1, <4>1, <5>2 DEF LinkTypes, Link!TypeOK
      <4>2. CASE ~ (s = t /\ j = k)
        <5>1. linkDown'[s][j] = linkDown[s][j] /\ (status[s] = "live" => status'[s] = "live")
          BY <1>3, <2>1, <4>2 DEF LinkTypes, Link!TypeOK
        <5> QED BY <1>4, <3>1, <5>1 DEF Shows
      <4> QED BY <4>1, <4>2
    <3>2. \A s \in Tab : status'[s] = "live" =>
            \E j \in Slot : Up(s, j)' /\ peer'[s][j] \in Link!Character \cup {"dead"}
      BY <1>2, <1>2a, <1>4, <2>1 DEF Shows, Up, LinkTypes, Link!TypeOK
    <3>3. \A s \in Tab : notice'[s] = "reason" => status'[s] # "live"
      BY <2>1 DEF Shows, LinkTypes, Link!TypeOK
    <3> QED BY <3>1, <3>2, <3>3 DEF Shows
  <2> QED BY <2>3, <2>4
<1>6. ASSUME m.t # "welcome" PROVE LinkTypes' /\ Shows'
  <2>1. /\ allowRetry' = [allowRetry EXCEPT ![t] = m.reconnect]
        /\ status' = [status EXCEPT ![t] = "closed"] /\ notice' = [notice EXCEPT ![t] = "reason"]
        /\ UNCHANGED <<token, greeted>>
    BY <1>6 DEF Link!OnMessage
  <2>2. m.reconnect \in BOOLEAN
    BY <1>1, <1>6 DEF LinkMessages
  <2>3. LinkTypes'
    BY <1>1, <1>3, <1>4, <2>1, <2>2 DEF LinkTypes, Link!TypeOK
  <2>4. Shows'
    <3>1. ASSUME NEW s \in Tab, NEW j \in Slot, doubled'[s] = 0, peer'[s][j] \in Link!Character
          PROVE  \/ linkDown'[s][j] = <<>> /\ status'[s] = "live"
                 \/ linkDown'[s][j] = <<[t |-> "welcome", char |-> peer'[s][j]]>>
      <4>0. Up(s, j)
        BY <1>4, <3>1 DEF Ends, Link!Character
      <4>1. s # t
        <5>1. SUFFICES ASSUME s = t PROVE FALSE
          OBVIOUS
        <5>2. j = k
          BY <1>2, <1>4, <3>1, <4>0, <5>1 DEF OneEach, Up
        <5>3. linkDown[t][k] = <<[t |-> "welcome", char |-> peer[t][k]]>>
          BY <1>4, <3>1, <5>1, <5>2 DEF Shows, Link!OnMessage
        <5> QED BY <1>6, <5>3
      <4>2. linkDown'[s][j] = linkDown[s][j] /\ status'[s] = status[s]
        BY <1>3, <2>1, <4>1 DEF LinkTypes, Link!TypeOK
      <4> QED BY <1>4, <3>1, <4>2 DEF Shows
    <3>2. \A s \in Tab : status'[s] = "live" =>
            \E j \in Slot : Up(s, j)' /\ peer'[s][j] \in Link!Character \cup {"dead"}
      BY <1>4, <2>1 DEF Shows, Up, LinkTypes, Link!TypeOK
    <3>3. \A s \in Tab : notice'[s] = "reason" => status'[s] # "live"
      BY <2>1 DEF Shows, LinkTypes, Link!TypeOK
    <3> QED BY <3>1, <3>2, <3>3 DEF Shows
  <2> QED BY <2>3, <2>4
<1>7. OneEach'
  <2>1. \A s \in Tab : Opened(s)' = Opened(s)
    BY <1>4 DEF Opened
  <2>2. greeted' \in {greeted, greeted \cup {t}}
    BY DEF Link!OnMessage
  <2> QED BY <1>2a, <1>4, <2>1, <2>2 DEF OneEach
<1>8. Ends'
  <2>1. \A s \in Tab, j \in Slot : linkDown[s][j] = <<>> => linkDown'[s][j] = <<>>
    BY <1>3 DEF Link!OnMessage, LinkTypes
  <2> QED BY <1>4, <2>1 DEF Ends, Up
<1>9. Sent'
  BY <1>4 DEF Sent, Waiting
<1>10. LinkTypes' /\ Shows'
  BY <1>5, <1>6
<1> QED BY <1>7, <1>8, <1>9, <1>10

(* A socket that ends leaves its tab with a retry, or at rest. *)
LEMMA OnCloseOK ==
  ASSUME LinkInv, NEW t \in Tab, NEW k \in Slot, sock[t][k] # "free", Link!OnClose(t, k),
         breaks' \in Nat
  PROVE  LinkInv'
<1> USE DEF LinkInv
<1>1. /\ t \in loaded /\ timer[t] \in Nat /\ doubled[t] \in Nat
      /\ doubled[t] = 0 => k = ws[t] /\ timer[t] = 0 /\ \A j \in Slot \ {k} : sock[t][j] = "free"
  BY DEF OneEach, LinkTypes, Link!TypeOK
<1>2. UNCHANGED <<loaded, greeted, ws, allowRetry, pendingAuth, token, asked, logins, doubled>>
  BY DEF Link!OnClose
<1>3. /\ sock' = [sock EXCEPT ![t][k] = "free"] /\ peer' = [peer EXCEPT ![t][k] = "none"]
      /\ linkUp' = [linkUp EXCEPT ![t][k] = <<>>] /\ linkDown' = [linkDown EXCEPT ![t][k] = <<>>]
      /\ owner' = [c \in Link!Character |-> IF owner[c] = <<t, k>> THEN Link!NoSocket ELSE owner[c]]
  BY DEF Link!OnClose, Link!Gone
<1>4. PICK n \in {timer[t], timer[t] + 1} : timer' = [timer EXCEPT ![t] = n]
  BY DEF Link!OnClose
<1>5. PICK s1 \in {"connecting", "closed"} : status' = [status EXCEPT ![t] = s1]
  BY DEF Link!OnClose
<1>6. PICK n1 \in {"none", "lost", "reason"} : notice' = [notice EXCEPT ![t] = n1]
  BY DEF Link!OnClose, Link!LostNotice, LinkTypes, Link!TypeOK
<1>7. LinkTypes'
  <2>1. linkUp' \in [Tab -> [Slot -> Seq(LinkHellos)]] /\ linkDown' \in [Tab -> [Slot -> Seq(LinkMessages)]]
    BY <1>3, EmptySeq DEF LinkTypes
  <2>2. timer' \in [Tab -> Nat]
    BY <1>1, <1>4 DEF LinkTypes, Link!TypeOK
  <2>3. owner' \in [Link!Character -> Link!Sockets \cup {Link!NoSocket}]
    BY <1>3 DEF LinkTypes
  <2>4. status' \in [Tab -> {"connecting", "live", "closed"}] /\ notice' \in [Tab -> {"none", "lost", "reason"}]
    BY <1>5, <1>6 DEF LinkTypes, Link!TypeOK
  <2>5. /\ sock' \in [Tab -> [Slot -> {"free", "connecting", "open", "closing"}]]
        /\ peer' \in [Tab -> [Slot -> LinkPeers]]
        /\ peer' \in [Tab -> [Slot -> {"none", "new", "verifying", "dead"} \cup Link!Character]]
    BY <1>3 DEF LinkTypes, Link!TypeOK, LinkPeers
  <2> QED BY <1>2, <2>1, <2>2, <2>3, <2>4, <2>5 DEF LinkTypes, Link!TypeOK
<1>8. OneEach'
  <2>1. /\ IsFiniteSet(Opened(t)') /\ Cardinality(Opened(t)') = Cardinality(Opened(t)) - 1
        /\ Cardinality(Opened(t)) \in Nat
    BY <1>3, OpenedLess DEF OneEach, LinkTypes, Link!TypeOK
  <2>2. timer'[t] = n /\ sock'[t] = [sock[t] EXCEPT ![k] = "free"]
    BY <1>3, <1>4 DEF LinkTypes, Link!TypeOK
  <2>3. Cardinality(Opened(t)') + timer'[t] <= 1 + doubled[t]
    BY <1>1, <1>4, <2>1, <2>2 DEF OneEach
  <2>4. ASSUME NEW s \in Tab, s # t
        PROVE  sock'[s] = sock[s] /\ timer'[s] = timer[s] /\ Opened(s)' = Opened(s)
    BY <1>3, <1>4, <2>4 DEF LinkTypes, Link!TypeOK, Opened
  <2>5. doubled[t] = 0 =>
          /\ timer'[t] <= 1
          /\ \A j \in Slot : sock'[t][j] = "free"
    BY <1>1, <1>4, <2>2 DEF LinkTypes, Link!TypeOK
  <2>6. ASSUME NEW s \in Tab
        PROVE  /\ IsFiniteSet(Opened(s)') /\ Cardinality(Opened(s)') + timer'[s] <= 1 + doubled'[s]
               /\ doubled'[s] = 0 =>
                    /\ timer'[s] <= 1
                    /\ \A j \in Slot : sock'[s][j] # "free" => j = ws'[s] /\ timer'[s] = 0
               /\ s \in greeted' => s \in loaded'
               /\ s \notin loaded' => timer'[s] = 0 /\ \A j \in Slot : sock'[s][j] = "free"
    <3>1. CASE s = t
      BY <1>1, <1>2, <2>1, <2>3, <2>5, <3>1
    <3>2. CASE s # t
      BY <1>2, <2>4, <3>2 DEF OneEach
    <3> QED BY <3>1, <3>2
  <2> QED BY <2>6 DEF OneEach
<1>9. \A s \in Tab, j \in Slot : <<s, j>> # <<t, k>> =>
        /\ sock'[s][j] = sock[s][j] /\ peer'[s][j] = peer[s][j]
        /\ linkUp'[s][j] = linkUp[s][j] /\ linkDown'[s][j] = linkDown[s][j]
  BY <1>3 DEF LinkTypes, Link!TypeOK
<1>10. sock'[t][k] = "free" /\ peer'[t][k] = "none" /\ linkUp'[t][k] = <<>> /\ linkDown'[t][k] = <<>>
  BY <1>3 DEF LinkTypes, Link!TypeOK
<1>11. Ends'
  <2>1. ASSUME NEW s \in Tab, NEW j \in Slot
        PROVE  /\ peer'[s][j] = "none" <=> ~ Up(s, j)'
               /\ ~ Up(s, j)' => linkUp'[s][j] = <<>> /\ linkDown'[s][j] = <<>>
               /\ peer'[s][j] \in {"new", "verifying"} => linkDown'[s][j] = <<>>
               /\ \A c \in Link!Character : peer'[s][j] = c <=> owner'[c] = <<s, j>>
    <3>1. CASE <<s, j>> = <<t, k>>
      BY <1>3, <1>10, <3>1 DEF Up, Link!Character, Link!NoSocket
    <3>2. CASE <<s, j>> # <<t, k>>
      <4>1. \A c \in Link!Character : owner'[c] = <<s, j>> <=> owner[c] = <<s, j>>
        BY <1>3, <3>2 DEF Link!NoSocket
      <4>2. /\ sock'[s][j] = sock[s][j] /\ peer'[s][j] = peer[s][j]
            /\ linkUp'[s][j] = linkUp[s][j] /\ linkDown'[s][j] = linkDown[s][j]
        BY <1>9, <3>2
      <4> QED BY <4>1, <4>2 DEF Ends, Up
    <3> QED BY <3>1, <3>2
  <2> QED BY <2>1 DEF Ends
<1>12. Shows'
  <2>1. \A s \in Tab : status'[s] = (IF s = t THEN s1 ELSE status[s])
    BY <1>5 DEF LinkTypes, Link!TypeOK
  <2>2. doubled[t] = 0 => \A j \in Slot : peer'[t][j] = "none"
    <3>1. doubled[t] = 0 => \A j \in Slot \ {k} : ~ Up(t, j)
      BY <1>1 DEF Up
    <3> QED BY <1>9, <1>10, <3>1 DEF Ends
  <2>3. ASSUME NEW s \in Tab, NEW j \in Slot, doubled'[s] = 0, peer'[s][j] \in Link!Character
        PROVE  \/ linkDown'[s][j] = <<>> /\ status'[s] = "live"
               \/ linkDown'[s][j] = <<[t |-> "welcome", char |-> peer'[s][j]]>>
    <3>1. s # t
      BY <1>2, <2>2, <2>3 DEF Link!Character
    <3> QED BY <1>2, <1>9, <2>1, <2>3, <3>1 DEF Shows
  <2>4. ASSUME NEW s \in Tab, status'[s] = "live"
        PROVE  \E j \in Slot : Up(s, j)' /\ peer'[s][j] \in Link!Character \cup {"dead"}
    <3>1. s # t /\ status[s] = "live"
      BY <2>1, <2>4
    <3>2. PICK j \in Slot : Up(s, j) /\ peer[s][j] \in Link!Character \cup {"dead"}
      BY <3>1 DEF Shows
    <3> QED BY <1>9, <3>1, <3>2 DEF Up
  <2>5. \A s \in Tab : notice'[s] = "reason" => status'[s] # "live"
    BY <1>6, <2>1 DEF Shows, LinkTypes, Link!TypeOK
  <2> QED BY <2>3, <2>4, <2>5 DEF Shows
<1>13. Sent'
  BY <1>2 DEF Sent, Waiting
<1> QED BY <1>7, <1>8, <1>11, <1>12, <1>13

LEMMA ClosedOK ==
  ASSUME LinkInv, NEW t \in Tab, NEW k \in Slot, Link!Closed(t, k)
  PROVE  LinkInv'
<1>1. sock[t][k] # "free"
  BY DEF Link!Closed, LinkInv, Ends, Up
<1> QED BY <1>1, OnCloseOK DEF Link!Closed, LinkInv, LinkTypes

LEMMA BreakOKLink ==
  ASSUME LinkInv, NEW t \in Tab, NEW k \in Slot, Link!Break(t, k)
  PROVE  LinkInv'
<1>1. sock[t][k] # "free" /\ breaks' \in Nat
  BY DEF Link!Break, LinkInv, LinkTypes
<1> QED BY <1>1, OnCloseOK DEF Link!Break

(* The login form ends an open socket, or opens a new one. *)
LEMMA AuthenticateOK ==
  ASSUME LinkInv, NEW t \in Tab, Link!Authenticate(t)
  PROVE  LinkInv'
<1> DEFINE k == ws[t]
<1>1. UNCHANGED <<loaded, greeted, timer, status, notice, token, asked, breaks>> /\ t \in greeted
  BY DEF Link!Authenticate
<1>2. /\ logins' = logins + 1 /\ pendingAuth' = [pendingAuth EXCEPT ![t] = TRUE]
      /\ allowRetry' = [allowRetry EXCEPT ![t] = TRUE]
  BY DEF Link!Authenticate
<1>2a. /\ allowRetry' \in [Tab -> BOOLEAN] /\ pendingAuth' \in [Tab -> BOOLEAN] /\ logins' \in Nat
       /\ t \in loaded' /\ loaded' = loaded
  BY <1>1, <1>2 DEF LinkInv, LinkTypes, OneEach
<1>3. ASSUME sock[t][k] = "open", sock' = [sock EXCEPT ![t][k] = "closing"],
             UNCHANGED <<ws, linkUp, linkDown, peer, owner, doubled>>
      PROVE  LinkTypes' /\ OneEach' /\ Ends' /\ Shows'
  <2>1. LinkTypes'
    BY <1>1, <1>2, <1>3 DEF LinkInv, LinkTypes, Link!TypeOK
  <2>2. k \in Slot /\ \A s \in Tab, j \in Slot : sock'[s][j] = "free" <=> sock[s][j] = "free"
    BY <1>3 DEF LinkInv, LinkTypes, Link!TypeOK
  <2>3. \A s \in Tab : Opened(s)' = Opened(s)
    BY <2>2, OpenedSame
  <2>4. OneEach'
    BY <1>1, <1>3, <2>2, <2>3 DEF LinkInv, OneEach
  <2>5. \A s \in Tab, j \in Slot : Up(s, j)' <=> Up(s, j)
    BY <1>3, <2>2 DEF LinkInv, Up, LinkTypes, Link!TypeOK
  <2>6. Ends'
    BY <1>3, <2>5 DEF LinkInv, Ends
  <2>7. Shows'
    BY <1>1, <1>3, <2>5 DEF LinkInv, Shows
  <2> QED BY <2>1, <2>4, <2>6, <2>7
<1>4. ASSUME Link!OpenSocket(t),
             doubled' = [doubled EXCEPT ![t] = IF Link!UnderWay(t) THEN @ + 1 ELSE @]
      PROVE  LinkTypes' /\ OneEach' /\ Ends' /\ Shows'
  <2>1. timer[t] \in Nat /\ doubled[t] \in Nat /\ timer' = timer /\ timer' \in [Tab -> Nat]
    BY <1>1 DEF LinkInv, LinkTypes, Link!TypeOK
  <2>2. /\ doubled'[t] = IF Link!UnderWay(t) THEN doubled[t] + 1 ELSE doubled[t]
        /\ \A s \in Tab : s # t => doubled'[s] = doubled[s]
    BY <1>4 DEF LinkInv, LinkTypes, Link!TypeOK
  <2>3. doubled' \in [Tab -> Nat] /\ doubled[t] <= doubled'[t]
    BY <1>4, <2>1 DEF LinkInv, LinkTypes, Link!TypeOK
  <2>4. /\ doubled'[t] = 0 => timer'[t] = 0 /\ \A j \in Slot : sock[t][j] = "free"
        /\ Cardinality(Opened(t)) + timer'[t] <= doubled'[t]
    <3>1. CASE Link!UnderWay(t)
      <4>1. Cardinality(Opened(t)) \in Nat /\ Cardinality(Opened(t)) + timer[t] <= 1 + doubled[t]
        BY FS_CardinalityType DEF LinkInv, OneEach
      <4> QED BY <2>1, <2>2, <3>1, <4>1
    <3>2. CASE ~ Link!UnderWay(t)
      <4>1. timer[t] = 0 /\ (\A j \in Slot : sock[t][j] = "free")
        BY <2>1, <3>2 DEF Link!UnderWay
      <4> QED BY <2>1, <2>2, <3>2, <4>1, OpenedNone
    <3> QED BY <3>1, <3>2
  <2> QED BY <1>1, <1>2a, <1>4, <2>1, <2>2, <2>3, <2>4, OpenSocketOK
<1>5. LinkTypes' /\ OneEach' /\ Ends' /\ Shows'
  BY <1>3, <1>4 DEF Link!Authenticate
<1>6. Sent'
  <2>1. Waiting' = Waiting \cup {t}
    BY <1>2 DEF LinkInv, Waiting, LinkTypes
  <2>2. IsFiniteSet(Waiting) /\ Cardinality(Waiting) \in Nat /\ asked + Cardinality(Waiting) <= logins
    BY FS_CardinalityType DEF LinkInv, Sent
  <2>3. /\ IsFiniteSet(Waiting \cup {t})
        /\ Cardinality(Waiting \cup {t}) = IF t \in Waiting THEN Cardinality(Waiting) ELSE Cardinality(Waiting) + 1
    BY <2>2, FS_AddElement
  <2> QED BY <1>1, <1>2, <2>1, <2>2, <2>3 DEF LinkInv, Sent, LinkTypes
<1> QED BY <1>5, <1>6 DEF LinkInv

(* The server gives the character to the new socket and tells the old one. *)
LEMMA AdoptOK ==
  ASSUME LinkInv, NEW t \in Tab, NEW k \in Slot, NEW c \in Link!Character,
         peer[t][k] \in {"new", "verifying"}, Link!Adopt(t, k, c),
         linkUp' \in [Tab -> [Slot -> Seq(LinkHellos)]],
         \A s \in Tab, j \in Slot : linkUp[s][j] = <<>> => linkUp'[s][j] = <<>>,
         UNCHANGED <<loaded, greeted, ws, timer, allowRetry, pendingAuth, status, notice, token,
                     sock, asked, logins, breaks, doubled>>
  PROVE  LinkInv'
<1> USE DEF LinkInv
<1> DEFINE old == owner[c]
           there == old # Link!NoSocket /\ old # <<t, k>>
           hi == [t |-> "welcome", char |-> c]
<1>1. owner' = [owner EXCEPT ![c] = <<t, k>>]
  BY DEF Link!Adopt
<1>2. old # <<t, k>> /\ linkDown[t][k] = <<>> /\ \A d \in Link!Character : owner[d] # <<t, k>>
  BY DEF Ends, Link!Character
<1>3. ASSUME there
      PROVE  \E s \in Tab, j \in Slot : old = <<s, j>> /\ peer[s][j] = c
  <2>1. old \in Tab \X Slot
    BY <1>3 DEF LinkTypes, Link!Sockets
  <2>2. PICK s \in Tab, j \in Slot : old = <<s, j>>
    BY <2>1
  <2> QED BY <2>2 DEF Ends
<1>4. hi \in LinkMessages /\ Link!Replaced \in LinkMessages
  BY DEF LinkMessages, Link!Replaced, Link!Error
<1>5. /\ peer' \in [Tab -> [Slot -> LinkPeers]]
      /\ linkDown' \in [Tab -> [Slot -> Seq(LinkMessages)]]
      /\ peer'[t][k] = c /\ linkDown'[t][k] = <<hi>>
      /\ \A s \in Tab, j \in Slot : <<s, j>> = old => peer'[s][j] = "dead"
      /\ \A s \in Tab, j \in Slot : <<s, j>> # old /\ <<s, j>> # <<t, k>> =>
           peer'[s][j] = peer[s][j] /\ linkDown'[s][j] = linkDown[s][j]
  <2>0. c \in LinkPeers /\ "dead" \in LinkPeers
    BY DEF LinkPeers
  <2>1. CASE there
    <3>1. PICK s1 \in Tab, j1 \in Slot : old = <<s1, j1>>
      BY <1>3, <2>1
    <3>2. ~ (s1 = t /\ j1 = k)
      BY <1>2, <3>1
    <3>3. peer' = [[peer EXCEPT ![s1][j1] = "dead"] EXCEPT ![t][k] = c]
      BY <2>1, <3>1 DEF Link!Adopt, Link!Cut
    <3>4. linkDown' = [[linkDown EXCEPT ![s1][j1] = Append(@, Link!Replaced)] EXCEPT ![t][k] = Append(@, hi)]
      BY <2>1, <3>1 DEF Link!Adopt, Link!Told
    <3>5. Append(linkDown[s1][j1], Link!Replaced) \in Seq(LinkMessages) /\ Append(<<>>, hi) \in Seq(LinkMessages)
      BY <1>4, AppendProperties, EmptySeq DEF LinkTypes
    <3>6. linkDown' \in [Tab -> [Slot -> Seq(LinkMessages)]]
      BY <1>2, <3>2, <3>4, <3>5 DEF LinkTypes
    <3>7. linkDown'[t][k] = <<hi>>
      <4> DEFINE d1 == [linkDown EXCEPT ![s1][j1] = Append(@, Link!Replaced)]
      <4>1. d1 \in [Tab -> [Slot -> Seq(LinkMessages)]] /\ d1[t][k] = <<>>
        BY <1>2, <3>2, <3>5 DEF LinkTypes
      <4>2. linkDown' = [d1 EXCEPT ![t][k] = Append(@, hi)]
        BY <3>4
      <4> HIDE DEF d1
      <4>3. linkDown'[t][k] = Append(d1[t][k], hi)
        BY <4>1, <4>2
      <4> QED BY <4>1, <4>3
    <3>8. \A s \in Tab, j \in Slot : <<s, j>> # old /\ <<s, j>> # <<t, k>> => linkDown'[s][j] = linkDown[s][j]
      BY <3>1, <3>4 DEF LinkTypes
    <3> HIDE DEF old, there, hi
    <3>9. /\ peer' \in [Tab -> [Slot -> LinkPeers]] /\ peer'[t][k] = c
          /\ \A s \in Tab, j \in Slot : <<s, j>> = old => peer'[s][j] = "dead"
          /\ \A s \in Tab, j \in Slot : <<s, j>> # old /\ <<s, j>> # <<t, k>> => peer'[s][j] = peer[s][j]
      BY <2>0, <3>1, <3>2, <3>3 DEF LinkTypes
    <3> QED BY <3>6, <3>7, <3>8, <3>9
  <2>2. CASE ~ there
    <3>1. old = Link!NoSocket
      BY <1>2, <2>2
    <3>2. peer' = [peer EXCEPT ![t][k] = c]
      BY <2>2 DEF Link!Adopt
    <3>3. linkDown' = [linkDown EXCEPT ![t][k] = Append(@, hi)]
      BY <2>2 DEF Link!Adopt, Link!Told
    <3>4. Append(<<>>, hi) \in Seq(LinkMessages)
      BY <1>4, AppendProperties, EmptySeq
    <3>5. /\ linkDown' \in [Tab -> [Slot -> Seq(LinkMessages)]] /\ linkDown'[t][k] = <<hi>>
          /\ \A s \in Tab, j \in Slot : <<s, j>> # <<t, k>> => linkDown'[s][j] = linkDown[s][j]
      BY <1>2, <3>3, <3>4 DEF LinkTypes
    <3>6. /\ peer' \in [Tab -> [Slot -> LinkPeers]] /\ peer'[t][k] = c
          /\ \A s \in Tab, j \in Slot : <<s, j>> # <<t, k>> => peer'[s][j] = peer[s][j]
      BY <2>0, <3>2 DEF LinkTypes
    <3>7. \A s \in Tab, j \in Slot : <<s, j>> # old
      BY <3>1 DEF Link!NoSocket
    <3> QED BY <3>5, <3>6, <3>7
  <2> QED BY <2>1, <2>2
<1>6. LinkTypes'
  <2>1. owner' \in [Link!Character -> Link!Sockets \cup {Link!NoSocket}]
    BY <1>1 DEF LinkTypes, Link!Sockets
  <2> QED BY <1>5, <2>1 DEF LinkTypes, Link!TypeOK, LinkPeers
<1>7. OneEach'
  BY DEF OneEach, Opened
<1>8. Ends'
  <2>1. ASSUME NEW s \in Tab, NEW j \in Slot
        PROVE  /\ peer'[s][j] = "none" <=> ~ Up(s, j)'
               /\ ~ Up(s, j)' => linkUp'[s][j] = <<>> /\ linkDown'[s][j] = <<>>
               /\ peer'[s][j] \in {"new", "verifying"} => linkDown'[s][j] = <<>>
               /\ \A d \in Link!Character : peer'[s][j] = d <=> owner'[d] = <<s, j>>
    <3>0. Up(s, j)' <=> Up(s, j)
      BY DEF Up
    <3>1. CASE <<s, j>> = <<t, k>>
      <4>1. peer'[s][j] = c /\ peer[s][j] \in {"new", "verifying"}
        BY <1>5, <3>1
      <4>2. Up(s, j)
        BY <4>1 DEF Ends
      <4>3. \A d \in Link!Character : owner'[d] = <<s, j>> <=> d = c
        BY <1>1, <1>2, <3>1 DEF LinkTypes
      <4> QED BY <3>0, <4>1, <4>2, <4>3 DEF Link!Character
    <3>2. CASE <<s, j>> # <<t, k>> /\ <<s, j>> = old
      <4>1. peer'[s][j] = "dead" /\ peer[s][j] = c
        BY <1>5, <3>2 DEF Ends
      <4>2. Up(s, j)
        BY <4>1 DEF Ends, Link!Character
      <4>3. \A d \in Link!Character : owner'[d] # <<s, j>>
        BY <1>1, <3>2, <4>1 DEF LinkTypes, Ends
      <4> QED BY <3>0, <4>1, <4>2, <4>3 DEF Link!Character
    <3>3. CASE <<s, j>> # <<t, k>> /\ <<s, j>> # old
      <4>1. peer'[s][j] = peer[s][j] /\ linkDown'[s][j] = linkDown[s][j]
        BY <1>5, <3>3
      <4>2. \A d \in Link!Character : owner'[d] = <<s, j>> <=> owner[d] = <<s, j>>
        BY <1>1, <3>3 DEF LinkTypes
      <4>3. /\ peer[s][j] = "none" <=> ~ Up(s, j)
            /\ ~ Up(s, j) => linkUp[s][j] = <<>> /\ linkDown[s][j] = <<>>
            /\ peer[s][j] \in {"new", "verifying"} => linkDown[s][j] = <<>>
            /\ \A d \in Link!Character : peer[s][j] = d <=> owner[d] = <<s, j>>
        BY DEF Ends
      <4>4. linkUp[s][j] = <<>> => linkUp'[s][j] = <<>>
        OBVIOUS
      <4> QED BY <3>0, <4>1, <4>2, <4>3, <4>4
    <3> QED BY <3>1, <3>2, <3>3
  <2> QED BY <2>1 DEF Ends
<1>9. Shows'
  <2>1. ASSUME NEW s \in Tab, NEW j \in Slot, doubled'[s] = 0, peer'[s][j] \in Link!Character
        PROVE  \/ linkDown'[s][j] = <<>> /\ status'[s] = "live"
               \/ linkDown'[s][j] = <<[t |-> "welcome", char |-> peer'[s][j]]>>
    <3>1. CASE <<s, j>> = <<t, k>>
      BY <1>5, <3>1
    <3>2. CASE <<s, j>> # <<t, k>>
      <4>1. <<s, j>> # old
        BY <1>5, <2>1 DEF Link!Character
      <4>2. peer'[s][j] = peer[s][j] /\ linkDown'[s][j] = linkDown[s][j]
        BY <1>5, <3>2, <4>1
      <4>3. peer[s][j] \in Link!Character /\ status' = status
        BY <2>1, <4>2
      <4>4. \/ linkDown[s][j] = <<>> /\ status[s] = "live"
            \/ linkDown[s][j] = <<[t |-> "welcome", char |-> peer[s][j]]>>
        BY <2>1, <4>3 DEF Shows
      <4> QED BY <4>2, <4>3, <4>4
    <3> QED BY <3>1, <3>2
  <2>2. ASSUME NEW s \in Tab, NEW j \in Slot, peer[s][j] \in Link!Character \cup {"dead"}
        PROVE  peer'[s][j] \in Link!Character \cup {"dead"}
    BY <1>5, <2>2
  <2> QED BY <2>1, <2>2 DEF Shows, Up
<1>10. Sent'
  BY DEF Sent, Waiting
<1> QED BY <1>6, <1>7, <1>8, <1>9, <1>10

(* The server ends a socket with an error. *)
LEMMA RefusedOK ==
  ASSUME LinkInv, NEW t \in Tab, NEW k \in Slot, NEW r \in BOOLEAN,
         peer[t][k] # "none", Link!Refused(t, k, r),
         linkUp' \in [Tab -> [Slot -> Seq(LinkHellos)]],
         \A s \in Tab, j \in Slot : linkUp[s][j] = <<>> => linkUp'[s][j] = <<>>,
         UNCHANGED <<loaded, greeted, ws, timer, allowRetry, pendingAuth, status, notice, token,
                     sock, asked, logins, doubled>>, breaks' \in Nat
  PROVE  LinkInv'
<1> USE DEF LinkInv
<1>1. /\ peer' = [peer EXCEPT ![t][k] = "dead"]
      /\ linkDown' = [linkDown EXCEPT ![t][k] = Append(@, Link!Error(r))]
      /\ owner' = [c \in Link!Character |-> IF owner[c] = <<t, k>> THEN Link!NoSocket ELSE owner[c]]
  BY DEF Link!Refused, Link!Cut, Link!Told
<1>2. Append(linkDown[t][k], Link!Error(r)) \in Seq(LinkMessages)
  BY AppendProperties DEF LinkTypes, LinkMessages, Link!Error
<1>3. /\ linkDown' \in [Tab -> [Slot -> Seq(LinkMessages)]]
      /\ peer' \in [Tab -> [Slot -> LinkPeers]] /\ peer'[t][k] = "dead"
      /\ \A s \in Tab, j \in Slot : <<s, j>> # <<t, k>> =>
           peer'[s][j] = peer[s][j] /\ linkDown'[s][j] = linkDown[s][j]
  <2>1. /\ linkDown' \in [Tab -> [Slot -> Seq(LinkMessages)]]
        /\ \A s \in Tab, j \in Slot : <<s, j>> # <<t, k>> => linkDown'[s][j] = linkDown[s][j]
    BY <1>1, <1>2 DEF LinkTypes
  <2>2. /\ peer' \in [Tab -> [Slot -> LinkPeers]] /\ peer'[t][k] = "dead"
        /\ \A s \in Tab, j \in Slot : <<s, j>> # <<t, k>> => peer'[s][j] = peer[s][j]
    BY <1>1 DEF LinkTypes, LinkPeers
  <2> QED BY <2>1, <2>2
<1>4. LinkTypes'
  <2>1. owner' \in [Link!Character -> Link!Sockets \cup {Link!NoSocket}]
    BY <1>1 DEF LinkTypes
  <2> QED BY <1>3, <2>1 DEF LinkTypes, Link!TypeOK, LinkPeers
<1>5. OneEach'
  BY DEF OneEach, Opened
<1>6. Ends'
  <2>1. ASSUME NEW s \in Tab, NEW j \in Slot
        PROVE  /\ peer'[s][j] = "none" <=> ~ Up(s, j)'
               /\ ~ Up(s, j)' => linkUp'[s][j] = <<>> /\ linkDown'[s][j] = <<>>
               /\ peer'[s][j] \in {"new", "verifying"} => linkDown'[s][j] = <<>>
               /\ \A d \in Link!Character : peer'[s][j] = d <=> owner'[d] = <<s, j>>
    <3>0. Up(s, j)' <=> Up(s, j)
      BY DEF Up
    <3>1. CASE <<s, j>> = <<t, k>>
      <4>1. peer'[s][j] = "dead" /\ Up(s, j)
        BY <1>3, <3>1 DEF Ends
      <4>2. \A d \in Link!Character : owner'[d] # <<s, j>>
        BY <1>1, <3>1 DEF Link!NoSocket
      <4> QED BY <3>0, <4>1, <4>2 DEF Link!Character
    <3>2. CASE <<s, j>> # <<t, k>>
      <4>1. peer'[s][j] = peer[s][j] /\ linkDown'[s][j] = linkDown[s][j]
        BY <1>3, <3>2
      <4>2. \A d \in Link!Character : owner'[d] = <<s, j>> <=> owner[d] = <<s, j>>
        BY <1>1, <3>2 DEF Link!NoSocket
      <4>3. /\ peer[s][j] = "none" <=> ~ Up(s, j)
            /\ ~ Up(s, j) => linkUp[s][j] = <<>> /\ linkDown[s][j] = <<>>
            /\ peer[s][j] \in {"new", "verifying"} => linkDown[s][j] = <<>>
            /\ \A d \in Link!Character : peer[s][j] = d <=> owner[d] = <<s, j>>
        BY DEF Ends
      <4>4. linkUp[s][j] = <<>> => linkUp'[s][j] = <<>>
        OBVIOUS
      <4> QED BY <3>0, <4>1, <4>2, <4>3, <4>4
    <3> QED BY <3>1, <3>2
  <2> QED BY <2>1 DEF Ends
<1>7. Shows'
  <2>1. ASSUME NEW s \in Tab, NEW j \in Slot, doubled'[s] = 0, peer'[s][j] \in Link!Character
        PROVE  \/ linkDown'[s][j] = <<>> /\ status'[s] = "live"
               \/ linkDown'[s][j] = <<[t |-> "welcome", char |-> peer'[s][j]]>>
    <3>1. <<s, j>> # <<t, k>>
      BY <1>3, <2>1 DEF Link!Character
    <3>2. peer'[s][j] = peer[s][j] /\ linkDown'[s][j] = linkDown[s][j]
      BY <1>3, <3>1
    <3>3. peer[s][j] \in Link!Character /\ status' = status
      BY <2>1, <3>2
    <3>4. \/ linkDown[s][j] = <<>> /\ status[s] = "live"
          \/ linkDown[s][j] = <<[t |-> "welcome", char |-> peer[s][j]]>>
      BY <2>1, <3>3 DEF Shows
    <3> QED BY <3>2, <3>3, <3>4
  <2>2. ASSUME NEW s \in Tab, NEW j \in Slot, peer[s][j] \in Link!Character \cup {"dead"}
        PROVE  peer'[s][j] \in Link!Character \cup {"dead"}
    BY <1>3, <2>2
  <2> QED BY <2>1, <2>2 DEF Shows, Up
<1>8. Sent'
  BY DEF Sent, Waiting
<1> QED BY <1>4, <1>5, <1>6, <1>7, <1>8

LEMMA ServerHelloOK ==
  ASSUME LinkInv, NEW t \in Tab, NEW k \in Slot, Link!ServerHello(t, k)
  PROVE  LinkInv'
<1> DEFINE hello == Head(linkUp[t][k])
<1>1. /\ UNCHANGED <<loaded, greeted, ws, timer, allowRetry, pendingAuth, status, notice, token,
                     sock, asked, logins, breaks, doubled>>
      /\ linkUp' = [linkUp EXCEPT ![t][k] = Tail(@)] /\ linkUp[t][k] # <<>>
  BY DEF Link!ServerHello, Link!page, Link!bounds
<1>2. hello \in LinkHellos /\ Tail(linkUp[t][k]) \in Seq(LinkHellos)
  BY <1>1, HeadTailProperties DEF LinkInv, LinkTypes
<1>3. hello.char \in Link!Character /\ hello.auth \in BOOLEAN
  BY <1>2 DEF LinkHellos
<1>4. /\ linkUp' \in [Tab -> [Slot -> Seq(LinkHellos)]]
      /\ \A s \in Tab, j \in Slot : linkUp[s][j] = <<>> => linkUp'[s][j] = <<>>
  BY <1>1, <1>2 DEF LinkInv, LinkTypes
<1>5. breaks' \in Nat /\ peer[t][k] # "none"
  BY <1>1 DEF LinkInv, LinkTypes, Ends
<1>6. CASE peer[t][k] = "new" /\ hello.auth
  <2>1. peer' = [peer EXCEPT ![t][k] = "verifying"] /\ UNCHANGED <<linkDown, owner>>
    BY <1>6 DEF Link!ServerHello
  <2>2. \A s \in Tab, j \in Slot : peer'[s][j] # peer[s][j] => peer[s][j] = "new" /\ peer'[s][j] = "verifying"
    BY <1>6, <2>1 DEF LinkInv, LinkTypes
  <2>3. LinkTypes'
    BY <1>1, <1>4, <2>1 DEF LinkInv, LinkTypes, Link!TypeOK, LinkPeers
  <2>4. OneEach' /\ Sent'
    BY <1>1 DEF LinkInv, OneEach, Opened, Sent, Waiting
  <2>5. Ends'
    BY <1>1, <1>4, <2>1, <2>2 DEF LinkInv, Ends, Up, Link!Character
  <2>6. Shows'
    BY <1>1, <2>1, <2>2 DEF LinkInv, Shows, Up, Link!Character
  <2> QED BY <2>3, <2>4, <2>5, <2>6 DEF LinkInv
<1>7. CASE peer[t][k] = "new" /\ ~ hello.auth
  <2>1. Link!Adopt(t, k, hello.char)
    BY <1>7 DEF Link!ServerHello
  <2> HIDE DEF hello
  <2> QED BY <1>1, <1>3, <1>4, <1>7, <2>1, AdoptOK
<1>8. CASE peer[t][k] = "dead"
  <2>1. UNCHANGED <<peer, linkDown, owner>>
    BY <1>8 DEF Link!ServerHello
  <2>2. LinkTypes'
    BY <1>1, <1>4, <2>1 DEF LinkInv, LinkTypes, Link!TypeOK
  <2>3. OneEach' /\ Sent'
    BY <1>1 DEF LinkInv, OneEach, Opened, Sent, Waiting
  <2>4. Ends' /\ Shows'
    BY <1>1, <1>4, <2>1 DEF LinkInv, Ends, Up, Shows
  <2> QED BY <2>2, <2>3, <2>4 DEF LinkInv
<1>9. CASE peer[t][k] # "new" /\ peer[t][k] # "dead"
  <2>1. Link!Refused(t, k, FALSE)
    BY <1>9 DEF Link!ServerHello
  <2> QED BY <1>1, <1>4, <1>5, <2>1, RefusedOK
<1> QED BY <1>3, <1>6, <1>7, <1>8, <1>9

LEMMA AuthSettlesLinkOK ==
  ASSUME LinkInv, NEW t \in Tab, NEW k \in Slot, Link!AuthSettles(t, k)
  PROVE  LinkInv'
<1>1. /\ UNCHANGED <<loaded, greeted, ws, timer, allowRetry, pendingAuth, status, notice, token,
                     sock, linkUp, asked, logins, breaks, doubled>>
      /\ peer[t][k] = "verifying"
  BY DEF Link!AuthSettles, Link!page, Link!bounds
<1>2. linkUp' \in [Tab -> [Slot -> Seq(LinkHellos)]] /\ breaks' \in Nat /\ "account" \in Link!Character
  BY <1>1 DEF LinkInv, LinkTypes, Link!Character
<1>3. CASE Link!Adopt(t, k, "account")
  BY <1>1, <1>2, <1>3, AdoptOK
<1>4. CASE Link!Refused(t, k, FALSE)
  BY <1>1, <1>2, <1>4, RefusedOK
<1> QED BY <1>3, <1>4 DEF Link!AuthSettles

LEMMA ServerCutsOK ==
  ASSUME LinkInv, NEW t \in Tab, NEW k \in Slot, Link!ServerCuts(t, k)
  PROVE  LinkInv'
<1>1. /\ UNCHANGED <<loaded, greeted, ws, timer, allowRetry, pendingAuth, status, notice, token,
                     sock, linkUp, asked, logins, doubled>>
      /\ peer[t][k] # "none"
  BY DEF Link!ServerCuts, Link!page, Link!Character
<1>2. linkUp' \in [Tab -> [Slot -> Seq(LinkHellos)]] /\ breaks' \in Nat
  BY <1>1 DEF Link!ServerCuts, LinkInv, LinkTypes
<1> QED BY <1>1, <1>2, RefusedOK DEF Link!ServerCuts

LEMMA LinkNextOK == ASSUME LinkInv, Link!Next PROVE LinkInv'
<1>1. CASE \E t \in Tab : Link!Load(t) \/ Link!Retry(t) \/ Link!Authenticate(t)
  BY <1>1, LoadOK, RetryOK, AuthenticateOK
<1>2. CASE \E t \in Tab, k \in Slot :
             \/ Link!OnOpen(t, k) \/ Link!OnMessage(t, k) \/ Link!Closed(t, k) \/ Link!Break(t, k)
             \/ Link!ServerHello(t, k) \/ Link!AuthSettles(t, k) \/ Link!ServerCuts(t, k)
  <2> SUFFICES ASSUME NEW t \in Tab, NEW k \in Slot,
             \/ Link!OnOpen(t, k) \/ Link!OnMessage(t, k) \/ Link!Closed(t, k) \/ Link!Break(t, k)
             \/ Link!ServerHello(t, k) \/ Link!AuthSettles(t, k) \/ Link!ServerCuts(t, k)
      PROVE LinkInv'
    BY <1>2
  <2> QED BY OnOpenOK, OnMessageOK, ClosedOK, BreakOKLink, ServerHelloOK, AuthSettlesLinkOK, ServerCutsOK
<1> QED BY <1>1, <1>2 DEF Link!Next

LEMMA LinkStutters == ASSUME LinkInv, UNCHANGED linkVars PROVE LinkInv'
<1>1. LinkTypes'
  BY DEF linkVars, LinkInv, LinkTypes, Link!TypeOK
<1>2. OneEach' /\ Sent'
  BY DEF linkVars, LinkInv, OneEach, Opened, Sent, Waiting
<1>3. Ends' /\ Shows'
  BY DEF linkVars, LinkInv, Ends, Up, Shows
<1> QED BY <1>1, <1>2, <1>3 DEF LinkInv

LEMMA LinkTruth == LinkInv => LinkIsTrue
<1> SUFFICES ASSUME LinkInv PROVE LinkIsTrue
  OBVIOUS
<1>1. Link!OneSocketPerTab
  <2> SUFFICES ASSUME NEW t \in Tab PROVE Link!Busy(t) <= 1 + doubled[t]
    BY DEF Link!OneSocketPerTab
  <2>1. Link!Busy(t) = Cardinality(Opened(t)) + timer[t]
    BY LinkCardinality DEF Link!Busy, Opened
  <2> QED BY <2>1 DEF LinkInv, OneEach
<1>2. Link!StatusIsTrue
  <2>1. ASSUME NEW t \in Tab PROVE Link!ShowsLiveTruly(t)
    <3> SUFFICES ASSUME status[t] = "live"
        PROVE  \E k \in Slot : /\ sock[t][k] \in {"open", "closing"}
                               /\ Link!HasSession(t, k) \/ peer[t][k] = "dead"
      BY DEF Link!ShowsLiveTruly
    <3>1. PICK k \in Slot : Up(t, k) /\ peer[t][k] \in Link!Character \cup {"dead"}
      BY DEF LinkInv, Shows
    <3>2. peer[t][k] \in Link!Character => Link!HasSession(t, k)
      BY DEF LinkInv, Ends, Link!HasSession
    <3> QED BY <3>1, <3>2 DEF Up
  <2>2. ASSUME NEW t \in Tab, doubled[t] = 0 PROVE Link!ShowsItsSession(t)
    <3> SUFFICES ASSUME NEW k \in Slot, linkDown[t][k] = <<>>, Link!HasSession(t, k)
        PROVE  status[t] = "live"
      BY DEF Link!ShowsItsSession
    <3>1. PICK c \in Link!Character : owner[c] = <<t, k>>
      BY DEF Link!HasSession
    <3>2. peer[t][k] = c
      BY <3>1 DEF LinkInv, Ends
    <3>3. \/ linkDown[t][k] = <<>> /\ status[t] = "live"
          \/ linkDown[t][k] = <<[t |-> "welcome", char |-> peer[t][k]]>>
      BY <2>2, <3>2 DEF LinkInv, Shows
    <3> QED BY <3>3
  <2> QED BY <2>1, <2>2 DEF Link!StatusIsTrue
<1>3. Link!CredentialsOnce
  <2>1. Cardinality(Waiting) \in Nat
    BY FS_CardinalityType DEF LinkInv, Sent
  <2> QED BY <2>1 DEF Link!CredentialsOnce, LinkInv, Sent, LinkTypes
<1> QED BY <1>1, <1>2, <1>3 DEF LinkIsTrue, LinkInv, LinkTypes

(* A tab with a reason on its screen is not live. *)
ReasonShown ==
  /\ status \in [Tab -> {"connecting", "live", "closed"}] /\ notice \in [Tab -> {"none", "lost", "reason"}]
  /\ \A t \in Tab : notice[t] = "reason" => status[t] # "live"

LEMMA ReasonOK ==
  ASSUME ReasonShown, Link!Next
  PROVE  /\ ReasonShown'
         /\ \A t \in Tab : notice[t] = "reason" /\ notice'[t] # "reason"
              => status'[t] = "live" \/ status[t] = "connecting"
<1>1. CASE UNCHANGED <<status, notice>>
  BY <1>1 DEF ReasonShown
<1>2. ASSUME NEW t \in Tab, NEW k \in Slot, Link!OnMessage(t, k)
      PROVE  \/ status' = [status EXCEPT ![t] = "live"] /\ notice' = [notice EXCEPT ![t] = "none"]
             \/ status' = [status EXCEPT ![t] = "closed"] /\ notice' = [notice EXCEPT ![t] = "reason"]
  BY <1>2 DEF Link!OnMessage
<1>3. ASSUME NEW t \in Tab, NEW k \in Slot, Link!OnClose(t, k)
      PROVE  \E s \in {"connecting", "closed"} : \E n \in {"none", "lost", "reason"} :
               /\ status' = [status EXCEPT ![t] = s] /\ notice' = [notice EXCEPT ![t] = n]
               /\ notice[t] = "reason" /\ n # "reason" => status[t] = "connecting"
  <2>1. Link!LostNotice(t) \in {"none", "lost", "reason"} /\
        (notice[t] = "reason" /\ Link!LostNotice(t) # "reason" => status[t] = "connecting")
    BY DEF Link!LostNotice, ReasonShown
  <2> HIDE DEF Link!LostNotice
  <2> QED BY <1>3, <2>1 DEF Link!OnClose
<1>4. ASSUME NEW t \in Tab, NEW s \in {"connecting", "live", "closed"}, NEW n \in {"none", "lost", "reason"},
             status' = [status EXCEPT ![t] = s], notice' = [notice EXCEPT ![t] = n],
             n = "reason" => s # "live",
             notice[t] = "reason" /\ n # "reason" => s = "live" \/ status[t] = "connecting"
      PROVE  /\ ReasonShown'
             /\ \A u \in Tab : notice[u] = "reason" /\ notice'[u] # "reason"
                  => status'[u] = "live" \/ status[u] = "connecting"
  BY <1>4 DEF ReasonShown
<1>5. CASE \E t \in Tab, k \in Slot : Link!OnMessage(t, k)
  BY <1>2, <1>4, <1>5
<1>6. CASE \E t \in Tab, k \in Slot : Link!OnClose(t, k)
  BY <1>3, <1>4, <1>6
<1>7. \/ UNCHANGED <<status, notice>>
      \/ \E t \in Tab, k \in Slot : Link!OnMessage(t, k)
      \/ \E t \in Tab, k \in Slot : Link!OnClose(t, k)
  <2>1. CASE \E t \in Tab : Link!Load(t) \/ Link!Retry(t) \/ Link!Authenticate(t)
    BY <2>1 DEF Link!Load, Link!Retry, Link!Authenticate
  <2>2. CASE \E t \in Tab, k \in Slot : Link!Closed(t, k) \/ Link!Break(t, k)
    BY <2>2 DEF Link!Closed, Link!Break
  <2>3. CASE \E t \in Tab, k \in Slot :
               Link!OnOpen(t, k) \/ Link!ServerHello(t, k) \/ Link!AuthSettles(t, k) \/ Link!ServerCuts(t, k)
    <3> SUFFICES ASSUME NEW t \in Tab, NEW k \in Slot,
               Link!OnOpen(t, k) \/ Link!ServerHello(t, k) \/ Link!AuthSettles(t, k) \/ Link!ServerCuts(t, k)
        PROVE  UNCHANGED <<status, notice>>
      BY <2>3
    <3>1. CASE Link!OnOpen(t, k)
      BY <3>1 DEF Link!OnOpen
    <3>2. CASE Link!ServerHello(t, k)
      BY <3>2 DEF Link!ServerHello, Link!page
    <3>3. CASE Link!AuthSettles(t, k)
      BY <3>3 DEF Link!AuthSettles, Link!page
    <3>4. CASE Link!ServerCuts(t, k)
      BY <3>4 DEF Link!ServerCuts, Link!page
    <3> QED BY <3>1, <3>2, <3>3, <3>4
  <2> QED BY <2>1, <2>2, <2>3 DEF Link!Next
<1> QED BY <1>1, <1>5, <1>6, <1>7

(* A tab has one connection and one more for each login it sent while one  *)
(* was under way; what it shows as live is live or about to end; unless it *)
(* sent such a login it shows its session, and the credentials of a login  *)
(* leave it once (socket.ts, App.tsx): for any tabs and sockets, any       *)
(* number of logins, sent at any moment, and any number of breaks.         *)
THEOREM LinkIsTrueAlways == PageSpec => []LinkIsTrue
<1>1. PageInit => LinkInv
  BY LinkInitOK, LinkAssumption DEF PageInit
<1>2. LinkInv /\ [PageNext]_<<vars, linkVars, windowVars, part>> => LinkInv'
  BY LinkNextOK, LinkStutters DEF PageNext
<1>3. LinkInv => LinkIsTrue
  BY LinkTruth
<1> QED BY <1>1, <1>2, <1>3, PTL DEF PageSpec

(* The reason the server gave for ending a connection outlives the close   *)
(* that follows it, whenever the login form is sent (App.tsx:77).          *)
THEOREM ReasonStaysAlways == PageSpec => ReasonStays
<1> DEFINE Kept == \A t \in Tab : notice[t] = "reason" /\ notice'[t] # "reason"
                                   => status'[t] = "live" \/ status[t] = "connecting"
<1>1. PageInit => ReasonShown
  BY DEF PageInit, Link!Init, ReasonShown
<1>2. ReasonShown /\ [PageNext]_<<vars, linkVars, windowVars, part>> => ReasonShown' /\ [Kept]_(Link!vars)
  <2> SUFFICES ASSUME ReasonShown, [PageNext]_<<vars, linkVars, windowVars, part>>
      PROVE  ReasonShown' /\ [Kept]_(Link!vars)
    OBVIOUS
  <2>1. CASE Link!Next
    BY <2>1, ReasonOK
  <2>2. CASE UNCHANGED linkVars
    BY <2>2 DEF linkVars, ReasonShown, Link!vars, Link!page, Link!wire, Link!bounds
  <2> QED BY <2>1, <2>2 DEF PageNext
<1> QED BY <1>1, <1>2, PTL DEF PageSpec, ReasonStays, Link!ReasonStays
-----------------------------------------------------------------------------
(* The window.  Lists, joined and extended.                                *)

IsSeq(l) == l \in Seq({l[i] : i \in DOMAIN l})

LEMMA SeqIs == ASSUME NEW S, NEW l \in Seq(S) PROVE IsSeq(l)
<1>1. l = [i \in 1..Len(l) |-> l[i]] /\ Len(l) \in Nat /\ DOMAIN l = 1..Len(l)
  BY LenProperties
<1> DEFINE R == {l[i] : i \in DOMAIN l}
<1>2. \A i \in 1..Len(l) : l[i] \in R
  BY <1>1
<1> HIDE DEF R
<1>3. l \in Seq(R)
  BY <1>1, <1>2, IsASeq
<1> QED BY <1>3 DEF IsSeq, R

LEMMA SeqHas == ASSUME NEW l, IsSeq(l) PROVE Len(l) \in Nat /\ DOMAIN l = 1..Len(l)
  BY LenProperties DEF IsSeq

LEMMA SeqWiden == ASSUME NEW l, IsSeq(l), NEW S, \A i \in DOMAIN l : l[i] \in S PROVE l \in Seq(S)
<1>1. l = [i \in 1..Len(l) |-> l[i]] /\ Len(l) \in Nat /\ DOMAIN l = 1..Len(l)
  BY LenProperties DEF IsSeq
<1> QED BY <1>1, IsASeq

LEMMA MapIs ==
  ASSUME NEW n \in Nat, NEW l, l = [i \in 1..n |-> l[i]]
  PROVE  IsSeq(l) /\ Len(l) = n /\ DOMAIN l = 1..n
<1> DEFINE R == {l[i] : i \in 1..n}
<1>1. \A i \in 1..n : l[i] \in R
  OBVIOUS
<1> HIDE DEF R
<1>2. l \in Seq(R)
  BY <1>1, IsASeq
<1>3. DOMAIN l = 1..n
  OBVIOUS
<1>4. DOMAIN l = 1..Len(l) /\ Len(l) \in Nat
  BY <1>2, LenProperties
<1>5. Len(l) = n
  BY <1>3, <1>4
<1> QED BY <1>2, <1>3, <1>5, SeqIs

LEMMA AppendIs ==
  ASSUME NEW l, IsSeq(l), NEW x
  PROVE  /\ IsSeq(Append(l, x)) /\ Len(Append(l, x)) = Len(l) + 1
         /\ \A i \in 1..Len(l) : Append(l, x)[i] = l[i]
         /\ Append(l, x)[Len(l) + 1] = x
<1> DEFINE R == {l[i] : i \in DOMAIN l} \cup {x}
<1>1. \A i \in DOMAIN l : l[i] \in R
  OBVIOUS
<1>2. x \in R
  OBVIOUS
<1> HIDE DEF R
<1>3. l \in Seq(R)
  BY <1>1, SeqWiden
<1>4. Append(l, x) \in Seq(R) /\ Len(Append(l, x)) = Len(l) + 1
      /\ (\A i \in 1..Len(l) : Append(l, x)[i] = l[i]) /\ Append(l, x)[Len(l) + 1] = x
  BY <1>2, <1>3, AppendProperties
<1>5. IsSeq(Append(l, x))
  BY <1>4, SeqIs
<1> QED BY <1>4, <1>5

LEMMA JoinIs ==
  ASSUME NEW a, NEW b, IsSeq(a), IsSeq(b)
  PROVE  /\ IsSeq(a \o b) /\ Len(a \o b) = Len(a) + Len(b)
         /\ \A i \in 1..Len(a) : (a \o b)[i] = a[i]
         /\ \A i \in 1..Len(b) : (a \o b)[Len(a) + i] = b[i]
         /\ \A i \in DOMAIN (a \o b) : (\E j \in DOMAIN a : (a \o b)[i] = a[j])
                                       \/ (\E j \in DOMAIN b : (a \o b)[i] = b[j])
<1> DEFINE R == {a[i] : i \in DOMAIN a} \cup {b[i] : i \in DOMAIN b}
<1>1. (\A i \in DOMAIN a : a[i] \in R) /\ (\A i \in DOMAIN b : b[i] \in R)
  OBVIOUS
<1> HIDE DEF R
<1>2. a \in Seq(R) /\ b \in Seq(R)
  BY <1>1, SeqWiden
<1>3. /\ a \o b \in Seq(R) /\ Len(a \o b) = Len(a) + Len(b)
      /\ \A i \in 1..Len(a) + Len(b) : (a \o b)[i] = IF i <= Len(a) THEN a[i] ELSE b[i - Len(a)]
  BY <1>2, ConcatProperties
<1>4. /\ Len(a) \in Nat /\ DOMAIN a = 1..Len(a) /\ Len(b) \in Nat /\ DOMAIN b = 1..Len(b)
      /\ DOMAIN (a \o b) = 1..(Len(a) + Len(b)) /\ IsSeq(a \o b)
  BY <1>2, <1>3, LenProperties, SeqIs
<1>5. \A i \in 1..Len(a) : (a \o b)[i] = a[i]
  <2> TAKE i \in 1..Len(a)
  <2>1. i \in 1..Len(a) + Len(b) /\ i <= Len(a)
    BY <1>4
  <2> QED BY <1>3, <2>1
<1>6. \A i \in 1..Len(b) : (a \o b)[Len(a) + i] = b[i]
  <2> TAKE i \in 1..Len(b)
  <2>1. Len(a) + i \in 1..Len(a) + Len(b) /\ ~ (Len(a) + i <= Len(a)) /\ (Len(a) + i) - Len(a) = i
    BY <1>4
  <2> QED BY <1>3, <2>1
<1>7. ASSUME NEW i \in DOMAIN (a \o b)
      PROVE  (\E j \in DOMAIN a : (a \o b)[i] = a[j]) \/ (\E j \in DOMAIN b : (a \o b)[i] = b[j])
  <2>1. CASE i <= Len(a)
    <3>1. i \in 1..Len(a)
      BY <1>4, <2>1
    <3> QED BY <1>4, <1>5, <3>1
  <2>2. CASE ~ (i <= Len(a))
    <3>1. i - Len(a) \in 1..Len(b) /\ Len(a) + (i - Len(a)) = i
      BY <1>4, <2>2
    <3>2. (a \o b)[i] = b[i - Len(a)]
      BY <1>6, <3>1
    <3> QED BY <1>4, <3>1, <3>2
  <2> QED BY <2>1, <2>2
<1> QED BY <1>3, <1>4, <1>5, <1>6, <1>7

LEMMA TailIs ==
  ASSUME NEW l, IsSeq(l), l # <<>>
  PROVE  /\ IsSeq(Tail(l)) /\ Len(Tail(l)) = Len(l) - 1 /\ Len(l) \in Nat \ {0} /\ Head(l) = l[1]
         /\ \A i \in 1..(Len(l) - 1) : Tail(l)[i] = l[i + 1]
<1> DEFINE R == {l[i] : i \in DOMAIN l}
<1>1. l \in Seq(R)
  BY DEF IsSeq
<1> HIDE DEF R
<1>2. Tail(l) \in Seq(R) /\ Len(Tail(l)) = Len(l) - 1 /\ Len(l) \in Nat \ {0} /\ Head(l) = l[1]
      /\ \A i \in 1..(Len(l) - 1) : Tail(l)[i] = l[i + 1]
  BY <1>1, TailOf
<1>3. IsSeq(Tail(l))
  BY <1>2, SeqIs
<1> QED BY <1>2, <1>3

LEMMA NothingIs == IsSeq(<<>>) /\ Len(<<>>) = 0 /\ DOMAIN <<>> = {}
<1>1. <<>> \in Seq({})
  OBVIOUS
<1>2. IsSeq(<<>>)
  BY <1>1, SeqIs
<1> QED BY <1>1, <1>2, LenProperties

LEMMA OneIs == ASSUME NEW x PROVE IsSeq(<<x>>) /\ Len(<<x>>) = 1 /\ DOMAIN <<x>> = {1} /\ <<x>>[1] = x
<1>1. <<x>> \in Seq({x}) /\ Len(<<x>>) = 1 /\ <<x>>[1] = x
  OBVIOUS
<1>2. DOMAIN <<x>> = {1}
  OBVIOUS
<1>3. IsSeq(<<x>>)
  BY <1>1, SeqIs
<1> QED BY <1>1, <1>2, <1>3

LEMMA FrontIs ==
  ASSUME NEW l, IsSeq(l), l # <<>>
  PROVE  IsSeq(Window!Front(l)) /\ l = Append(Window!Front(l), Window!Last(l))
<1> DEFINE R == {l[i] : i \in DOMAIN l}
           front == [i \in 1..(Len(l) - 1) |-> l[i]]
<1>1. l \in Seq(R) /\ Len(l) \in Nat \ {0} /\ DOMAIN l = 1..Len(l) /\ l = [i \in 1..Len(l) |-> l[i]]
  BY TailIs, SeqHas, LenProperties DEF IsSeq
<1>2. Window!Last(l) = l[Len(l)]
  BY DEF Window!Last
<1>3. Window!Front(l) = front
  BY DEF Window!Front
<1>4. front = [i \in 1..(Len(l) - 1) |-> front[i]] /\ Len(l) - 1 \in Nat
  BY <1>1
<1>5. \A i \in 1..(Len(l) - 1) : front[i] = l[i]
  OBVIOUS
<1> HIDE DEF R, front
<1>6. IsSeq(front) /\ Len(front) = Len(l) - 1
  BY <1>4, MapIs
<1> DEFINE all == Append(front, l[Len(l)])
<1>7. IsSeq(all) /\ Len(all) = Len(l) /\ \A i \in 1..Len(l) : all[i] = l[i]
  <2>1. IsSeq(all) /\ Len(all) = (Len(l) - 1) + 1 /\ all[(Len(l) - 1) + 1] = l[Len(l)]
        /\ \A i \in 1..(Len(l) - 1) : all[i] = front[i]
    BY <1>6, AppendIs
  <2> QED BY <1>1, <1>5, <2>1
<1>8. all = [i \in 1..Len(all) |-> all[i]]
  BY <1>7, LenProperties DEF IsSeq
<1>9. all = l
  <2> HIDE DEF all
  <2> QED BY <1>1, <1>7, <1>8
<1> QED BY <1>2, <1>3, <1>6, <1>9
-----------------------------------------------------------------------------
(* The lists a path leads through.                                         *)

\* Induction, with the set of those of whom the claim holds.
LEMMA Induct ==
  ASSUME NEW S, 0 \in S, NEW n \in Nat, \A k \in 0..(n - 1) : k \in S => k + 1 \in S
  PROVE  0..n \subseteq S
<1> DEFINE bad == {k \in 0..n : k \notin S}
<1>1. SUFFICES ASSUME bad # {} PROVE FALSE
  OBVIOUS
<1>2. PICK m \in bad : \A k \in bad : m <= k
  <2>1. bad \subseteq Nat
    OBVIOUS
  <2> HIDE DEF bad
  <2> QED BY <1>1, <2>1, NatLeast
<1>3. m \in 0..n /\ m \notin S /\ m # 0
  BY <1>2
<1>4. m - 1 \in 0..(n - 1) /\ m - 1 \in 0..n /\ (m - 1) + 1 = m /\ ~(m <= m - 1)
  BY <1>3
<1>5. m - 1 \in S
  BY <1>2, <1>4
<1> QED BY <1>3, <1>4, <1>5

\* f has the lists the first n steps of a way lead to.
Walked(f, root, way, n) ==
  f = [i \in 0..n |-> IF i = 0 THEN {root} ELSE Window!Below(f[i - 1], way[i])]

LEMMA WalkExists ==
  ASSUME NEW root, NEW way, NEW n \in Nat
  PROVE  \E f : Walked(f, root, way, n)
<1> DEFINE S == {m \in Nat : \E f : Walked(f, root, way, m)}
<1>1. 0 \in S
  <2>1. Walked([i \in 0..0 |-> {root}], root, way, 0)
    BY DEF Walked
  <2> QED BY <2>1
<1>2. ASSUME NEW m \in 0..(n - 1), m \in S PROVE m + 1 \in S
  <2>1. PICK g : Walked(g, root, way, m)
    BY <1>2
  <2> DEFINE f == [i \in 0..(m + 1) |-> IF i = m + 1 THEN Window!Below(g[m], way[m + 1]) ELSE g[i]]
  <2>2. \A i \in 0..(m + 1) : f[i] = IF i = 0 THEN {root} ELSE Window!Below(f[i - 1], way[i])
    <3>1. \A i \in 0..m : g[i] = IF i = 0 THEN {root} ELSE Window!Below(g[i - 1], way[i])
      BY <2>1 DEF Walked
    <3>2. \A i \in 0..m : f[i] = g[i]
      BY <1>2
    <3>3. \A i \in 0..(m + 1) : i = m + 1 \/ i \in 0..m
      BY <1>2
    <3>4. \A i \in 0..(m + 1) : i # 0 => i - 1 \in 0..m
      BY <1>2
    <3>5. f[m + 1] = Window!Below(g[m], way[m + 1]) /\ m + 1 # 0 /\ (m + 1) - 1 = m /\ m \in 0..m
      BY <1>2
    <3> HIDE DEF f
    <3> QED BY <3>1, <3>2, <3>3, <3>4, <3>5
  <2>3. f = [i \in 0..(m + 1) |-> f[i]]
    OBVIOUS
  <2> HIDE DEF f
  <2>4. Walked(f, root, way, m + 1)
    BY <2>2, <2>3 DEF Walked
  <2> QED BY <1>2, <2>4
<1>3. 0..n \subseteq S
  <2> HIDE DEF S
  <2> QED BY <1>1, <1>2, Induct
<1> QED BY <1>3

LEMMA WalkAgree ==
  ASSUME NEW root, NEW way, NEW more, NEW n \in Nat, NEW f, Walked(f, root, way, n),
         NEW g, Walked(g, root, more, n + 1), \A i \in 1..n : more[i] = way[i]
  PROVE  g[n + 1] = Window!Below(f[n], more[n + 1])
<1> DEFINE S == {m \in Nat : m <= n => f[m] = g[m]}
<1>1. \A i \in 0..n : f[i] = IF i = 0 THEN {root} ELSE Window!Below(f[i - 1], way[i])
  BY DEF Walked
<1>2. \A i \in 0..(n + 1) : g[i] = IF i = 0 THEN {root} ELSE Window!Below(g[i - 1], more[i])
  BY DEF Walked
<1>3. 0 \in S
  BY <1>1, <1>2
<1>4. ASSUME NEW m \in 0..(n - 1), m \in S PROVE m + 1 \in S
  <2>1. m \in Nat /\ m + 1 \in 0..n /\ m + 1 \in 1..n /\ m + 1 \in 0..(n + 1) /\ m + 1 # 0
        /\ (m + 1) - 1 = m /\ f[m] = g[m]
    BY <1>4
  <2>2. f[m + 1] = g[m + 1]
    BY <1>1, <1>2, <2>1
  <2> QED BY <2>1, <2>2
<1>5. 0..n \subseteq S
  <2> HIDE DEF S
  <2> QED BY <1>3, <1>4, Induct
<1>6. f[n] = g[n]
  BY <1>5
<1>7. n + 1 \in 0..(n + 1) /\ n + 1 # 0 /\ (n + 1) - 1 = n
  OBVIOUS
<1> QED BY <1>2, <1>6, <1>7

LEMMA ResolveIs ==
  ASSUME NEW root, NEW way, Len(way) \in Nat
  PROVE  \E f : Walked(f, root, way, Len(way)) /\ Window!Resolve(root, way) = f[Len(way)]
<1> DEFINE g == CHOOSE f : Walked(f, root, way, Len(way))
<1>1. Walked(g, root, way, Len(way))
  BY WalkExists
<1>2. Window!Resolve(root, way) = g[Len(way)]
  BY DEF Window!Resolve, Walked
<1> QED BY <1>1, <1>2

LEMMA ResolveNone == ASSUME NEW root PROVE Window!Resolve(root, <<>>) = {root}
<1>1. PICK f : Walked(f, root, <<>>, 0) /\ Window!Resolve(root, <<>>) = f[0]
  BY ResolveIs, NothingIs
<1>2. f[0] = {root}
  BY <1>1 DEF Walked
<1> QED BY <1>1, <1>2

LEMMA ResolveOn ==
  ASSUME NEW root, NEW way, IsSeq(way), NEW seg
  PROVE  Window!Resolve(root, Append(way, seg)) = Window!Below(Window!Resolve(root, way), seg)
<1> DEFINE more == Append(way, seg)
           n == Len(way)
<1>1. n \in Nat /\ Len(more) = n + 1 /\ (\A i \in 1..n : more[i] = way[i]) /\ more[n + 1] = seg
  BY SeqHas, AppendIs
<1> HIDE DEF more, n
<1>2. PICK f : Walked(f, root, way, n) /\ Window!Resolve(root, way) = f[n]
  BY <1>1, ResolveIs DEF n
<1>3. PICK g : Walked(g, root, more, n + 1) /\ Window!Resolve(root, more) = g[n + 1]
  BY <1>1, ResolveIs
<1>4. g[n + 1] = Window!Below(f[n], more[n + 1])
  BY <1>1, <1>2, <1>3, WalkAgree
<1> QED BY <1>1, <1>2, <1>3, <1>4 DEF more

\* Lists that open nothing, lists that open those, and lists that open these.
Shut(l) == IsSeq(l) /\ \A i \in DOMAIN l : ~ l[i].opens
Low(l) == IsSeq(l) /\ \A i \in DOMAIN l : l[i].opens => Shut(l[i].sub)
Top(l) == IsSeq(l) /\ \A i \in DOMAIN l : l[i].opens => Low(l[i].sub)

LEMMA LowIsTop == ASSUME NEW l, Low(l) PROVE Top(l)
  BY DEF Shut, Low, Top

LEMMA BelowTop ==
  ASSUME NEW lists, \A l \in lists : Top(l), NEW seg
  PROVE  \A l \in Window!Below(lists, seg) : Top(l)
<1> SUFFICES ASSUME NEW l \in Window!Below(lists, seg) PROVE Top(l)
  OBVIOUS
<1>1. PICK it \in UNION {Window!ToSet(k) : k \in lists} : it.opens /\ l = it.sub
  BY DEF Window!Below
<1>2. PICK k \in lists : it \in Window!ToSet(k)
  BY <1>1
<1>4. PICK i \in DOMAIN k : it = k[i]
  BY <1>2 DEF Window!ToSet
<1>3. Low(l)
  BY <1>1, <1>2, <1>4 DEF Top
<1> QED BY <1>3, LowIsTop

LEMMA ResolveTop ==
  ASSUME NEW root, Top(root), NEW way, IsSeq(way)
  PROVE  \A l \in Window!Resolve(root, way) : Top(l)
<1> DEFINE n == Len(way)
<1>1. n \in Nat
  BY SeqHas
<1> HIDE DEF n
<1>2. PICK f : Walked(f, root, way, n) /\ Window!Resolve(root, way) = f[n]
  BY <1>1, ResolveIs DEF n
<1> DEFINE S == {m \in Nat : m <= n => \A l \in f[m] : Top(l)}
<1>3. \A i \in 0..n : f[i] = IF i = 0 THEN {root} ELSE Window!Below(f[i - 1], way[i])
  BY <1>2 DEF Walked
<1>4. 0 \in S
  BY <1>1, <1>3
<1>5. ASSUME NEW m \in 0..(n - 1), m \in S PROVE m + 1 \in S
  <2>1. m \in Nat /\ m + 1 \in 0..n /\ m + 1 # 0 /\ (m + 1) - 1 = m /\ \A l \in f[m] : Top(l)
    BY <1>1, <1>5
  <2>2. f[m + 1] = Window!Below(f[m], way[m + 1])
    BY <1>3, <2>1
  <2>3. \A l \in f[m + 1] : Top(l)
    BY <2>1, <2>2, BelowTop
  <2> QED BY <2>1, <2>3
<1>6. 0..n \subseteq S
  <2> HIDE DEF S
  <2> QED BY <1>1, <1>4, <1>5, Induct
<1> QED BY <1>1, <1>2, <1>6
-----------------------------------------------------------------------------
(* The lists of the window.                                                *)

LEMMA WindowCardinality == \A S : Window!Cardinality(S) = Cardinality(S)
  BY DEF Window!Cardinality, Cardinality

LEMMA ListedIs ==
  ASSUME NEW S
  PROVE  \E n \in Nat : DOMAIN Window!Listed(S) = 1..n
<1> DEFINE at == {i \in DOMAIN Listing : Listing[i] \in S}
<1>1. DOMAIN Listing = 1..Len(Listing) /\ Len(Listing) \in Nat
  BY WindowAssumption, LenProperties DEF Window!MenuAssumption
<1>2. IsFiniteSet(at)
  <2>1. IsFiniteSet(1..Len(Listing))
    BY <1>1, FS_Interval
  <2> QED BY <1>1, <2>1, FS_Subset
<1>3. Cardinality(at) \in Nat
  BY <1>2, FS_CardinalityType
<1>4. DOMAIN Window!Listed(S) = 1..Cardinality(at)
  BY WindowCardinality DEF Window!Listed
<1> QED BY <1>3, <1>4

LEMMA EachIs ==
  ASSUME NEW S, NEW l, l = [i \in DOMAIN Window!Listed(S) |-> l[i]]
  PROVE  IsSeq(l)
<1>1. PICK n \in Nat : DOMAIN Window!Listed(S) = 1..n
  BY ListedIs
<1> QED BY <1>1, MapIs

LEMMA ShutJoins == ASSUME NEW a, NEW b, Shut(a), Shut(b) PROVE Shut(a \o b)
<1>1. IsSeq(a) /\ IsSeq(b)
  BY DEF Shut
<1>2. IsSeq(a \o b)
  BY <1>1, JoinIs
<1>3. \A i \in DOMAIN (a \o b) : (\E j \in DOMAIN a : (a \o b)[i] = a[j]) \/ (\E j \in DOMAIN b : (a \o b)[i] = b[j])
  BY <1>1, JoinIs
<1> QED BY <1>2, <1>3 DEF Shut

LEMMA LowJoins == ASSUME NEW a, NEW b, Low(a), Low(b) PROVE Low(a \o b)
<1>1. IsSeq(a) /\ IsSeq(b)
  BY DEF Low
<1>2. IsSeq(a \o b)
  BY <1>1, JoinIs
<1>3. \A i \in DOMAIN (a \o b) : (\E j \in DOMAIN a : (a \o b)[i] = a[j]) \/ (\E j \in DOMAIN b : (a \o b)[i] = b[j])
  BY <1>1, JoinIs
<1> QED BY <1>2, <1>3 DEF Low


LEMMA ShutIf == ASSUME NEW c, NEW l, c => Shut(l) PROVE Shut(Window!If(c, l))
  BY NothingIs DEF Window!If, Shut
LEMMA LowIf == ASSUME NEW c, NEW l, c => Low(l) PROVE Low(Window!If(c, l))
  BY NothingIs DEF Window!If, Low

LEMMA LeafIs ==
  ASSUME NEW id, NEW act
  PROVE  ~ Window!Leaf(id, act).opens /\ Window!Leaf(id, act).act = act
  BY DEF Window!Leaf
LEMMA NodeIs ==
  ASSUME NEW id, NEW act, NEW sub
  PROVE  Window!Node(id, act, sub).opens /\ Window!Node(id, act, sub).act = act /\ Window!Node(id, act, sub).sub = sub
  BY DEF Window!Leaf, Window!Node
LEMMA GreyedIs ==
  ASSUME NEW id, NEW act, NEW sub, NEW cond
  PROVE  /\ ~ Window!Greyed(Window!Leaf(id, act), cond).opens
         /\ Window!Greyed(Window!Node(id, act, sub), cond).opens
         /\ Window!Greyed(Window!Node(id, act, sub), cond).sub = sub
  BY DEF Window!Leaf, Window!Node, Window!Greyed

LEMMA OneShut == ASSUME NEW id, NEW act PROVE Shut(<<Window!Leaf(id, act)>>)
  BY OneIs, LeafIs DEF Shut

LEMMA SkillIs ==
  ASSUME NEW u, NEW s
  PROVE  Window!SkillItem(u, s).opens => Shut(Window!SkillItem(u, s).sub)
<1> DEFINE targets == IF s \in Healing THEN u.allies ELSE {}
           list == Window!Listed(targets)
           each == [i \in DOMAIN list |-> Window!Leaf(<<"at", list[i]>>, <<"skill", s, list[i]>>)]
           sub == <<Window!Leaf(<<"self">>, <<"skill", s, "self">>)>> \o each
<1>1. Window!SkillItem(u, s) =
        Window!Greyed(IF targets = {} THEN Window!Leaf(<<"skill", s>>, <<"skill", s, "self">>)
                      ELSE Window!Node(<<"skill", s>>, <<>>, sub),
                      s \in u.cool)
  BY DEF Window!SkillItem, Window!Each, Window!NoAct
<1>2. IsSeq(each) /\ \A i \in DOMAIN each : ~ each[i].opens
  BY EachIs, LeafIs
<1>3. Shut(sub)
  <2> HIDE DEF each
  <2> QED BY <1>2, OneShut, ShutJoins DEF Shut
<1> HIDE DEF sub, targets
<1> QED BY <1>1, <1>3, GreyedIs

LEMMA FightIs ==
  ASSUME NEW u
  PROVE  /\ Window!FightItem(u).act \in {<<>>, <<"attack">>}
         /\ Window!FightItem(u).opens => Low(Window!FightItem(u).sub)
<1> DEFINE all == Window!Listed(Skills)
           each == [i \in DOMAIN all |-> Window!SkillItem(u, all[i])]
           list == <<Window!Leaf(<<"attack">>, <<"attack">>)>>
                     \o Window!If(u.fight # "none", each)
                     \o Window!If(u.fight = "on", <<Window!Leaf(<<"stop">>, <<"stop">>)>>)
<1>1. Window!FightItem(u) =
        IF Len(list) = 1 THEN Window!Leaf(<<"fight">>, <<"attack">>) ELSE Window!Node(<<"fight">>, <<>>, list)
  BY DEF Window!FightItem, Window!Each, Window!NoAct
<1>2. Low(each)
  <2>1. IsSeq(each)
    BY EachIs
  <2> QED BY <2>1, SkillIs DEF Low
<1>3. \A id, act : Low(<<Window!Leaf(id, act)>>)
  BY OneShut DEF Low, Shut
<1>4. Low(list)
  <2> HIDE DEF each
  <2> QED BY <1>2, <1>3, LowIf, LowJoins
<1> HIDE DEF list
<1> QED BY <1>1, <1>4, LeafIs, NodeIs

LEMMA TalkIs == ASSUME NEW u, NEW n PROVE Shut(Window!TalkList(u, n))
<1> DEFINE ts == Window!Listed(u.talk.topics)
           os == Window!Listed(DOMAIN u.talk.offers)
           topics == [i \in DOMAIN ts |-> Window!Leaf(<<"topic", ts[i]>>, <<"ask", n, ts[i]>>)]
           offers == [i \in DOMAIN os |->
                       Window!Greyed(Window!Leaf(<<"mission", os[i]>>,
                         <<IF u.talk.offers[os[i]] = "complete" THEN "turn_in" ELSE "accept", n, os[i]>>),
                         u.talk.offers[os[i]] = "taken")]
           rank == Window!If(n \in Guild, <<Window!Leaf(<<"promote">>, <<"promote", n>>)>>)
<1>1. Window!TalkList(u, n) \in {<<>>, topics \o offers \o rank}
  BY DEF Window!TalkList, Window!Each
<1>2. Shut(topics)
  BY EachIs, LeafIs DEF Shut
<1>3. Shut(offers)
  <2>1. IsSeq(offers)
    BY EachIs
  <2>2. \A i \in DOMAIN offers : ~ offers[i].opens
    BY GreyedIs
  <2> QED BY <2>1, <2>2 DEF Shut
<1>4. Shut(rank)
  BY ShutIf, OneShut
<1>5. Shut(<<>>)
  BY NothingIs DEF Shut
<1> HIDE DEF topics, offers, rank
<1> QED BY <1>1, <1>2, <1>3, <1>4, <1>5, ShutJoins

LEMMA BagIs ==
  ASSUME NEW u
  PROVE  /\ Window!BagItem(u).act = <<>> /\ Low(Window!BagItem(u).sub)
         /\ Window!GiveItem(u).act = <<>> /\ Low(Window!GiveItem(u).sub)
<1> DEFINE bs == Window!Listed(u.bag)
           ms == Window!Listed(u.mates)
           bag == [i \in DOMAIN bs |-> Window!Greyed(Window!Leaf(<<"item", bs[i]>>, <<"use_item", bs[i]>>), bs[i] \notin Usable)]
           gifts(p) == [i \in DOMAIN bs |-> Window!Leaf(<<"give", p, bs[i]>>, <<"give", p, bs[i]>>)]
           to == [i \in DOMAIN ms |-> Window!Node(<<"to", ms[i]>>, <<>>, gifts(ms[i]))]
<1>1. /\ Window!BagItem(u) = Window!Node(<<"bag">>, <<>>, bag)
      /\ Window!GiveItem(u) = Window!Node(<<"give">>, <<>>, to)
  BY DEF Window!BagItem, Window!GiveItem, Window!Each, Window!NoAct
<1>2. Low(bag)
  <2>1. IsSeq(bag)
    BY EachIs
  <2>2. \A i \in DOMAIN bag : ~ bag[i].opens
    BY GreyedIs
  <2> QED BY <2>1, <2>2 DEF Low
<1>3. \A p : Shut(gifts(p))
  BY EachIs, LeafIs DEF Shut
<1>4. Low(to)
  <2> HIDE DEF gifts
  <2>1. IsSeq(to)
    BY EachIs
  <2>2. \A i \in DOMAIN to : to[i].sub = gifts(ms[i])
    BY NodeIs
  <2> QED BY <1>3, <2>1, <2>2 DEF Low
<1> HIDE DEF bag, to
<1> QED BY <1>1, <1>2, <1>4, NodeIs

LEMMA JournalIs ==
  ASSUME NEW u
  PROVE  Window!JournalItem(u).act = <<>> /\ Low(Window!JournalItem(u).sub)
<1> DEFINE js == Window!Listed(DOMAIN u.journal)
           both(m) == <<Window!Greyed(Window!Leaf(<<"jb", m>>, <<>>), TRUE), Window!Leaf(<<"jd", m>>, <<"abandon", m>>)>>
           list == [i \in DOMAIN js |-> Window!Node(<<"j", js[i]>>, <<>>, both(js[i]))]
<1>1. Window!JournalItem(u) = Window!Node(<<"journal">>, <<>>, list)
  BY DEF Window!JournalItem, Window!Each, Window!NoAct
<1>2. ASSUME NEW m PROVE Shut(both(m))
  <2> DEFINE a == Window!Greyed(Window!Leaf(<<"jb", m>>, <<>>), TRUE)
             b == Window!Leaf(<<"jd", m>>, <<"abandon", m>>)
  <2>1. ~ a.opens /\ ~ b.opens
    BY GreyedIs, LeafIs
  <2> HIDE DEF a, b
  <2>2. <<a, b>> \in Seq({a, b}) /\ DOMAIN <<a, b>> = {1, 2} /\ <<a, b>>[1] = a /\ <<a, b>>[2] = b
    OBVIOUS
  <2>3. Shut(<<a, b>>)
    BY <2>1, <2>2, SeqIs DEF Shut
  <2> QED BY <2>3 DEF a, b
<1>3. Low(list)
  <2> HIDE DEF both
  <2>1. IsSeq(list)
    BY EachIs
  <2>2. \A i \in DOMAIN list : list[i].sub = both(js[i])
    BY NodeIs
  <2> QED BY <1>2, <2>1, <2>2 DEF Low
<1> HIDE DEF list
<1> QED BY <1>1, <1>3, NodeIs

\* What an item at the top of the window may do, and opens.
TopActs == {<<>>, <<"look">>, <<"attack">>, <<"focus">>}
Tops(l) == Top(l) /\ \A i \in DOMAIN l : l[i].act \in TopActs

LEMMA TopsJoins == ASSUME NEW a, NEW b, Tops(a), Tops(b) PROVE Tops(a \o b)
<1>1. IsSeq(a) /\ IsSeq(b)
  BY DEF Tops, Top
<1>2. IsSeq(a \o b)
  BY <1>1, JoinIs
<1>3. \A i \in DOMAIN (a \o b) : (\E j \in DOMAIN a : (a \o b)[i] = a[j]) \/ (\E j \in DOMAIN b : (a \o b)[i] = b[j])
  BY <1>1, JoinIs
<1> QED BY <1>2, <1>3 DEF Tops, Top

LEMMA TopsIf == ASSUME NEW c, NEW l, c => Tops(l) PROVE Tops(Window!If(c, l))
  BY NothingIs DEF Window!If, Tops, Top
LEMMA TopsOne ==
  ASSUME NEW it, it.act \in TopActs, it.opens => Low(it.sub)
  PROVE  Tops(<<it>>)
  BY OneIs DEF Tops, Top

LEMMA RootIs == ASSUME NEW u PROVE Tops(Window!RootItems(u))
<1> DEFINE ns == Window!Listed(Window!NpcsOf(u.room))
           npcs == [i \in DOMAIN ns |-> Window!Node(<<"npc", ns[i]>>, <<"talk", ns[i]>>, Window!TalkList(u, ns[i]))]
           talk == Window!Node(<<"talk">>, <<>>, npcs)
           look == Window!Leaf(<<"look">>, <<"look">>)
           say == Window!Leaf(<<"say">>, <<"focus">>)
<1>1. Window!RootItems(u) =
        <<look>>
        \o Window!If(u.fight # "none" \/ u.foe, <<Window!FightItem(u)>>)
        \o Window!If(Window!NpcsOf(u.room) # {}, <<talk>>)
        \o Window!If(u.bag # {}, <<Window!BagItem(u)>>)
        \o Window!If(u.mates # {} /\ u.bag # {}, <<Window!GiveItem(u)>>)
        \o Window!If(DOMAIN u.journal # {}, <<Window!JournalItem(u)>>)
        \o <<say>>
  BY DEF Window!RootItems, Window!Each, Window!NoAct
<1>2. Low(npcs)
  <2>1. IsSeq(npcs)
    BY EachIs
  <2>2. \A i \in DOMAIN npcs : npcs[i].sub = Window!TalkList(u, ns[i])
    BY NodeIs
  <2> QED BY <2>1, <2>2, TalkIs DEF Low
<1>3. Tops(<<talk>>)
  <2> HIDE DEF npcs
  <2> QED BY <1>2, NodeIs, TopsOne DEF TopActs
<1>4. Tops(<<look>>) /\ Tops(<<say>>)
  BY LeafIs, TopsOne DEF TopActs
<1>5. Tops(<<Window!FightItem(u)>>)
  BY FightIs, TopsOne DEF TopActs
<1>6. Tops(<<Window!BagItem(u)>>) /\ Tops(<<Window!GiveItem(u)>>) /\ Tops(<<Window!JournalItem(u)>>)
  BY BagIs, JournalIs, TopsOne DEF TopActs
<1> HIDE DEF talk, look, say
<1> DEFINE c1 == u.fight # "none" \/ u.foe
           c4 == u.mates # {} /\ u.bag # {}
<1>7. /\ Tops(Window!If(c1, <<Window!FightItem(u)>>))
      /\ Tops(Window!If(Window!NpcsOf(u.room) # {}, <<talk>>))
      /\ Tops(Window!If(u.bag # {}, <<Window!BagItem(u)>>))
      /\ Tops(Window!If(c4, <<Window!GiveItem(u)>>))
      /\ Tops(Window!If(DOMAIN u.journal # {}, <<Window!JournalItem(u)>>))
  BY <1>3, <1>5, <1>6, TopsIf
<1> QED BY <1>1, <1>4, <1>7, TopsJoins
-----------------------------------------------------------------------------
(* The path and the cursor, and what is sent.                              *)

PathInv ==
  /\ IsSeq(path) /\ cursor \in Nat /\ IsSeq(orders)
  /\ Window!SettingsOwnKeys /\ Window!PathResolves

\* What a step does to the actions under way.
Careful ==
  \/ orders' \in {orders, <<>>}
  \/ orders # <<>> /\ orders' = Tail(orders)
  \/ \E a, by : /\ orders' = Append(orders, [act |-> a, by |-> by])
                /\ a[1] \in {"use_item", "give"} => path # <<>>

LEMMA CarefulIs ==
  ASSUME IsSeq(orders), Careful
  PROVE  /\ IsSeq(orders')
         /\ Len(orders') > Len(orders) /\ Window!Last(orders').act[1] \in {"use_item", "give"} => path # <<>>
<1>1. Len(orders) \in Nat
  BY SeqHas
<1>2. CASE orders' \in {orders, <<>>}
  BY <1>1, <1>2, NothingIs
<1>3. CASE orders # <<>> /\ orders' = Tail(orders)
  <2>1. IsSeq(orders') /\ Len(orders') = Len(orders) - 1
    BY <1>3, TailIs
  <2> QED BY <1>1, <2>1
<1>4. ASSUME NEW a, NEW by, orders' = Append(orders, [act |-> a, by |-> by]),
             a[1] \in {"use_item", "give"} => path # <<>>
      PROVE  IsSeq(orders') /\ (Window!Last(orders').act[1] \in {"use_item", "give"} => path # <<>>)
  <2> DEFINE x == [act |-> a, by |-> by]
  <2>1. orders' = Append(orders, x) /\ x.act = a
    BY <1>4
  <2> HIDE DEF x
  <2>2. IsSeq(orders') /\ Len(orders') = Len(orders) + 1 /\ orders'[Len(orders) + 1] = x
    BY <2>1, AppendIs
  <2>3. Window!Last(orders') = x
    BY <2>2 DEF Window!Last
  <2> QED BY <1>4, <2>1, <2>2, <2>3
<1> QED BY <1>2, <1>3, <1>4 DEF Careful

LEMMA ActIs ==
  ASSUME NEW a, NEW by, Window!Act(a, by), a[1] \in {"use_item", "give"} => path # <<>>
  PROVE  Careful
BY DEF Window!Act, Careful

LEMMA MenuIs ==
  ASSUME PathInv
  PROVE  /\ Window!Menu \in Window!Resolve(Window!RootItems(ui), path)
         /\ Top(Window!Menu)
         /\ path = <<>> => Window!Menu = Window!RootItems(ui)
<1> DEFINE root == Window!RootItems(ui)
           found == Window!Resolve(root, path)
<1>1. found # {} /\ IsSeq(path)
  BY DEF PathInv, Window!PathResolves
<1>2. Top(root)
  BY RootIs DEF Tops
<1>3. Window!Menu \in found
  BY <1>1 DEF Window!Menu, Window!MenuOf
<1> HIDE DEF root
<1>4. \A l \in found : Top(l)
  BY <1>1, <1>2, ResolveTop
<1>5. path = <<>> => found = {root}
  BY ResolveNone
<1> QED BY <1>3, <1>4, <1>5 DEF root

LEMMA ActivateOK ==
  ASSUME PathInv, ui' = ui, NEW i \in Nat, NEW m, Window!Activate(Window!Menu, i, m)
  PROVE  IsSeq(path') /\ cursor' \in Nat /\ Window!PathResolves' /\ Careful
<1> DEFINE list == Window!Menu
           root == Window!RootItems(ui)
           it == list[i + 1]
<1>1. list \in Window!Resolve(root, path) /\ Top(list) /\ (path = <<>> => list = root)
  BY MenuIs
<1>2. Window!Activate(list, i, m)
  OBVIOUS
<1>3. /\ IsSeq(path) /\ cursor \in Nat /\ Window!Resolve(root, path) # {}
      /\ (Window!PathResolves' <=> Window!Resolve(root, path') # {})
  BY DEF PathInv, Window!PathResolves
<1>4. Tops(root)
  BY RootIs
<1> HIDE DEF list, root
<1>5. CASE i >= Len(list) \/ it.off
  <2>1. UNCHANGED <<path, cursor, orders>>
    BY <1>2, <1>5 DEF Window!Activate
  <2> QED BY <1>3, <2>1 DEF Careful
<1>6. CASE ~ (i >= Len(list) \/ it.off)
  <2>1. /\ Window!Act(it.act, "hand")
        /\ path' = IF it.opens THEN Append(path, it.id) ELSE path
        /\ cursor' = IF it.opens THEN 0 ELSE i
    BY <1>2, <1>6 DEF Window!Activate
  <2>2. i + 1 \in DOMAIN list
    <3>1. Len(list) \in Nat /\ DOMAIN list = 1..Len(list)
      BY <1>1, SeqHas DEF Top
    <3> QED BY <1>6, <3>1
  <2>3. Careful
    <3>1. path = <<>> => it.act \in TopActs
      BY <1>1, <1>4, <2>2 DEF Tops
    <3>2. it.act[1] \in {"use_item", "give"} /\ it.act # <<>> => path # <<>>
      BY <3>1 DEF TopActs
    <3>3. CASE it.act = <<>>
      BY <2>1, <3>3 DEF Window!Act, Window!NoAct, Careful
    <3>4. CASE it.act # <<>>
      BY <2>1, <3>2, <3>4, ActIs
    <3> QED BY <3>3, <3>4
  <2>4. cursor' \in Nat
    BY <2>1
  <2>5. CASE it.opens
    <3>1. path' = Append(path, it.id)
      BY <2>1, <2>5
    <3>2. it \in Window!ToSet(list)
      BY <2>2 DEF Window!ToSet
    <3>3. it.sub \in Window!Below(Window!Resolve(root, path), it.id)
      BY <1>1, <2>5, <3>2 DEF Window!Below
    <3>4. Window!Resolve(root, path') = Window!Below(Window!Resolve(root, path), it.id)
      BY <1>3, <3>1, ResolveOn
    <3>5. IsSeq(path')
      BY <1>3, <3>1, AppendIs
    <3> QED BY <1>3, <2>3, <2>4, <3>3, <3>4, <3>5
  <2>6. CASE ~ it.opens
    BY <1>3, <2>1, <2>3, <2>4, <2>6
  <2> QED BY <2>5, <2>6
<1> QED BY <1>5, <1>6

LEMMA MoveCursorIs ==
  ASSUME NEW list, IsSeq(list), NEW from \in Nat, NEW delta \in {-1, 1}
  PROVE  Window!MoveCursor(list, from, delta) \in Nat
<1> DEFINE at(n) == (from + delta * n) % Len(list)
           free == {n \in 1..Len(list) : ~ list[at(n) + 1].off}
           least == CHOOSE n \in free : \A k \in free : n <= k
<1>1. Window!MoveCursor(list, from, delta) =
        IF list = <<>> THEN 0 ELSE IF free = {} THEN from ELSE at(least)
  BY DEF Window!MoveCursor
<1>2. CASE list # <<>> /\ free # {}
  <2>1. Len(list) \in Nat \ {0}
    BY <1>2, TailIs
  <2>2. \E n \in free : \A k \in free : n <= k
    <3>1. free \subseteq Nat
      OBVIOUS
    <3> HIDE DEF free
    <3> QED BY <1>2, <3>1, NatLeast
  <2>3. least \in 1..Len(list)
    BY <2>2
  <2>4. from + delta * least \in Int
    BY <2>1, <2>3
  <2>5. \A x \in Int, y \in Nat \ {0} : x % y \in Nat
    OBVIOUS
  <2>6. at(least) \in Nat
    <3> HIDE DEF least
    <3> QED BY <2>1, <2>4, <2>5
  <2> QED BY <1>1, <1>2, <2>6
<1> HIDE DEF free, least
<1> QED BY <1>1, <1>2

LEMMA HappensIs ==
  ASSUME Window!ServerNext
  PROVE  Window!Serve \/ Window!Reconnect \/ \E t, msgs : Window!Happens(t, msgs)
<1>1. CASE Window!Swing
  BY <1>1 DEF Window!Swing
<1>2. CASE Window!Cools \/ Window!AllyJoins
  BY <1>2 DEF Window!Cools, Window!AllyJoins
<1>3. CASE Window!Victory \/ Window!Defeat \/ Window!Revive
  BY <1>3 DEF Window!Victory, Window!Defeat, Window!Revive
<1>4. CASE Window!EnemyReturns \/ Window!MateMoves
  BY <1>4 DEF Window!EnemyReturns, Window!MateMoves
<1>5. CASE Window!Progress \/ Window!TopicOpens
  BY <1>5 DEF Window!Progress, Window!TopicOpens
<1> QED BY <1>1, <1>2, <1>3, <1>4, <1>5 DEF Window!ServerNext

LEMMA ServerPathOK ==
  ASSUME PathInv, Window!ServerNext
  PROVE  PathInv' /\ Careful
<1>1. UNCHANGED <<ui, path, cursor, settings, mode>> /\ Careful
  <2>1. CASE Window!Serve
    BY <2>1 DEF Window!Serve, Window!page, Careful
  <2>2. CASE Window!Reconnect
    BY <2>2 DEF Window!Reconnect, Window!page, Careful
  <2>3. ASSUME NEW t, NEW msgs, Window!Happens(t, msgs)
        PROVE  UNCHANGED <<ui, path, cursor, settings, mode>> /\ Careful
    BY <2>3 DEF Window!Happens, Window!page, Careful
  <2> QED BY <2>1, <2>2, <2>3, HappensIs
<1>2. IsSeq(orders')
  BY <1>1, CarefulIs DEF PathInv
<1> QED BY <1>1, <1>2 DEF PathInv, Window!SettingsOwnKeys, Window!PathResolves

LEMMA PagePathOK ==
  ASSUME PathInv, Window!PageNext
  PROVE  PathInv' /\ Careful
<1>1. SUFFICES IsSeq(path') /\ cursor' \in Nat /\ Window!SettingsOwnKeys' /\ Window!PathResolves' /\ Careful
  BY CarefulIs DEF PathInv
<1>2. IsSeq(path) /\ cursor \in Nat /\ Window!SettingsOwnKeys /\ Window!PathResolves
  BY DEF PathInv
<1>3. ASSUME UNCHANGED <<ui, path, cursor>>, Window!SettingsOwnKeys', Careful
      PROVE  IsSeq(path') /\ cursor' \in Nat /\ Window!SettingsOwnKeys' /\ Window!PathResolves' /\ Careful
  BY <1>2, <1>3 DEF Window!PathResolves
<1>4. ASSUME path' = <<>> PROVE IsSeq(path') /\ Window!PathResolves'
  BY <1>4, NothingIs, ResolveNone DEF Window!PathResolves
<1>5. CASE Window!Read
  <2>1. UNCHANGED <<settings, mode, orders>> /\ Window!FallBack(ui')
    BY <1>5 DEF Window!Read
  <2>2. Window!SettingsOwnKeys' /\ Careful
    BY <1>2, <2>1 DEF Window!SettingsOwnKeys, Careful
  <2>3. CASE Window!Resolve(Window!RootItems(ui'), path) = {}
    BY <1>4, <2>1, <2>2, <2>3 DEF Window!FallBack
  <2>4. CASE Window!Resolve(Window!RootItems(ui'), path) # {}
    BY <1>2, <2>1, <2>2, <2>4 DEF Window!FallBack, Window!PathResolves
  <2> QED BY <2>3, <2>4
<1>6. CASE Window!Open
  BY <1>4, <1>6 DEF Window!Open, Window!SettingsOwnKeys, Window!Keys, Careful
<1>7. CASE Window!Up \/ Window!Down \/ Window!Hover
  <2>1. UNCHANGED <<ui, path, mode, settings, orders>>
    BY <1>7 DEF Window!Up, Window!Down, Window!Hover, Window!outside
  <2>2. IsSeq(Window!Menu)
    BY MenuIs DEF Top
  <2>3. cursor' \in Nat
    <3>1. CASE Window!Up
      BY <1>2, <2>2, <3>1, MoveCursorIs DEF Window!Up
    <3>2. CASE Window!Down
      BY <1>2, <2>2, <3>2, MoveCursorIs DEF Window!Down
    <3>3. CASE Window!Hover
      <4>1. PICK i \in DOMAIN Window!Menu : cursor' = i - 1
        BY <3>3 DEF Window!Hover
      <4> QED BY <2>2, <4>1, SeqHas
    <3> QED BY <1>7, <3>1, <3>2, <3>3
  <2> QED BY <1>2, <2>1, <2>3 DEF Window!SettingsOwnKeys, Window!PathResolves, Careful
<1>8. CASE Window!Enter \/ Window!Click
  <2>1. ~ settings /\ UNCHANGED <<ui, settings>>
    BY <1>8 DEF Window!Enter, Window!Click, Window!Keys, Window!outside
  <2>2. IsSeq(Window!Menu)
    BY MenuIs DEF Top
  <2>3. Len(Window!Menu) \in Nat /\ DOMAIN Window!Menu = 1..Len(Window!Menu)
    BY <2>2, SeqHas
  <2>4. PICK i \in Nat : Window!Activate(Window!Menu, i, "menu")
    <3>1. CASE Window!Enter
      <4>1. Window!Activate(Window!Menu, Window!Shown(Window!Menu, cursor), "menu")
        BY <3>1 DEF Window!Enter
      <4>2. Window!Shown(Window!Menu, cursor) \in Nat
        BY <1>2, <2>3 DEF Window!Shown, Window!Min2, Window!Max2
      <4> QED BY <4>1, <4>2
    <3>2. CASE Window!Click
      <4>1. PICK i \in DOMAIN Window!Menu : Window!Activate(Window!Menu, i - 1, "menu")
        BY <3>2 DEF Window!Click
      <4>2. i - 1 \in Nat
        BY <2>3
      <4> QED BY <4>1, <4>2
    <3> QED BY <1>8, <3>1, <3>2
  <2>5. IsSeq(path') /\ cursor' \in Nat /\ Window!PathResolves' /\ Careful
    BY <2>1, <2>4, ActivateOK
  <2> QED BY <2>1, <2>5 DEF Window!SettingsOwnKeys
<1>9. CASE Window!Back
  <2>1. ~ settings /\ UNCHANGED <<ui, settings, orders>> /\ cursor' = 0
        /\ path' = IF path = <<>> THEN path ELSE Window!Front(path)
    BY <1>9 DEF Window!Back, Window!outside
  <2>2. Window!SettingsOwnKeys' /\ Careful /\ cursor' \in Nat
    BY <2>1 DEF Window!SettingsOwnKeys, Careful
  <2>3. CASE path = <<>>
    BY <1>4, <2>1, <2>2, <2>3
  <2>4. CASE path # <<>>
    <3> DEFINE root == Window!RootItems(ui)
    <3>1. IsSeq(path') /\ path = Append(path', Window!Last(path))
      BY <1>2, <2>1, <2>4, FrontIs
    <3>5. \A way, seg : IsSeq(way) => Window!Resolve(root, Append(way, seg)) = Window!Below(Window!Resolve(root, way), seg)
      BY ResolveOn
    <3> HIDE DEF root
    <3>2. Window!Resolve(root, path) = Window!Below(Window!Resolve(root, path'), Window!Last(path))
      BY <3>1, <3>5, Zenon
    <3>3. Window!Resolve(root, path) # {}
      BY <1>2 DEF Window!PathResolves, root
    <3>4. Window!Resolve(root, path') # {}
      BY <3>2, <3>3 DEF Window!Below
    <3> QED BY <2>1, <2>2, <3>1, <3>4 DEF Window!PathResolves, root
  <2> QED BY <2>3, <2>4
<1>10. CASE Window!Walk \/ Window!Glance \/ Window!Submit \/ Window!AutoTick
  <2>1. UNCHANGED <<ui, path, cursor, settings, mode>>
    BY <1>10 DEF Window!Walk, Window!Glance, Window!Submit, Window!AutoTick, Window!outside, Window!page
  <2>2. \E a, by : Window!Act(a, by) /\ a[1] \notin {"use_item", "give"}
    <3>1. CASE Window!Walk
      BY <3>1 DEF Window!Walk
    <3>2. CASE Window!Glance
      BY <3>2 DEF Window!Glance
    <3>3. CASE Window!Submit
      <4>1. PICK text \in {"look", "say hello", "say"} : Window!Act(Window!Parse(text), "hand")
        BY <3>3 DEF Window!Submit
      <4>2. PICK v \in {"look", "say", "unparsed"} : Window!Parse(text) = <<v>>
        BY DEF Window!Parse
      <4>3. Window!Parse(text)[1] \notin {"use_item", "give"}
        BY <4>2, OneIs
      <4> QED BY <4>1, <4>3
    <3>4. CASE Window!AutoTick
      BY <3>4 DEF Window!AutoTick
    <3> QED BY <1>10, <3>1, <3>2, <3>3, <3>4
  <2>3. Careful
    BY <2>2, ActIs
  <2> QED BY <1>2, <1>3, <2>1, <2>3 DEF Window!SettingsOwnKeys
<1>11. CASE Window!OpenSettings \/ Window!CloseSettings \/ Window!ToggleAuto
  <2>1. UNCHANGED <<ui, path, cursor, orders>>
    BY <1>11 DEF Window!OpenSettings, Window!CloseSettings, Window!ToggleAuto, Window!outside
  <2>2. Window!SettingsOwnKeys'
    BY <1>2, <1>11 DEF Window!OpenSettings, Window!CloseSettings, Window!ToggleAuto, Window!SettingsOwnKeys
  <2> QED BY <1>3, <2>1, <2>2 DEF Careful
<1> QED BY <1>5, <1>6, <1>7, <1>8, <1>9, <1>10, <1>11 DEF Window!PageNext

LEMMA PathOK == ASSUME PathInv, Window!Next PROVE PathInv' /\ Careful
  BY ServerPathOK, PagePathOK DEF Window!Next

LEMMA PathStutters == ASSUME PathInv, UNCHANGED windowVars PROVE PathInv'
  BY DEF windowVars, PathInv, Window!SettingsOwnKeys, Window!PathResolves

LEMMA PathInitOK == Window!Init => PathInv
<1> SUFFICES ASSUME Window!Init PROVE PathInv
  OBVIOUS
<1>1. path = <<>> /\ orders = <<>> /\ cursor = 0 /\ settings = FALSE
  BY DEF Window!Init
<1>2. Window!PathResolves
  BY <1>1, ResolveNone DEF Window!PathResolves
<1> QED BY <1>1, <1>2, NothingIs DEF PathInv, Window!SettingsOwnKeys

(* The window stands on a list that exists, and the arrows are never its   *)
(* cursor's under the settings (App.tsx:45, 117): for all items and facts. *)
THEOREM WindowAlwaysHasAList == PageSpec => []WindowHasAList
<1>1. PageInit => PathInv
  BY PathInitOK DEF PageInit
<1>2. PathInv /\ [PageNext]_<<vars, linkVars, windowVars, part>> => PathInv'
  BY PathOK, PathStutters DEF PageNext
<1>3. PathInv => WindowHasAList
  BY DEF PathInv, WindowHasAList
<1> QED BY <1>1, <1>2, <1>3, PTL DEF PageSpec

(* Drinking and giving always take two choices (menu.ts:97), however short *)
(* the lists get.                                                          *)
THEOREM IrreversibleAlwaysTakesTwo == PageSpec => IrreversibleTakesTwo
<1> DEFINE Two == Len(orders') > Len(orders) /\ Window!Last(orders').act[1] \in {"use_item", "give"}
                    => path # <<>>
<1>1. PageInit => PathInv
  BY PathInitOK DEF PageInit
<1>2. PathInv /\ [PageNext]_<<vars, linkVars, windowVars, part>> => PathInv' /\ [Two]_(Window!vars)
  <2> SUFFICES ASSUME PathInv, [PageNext]_<<vars, linkVars, windowVars, part>>
      PROVE  PathInv' /\ [Two]_(Window!vars)
    OBVIOUS
  <2>1. CASE Window!Next
    <3>1. PathInv' /\ Careful /\ IsSeq(orders)
      BY <2>1, PathOK DEF PathInv
    <3>2. Two
      BY <3>1, CarefulIs
    <3> QED BY <3>1, <3>2
  <2>2. CASE UNCHANGED windowVars
    <3>1. UNCHANGED Window!vars
      BY <2>2 DEF windowVars, Window!vars, Window!page
    <3> QED BY <2>2, <3>1, PathStutters
  <2> QED BY <2>1, <2>2 DEF PageNext
<1> QED BY <1>1, <1>2, PTL DEF PageSpec, IrreversibleTakesTwo, Window!IrreversibleTakesTwo
-----------------------------------------------------------------------------
(* What is on the screen, and what the messages under way make of it.      *)

IsUi(u) ==
  /\ u = [room |-> u.room, foe |-> u.foe, mates |-> u.mates, fight |-> u.fight, slot |-> u.slot,
          cool |-> u.cool, allies |-> u.allies, journal |-> u.journal, bag |-> u.bag, talk |-> u.talk]
  /\ u.talk # Window!NoTalk => Home[u.talk.npc] = u.room

IsSrv(s) ==
  /\ s = [pos |-> s.pos, foes |-> s.foes, at |-> s.at, bag |-> s.bag, fallen |-> s.fallen,
          mission |-> s.mission, topics |-> s.topics, fight |-> s.fight, slot |-> s.slot,
          cool |-> s.cool, allies |-> s.allies]
  /\ DOMAIN s.at = Mates
  /\ s.fight = "none" => s.allies = {} /\ s.slot = Window!NoOrder

\* All but the cooldowns, which the screen hears of with the next swing.
RoomAgrees(u, s) == u.room = s.pos /\ u.foe = (s.pos \in s.foes) /\ u.mates = Window!Here(s)
FightAgrees(u, s) == u.fight = s.fight /\ u.slot = s.slot.act /\ u.allies = s.allies
JournalAgrees(u, s) == u.journal = Window!MissionPart(s).journal
Agrees(u, s) == RoomAgrees(u, s) /\ FightAgrees(u, s) /\ JournalAgrees(u, s) /\ u.bag = s.bag

\* The screen u, told msgs one by one, becomes v.
Becomes(u, msgs, v) ==
  \E g : /\ g[0] = u /\ g[Len(msgs)] = v
         /\ \A k \in 0..Len(msgs) : IsUi(g[k])
         /\ \A k \in 1..Len(msgs) : g[k] = Window!Reduced(g[k - 1], msgs[k])

\* To whom agrees with s, msgs tell t.
Tells(s, t, msgs) ==
  /\ IsSeq(msgs)
  /\ \A u : IsUi(u) /\ Agrees(u, s) => \E v : Becomes(u, msgs, v) /\ Agrees(v, t)

LEMMA BecomesNothing == ASSUME NEW u, IsUi(u) PROVE Becomes(u, <<>>, u)
<1> DEFINE g == [k \in {0} |-> u]
<1>1. g[0] = u /\ (\A k \in 0..0 : IsUi(g[k])) /\ \A k \in 1..0 : FALSE
  OBVIOUS
<1> HIDE DEF g
<1> QED BY <1>1, NothingIs DEF Becomes

LEMMA BecomesOne ==
  ASSUME NEW u, IsUi(u), NEW m, IsUi(Window!Reduced(u, m))
  PROVE  Becomes(u, <<m>>, Window!Reduced(u, m))
<1> DEFINE v == Window!Reduced(u, m)
           g == [k \in {0, 1} |-> IF k = 0 THEN u ELSE v]
<1> HIDE DEF v
<1>1. g[0] = u /\ g[1] = v
  OBVIOUS
<1> HIDE DEF g
<1>2. \A k \in 0..1 : IsUi(g[k])
  <2>1. \A k \in 0..1 : k = 0 \/ k = 1
    OBVIOUS
  <2> QED BY <1>1, <2>1 DEF v
<1>3. \A k \in 1..1 : g[k] = Window!Reduced(g[k - 1], <<m>>[k])
  <2>1. \A k \in 1..1 : k = 1 /\ k - 1 = 0
    OBVIOUS
  <2> QED BY <1>1, <2>1, OneIs DEF v
<1>4. Becomes(u, <<m>>, v)
  BY <1>1, <1>2, <1>3, OneIs DEF Becomes
<1> QED BY <1>4 DEF v

LEMMA BecomesOn ==
  ASSUME NEW a, NEW b, IsSeq(a), IsSeq(b), NEW u, NEW v, NEW w, Becomes(u, a, v), Becomes(v, b, w)
  PROVE  Becomes(u, a \o b, w)
<1> DEFINE n == Len(a)
           m == Len(b)
           c == a \o b
<1>1. /\ n \in Nat /\ m \in Nat /\ Len(c) = n + m
      /\ \A i \in 1..n : c[i] = a[i]
      /\ \A i \in 1..m : c[n + i] = b[i]
  BY SeqHas, JoinIs
<1>2. PICK f : /\ f[0] = u /\ f[n] = v
               /\ \A k \in 0..n : IsUi(f[k])
               /\ \A k \in 1..n : f[k] = Window!Reduced(f[k - 1], a[k])
  BY DEF Becomes
<1>3. PICK g : /\ g[0] = v /\ g[m] = w
               /\ \A k \in 0..m : IsUi(g[k])
               /\ \A k \in 1..m : g[k] = Window!Reduced(g[k - 1], b[k])
  BY DEF Becomes
<1> HIDE DEF n, m, c
<1> DEFINE h == [k \in 0..(n + m) |-> IF k <= n THEN f[k] ELSE g[k - n]]
<1>4. (\A k \in 0..n : h[k] = f[k]) /\ (\A k \in 0..m : h[n + k] = g[k])
  <2>1. \A k \in 0..n : h[k] = f[k]
    BY <1>1
  <2>2. ASSUME NEW k \in 0..m PROVE h[n + k] = g[k]
    <3>1. CASE k = 0
      BY <1>1, <1>2, <1>3, <3>1
    <3>2. CASE k # 0
      <4>1. n + k \in 0..(n + m) /\ ~ (n + k <= n) /\ (n + k) - n = k
        BY <1>1, <3>2
      <4> QED BY <4>1
    <3> QED BY <3>1, <3>2
  <2> QED BY <2>1, <2>2
<1> HIDE DEF h
<1>5. h[0] = u /\ h[n + m] = w
  <2>1. 0 \in 0..n /\ m \in 0..m
    BY <1>1
  <2> QED BY <1>2, <1>3, <1>4, <2>1
<1>6. \A k \in 0..(n + m) : k \in 0..n \/ (k - n \in 1..m /\ n + (k - n) = k /\ k - n \in 0..m)
  BY <1>1
<1>7. \A k \in 0..(n + m) : IsUi(h[k])
  BY <1>2, <1>3, <1>4, <1>6
<1>8. ASSUME NEW k \in 1..(n + m) PROVE h[k] = Window!Reduced(h[k - 1], c[k])
  <2>1. CASE k \in 1..n
    <3>1. k \in 0..n /\ k - 1 \in 0..n
      BY <1>1, <2>1
    <3> QED BY <1>1, <1>2, <1>4, <2>1, <3>1
  <2>2. CASE k \notin 1..n
    <3> DEFINE j == k - n
    <3>1. j \in 1..m /\ j \in 0..m /\ j - 1 \in 0..m /\ n + j = k /\ n + (j - 1) = k - 1
      BY <1>1, <2>2
    <3> HIDE DEF j
    <3>2. h[n + j] = g[j] /\ h[n + (j - 1)] = g[j - 1] /\ c[n + j] = b[j]
      BY <1>1, <1>4, <3>1
    <3>3. g[j] = Window!Reduced(g[j - 1], b[j])
      BY <1>3, <3>1
    <3> QED BY <3>1, <3>2, <3>3
  <2> QED BY <2>1, <2>2
<1>9. Becomes(u, c, w)
  BY <1>1, <1>5, <1>7, <1>8 DEF Becomes
<1> QED BY <1>9 DEF c

LEMMA BecomesNext ==
  ASSUME NEW u, NEW msgs, IsSeq(msgs), msgs # <<>>, NEW v, Becomes(u, msgs, v)
  PROVE  Becomes(Window!Reduced(u, Head(msgs)), Tail(msgs), v)
<1> DEFINE n == Len(msgs)
           rest == Tail(msgs)
<1>1. /\ n \in Nat \ {0} /\ Len(rest) = n - 1 /\ Head(msgs) = msgs[1]
      /\ \A i \in 1..(n - 1) : rest[i] = msgs[i + 1]
  BY TailIs
<1>2. PICK f : /\ f[0] = u /\ f[n] = v
               /\ \A k \in 0..n : IsUi(f[k])
               /\ \A k \in 1..n : f[k] = Window!Reduced(f[k - 1], msgs[k])
  BY DEF Becomes
<1> HIDE DEF n, rest
<1> DEFINE g == [k \in 0..(n - 1) |-> f[k + 1]]
<1>3. \A k \in 0..(n - 1) : g[k] = f[k + 1]
  OBVIOUS
<1> HIDE DEF g
<1>4. g[0] = f[1] /\ g[n - 1] = v
  <2>1. 0 \in 0..(n - 1) /\ n - 1 \in 0..(n - 1) /\ (n - 1) + 1 = n
    BY <1>1
  <2> QED BY <1>2, <1>3, <2>1
<1>5. f[1] = Window!Reduced(u, Head(msgs))
  <2>1. 1 \in 1..n /\ 1 - 1 = 0
    BY <1>1
  <2> QED BY <1>1, <1>2, <2>1
<1>6. \A k \in 0..(n - 1) : IsUi(g[k])
  <2>1. \A k \in 0..(n - 1) : k + 1 \in 0..n
    BY <1>1
  <2> QED BY <1>2, <1>3, <2>1
<1>7. ASSUME NEW k \in 1..(n - 1) PROVE g[k] = Window!Reduced(g[k - 1], rest[k])
  <2>1. k \in 0..(n - 1) /\ k - 1 \in 0..(n - 1) /\ k + 1 \in 1..n /\ (k + 1) - 1 = k /\ (k - 1) + 1 = k
    BY <1>1
  <2>2. g[k] = f[k + 1] /\ g[k - 1] = f[k] /\ rest[k] = msgs[k + 1]
    BY <1>1, <1>3, <2>1
  <2>3. f[k + 1] = Window!Reduced(f[k], msgs[k + 1])
    BY <1>2, <2>1
  <2> QED BY <2>2, <2>3
<1>8. Becomes(f[1], rest, v)
  BY <1>1, <1>4, <1>6, <1>7 DEF Becomes
<1> QED BY <1>5, <1>8 DEF rest

LEMMA BecomesIs ==
  ASSUME NEW u, NEW v, NEW msgs, IsSeq(msgs), Becomes(u, msgs, v)
  PROVE  IsUi(u) /\ IsUi(v) /\ (msgs = <<>> => v = u)
<1>1. Len(msgs) \in Nat
  BY SeqHas
<1>2. 0 \in 0..Len(msgs) /\ Len(msgs) \in 0..Len(msgs)
  BY <1>1
<1> QED BY <1>2, NothingIs DEF Becomes

LEMMA TellsOn ==
  ASSUME NEW s, NEW t, NEW w, NEW a, NEW b, Tells(s, t, a), Tells(t, w, b)
  PROVE  Tells(s, w, a \o b)
<1>1. IsSeq(a) /\ IsSeq(b)
  BY DEF Tells
<1>2. IsSeq(a \o b)
  BY <1>1, JoinIs
<1>3. ASSUME NEW u, IsUi(u), Agrees(u, s) PROVE \E v : Becomes(u, a \o b, v) /\ Agrees(v, w)
  <2>1. PICK v : Becomes(u, a, v) /\ Agrees(v, t)
    BY <1>3 DEF Tells
  <2>2. IsUi(v)
    BY <1>1, <2>1, BecomesIs
  <2>3. PICK x : Becomes(v, b, x) /\ Agrees(x, w)
    BY <2>1, <2>2 DEF Tells
  <2>4. Becomes(u, a \o b, x)
    BY <1>1, <2>1, <2>3, BecomesOn
  <2> QED BY <2>3, <2>4
<1> QED BY <1>2, <1>3 DEF Tells
-----------------------------------------------------------------------------
(* What each message tells.                                                *)

SameRoom(s, t) == t.pos = s.pos /\ (t.pos \in t.foes) = (s.pos \in s.foes) /\ Window!Here(t) = Window!Here(s)
SameFight(s, t) == t.fight = s.fight /\ t.slot.act = s.slot.act /\ t.allies = s.allies
SameJournal(s, t) == t.mission = s.mission
SameBag(s, t) == t.bag = s.bag

LEMMA TellsNothing ==
  ASSUME NEW s, NEW t, SameRoom(s, t), SameFight(s, t), SameJournal(s, t), SameBag(s, t)
  PROVE  Tells(s, t, <<>>)
<1>1. ASSUME NEW u, IsUi(u), Agrees(u, s) PROVE Becomes(u, <<>>, u) /\ Agrees(u, t)
  <2>1. Agrees(u, t)
    BY <1>1 DEF Agrees, RoomAgrees, FightAgrees, JournalAgrees, SameRoom, SameFight, SameJournal, SameBag,
                Window!MissionPart
  <2> QED BY <1>1, <2>1, BecomesNothing
<1> QED BY <1>1, NothingIs DEF Tells

LEMMA TellsOne ==
  ASSUME NEW s, NEW t, NEW m,
         \A u : IsUi(u) /\ Agrees(u, s) => IsUi(Window!Reduced(u, m)) /\ Agrees(Window!Reduced(u, m), t)
  PROVE  Tells(s, t, <<m>>)
<1>1. ASSUME NEW u, IsUi(u), Agrees(u, s) PROVE \E v : Becomes(u, <<m>>, v) /\ Agrees(v, t)
  BY <1>1, BecomesOne
<1> QED BY <1>1, OneIs DEF Tells

LEMMA TellsRoom ==
  ASSUME NEW s, NEW t, SameFight(s, t), SameJournal(s, t), SameBag(s, t),
         NEW m, m.t = "room.describe", m.set = Window!RoomPart(t)
  PROVE  Tells(s, t, <<m>>)
<1> SUFFICES ASSUME NEW u, IsUi(u), Agrees(u, s)
    PROVE  IsUi(Window!Reduced(u, m)) /\ Agrees(Window!Reduced(u, m), t)
  BY TellsOne
<1> DEFINE v == Window!Reduced(u, m)
           talk == Window!KeepDialogue(u.talk, t.pos)
<1>1. v = [u EXCEPT !.room = t.pos, !.foe = (t.pos \in t.foes), !.mates = Window!Here(t), !.talk = talk]
  BY DEF Window!Reduced, Window!RoomPart
<1>2. talk # Window!NoTalk => Home[talk.npc] = t.pos
  BY DEF Window!KeepDialogue
<1> HIDE DEF talk, v
<1>3. /\ v.room = t.pos /\ v.foe = (t.pos \in t.foes) /\ v.mates = Window!Here(t) /\ v.talk = talk
      /\ v.fight = u.fight /\ v.slot = u.slot /\ v.allies = u.allies /\ v.journal = u.journal /\ v.bag = u.bag
      /\ v.cool = u.cool
      /\ v = [room |-> v.room, foe |-> v.foe, mates |-> v.mates, fight |-> v.fight, slot |-> v.slot,
              cool |-> v.cool, allies |-> v.allies, journal |-> v.journal, bag |-> v.bag, talk |-> v.talk]
  BY <1>1 DEF IsUi
<1>4. IsUi(v)
  BY <1>2, <1>3 DEF IsUi
<1>5. Agrees(v, t)
  BY <1>3 DEF Agrees, RoomAgrees, FightAgrees, JournalAgrees, SameFight, SameJournal, SameBag, Window!MissionPart
<1> QED BY <1>4, <1>5 DEF v

LEMMA TellsFight ==
  ASSUME NEW s, NEW t, SameRoom(s, t), SameJournal(s, t), SameBag(s, t),
         NEW m, m.t \in {"combat.start", "combat.end", "combat.update"}, m.set = Window!FightPart(t),
         m.t = "combat.update" => s.fight # "none"
  PROVE  Tells(s, t, <<m>>)
<1> SUFFICES ASSUME NEW u, IsUi(u), Agrees(u, s)
    PROVE  IsUi(Window!Reduced(u, m)) /\ Agrees(Window!Reduced(u, m), t)
  BY TellsOne
<1> DEFINE v == Window!Reduced(u, m)
<1>1. v = [u EXCEPT !.fight = t.fight, !.slot = t.slot.act, !.cool = t.cool, !.allies = t.allies]
  <2>1. Window!WithFight(u, m.set) =
          [u EXCEPT !.fight = t.fight, !.slot = t.slot.act, !.cool = t.cool, !.allies = t.allies]
    BY DEF Window!WithFight, Window!FightPart
  <2>2. m.t = "combat.update" => u.fight # "none"
    BY DEF Agrees, FightAgrees
  <2>3. v = Window!WithFight(u, m.set)
    BY <2>2 DEF Window!Reduced
  <2> QED BY <2>1, <2>3
<1> HIDE DEF v
<1>3. /\ v.room = u.room /\ v.foe = u.foe /\ v.mates = u.mates /\ v.talk = u.talk
      /\ v.fight = t.fight /\ v.slot = t.slot.act /\ v.allies = t.allies /\ v.journal = u.journal /\ v.bag = u.bag
      /\ v = [room |-> v.room, foe |-> v.foe, mates |-> v.mates, fight |-> v.fight, slot |-> v.slot,
              cool |-> v.cool, allies |-> v.allies, journal |-> v.journal, bag |-> v.bag, talk |-> v.talk]
  BY <1>1 DEF IsUi
<1>4. IsUi(v)
  BY <1>3 DEF IsUi
<1>5. Agrees(v, t)
  BY <1>3 DEF Agrees, RoomAgrees, FightAgrees, JournalAgrees, SameRoom, SameJournal, SameBag, Window!MissionPart
<1> QED BY <1>4, <1>5 DEF v

LEMMA TellsBag ==
  ASSUME NEW s, NEW t, SameRoom(s, t), SameFight(s, t), SameJournal(s, t),
         NEW m, m.t = "items", m.set.bag = t.bag
  PROVE  Tells(s, t, <<m>>)
<1> SUFFICES ASSUME NEW u, IsUi(u), Agrees(u, s)
    PROVE  IsUi(Window!Reduced(u, m)) /\ Agrees(Window!Reduced(u, m), t)
  BY TellsOne
<1> DEFINE v == Window!Reduced(u, m)
<1>1. v = [u EXCEPT !.bag = t.bag]
  BY DEF Window!Reduced
<1> HIDE DEF v
<1>3. /\ v.room = u.room /\ v.foe = u.foe /\ v.mates = u.mates /\ v.talk = u.talk
      /\ v.fight = u.fight /\ v.slot = u.slot /\ v.allies = u.allies /\ v.journal = u.journal /\ v.bag = t.bag
      /\ v = [room |-> v.room, foe |-> v.foe, mates |-> v.mates, fight |-> v.fight, slot |-> v.slot,
              cool |-> v.cool, allies |-> v.allies, journal |-> v.journal, bag |-> v.bag, talk |-> v.talk]
  BY <1>1 DEF IsUi
<1>4. IsUi(v)
  BY <1>3 DEF IsUi
<1>5. Agrees(v, t)
  BY <1>3 DEF Agrees, RoomAgrees, FightAgrees, JournalAgrees, SameRoom, SameFight, SameJournal, Window!MissionPart
<1> QED BY <1>4, <1>5 DEF v

LEMMA TellsMissions ==
  ASSUME NEW s, NEW t, SameRoom(s, t), SameFight(s, t), SameBag(s, t),
         NEW m, m.t = "missions", m.set = Window!MissionPart(t)
  PROVE  Tells(s, t, <<m>>)
<1> SUFFICES ASSUME NEW u, IsUi(u), Agrees(u, s)
    PROVE  IsUi(Window!Reduced(u, m)) /\ Agrees(Window!Reduced(u, m), t)
  BY TellsOne
<1> DEFINE v == Window!Reduced(u, m)
           j == Window!MissionPart(t).journal
<1>1. v = [u EXCEPT !.journal = j]
  BY DEF Window!Reduced
<1> HIDE DEF v, j
<1>3. /\ v.room = u.room /\ v.foe = u.foe /\ v.mates = u.mates /\ v.talk = u.talk
      /\ v.fight = u.fight /\ v.slot = u.slot /\ v.allies = u.allies /\ v.journal = j /\ v.bag = u.bag
      /\ v = [room |-> v.room, foe |-> v.foe, mates |-> v.mates, fight |-> v.fight, slot |-> v.slot,
              cool |-> v.cool, allies |-> v.allies, journal |-> v.journal, bag |-> v.bag, talk |-> v.talk]
  BY <1>1 DEF IsUi
<1>4. IsUi(v)
  BY <1>3 DEF IsUi
<1>5. Agrees(v, t)
  BY <1>3 DEF Agrees, RoomAgrees, FightAgrees, JournalAgrees, SameRoom, SameFight, SameBag, j
<1> QED BY <1>4, <1>5 DEF v

LEMMA TellsMate ==
  ASSUME NEW s, NEW t, t.pos = s.pos, t.foes = s.foes, SameFight(s, t), SameJournal(s, t), SameBag(s, t), NEW p, NEW m,
         m.set.who = p,
         \/ m.t = "room.enter" /\ Window!Here(t) = Window!Here(s) \cup {p}
         \/ m.t = "room.leave" /\ Window!Here(t) = Window!Here(s) \ {p}
  PROVE  Tells(s, t, <<m>>)
<1> SUFFICES ASSUME NEW u, IsUi(u), Agrees(u, s)
    PROVE  IsUi(Window!Reduced(u, m)) /\ Agrees(Window!Reduced(u, m), t)
  BY TellsOne
<1> DEFINE v == Window!Reduced(u, m)
<1>1. v = [u EXCEPT !.mates = Window!Here(t)]
  <2>1. CASE m.t = "room.enter" /\ Window!Here(t) = Window!Here(s) \cup {p}
    <3>1. v = [u EXCEPT !.mates = @ \cup {p}]
      BY <2>1 DEF Window!Reduced
    <3> QED BY <2>1, <3>1 DEF Agrees, RoomAgrees, IsUi
  <2>2. CASE m.t = "room.leave" /\ Window!Here(t) = Window!Here(s) \ {p}
    <3>1. v = [u EXCEPT !.mates = @ \ {p}]
      BY <2>2 DEF Window!Reduced
    <3> QED BY <2>2, <3>1 DEF Agrees, RoomAgrees, IsUi
  <2> QED BY <2>1, <2>2
<1> HIDE DEF v
<1>3. /\ v.room = u.room /\ v.foe = u.foe /\ v.mates = Window!Here(t) /\ v.talk = u.talk
      /\ v.fight = u.fight /\ v.slot = u.slot /\ v.allies = u.allies /\ v.journal = u.journal /\ v.bag = u.bag
      /\ v = [room |-> v.room, foe |-> v.foe, mates |-> v.mates, fight |-> v.fight, slot |-> v.slot,
              cool |-> v.cool, allies |-> v.allies, journal |-> v.journal, bag |-> v.bag, talk |-> v.talk]
  BY <1>1 DEF IsUi
<1>4. IsUi(v)
  BY <1>3 DEF IsUi
<1>5. Agrees(v, t)
  BY <1>3 DEF Agrees, RoomAgrees, FightAgrees, JournalAgrees, SameFight, SameJournal, SameBag, Window!MissionPart
<1> QED BY <1>4, <1>5 DEF v

LEMMA TellsLine == ASSUME NEW s, NEW line PROVE Tells(s, s, <<Window!Said(line)>>)
<1> SUFFICES ASSUME NEW u, IsUi(u), Agrees(u, s)
    PROVE  LET v == Window!Reduced(u, Window!Said(line)) IN IsUi(v) /\ Agrees(v, s)
  BY TellsOne
<1>1. Window!Reduced(u, Window!Said(line)) = u
  BY DEF Window!Reduced, Window!Said
<1> QED BY <1>1

LEMMA TellsOffers ==
  ASSUME NEW s, NEW n, Home[n] = s.pos
  PROVE  Tells(s, s, <<Window!Offers(s, n)>>)
<1> DEFINE m == Window!Offers(s, n)
<1>0. m.t = "npc.dialogue" /\ m.set.talk.npc = n
  BY DEF Window!Offers, Window!Msg
<1> HIDE DEF m
<1>9. Tells(s, s, <<m>>)
  <2> SUFFICES ASSUME NEW u, IsUi(u), Agrees(u, s)
      PROVE  IsUi(Window!Reduced(u, m)) /\ Agrees(Window!Reduced(u, m), s)
    BY TellsOne
  <2> DEFINE v == Window!Reduced(u, m)
             talk == m.set.talk
  <2>1. v = [u EXCEPT !.talk = talk]
    BY <1>0 DEF Window!Reduced
  <2>2. talk.npc = n
    BY <1>0
  <2> HIDE DEF v, talk
  <2>3. /\ v.room = u.room /\ v.foe = u.foe /\ v.mates = u.mates /\ v.talk = talk
        /\ v.fight = u.fight /\ v.slot = u.slot /\ v.allies = u.allies /\ v.journal = u.journal /\ v.bag = u.bag
        /\ v = [room |-> v.room, foe |-> v.foe, mates |-> v.mates, fight |-> v.fight, slot |-> v.slot,
                cool |-> v.cool, allies |-> v.allies, journal |-> v.journal, bag |-> v.bag, talk |-> v.talk]
    BY <2>1 DEF IsUi
  <2>4. u.room = s.pos
    BY DEF Agrees, RoomAgrees
  <2>5. IsUi(v)
    BY <2>2, <2>3, <2>4 DEF IsUi
  <2>6. Agrees(v, s)
    BY <2>3 DEF Agrees, RoomAgrees, FightAgrees, JournalAgrees
  <2> QED BY <2>5, <2>6 DEF v
<1> QED BY <1>9 DEF m

LEMMA EndsFight ==
  ASSUME NEW s, IsSrv(s)
  PROVE  IsSrv(Window!Left(s)) /\ Tells(s, Window!Left(s), Window!EndOf(s))
<1> DEFINE t == Window!Left(s)
<1>1. t = [s EXCEPT !.fight = "none", !.slot = Window!NoOrder, !.allies = {}]
  BY DEF Window!Left
<1> HIDE DEF t
<1>2. /\ t.pos = s.pos /\ t.foes = s.foes /\ t.at = s.at /\ t.bag = s.bag /\ t.mission = s.mission
      /\ t.fight = "none" /\ t.slot = Window!NoOrder /\ t.allies = {}
      /\ t = [pos |-> t.pos, foes |-> t.foes, at |-> t.at, bag |-> t.bag, fallen |-> t.fallen,
              mission |-> t.mission, topics |-> t.topics, fight |-> t.fight, slot |-> t.slot,
              cool |-> t.cool, allies |-> t.allies]
  BY <1>1 DEF IsSrv
<1>3. IsSrv(t)
  BY <1>2 DEF IsSrv
<1>4. SameRoom(s, t) /\ SameJournal(s, t) /\ SameBag(s, t)
  BY <1>2 DEF SameRoom, SameJournal, SameBag, Window!Here
<1>5. CASE s.fight # "none"
  <2> DEFINE m == Window!Msg("combat.end", Window!FightPart(t))
  <2>1. Window!EndOf(s) = <<m>>
    BY <1>5 DEF Window!EndOf, Window!If, t
  <2>2. m.t = "combat.end" /\ m.set = Window!FightPart(t)
    BY DEF Window!Msg
  <2> HIDE DEF m
  <2> QED BY <1>3, <1>4, <2>1, <2>2, TellsFight DEF t
<1>6. CASE s.fight = "none"
  <2>1. Window!EndOf(s) = <<>>
    BY <1>6 DEF Window!EndOf, Window!If
  <2>2. SameFight(s, t)
    BY <1>2, <1>6 DEF SameFight, IsSrv
  <2> QED BY <1>3, <1>4, <2>1, <2>2, TellsNothing DEF t
<1> QED BY <1>5, <1>6
-----------------------------------------------------------------------------
(* What the server does is told.                                           *)

LEMMA SameIs ==
  ASSUME NEW s, NEW t, t.pos = s.pos, t.foes = s.foes, t.at = s.at
  PROVE  SameRoom(s, t)
BY DEF SameRoom, Window!Here

LEMMA DescribeIs ==
  ASSUME NEW s, NEW line
  PROVE  LET m == [Window!Describe(s) EXCEPT !.line = line]
         IN /\ m.t = "room.describe" /\ m.set = Window!RoomPart(s)
            /\ Window!Describe(s).t = "room.describe" /\ Window!Describe(s).set = Window!RoomPart(s)
BY DEF Window!Describe, Window!Msg

LEMMA UpdateIs ==
  ASSUME NEW s
  PROVE  Window!Update(s).t = "combat.update" /\ Window!Update(s).set = Window!FightPart(s)
BY DEF Window!Update, Window!Msg

\* A change of the fight is told by an update, a start or an end.
LEMMA FightTold ==
  ASSUME NEW s, NEW t, NEW m, t.pos = s.pos, t.foes = s.foes, t.at = s.at, t.mission = s.mission, t.bag = s.bag,
         m.t \in {"combat.start", "combat.end", "combat.update"}, m.set = Window!FightPart(t),
         m.t = "combat.update" => s.fight # "none"
  PROVE  Tells(s, t, <<m>>)
<1>1. SameRoom(s, t) /\ SameJournal(s, t) /\ SameBag(s, t)
  BY SameIs DEF SameJournal, SameBag
<1> QED BY <1>1, TellsFight

LEMMA RoomTold ==
  ASSUME NEW s, NEW t, NEW line, t.fight = s.fight, t.slot = s.slot, t.allies = s.allies,
         t.mission = s.mission, t.bag = s.bag
  PROVE  /\ Tells(s, t, <<Window!Describe(t)>>)
         /\ Tells(s, t, <<[Window!Describe(t) EXCEPT !.line = line]>>)
<1> DEFINE m == [Window!Describe(t) EXCEPT !.line = line]
           d == Window!Describe(t)
<1>1. SameFight(s, t) /\ SameJournal(s, t) /\ SameBag(s, t)
  BY DEF SameFight, SameJournal, SameBag
<1>2. m.t = "room.describe" /\ m.set = Window!RoomPart(t) /\ d.t = "room.describe" /\ d.set = Window!RoomPart(t)
  BY DescribeIs
<1> HIDE DEF m, d
<1>3. Tells(s, t, <<m>>) /\ Tells(s, t, <<d>>)
  BY <1>1, <1>2, TellsRoom
<1> QED BY <1>3 DEF m, d

LEMMA BagTold ==
  ASSUME NEW s, NEW t, t.pos = s.pos, t.foes = s.foes, t.at = s.at, t.mission = s.mission,
         t.fight = s.fight, t.slot = s.slot, t.allies = s.allies
  PROVE  Tells(s, t, <<Window!Msg("items", [bag |-> t.bag])>>)
<1> DEFINE m == Window!Msg("items", [bag |-> t.bag])
<1>1. m.t = "items" /\ m.set.bag = t.bag
  BY DEF Window!Msg
<1>2. SameRoom(s, t) /\ SameFight(s, t) /\ SameJournal(s, t)
  BY SameIs DEF SameFight, SameJournal
<1> HIDE DEF m
<1>3. Tells(s, t, <<m>>)
  BY <1>1, <1>2, TellsBag
<1> QED BY <1>3 DEF m

LEMMA MissionsTold ==
  ASSUME NEW s, NEW t, t.pos = s.pos, t.foes = s.foes, t.at = s.at, t.bag = s.bag,
         t.fight = s.fight, t.slot = s.slot, t.allies = s.allies
  PROVE  Tells(s, t, <<Window!Msg("missions", Window!MissionPart(t))>>)
<1> DEFINE m == Window!Msg("missions", Window!MissionPart(t))
<1>1. m.t = "missions" /\ m.set = Window!MissionPart(t)
  BY DEF Window!Msg
<1>2. SameRoom(s, t) /\ SameFight(s, t) /\ SameBag(s, t)
  BY SameIs DEF SameFight, SameBag
<1> HIDE DEF m
<1>3. Tells(s, t, <<m>>)
  BY <1>1, <1>2, TellsMissions
<1> QED BY <1>3 DEF m

LEMMA NothingTold ==
  ASSUME NEW s, NEW t, t.pos = s.pos, t.foes = s.foes, t.at = s.at, t.bag = s.bag, t.mission = s.mission,
         t.fight = s.fight, t.slot = s.slot, t.allies = s.allies
  PROVE  Tells(s, t, <<>>)
<1>1. SameRoom(s, t) /\ SameFight(s, t) /\ SameBag(s, t) /\ SameJournal(s, t)
  BY SameIs DEF SameFight, SameBag, SameJournal
<1> QED BY <1>1, TellsNothing

\* The server answers, in the state it then has.
Answers(s, out) == IsSrv(out[1]) /\ Tells(s, out[1], out[2])

LEMMA AnswersIs ==
  ASSUME NEW s, NEW t, NEW msgs, IsSrv(t), Tells(s, t, msgs)
  PROVE  Answers(s, <<t, msgs>>)
BY DEF Answers

LEMMA RefusedAnswers == ASSUME NEW s, IsSrv(s) PROVE Answers(s, <<s, <<>>>>)
  BY NothingTold, AnswersIs

LEMMA LookAnswers ==
  ASSUME NEW s, IsSrv(s), NEW a, NEW by, NEW out \in Window!Handled(s, a, by), a[1] \in {"look", "describe"}
  PROVE  Answers(s, out)
<1>1. out = <<s, <<[Window!Describe(s) EXCEPT !.line = s.pos]>>>>
  BY DEF Window!Handled
<1> QED BY <1>1, RoomTold, AnswersIs

LEMMA MoveAnswers ==
  ASSUME NEW s, IsSrv(s), NEW a, NEW by, NEW out \in Window!Handled(s, a, by), a[1] = "move"
  PROVE  Answers(s, out)
<1> DEFINE l == Window!Left(s)
           t == [l EXCEPT !.pos = a[2]]
           m == [Window!Describe(t) EXCEPT !.line = t.pos]
<1>1. out \in {<<s, <<>>>>, <<t, Window!EndOf(s) \o <<m>>>>}
  BY DEF Window!Handled
<1>2. IsSrv(l) /\ Tells(s, l, Window!EndOf(s))
  BY EndsFight
<1> HIDE DEF l
<1>3. IsSrv(t) /\ t.fight = l.fight /\ t.slot = l.slot /\ t.allies = l.allies /\ t.mission = l.mission /\ t.bag = l.bag
  BY <1>2 DEF IsSrv
<1>4. Tells(l, t, <<m>>)
  BY <1>3, RoomTold
<1> HIDE DEF t, m
<1>5. Tells(s, t, Window!EndOf(s) \o <<m>>)
  BY <1>2, <1>4, TellsOn
<1> QED BY <1>1, <1>3, <1>5, AnswersIs, RefusedAnswers

LEMMA AttackAnswers ==
  ASSUME NEW s, IsSrv(s), NEW a, NEW by, NEW out \in Window!Handled(s, a, by), a[1] = "attack"
  PROVE  Answers(s, out)
<1> DEFINE again == [s EXCEPT !.fight = "on"]
           new(f) == [s EXCEPT !.fight = "on", !.allies = f]
           told(f) == Window!Msg("combat.start", Window!FightPart(new(f)))
<1>1. \/ out = <<s, <<>>>>
      \/ s.fight = "idle" /\ out = <<again, <<Window!Update(again)>>>>
      \/ \E f : out = <<new(f), <<told(f)>>>>
  BY DEF Window!Handled
<1>2. CASE s.fight = "idle" /\ out = <<again, <<Window!Update(again)>>>>
  <2>1. IsSrv(again) /\ again.pos = s.pos /\ again.foes = s.foes /\ again.at = s.at
        /\ again.mission = s.mission /\ again.bag = s.bag
    BY DEF IsSrv
  <2> HIDE DEF again
  <2>2. Tells(s, again, <<Window!Update(again)>>)
    BY <1>2, <2>1, UpdateIs, FightTold
  <2> QED BY <1>2, <2>1, <2>2, AnswersIs
<1>3. ASSUME NEW f, out = <<new(f), <<told(f)>>>> PROVE Answers(s, out)
  <2> DEFINE t == new(f)
             m == told(f)
  <2>2. m.t = "combat.start" /\ m.set = Window!FightPart(t)
    BY DEF Window!Msg
  <2>3. out = <<t, <<m>>>> /\ t = [s EXCEPT !.fight = "on", !.allies = f]
    BY <1>3
  <2> HIDE DEF t, m
  <2>5. /\ t.pos = s.pos /\ t.foes = s.foes /\ t.at = s.at /\ t.mission = s.mission /\ t.bag = s.bag
        /\ t.fight = "on"
        /\ t = [pos |-> t.pos, foes |-> t.foes, at |-> t.at, bag |-> t.bag, fallen |-> t.fallen,
                mission |-> t.mission, topics |-> t.topics, fight |-> t.fight, slot |-> t.slot,
                cool |-> t.cool, allies |-> t.allies]
    BY <2>3 DEF IsSrv
  <2>1. IsSrv(t)
    BY <2>5 DEF IsSrv
  <2>4. Tells(s, t, <<m>>)
    BY <2>2, <2>5, FightTold
  <2> QED BY <2>1, <2>3, <2>4, AnswersIs
<1> QED BY <1>1, <1>2, <1>3, RefusedAnswers

\* An order is told by an update, and so is the end of hostilities.
LEMMA OrderAnswers ==
  ASSUME NEW s, IsSrv(s), NEW a, NEW by, s.fight # "none", NEW t,
         t \in {Window!Order1(s, a, by), [s EXCEPT !.fight = "idle", !.slot = Window!NoOrder]}
  PROVE  Answers(s, <<t, <<Window!Update(t)>>>>)
<1>1. IsSrv(t) /\ t.pos = s.pos /\ t.foes = s.foes /\ t.at = s.at /\ t.mission = s.mission /\ t.bag = s.bag
  <2>1. CASE t = Window!Order1(s, a, by)
    BY <2>1 DEF Window!Order1, IsSrv
  <2>2. CASE t = [s EXCEPT !.fight = "idle", !.slot = Window!NoOrder]
    BY <2>2 DEF IsSrv
  <2> QED BY <2>1, <2>2
<1>2. Tells(s, t, <<Window!Update(t)>>)
  BY <1>1, UpdateIs, FightTold
<1> QED BY <1>1, <1>2, AnswersIs

LEMMA FightAnswers ==
  ASSUME NEW s, IsSrv(s), NEW a, NEW by, NEW out \in Window!Handled(s, a, by), a[1] \in {"skill", "stop"}
  PROVE  Answers(s, out)
<1> DEFINE t == Window!Order1(s, a, by)
           idle == [s EXCEPT !.fight = "idle", !.slot = Window!NoOrder]
<1>1. \/ out = <<s, <<>>>>
      \/ s.fight # "none" /\ out = <<t, <<Window!Update(t)>>>>
      \/ s.fight # "none" /\ out = <<idle, <<Window!Update(idle)>>>>
  <2>1. CASE a[1] = "skill"
    BY <2>1 DEF Window!Handled
  <2>2. CASE a[1] = "stop"
    BY <2>2 DEF Window!Handled
  <2> QED BY <2>1, <2>2
<1> HIDE DEF Window!Order1
<1> QED BY <1>1, OrderAnswers, RefusedAnswers

LEMMA SpendAnswers ==
  ASSUME NEW s, IsSrv(s), NEW i
  PROVE  LET t == [s EXCEPT !.bag = @ \ {i}] IN Answers(s, <<t, <<Window!Msg("items", [bag |-> t.bag])>>>>)
<1> DEFINE t == [s EXCEPT !.bag = @ \ {i}]
<1>1. IsSrv(t) /\ t.pos = s.pos /\ t.foes = s.foes /\ t.at = s.at /\ t.mission = s.mission
      /\ t.fight = s.fight /\ t.slot = s.slot /\ t.allies = s.allies
  BY DEF IsSrv
<1> HIDE DEF t
<1>2. Tells(s, t, <<Window!Msg("items", [bag |-> t.bag])>>)
  BY <1>1, BagTold
<1>3. Answers(s, <<t, <<Window!Msg("items", [bag |-> t.bag])>>>>)
  BY <1>1, <1>2, AnswersIs
<1> QED BY <1>3 DEF t

LEMMA ItemAnswers ==
  ASSUME NEW s, IsSrv(s), NEW a, NEW by, NEW out \in Window!Handled(s, a, by), a[1] \in {"use_item", "give"}
  PROVE  Answers(s, out)
<1> DEFINE spent(i) == [s EXCEPT !.bag = @ \ {i}]
           t == Window!Order1(s, a, by)
<1>1. \/ out = <<s, <<>>>>
      \/ s.fight # "none" /\ out = <<t, <<Window!Update(t)>>>>
      \/ \E i : out = <<spent(i), <<Window!Msg("items", [bag |-> spent(i).bag])>>>>
  <2>1. CASE a[1] = "use_item"
    BY <2>1 DEF Window!Handled
  <2>2. CASE a[1] = "give"
    BY <2>2 DEF Window!Handled
  <2> QED BY <2>1, <2>2
<1>2. ASSUME NEW i, out = <<spent(i), <<Window!Msg("items", [bag |-> spent(i).bag])>>>> PROVE Answers(s, out)
  BY <1>2, SpendAnswers
<1>3. CASE s.fight # "none" /\ out = <<t, <<Window!Update(t)>>>>
  BY <1>3, OrderAnswers
<1> QED BY <1>1, <1>2, <1>3, RefusedAnswers

LEMMA TalkAnswers ==
  ASSUME NEW s, IsSrv(s), NEW a, NEW by, NEW out \in Window!Handled(s, a, by), a[1] \in {"talk", "ask"}
  PROVE  Answers(s, out)
<1>1. \/ out = <<s, <<>>>>
      \/ Home[a[2]] = s.pos /\ out = <<s, <<Window!Offers(s, a[2])>>>>
  <2>1. CASE a[1] = "talk"
    BY <2>1 DEF Window!Handled
  <2>2. CASE a[1] = "ask"
    BY <2>2 DEF Window!Handled
  <2> QED BY <2>1, <2>2
<1> QED BY <1>1, TellsOffers, AnswersIs, RefusedAnswers

LEMMA MissionAnswers ==
  ASSUME NEW s, IsSrv(s), NEW a, NEW by, NEW out \in Window!Handled(s, a, by),
         a[1] \in {"accept", "turn_in", "abandon"}
  PROVE  Answers(s, out)
<1> DEFINE t(m, x) == [s EXCEPT !.mission[m] = x]
<1>1. \/ out = <<s, <<>>>>
      \/ \E m, x : out = <<t(m, x), <<Window!Msg("missions", Window!MissionPart(t(m, x)))>>>>
  <2>1. CASE a[1] = "accept"
    BY <2>1 DEF Window!Handled
  <2>2. CASE a[1] = "turn_in"
    BY <2>2 DEF Window!Handled
  <2>3. CASE a[1] = "abandon"
    BY <2>3 DEF Window!Handled
  <2> QED BY <2>1, <2>2, <2>3
<1>2. ASSUME NEW m, NEW x, out = <<t(m, x), <<Window!Msg("missions", Window!MissionPart(t(m, x)))>>>>
      PROVE  Answers(s, out)
  <2> DEFINE u == t(m, x)
  <2>1. IsSrv(u) /\ u.pos = s.pos /\ u.foes = s.foes /\ u.at = s.at /\ u.bag = s.bag
        /\ u.fight = s.fight /\ u.slot = s.slot /\ u.allies = s.allies
    BY DEF IsSrv
  <2>2. out = <<u, <<Window!Msg("missions", Window!MissionPart(u))>>>>
    BY <1>2
  <2> HIDE DEF u
  <2>3. Tells(s, u, <<Window!Msg("missions", Window!MissionPart(u))>>)
    BY <2>1, MissionsTold
  <2> QED BY <2>1, <2>2, <2>3, AnswersIs
<1> QED BY <1>1, <1>2, RefusedAnswers

LEMMA HandledAnswers ==
  ASSUME NEW s, IsSrv(s), NEW a, NEW by, NEW out \in Window!Handled(s, a, by)
  PROVE  Answers(s, out)
<1> DEFINE verbs == {"look", "describe", "move", "attack", "skill", "stop", "use_item", "give", "talk", "ask",
                     "accept", "turn_in", "abandon"}
<1>1. a[1] \notin verbs => out = <<s, <<>>>>
  BY DEF Window!Handled
<1> QED BY <1>1, LookAnswers, MoveAnswers, AttackAnswers, FightAnswers, ItemAnswers, TalkAnswers, MissionAnswers,
           RefusedAnswers
-----------------------------------------------------------------------------
(* What happens to the character is told.                                  *)

\* The screen, told all that is under way, agrees with the server.
ScreenInv ==
  /\ IsSrv(srv) /\ IsSeq(news)
  /\ \E v : Becomes(ui, news, v) /\ Agrees(v, srv)

LEMMA ToldOn ==
  ASSUME ScreenInv, NEW t, NEW msgs, Answers(srv, <<t, msgs>>), srv' = t, news' = news \o msgs, ui' = ui
  PROVE  ScreenInv'
<1>1. IsSrv(t) /\ Tells(srv, t, msgs) /\ IsSeq(msgs)
  BY DEF Answers, Tells
<1>2. IsSeq(news)
  BY DEF ScreenInv
<1>3. PICK v : Becomes(ui, news, v) /\ Agrees(v, srv)
  BY DEF ScreenInv
<1>4. IsUi(v)
  BY <1>2, <1>3, BecomesIs
<1>5. PICK w : Becomes(v, msgs, w) /\ Agrees(w, t)
  BY <1>1, <1>3, <1>4 DEF Tells
<1>6. Becomes(ui, news \o msgs, w) /\ IsSeq(news \o msgs)
  BY <1>1, <1>2, <1>3, <1>5, BecomesOn, JoinIs
<1>7. IsSrv(srv') /\ Becomes(ui', news', w) /\ Agrees(w, srv') /\ IsSeq(news')
  BY <1>1, <1>5, <1>6
<1> QED BY <1>7 DEF ScreenInv

LEMMA HappensTold ==
  ASSUME ScreenInv, NEW t, NEW msgs, Answers(srv, <<t, msgs>>), Window!Happens(t, msgs)
  PROVE  ScreenInv'
BY ToldOn DEF Window!Happens, Window!page

LEMMA ServeTold == ASSUME ScreenInv, Window!Serve PROVE ScreenInv'
<1> DEFINE a == Head(orders)
<1>1. PICK out \in Window!Handled(srv, a.act, a.by) : srv' = out[1] /\ news' = news \o out[2]
  BY DEF Window!Serve
<1>2. Answers(srv, out)
  BY <1>1, HandledAnswers DEF ScreenInv
<1>3. Answers(srv, <<out[1], out[2]>>)
  BY <1>2 DEF Answers
<1>4. ui' = ui
  BY DEF Window!Serve
<1> QED BY <1>1, <1>3, <1>4, ToldOn

LEMMA SwingTold == ASSUME ScreenInv, Window!Swing PROVE ScreenInv'
<1> DEFINE cool == IF srv.slot.act # Window!NoAct /\ srv.slot.act[1] = "skill"
                   THEN srv.cool \cup {srv.slot.act[2]} ELSE srv.cool
           bag == IF srv.slot.act # Window!NoAct /\ srv.slot.act[1] = "use_item"
                  THEN srv.bag \ {srv.slot.act[2]} ELSE srv.bag
           u == [srv EXCEPT !.bag = bag]
           t == [srv EXCEPT !.slot = Window!NoOrder, !.cool = cool, !.bag = bag]
           items == Window!Msg("items", [bag |-> t.bag])
           msgs == Window!If(t.bag # srv.bag, <<items>>) \o <<Window!Update(t)>>
<1>1. srv.fight = "on" /\ Window!Happens(t, msgs)
  BY DEF Window!Swing
<1>2. IsSrv(srv)
  BY DEF ScreenInv
<1> HIDE DEF cool, bag
<1>3. /\ u.pos = srv.pos /\ u.foes = srv.foes /\ u.at = srv.at /\ u.mission = srv.mission
      /\ u.fight = srv.fight /\ u.slot = srv.slot /\ u.allies = srv.allies /\ u.bag = bag
  BY <1>2 DEF IsSrv
<1>4. /\ t.pos = srv.pos /\ t.foes = srv.foes /\ t.at = srv.at /\ t.mission = srv.mission
      /\ t.fight = srv.fight /\ t.bag = bag
      /\ t = [pos |-> t.pos, foes |-> t.foes, at |-> t.at, bag |-> t.bag, fallen |-> t.fallen,
              mission |-> t.mission, topics |-> t.topics, fight |-> t.fight, slot |-> t.slot,
              cool |-> t.cool, allies |-> t.allies]
  <2>1. t = [srv EXCEPT !.slot = Window!NoOrder, !.cool = cool, !.bag = bag]
    OBVIOUS
  <2>2. IsSrv(srv)
    BY <1>2
  <2> HIDE DEF t
  <2>3. /\ t.pos = srv.pos /\ t.foes = srv.foes /\ t.at = srv.at /\ t.mission = srv.mission
        /\ t.fight = srv.fight /\ t.bag = bag
    BY <2>1, <2>2 DEF IsSrv
  <2>4. t = [pos |-> t.pos, foes |-> t.foes, at |-> t.at, bag |-> t.bag, fallen |-> t.fallen,
            mission |-> t.mission, topics |-> t.topics, fight |-> t.fight, slot |-> t.slot,
            cool |-> t.cool, allies |-> t.allies]
    BY <2>1, <2>2 DEF IsSrv
  <2> QED BY <2>3, <2>4
<1> HIDE DEF u, t
<1>8. IsSrv(t)
  BY <1>1, <1>2, <1>4 DEF IsSrv
<1>5. Tells(srv, u, Window!If(t.bag # srv.bag, <<items>>))
  <2>1. CASE t.bag # srv.bag
    <3>1. Window!If(t.bag # srv.bag, <<items>>) = <<Window!Msg("items", [bag |-> u.bag])>>
      BY <1>3, <1>4, <2>1 DEF Window!If
    <3> QED BY <1>3, <3>1, BagTold
  <2>2. CASE t.bag = srv.bag
    <3>1. Window!If(t.bag # srv.bag, <<items>>) = <<>>
      BY <2>2 DEF Window!If
    <3> QED BY <1>3, <1>4, <2>2, <3>1, NothingTold
  <2> QED BY <2>1, <2>2
<1>6. Tells(u, t, <<Window!Update(t)>>)
  BY <1>1, <1>3, <1>4, UpdateIs, FightTold
<1> HIDE DEF items
<1>7. Tells(srv, t, msgs)
  BY <1>5, <1>6, TellsOn
<1> QED BY <1>1, <1>7, <1>8, AnswersIs, HappensTold

LEMMA CoolsTold == ASSUME ScreenInv, Window!Cools \/ Window!AllyJoins PROVE ScreenInv'
<1>1. srv.fight # "none" /\ \E c, f :
        LET t == [srv EXCEPT !.cool = c, !.allies = f] IN Window!Happens(t, <<Window!Update(t)>>)
  <2>0. IsSrv(srv)
    BY DEF ScreenInv
  <2>1. CASE Window!Cools
    <3>1. PICK c \in srv.cool : LET t == [srv EXCEPT !.cool = @ \ {c}] IN Window!Happens(t, <<Window!Update(t)>>)
      BY <2>1 DEF Window!Cools
    <3>2. [srv EXCEPT !.cool = @ \ {c}] = [srv EXCEPT !.cool = srv.cool \ {c}, !.allies = srv.allies]
      BY <2>0 DEF IsSrv
    <3>3. srv.fight # "none"
      BY <2>1 DEF Window!Cools
    <3> HIDE DEF Window!Happens
    <3> QED BY <3>1, <3>2, <3>3
  <2>2. CASE Window!AllyJoins
    <3>1. PICK p \in Window!Here(srv) \ srv.allies :
            LET t == [srv EXCEPT !.allies = @ \cup {p}] IN Window!Happens(t, <<Window!Update(t)>>)
      BY <2>2 DEF Window!AllyJoins
    <3>2. [srv EXCEPT !.allies = @ \cup {p}] = [srv EXCEPT !.cool = srv.cool, !.allies = srv.allies \cup {p}]
      BY <2>0 DEF IsSrv
    <3>3. srv.fight # "none"
      BY <2>2 DEF Window!AllyJoins
    <3> QED BY <3>1, <3>2, <3>3
  <2> QED BY <2>1, <2>2
<1>2. PICK c, f : LET t == [srv EXCEPT !.cool = c, !.allies = f] IN Window!Happens(t, <<Window!Update(t)>>)
  BY <1>1
<1> DEFINE t == [srv EXCEPT !.cool = c, !.allies = f]
<1>3. /\ t.pos = srv.pos /\ t.foes = srv.foes /\ t.at = srv.at /\ t.mission = srv.mission /\ t.bag = srv.bag
      /\ t.fight = srv.fight
      /\ t = [pos |-> t.pos, foes |-> t.foes, at |-> t.at, bag |-> t.bag, fallen |-> t.fallen,
              mission |-> t.mission, topics |-> t.topics, fight |-> t.fight, slot |-> t.slot,
              cool |-> t.cool, allies |-> t.allies]
  <2>1. t = [srv EXCEPT !.cool = c, !.allies = f]
    OBVIOUS
  <2>2. IsSrv(srv)
    BY DEF ScreenInv
  <2> HIDE DEF t
  <2>3. /\ t.pos = srv.pos /\ t.foes = srv.foes /\ t.at = srv.at /\ t.mission = srv.mission /\ t.bag = srv.bag
        /\ t.fight = srv.fight
    BY <2>1, <2>2 DEF IsSrv
  <2>4. t = [pos |-> t.pos, foes |-> t.foes, at |-> t.at, bag |-> t.bag, fallen |-> t.fallen,
            mission |-> t.mission, topics |-> t.topics, fight |-> t.fight, slot |-> t.slot,
            cool |-> t.cool, allies |-> t.allies]
    BY <2>1, <2>2 DEF IsSrv
  <2> QED BY <2>3, <2>4
<1>4. Window!Happens(t, <<Window!Update(t)>>)
  BY <1>2
<1> HIDE DEF t
<1>6. IsSrv(t)
  BY <1>1, <1>3 DEF ScreenInv, IsSrv
<1>5. Tells(srv, t, <<Window!Update(t)>>)
  BY <1>1, <1>3, UpdateIs, FightTold
<1> QED BY <1>4, <1>5, <1>6, AnswersIs, HappensTold

LEMMA JoinNothing == ASSUME NEW l, IsSeq(l) PROVE l \o <<>> = l
<1> DEFINE R == {l[i] : i \in DOMAIN l}
<1>1. l \in Seq(R)
  BY DEF IsSeq
<1> HIDE DEF R
<1> QED BY <1>1, ConcatEmptySeq

LEMMA PairJoins == ASSUME NEW x, NEW y PROVE <<x>> \o <<y>> = <<x, y>>
<1> DEFINE c == <<x>> \o <<y>>
<1>1. IsSeq(c) /\ Len(c) = 2 /\ c[1] = x /\ c[2] = y
  <2>1. 1 \in 1..Len(<<x>>) /\ 1 \in 1..Len(<<y>>) /\ Len(<<x>>) + 1 = 2
    BY OneIs
  <2> QED BY <2>1, OneIs, JoinIs
<1> HIDE DEF c
<1>2. c = [i \in 1..2 |-> c[i]]
  BY <1>1, LenProperties DEF IsSeq
<1>3. \A i \in 1..2 : c[i] = <<x, y>>[i]
  BY <1>1
<1>4. <<x, y>> = [i \in 1..2 |-> <<x, y>>[i]]
  OBVIOUS
<1> QED BY <1>2, <1>3, <1>4 DEF c

LEMMA EndTold ==
  ASSUME ScreenInv, Window!Victory \/ Window!Defeat
  PROVE  ScreenInv'
<1> DEFINE l == Window!Left(srv)
<1>1. IsSrv(srv) /\ IsSrv(l) /\ Tells(srv, l, Window!EndOf(srv))
  BY EndsFight DEF ScreenInv
<1>2. CASE Window!Victory
  <2> DEFINE t == [l EXCEPT !.foes = @ \ {srv.pos}]
  <2>1. Window!Happens(t, Window!EndOf(srv) \o <<Window!Describe(t)>>)
    BY <1>2 DEF Window!Victory
  <2> HIDE DEF l
  <2>2. IsSrv(t) /\ t.fight = l.fight /\ t.slot = l.slot /\ t.allies = l.allies /\ t.mission = l.mission /\ t.bag = l.bag
    BY <1>1 DEF IsSrv
  <2> HIDE DEF t
  <2>3. Tells(l, t, <<Window!Describe(t)>>)
    BY <2>2, RoomTold
  <2>4. Tells(srv, t, Window!EndOf(srv) \o <<Window!Describe(t)>>)
    BY <1>1, <2>3, TellsOn
  <2> QED BY <2>1, <2>2, <2>4, AnswersIs, HappensTold
<1>3. CASE Window!Defeat
  <2> DEFINE t == [l EXCEPT !.fallen = TRUE]
  <2>1. Window!Happens(t, Window!EndOf(srv))
    BY <1>3 DEF Window!Defeat
  <2> HIDE DEF l
  <2>2. /\ t.fight = l.fight /\ t.slot = l.slot /\ t.allies = l.allies /\ t.mission = l.mission
        /\ t.bag = l.bag /\ t.pos = l.pos /\ t.foes = l.foes /\ t.at = l.at
        /\ t = [pos |-> t.pos, foes |-> t.foes, at |-> t.at, bag |-> t.bag, fallen |-> t.fallen,
                mission |-> t.mission, topics |-> t.topics, fight |-> t.fight, slot |-> t.slot,
                cool |-> t.cool, allies |-> t.allies]
    <3>1. t = [l EXCEPT !.fallen = TRUE]
      OBVIOUS
    <3>2. IsSrv(l)
      BY <1>1
    <3> HIDE DEF t
    <3>3. /\ t.fight = l.fight /\ t.slot = l.slot /\ t.allies = l.allies /\ t.mission = l.mission
          /\ t.bag = l.bag /\ t.pos = l.pos /\ t.foes = l.foes /\ t.at = l.at
      BY <3>1, <3>2 DEF IsSrv
    <3>4. t = [pos |-> t.pos, foes |-> t.foes, at |-> t.at, bag |-> t.bag, fallen |-> t.fallen,
              mission |-> t.mission, topics |-> t.topics, fight |-> t.fight, slot |-> t.slot,
              cool |-> t.cool, allies |-> t.allies]
      BY <3>1, <3>2 DEF IsSrv
    <3> QED BY <3>3, <3>4
  <2> HIDE DEF t
  <2>6. IsSrv(t)
    BY <1>1, <2>2 DEF IsSrv
  <2>3. Tells(l, t, <<>>)
    BY <2>2, NothingTold
  <2>4. Tells(srv, t, Window!EndOf(srv) \o <<>>)
    BY <1>1, <2>3, TellsOn
  <2>5. Window!EndOf(srv) \o <<>> = Window!EndOf(srv)
    BY <1>1, JoinNothing DEF Tells
  <2> QED BY <2>1, <2>6, <2>4, <2>5, AnswersIs, HappensTold
<1> QED BY <1>2, <1>3

LEMMA RoomChangeTold ==
  ASSUME ScreenInv, Window!EnemyReturns \/ Window!Revive
  PROVE  ScreenInv'
<1>0. IsSrv(srv)
  BY DEF ScreenInv
<1>1. CASE Window!EnemyReturns
  <2>1. PICK r \in Lairs \ srv.foes :
          LET t == [srv EXCEPT !.foes = @ \cup {r}]
          IN Window!Happens(t, Window!If(r = srv.pos, <<Window!Describe(t)>>))
    BY <1>1 DEF Window!EnemyReturns
  <2> DEFINE t == [srv EXCEPT !.foes = @ \cup {r}]
  <2>2. Window!Happens(t, Window!If(r = srv.pos, <<Window!Describe(t)>>))
    BY <2>1
  <2>3. /\ IsSrv(t) /\ t.fight = srv.fight /\ t.slot = srv.slot /\ t.allies = srv.allies
        /\ t.mission = srv.mission /\ t.bag = srv.bag /\ t.pos = srv.pos /\ t.at = srv.at
        /\ t.foes = srv.foes \cup {r}
    BY <1>0 DEF IsSrv
  <2> HIDE DEF t
  <2>4. CASE r = srv.pos
    <3>1. Window!If(r = srv.pos, <<Window!Describe(t)>>) = <<Window!Describe(t)>>
      BY <2>4 DEF Window!If
    <3>2. Tells(srv, t, <<Window!Describe(t)>>)
      BY <2>3, RoomTold
    <3> QED BY <2>2, <2>3, <3>1, <3>2, AnswersIs, HappensTold
  <2>5. CASE r # srv.pos
    <3>1. Window!If(r = srv.pos, <<Window!Describe(t)>>) = <<>>
      BY <2>5 DEF Window!If
    <3>2. (t.pos \in t.foes) = (srv.pos \in srv.foes)
      BY <2>3, <2>5
    <3>3. SameRoom(srv, t)
      BY <2>3, <3>2 DEF SameRoom, Window!Here
    <3>4. SameFight(srv, t) /\ SameJournal(srv, t) /\ SameBag(srv, t)
      BY <2>3 DEF SameFight, SameJournal, SameBag
    <3>5. Tells(srv, t, <<>>)
      BY <3>3, <3>4, TellsNothing
    <3> QED BY <2>2, <2>3, <3>1, <3>5, AnswersIs, HappensTold
  <2> QED BY <2>4, <2>5
<1>2. CASE Window!Revive
  <2> DEFINE t == [srv EXCEPT !.fallen = FALSE, !.pos = Hall]
             m == [Window!Describe(t) EXCEPT !.line = Hall]
             line == Window!Said("revived")
  <2>1. Window!Happens(t, <<line, m>>)
    BY <1>2 DEF Window!Revive
  <2>2. /\ t.fight = srv.fight /\ t.slot = srv.slot /\ t.allies = srv.allies
        /\ t.mission = srv.mission /\ t.bag = srv.bag /\ t.at = srv.at
        /\ t = [pos |-> t.pos, foes |-> t.foes, at |-> t.at, bag |-> t.bag, fallen |-> t.fallen,
                mission |-> t.mission, topics |-> t.topics, fight |-> t.fight, slot |-> t.slot,
                cool |-> t.cool, allies |-> t.allies]
    <3>1. t = [srv EXCEPT !.fallen = FALSE, !.pos = Hall]
      OBVIOUS
    <3>2. IsSrv(srv)
      BY <1>0
    <3> HIDE DEF t
    <3>3. /\ t.fight = srv.fight /\ t.slot = srv.slot /\ t.allies = srv.allies
          /\ t.mission = srv.mission /\ t.bag = srv.bag /\ t.at = srv.at
      BY <3>1, <3>2 DEF IsSrv
    <3>4. t = [pos |-> t.pos, foes |-> t.foes, at |-> t.at, bag |-> t.bag, fallen |-> t.fallen,
              mission |-> t.mission, topics |-> t.topics, fight |-> t.fight, slot |-> t.slot,
              cool |-> t.cool, allies |-> t.allies]
      BY <3>1, <3>2 DEF IsSrv
    <3> QED BY <3>3, <3>4
  <2> HIDE DEF t
  <2>7. IsSrv(t)
    BY <1>0, <2>2 DEF IsSrv
  <2>3. Tells(srv, t, <<m>>)
    BY <2>2, RoomTold
  <2>4. Tells(srv, srv, <<line>>)
    BY TellsLine
  <2> HIDE DEF m, line
  <2>5. Tells(srv, t, <<line>> \o <<m>>)
    BY <2>3, <2>4, TellsOn
  <2>6. <<line>> \o <<m>> = <<line, m>>
    BY PairJoins
  <2> QED BY <2>1, <2>7, <2>5, <2>6, AnswersIs, HappensTold
<1> QED BY <1>1, <1>2

LEMMA MateTold == ASSUME ScreenInv, Window!MateMoves PROVE ScreenInv'
<1>0. IsSrv(srv)
  BY DEF ScreenInv
<1>1. PICK p \in Mates : \E r \in Rooms \ {srv.at[p]} :
        LET t == [srv EXCEPT !.at[p] = r, !.allies = srv.allies \ {p}]
        IN Window!Happens(t, Window!If(p \in srv.allies, <<Window!Update(t)>>)
             \o (IF r = srv.pos THEN <<Window!Msg("room.enter", [who |-> p])>>
                 ELSE Window!If(p \in Window!Here(srv), <<Window!Msg("room.leave", [who |-> p])>>)))
  BY DEF Window!MateMoves
<1>2. PICK r \in Rooms \ {srv.at[p]} :
        LET t == [srv EXCEPT !.at[p] = r, !.allies = srv.allies \ {p}]
        IN Window!Happens(t, Window!If(p \in srv.allies, <<Window!Update(t)>>)
             \o (IF r = srv.pos THEN <<Window!Msg("room.enter", [who |-> p])>>
                 ELSE Window!If(p \in Window!Here(srv), <<Window!Msg("room.leave", [who |-> p])>>)))
  BY <1>1
<1> DEFINE u == [srv EXCEPT !.allies = srv.allies \ {p}]
           t == [srv EXCEPT !.at[p] = r, !.allies = srv.allies \ {p}]
           first == Window!If(p \in srv.allies, <<Window!Update(t)>>)
           enter == Window!Msg("room.enter", [who |-> p])
           leave == Window!Msg("room.leave", [who |-> p])
           second == IF r = srv.pos THEN <<enter>> ELSE Window!If(p \in Window!Here(srv), <<leave>>)
<1>3. Window!Happens(t, first \o second)
  BY <1>2
<1>4. /\ u.pos = srv.pos /\ u.foes = srv.foes /\ u.at = srv.at /\ u.mission = srv.mission /\ u.bag = srv.bag
      /\ u.fight = srv.fight /\ u.slot = srv.slot /\ u.cool = srv.cool /\ u.allies = srv.allies \ {p}
  BY <1>0 DEF IsSrv
<1>5. /\ t.pos = srv.pos /\ t.foes = srv.foes /\ t.mission = srv.mission /\ t.bag = srv.bag
      /\ t.fight = srv.fight /\ t.slot = srv.slot /\ t.cool = srv.cool /\ t.allies = srv.allies \ {p}
      /\ t.at = [srv.at EXCEPT ![p] = r]
      /\ t = [pos |-> t.pos, foes |-> t.foes, at |-> t.at, bag |-> t.bag, fallen |-> t.fallen,
              mission |-> t.mission, topics |-> t.topics, fight |-> t.fight, slot |-> t.slot,
              cool |-> t.cool, allies |-> t.allies]
  <2> DEFINE at == [srv.at EXCEPT ![p] = r]
             allies == srv.allies \ {p}
  <2>1. t = [srv EXCEPT !.at = at, !.allies = allies]
    BY <1>0 DEF IsSrv
  <2> HIDE DEF t, at, allies
  <2>2. /\ t.pos = srv.pos /\ t.foes = srv.foes /\ t.mission = srv.mission /\ t.bag = srv.bag
        /\ t.fight = srv.fight /\ t.slot = srv.slot /\ t.cool = srv.cool /\ t.allies = allies /\ t.at = at
    BY <1>0, <2>1 DEF IsSrv
  <2>3. t = [pos |-> t.pos, foes |-> t.foes, at |-> t.at, bag |-> t.bag, fallen |-> t.fallen,
             mission |-> t.mission, topics |-> t.topics, fight |-> t.fight, slot |-> t.slot,
             cool |-> t.cool, allies |-> t.allies]
    BY <1>0, <2>1 DEF IsSrv
  <2> QED BY <2>2, <2>3 DEF at, allies
<1>6. enter.t = "room.enter" /\ enter.set.who = p /\ leave.t = "room.leave" /\ leave.set.who = p
  BY DEF Window!Msg
<1> HIDE DEF u, t, enter, leave
<1>7. IsSrv(t)
  BY <1>0, <1>5 DEF IsSrv
<1>8. Tells(srv, u, first)
  <2>1. CASE p \in srv.allies
    <3>1. first = <<Window!Update(t)>>
      BY <2>1 DEF Window!If
    <3>2. srv.fight # "none"
      BY <1>0, <2>1 DEF IsSrv
    <3>3. Window!FightPart(t) = Window!FightPart(u)
      BY <1>4, <1>5 DEF Window!FightPart
    <3>4. Tells(srv, u, <<Window!Update(t)>>)
      BY <1>4, <3>2, <3>3, UpdateIs, FightTold
    <3> QED BY <3>1, <3>4
  <2>2. CASE p \notin srv.allies
    <3>1. first = <<>> /\ u.allies = srv.allies
      BY <1>4, <2>2 DEF Window!If
    <3> QED BY <1>4, <3>1, NothingTold
  <2> QED BY <2>1, <2>2
<1>9. Tells(u, t, second)
  <2>1. SameFight(u, t) /\ SameJournal(u, t) /\ SameBag(u, t) /\ t.pos = u.pos /\ t.foes = u.foes
    BY <1>4, <1>5 DEF SameFight, SameJournal, SameBag
  <2>2. \A q \in Mates : t.at[q] = IF q = p THEN r ELSE u.at[q]
    BY <1>0, <1>4, <1>5 DEF IsSrv
  <2>3. CASE r = srv.pos
    <3>1. Window!Here(t) = Window!Here(u) \cup {p}
      BY <1>4, <1>5, <2>2, <2>3 DEF Window!Here
    <3>2. Tells(u, t, <<enter>>)
      BY <1>6, <2>1, <3>1, TellsMate
    <3> QED BY <2>3, <3>2
  <2>4. CASE r # srv.pos
    <3>1. Window!Here(t) = Window!Here(u) \ {p}
      BY <1>4, <1>5, <2>2, <2>4 DEF Window!Here
    <3>2. Tells(u, t, <<leave>>)
      BY <1>6, <2>1, <3>1, TellsMate
    <3>3. CASE p \in Window!Here(srv)
      <4>1. second = <<leave>>
        BY <2>4, <3>3 DEF Window!If
      <4> QED BY <3>2, <4>1
    <3>4. CASE p \notin Window!Here(srv)
      <4>1. second = <<>>
        BY <2>4, <3>4 DEF Window!If
      <4>2. Window!Here(srv) = Window!Here(u)
        BY <1>4 DEF Window!Here
      <4>3. SameRoom(u, t)
        BY <1>4, <1>5, <3>1, <3>4, <4>2 DEF SameRoom
      <4>4. Tells(u, t, <<>>)
        BY <2>1, <4>3, TellsNothing
      <4> QED BY <4>1, <4>4
    <3> QED BY <3>3, <3>4
  <2> QED BY <2>3, <2>4
<1> HIDE DEF first, second
<1>10. Tells(srv, t, first \o second)
  BY <1>8, <1>9, TellsOn
<1> QED BY <1>3, <1>7, <1>10, AnswersIs, HappensTold

LEMMA ProgressTold ==
  ASSUME ScreenInv, Window!Progress \/ Window!TopicOpens
  PROVE  ScreenInv'
<1>0. IsSrv(srv)
  BY DEF ScreenInv
<1>1. CASE Window!Progress
  <2>1. PICK m \in Missions :
          LET t == [srv EXCEPT !.mission[m] = "complete"]
          IN Window!Happens(t, <<Window!Msg("missions", Window!MissionPart(t))>>)
    BY <1>1 DEF Window!Progress
  <2> DEFINE t == [srv EXCEPT !.mission[m] = "complete"]
  <2>2. /\ IsSrv(t) /\ t.fight = srv.fight /\ t.slot = srv.slot /\ t.allies = srv.allies
        /\ t.bag = srv.bag /\ t.pos = srv.pos /\ t.at = srv.at /\ t.foes = srv.foes
    BY <1>0 DEF IsSrv
  <2>3. Window!Happens(t, <<Window!Msg("missions", Window!MissionPart(t))>>)
    BY <2>1
  <2> HIDE DEF t
  <2>4. Tells(srv, t, <<Window!Msg("missions", Window!MissionPart(t))>>)
    BY <2>2, MissionsTold
  <2> QED BY <2>2, <2>3, <2>4, AnswersIs, HappensTold
<1>2. CASE Window!TopicOpens
  <2>1. PICK x \in Topics \ srv.topics : Window!Happens([srv EXCEPT !.topics = @ \cup {x}], <<>>)
    BY <1>2 DEF Window!TopicOpens
  <2> DEFINE t == [srv EXCEPT !.topics = @ \cup {x}]
  <2>2. /\ IsSrv(t) /\ t.fight = srv.fight /\ t.slot = srv.slot /\ t.allies = srv.allies
        /\ t.bag = srv.bag /\ t.pos = srv.pos /\ t.at = srv.at /\ t.foes = srv.foes /\ t.mission = srv.mission
    BY <1>0 DEF IsSrv
  <2>3. Window!Happens(t, <<>>)
    BY <2>1
  <2> HIDE DEF t
  <2>4. Tells(srv, t, <<>>)
    BY <2>2, NothingTold
  <2> QED BY <2>2, <2>3, <2>4, AnswersIs, HappensTold
<1> QED BY <1>1, <1>2

\* The snapshot of a new link says everything, and keeps a dialogue of its room.
LEMMA ReconnectTold == ASSUME ScreenInv, Window!Reconnect PROVE ScreenInv'
<1> DEFINE t == IF srv.fallen THEN [srv EXCEPT !.fallen = FALSE, !.pos = Hall] ELSE srv
           m == [Window!Msg("snapshot", Window!Facts(t, Window!NoTalk)) EXCEPT !.line = t.pos]
           v == Window!Reduced(ui, m)
           talk == Window!KeepDialogue(ui.talk, t.pos)
<1>1. srv' = t /\ news' = <<m>> /\ ui' = ui
  BY DEF Window!Reconnect, Window!page
<1>2. IsSrv(srv) /\ IsUi(ui)
  BY BecomesIs DEF ScreenInv
<1>3. IsSrv(t)
  <2> DEFINE w == [srv EXCEPT !.fallen = FALSE, !.pos = Hall]
  <2>1. /\ w.at = srv.at /\ w.fight = srv.fight /\ w.allies = srv.allies /\ w.slot = srv.slot
        /\ w = [pos |-> w.pos, foes |-> w.foes, at |-> w.at, bag |-> w.bag, fallen |-> w.fallen,
                mission |-> w.mission, topics |-> w.topics, fight |-> w.fight, slot |-> w.slot,
                cool |-> w.cool, allies |-> w.allies]
    <3>1. w = [srv EXCEPT !.fallen = FALSE, !.pos = Hall]
      OBVIOUS
    <3>2. IsSrv(srv)
      BY <1>2
    <3> HIDE DEF w
    <3>3. /\ w.at = srv.at /\ w.fight = srv.fight /\ w.allies = srv.allies /\ w.slot = srv.slot
      BY <3>1, <3>2 DEF IsSrv
    <3>4. w = [pos |-> w.pos, foes |-> w.foes, at |-> w.at, bag |-> w.bag, fallen |-> w.fallen,
              mission |-> w.mission, topics |-> w.topics, fight |-> w.fight, slot |-> w.slot,
              cool |-> w.cool, allies |-> w.allies]
      BY <3>1, <3>2 DEF IsSrv
    <3> QED BY <3>3, <3>4
  <2> HIDE DEF w
  <2>2. IsSrv(w)
    BY <1>2, <2>1 DEF IsSrv
  <2> QED BY <1>2, <2>2 DEF w
<1> HIDE DEF t
<1>4. m.t = "snapshot" /\ m.set = Window!Facts(t, Window!NoTalk)
  BY DEF Window!Msg
<1> HIDE DEF m
<1>5. v = [m.set EXCEPT !.talk = Window!KeepDialogue(ui.talk, m.set.room)]
  BY <1>4 DEF Window!Reduced
<1>6. m.set.room = t.pos
  BY <1>4 DEF Window!Facts
<1>7. v = [Window!Facts(t, Window!NoTalk) EXCEPT !.talk = talk]
  BY <1>4, <1>5, <1>6
<1>8. talk # Window!NoTalk => Home[talk.npc] = t.pos
  BY DEF Window!KeepDialogue
<1> HIDE DEF v, talk
<1>9. /\ v.room = t.pos /\ v.foe = (t.pos \in t.foes) /\ v.mates = Window!Here(t) /\ v.talk = talk
      /\ v.fight = t.fight /\ v.slot = t.slot.act /\ v.allies = t.allies
      /\ v.journal = Window!MissionPart(t).journal /\ v.bag = t.bag
      /\ v = [room |-> v.room, foe |-> v.foe, mates |-> v.mates, fight |-> v.fight, slot |-> v.slot,
              cool |-> v.cool, allies |-> v.allies, journal |-> v.journal, bag |-> v.bag, talk |-> v.talk]
  BY <1>7 DEF Window!Facts
<1>10. IsUi(v) /\ Agrees(v, t)
  BY <1>8, <1>9 DEF IsUi, Agrees, RoomAgrees, FightAgrees, JournalAgrees
<1>11. Becomes(ui, <<m>>, v)
  BY <1>2, <1>10, BecomesOne DEF v
<1>12. IsSeq(<<m>>)
  BY OneIs
<1>13. IsSrv(srv') /\ IsSeq(news') /\ Becomes(ui', news', v) /\ Agrees(v, srv')
  BY <1>1, <1>3, <1>10, <1>11, <1>12
<1> QED BY <1>13 DEF ScreenInv

LEMMA PageTold == ASSUME ScreenInv, Window!PageNext PROVE ScreenInv'
<1>1. CASE Window!Read
  <2>1. news # <<>> /\ news' = Tail(news) /\ ui' = Window!Reduced(ui, Head(news)) /\ srv' = srv
    BY <1>1 DEF Window!Read
  <2>2. IsSeq(news) /\ IsSrv(srv)
    BY DEF ScreenInv
  <2>3. PICK v : Becomes(ui, news, v) /\ Agrees(v, srv)
    BY DEF ScreenInv
  <2>4. Becomes(Window!Reduced(ui, Head(news)), Tail(news), v)
    BY <2>1, <2>2, <2>3, BecomesNext
  <2>5. IsSeq(Tail(news))
    BY <2>1, <2>2, TailIs
  <2>6. IsSrv(srv') /\ IsSeq(news') /\ Becomes(ui', news', v) /\ Agrees(v, srv')
    BY <2>1, <2>2, <2>3, <2>4, <2>5
  <2> QED BY <2>6 DEF ScreenInv
<1>2. CASE UNCHANGED <<srv, news, ui>>
  BY <1>2 DEF ScreenInv
<1>3. Window!Read \/ UNCHANGED <<srv, news, ui>>
  <2>1. CASE Window!Open \/ Window!Up \/ Window!Down \/ Window!Enter \/ Window!Back
    BY <2>1 DEF Window!Open, Window!Up, Window!Down, Window!Enter, Window!Back, Window!outside
  <2>2. CASE Window!Click \/ Window!Hover \/ Window!Walk \/ Window!Glance \/ Window!Submit
    BY <2>2 DEF Window!Click, Window!Hover, Window!Walk, Window!Glance, Window!Submit, Window!outside
  <2>3. CASE Window!OpenSettings \/ Window!CloseSettings \/ Window!ToggleAuto \/ Window!AutoTick
    BY <2>3 DEF Window!OpenSettings, Window!CloseSettings, Window!ToggleAuto, Window!AutoTick, Window!outside
  <2> QED BY <2>1, <2>2, <2>3 DEF Window!PageNext
<1> QED BY <1>1, <1>2, <1>3

LEMMA ScreenOK == ASSUME ScreenInv, Window!Next PROVE ScreenInv'
  BY ServeTold, SwingTold, CoolsTold, EndTold, RoomChangeTold, MateTold, ProgressTold, ReconnectTold, PageTold
  DEF Window!Next, Window!ServerNext

LEMMA ScreenStutters == ASSUME ScreenInv, UNCHANGED windowVars PROVE ScreenInv'
  BY DEF windowVars, ScreenInv

LEMMA ScreenInitOK == ASSUME Window!Init PROVE ScreenInv
<1>1. PICK foes, at, bag, cool :
        /\ at \in [Mates -> Rooms]
        /\ srv = [pos |-> Hall, foes |-> foes, at |-> at, bag |-> bag, fallen |-> FALSE,
                  mission |-> [m \in Missions |-> "open"], topics |-> {},
                  fight |-> "none", slot |-> Window!NoOrder, cool |-> cool, allies |-> {}]
  BY DEF Window!Init
<1>2. ui = Window!Facts(srv, Window!NoTalk) /\ news = <<>>
  BY DEF Window!Init
<1>3. IsSrv(srv)
  BY <1>1 DEF IsSrv
<1>4. IsUi(ui) /\ Agrees(ui, srv)
  BY <1>2 DEF IsUi, Agrees, RoomAgrees, FightAgrees, JournalAgrees, Window!Facts
<1>5. Becomes(ui, news, ui) /\ IsSeq(news)
  BY <1>2, <1>4, BecomesNothing, NothingIs
<1> QED BY <1>3, <1>4, <1>5 DEF ScreenInv

LEMMA ScreenTruth == ScreenInv => WindowIsTrue
<1> SUFFICES ASSUME ScreenInv PROVE WindowIsTrue
  OBVIOUS
<1>1. PICK v : Becomes(ui, news, v) /\ Agrees(v, srv)
  BY DEF ScreenInv
<1>2. IsUi(ui) /\ (news = <<>> => v = ui)
  BY <1>1, BecomesIs DEF ScreenInv
<1>3. Window!DialogueIsOfHere
  BY <1>2 DEF IsUi, Window!DialogueIsOfHere
<1>4. ASSUME news = <<>> PROVE ui = [Window!Facts(srv, ui.talk) EXCEPT !.cool = ui.cool]
  <2>1. Agrees(ui, srv)
    BY <1>1, <1>2, <1>4
  <2> QED BY <1>2, <2>1 DEF IsUi, Agrees, RoomAgrees, FightAgrees, JournalAgrees, Window!Facts
<1>5. Window!QuietScreenIsTrue
  BY <1>4 DEF Window!QuietScreenIsTrue
<1> QED BY <1>3, <1>5 DEF WindowIsTrue

(* With nothing under way the window shows what the server has, and an     *)
(* open dialogue is with somebody in the room shown (store.ts:105-219):    *)
(* for every world, and any number of actions and messages under way.      *)
THEOREM WindowIsAlwaysTrue == PageSpec => []WindowIsTrue
<1>1. PageInit => ScreenInv
  BY ScreenInitOK DEF PageInit
<1>2. ScreenInv /\ [PageNext]_<<vars, linkVars, windowVars, part>> => ScreenInv'
  BY ScreenOK, ScreenStutters DEF PageNext
<1>3. ScreenInv => WindowIsTrue
  BY ScreenTruth
<1> QED BY <1>1, <1>2, <1>3, PTL DEF PageSpec
=============================================================================
