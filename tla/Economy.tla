------------------------------ MODULE Economy ------------------------------
(* What players own and have done: bags (world/inventory.ts), missions     *)
(* (world/missions.ts, engine/missions.ts) and guild ranks (world/guild.ts,*)
(* engine/guild.ts), as rows of the database, as the copy a session keeps, *)
(* and as what the client was last told.  A handler runs to its end; what  *)
(* may go wrong inside it is a statement that fails, and a transaction     *)
(* then takes back the statements before it.                               *)
EXTENDS Integers, FiniteSets, SequencesExt

CONSTANTS
  Player, Item, Mission, Enemy,
  Trophy,       \* the items whose kind is "trophy"; the others are potions
  Drops,        \* Drops[e] : what e may leave, as one [item, n] or NoDrop
  NoDrop,
  Goal, Count,  \* Goal[m], Count[m] : kill Count[m] enemies Goal[m]
  Reward,       \* Reward[m] : the payment, a sequence of [item, n]
  MinRank, Requires,  \* who may take m; a flag that must be on, or NoFlag
  NoFlag,
  SlainFlag, Returns, \* SlainFlag[e] : the flag e's death sets; Returns[e] : respawnMs # null
  Cost,         \* Cost[r] : what rank r asks for, a sequence of [item, n]
  MaxEarned     \* bound: how many of an item a player ever gets

\* content/balance.ts, content/world.ts: what the files may name, and how many.
Things == [item : Item, n : Nat \ {0}]
EconomyAssumption ==
  /\ IsFiniteSet(Player) /\ Trophy \subseteq Item
  /\ Goal \in [Mission -> Enemy] /\ Count \in [Mission -> Nat \ {0}]
  /\ Drops \in [Enemy -> Things \cup {NoDrop}] /\ Reward \in [Mission -> Seq(Things)]
  /\ Cost \in Seq(Seq(Things)) /\ MaxEarned \in Nat

\* ranks.json names an item once per rank; balance.ts does not insist on it.
RanksAskOnce ==
  \A r \in DOMAIN Cost : \A j, k \in DOMAIN Cost[r] : Cost[r][j].item = Cost[r][k].item => j = k

VARIABLES
  db,        \* the rows: bag, mission, rank and hurt of each player
  rank,      \* Session.rank
  hurt,      \* whether Session.hp is below the maximum
  flags,     \* the world flags that are on
  atGuild,   \* the players who stand before the registrar
  screen,    \* what each client was last sent: bag, journal and rank
  earned, spent  \* history: per player and item, what came in and was used up

playerVars == <<rank, hurt, atGuild>>
ledgerVars == <<earned, spent>>
vars == <<db, flags, screen, playerVars, ledgerVars>>

Untaken == [taken |-> FALSE, progress |-> 0, done |-> FALSE]
Ranks == 0..Len(Cost)
-----------------------------------------------------------------------------
(* The statements of db/queries.ts, by what they do to the rows.           *)
Add(p, i, n) == [op |-> "add", p |-> p, item |-> i, n |-> n]
Spend(p, i, n) == [op |-> "spend", p |-> p, item |-> i, n |-> n]
Complete(p, m) == [op |-> "complete", p |-> p, mission |-> m]
Promotion(p, r) == [op |-> "promote", p |-> p, n |-> r]
Heal(p, left) == [op |-> "heal", p |-> p, left |-> left]

Effect(d, s) ==
  CASE s.op = "add" -> [d EXCEPT !.bag[s.p][s.item] = @ + s.n]
    [] s.op = "spend" -> [d EXCEPT !.bag[s.p][s.item] = IF @ > s.n THEN @ - s.n ELSE 0]
    [] s.op = "complete" -> [d EXCEPT !.mission[s.p][s.mission].done = TRUE]
    [] s.op = "promote" -> [d EXCEPT !.rank[s.p] = IF @ > s.n THEN @ ELSE s.n]
    [] s.op = "heal" -> [d EXCEPT !.hurt[s.p] = s.left]

(* Whether the statement finds the row it is for; the handlers throw when  *)
(* it changes none.                                                        *)
Touches(d, s) ==
  CASE s.op = "spend" -> d.bag[s.p][s.item] > 0
    [] s.op = "complete" -> d.mission[s.p][s.mission].taken /\ ~d.mission[s.p][s.mission].done
    [] OTHER -> TRUE

(* The rows after the first n statements of ss.                            *)
After(d, ss, n) ==
  LET after[i \in Nat] == IF i = 0 THEN d ELSE Effect(after[i - 1], ss[i])
  IN  after[n]

(* A transaction: the statements up to the one that fails (0: none does),  *)
(* all of them or, after a failure, none.                                  *)
Statements(d, ss) == After(d, ss, Len(ss))
Sound(d, ss) == \A i \in DOMAIN ss : Touches(After(d, ss, i - 1), ss[i])
\* Mutant: no transaction: what ran before the failure stays.
TxPrefix(d, ss, failing) ==
  IF failing > 0 THEN After(d, ss, failing - 1) ELSE Statements(d, ss)

Tx(d, ss, failing) == IF failing > 0 \/ ~Sound(d, ss) THEN d ELSE Statements(d, ss)
Commits(d, ss, failing) == failing = 0 /\ Sound(d, ss)
Failure(ss) == 0..Len(ss)

\* f[1] + ... + f[n], and what a list of things has of an item.
SumTo(f, n) ==
  LET sum[k \in Nat] == IF k = 0 THEN 0 ELSE sum[k - 1] + f[k]
  IN  sum[n]
Amounts(ss, i) == [k \in DOMAIN ss |-> IF ss[k].item = i THEN ss[k].n ELSE 0]
Total(ss, i) == SumTo(Amounts(ss, i), Len(ss))
Journal(d, p) == [m \in Mission |-> IF d.mission[p][m].done THEN Untaken ELSE d.mission[p][m]]
-----------------------------------------------------------------------------
(* engine/missions.ts *)
Posted(m) == Requires[m] = NoFlag \/ Requires[m] \in flags
GoalGone(m) == ~Returns[Goal[m]] /\ SlainFlag[Goal[m]] \in flags
Done(p, m) == db.mission[p][m].progress >= Count[m]
Acceptable(p, m) == Posted(m) /\ ~GoalGone(m) /\ rank[p] >= MinRank[m] /\ ~db.mission[p][m].taken

(* offers: what the registrar lists for p. *)
Offered(p, m) == Posted(m) /\ ~GoalGone(m) /\ ~db.mission[p][m].done

Accept(p, m) ==
  /\ p \in atGuild /\ Acceptable(p, m)
  /\ db' = [db EXCEPT !.mission[p][m] = [Untaken EXCEPT !.taken = TRUE]]
  /\ screen' = [screen EXCEPT ![p].journal = Journal(db', p)]
  /\ UNCHANGED <<flags, playerVars, ledgerVars>>

Payment(p, m) == <<Complete(p, m)>> \o [i \in DOMAIN Reward[m] |-> Add(p, Reward[m][i].item, Reward[m][i].n)]
Received(p, ss) == [earned EXCEPT ![p] = [i \in Item |-> @[i] + Total(ss, i)]]

TurnIn(p, m) ==
  /\ p \in atGuild /\ db.mission[p][m].taken /\ ~db.mission[p][m].done /\ Done(p, m)
  /\ \E failing \in Failure(Payment(p, m)) :
       /\ db' = Tx(db, Payment(p, m), failing)
       /\ IF Commits(db, Payment(p, m), failing)
          THEN /\ screen' = [screen EXCEPT ![p].bag = db'.bag[p], ![p].journal = Journal(db', p)]
               /\ earned' = Received(p, Reward[m])
          ELSE UNCHANGED <<screen, earned>>
  /\ UNCHANGED <<flags, playerVars, spent>>

Abandon(p, m) ==
  /\ db.mission[p][m].taken /\ ~db.mission[p][m].done
  /\ db' = [db EXCEPT !.mission[p][m] = Untaken]
  /\ screen' = [screen EXCEPT ![p].journal = Journal(db', p)]
  /\ UNCHANGED <<flags, playerVars, ledgerVars>>
-----------------------------------------------------------------------------
(* victory: the drops of those who share (each rolls alone) in one         *)
(* transaction, then the mission credit of the same people, one statement  *)
(* each; a boss has set its flag before.                                   *)
Credited(m, p, e) == /\ db.mission[p][m].taken /\ ~db.mission[p][m].done
                     /\ Goal[m] = e /\ ~Done(p, m)
Due(paid, e) == {pm \in paid \X Mission : Credited(pm[2], pm[1], e)}

\* Mutant: the kill that reaches the goal closes the mission.
AdvancedDone(d, credited) ==
  [d EXCEPT !.mission = [p \in Player |-> [m \in Mission |->
     IF <<p, m>> \in credited
     THEN [d.mission[p][m] EXCEPT !.progress = @ + 1, !.done = TRUE] ELSE d.mission[p][m]]]]

Advanced(d, credited) ==
  [d EXCEPT !.mission = [p \in Player |-> [m \in Mission |->
     IF <<p, m>> \in credited
     THEN [d.mission[p][m] EXCEPT !.progress = IF @ < Count[m] THEN @ + 1 ELSE @]
     ELSE d.mission[p][m]]]]

Awards(lucky, e) ==
  LET order == SetToSeq(lucky)
  IN  [i \in DOMAIN order |-> Add(order[i], Drops[e].item, Drops[e].n)]

\* What a page is sent when it comes back.
Shown(d, p) == [bag |-> d.bag[p], journal |-> Journal(d, p), rank |-> d.rank[p]]

(* credited: all of them, or those before the statement that fails: nobody *)
(* catches that (combat.ts:558), so the process ends and every page comes  *)
(* back to the rows.                                                       *)
Slay(e, paid) ==
  /\ paid # {} /\ paid \cap atGuild = {}
  /\ Returns[e] \/ SlainFlag[e] \notin flags
  /\ \A p \in paid : Drops[e] # NoDrop => earned[p][Drops[e].item] + Drops[e].n <= MaxEarned
  /\ \E lucky \in SUBSET paid, credited \in SUBSET Due(paid, e) :
       LET awards == IF Drops[e] = NoDrop THEN <<>> ELSE Awards(lucky, e)
       IN  \E failing \in Failure(awards) :
             LET got == IF failing = 0 /\ Drops[e] # NoDrop THEN lucky ELSE {}
             IN  /\ db' = Advanced(Tx(db, awards, failing), credited)
                 /\ earned' = [p \in Player |-> [i \in Item |->
                      earned[p][i] + IF p \in got /\ i = Drops[e].item THEN Drops[e].n ELSE 0]]
                 /\ screen' = [p \in Player |->
                      IF credited # Due(paid, e) THEN Shown(db', p)
                      ELSE [screen[p] EXCEPT
                             !.bag = IF p \in got THEN db'.bag[p] ELSE @,
                             !.journal = IF \E m \in Mission : <<p, m>> \in credited
                                         THEN Journal(db', p) ELSE @]]
  /\ flags' = flags \cup ({SlainFlag[e]} \ {NoFlag})
  /\ UNCHANGED <<playerVars, spent>>
-----------------------------------------------------------------------------
(* world/inventory.ts *)
\* A potion heals what it can: `left` is what it leaves.
Drink(p, i) ==
  /\ i \notin Trophy /\ db.bag[p][i] > 0 /\ hurt[p]
  /\ \E failing \in Failure(<<1, 2>>), left \in BOOLEAN :
       LET ss == <<Spend(p, i, 1), Heal(p, left)>>
       IN  /\ db' = Tx(db, ss, failing)
           /\ IF Commits(db, ss, failing)
              THEN /\ hurt' = [hurt EXCEPT ![p] = left]
                   /\ screen' = [screen EXCEPT ![p].bag = db'.bag[p]]
                   /\ spent' = [spent EXCEPT ![p][i] = @ + 1]
              ELSE UNCHANGED <<hurt, screen, spent>>
  /\ UNCHANGED <<flags, rank, atGuild, earned>>

Givable(i) == i \notin Trophy
Together(p, q) == (p \in atGuild) <=> (q \in atGuild)
\* Mutant: the receiver is not told.
GiveSilently(p, q, i) ==
  /\ p # q /\ Together(p, q) /\ db.bag[p][i] > 0 /\ Givable(i)
  /\ db' = Tx(db, <<Spend(p, i, 1), Add(q, i, 1)>>, 0)
  /\ screen' = [screen EXCEPT ![p].bag = db'.bag[p]]
  /\ UNCHANGED <<flags, playerVars, ledgerVars>>

Give(p, q, i) ==
  /\ p # q /\ Together(p, q) /\ db.bag[p][i] > 0 /\ Givable(i)
  /\ \E failing \in Failure(<<1, 2>>) :
       LET ss == <<Spend(p, i, 1), Add(q, i, 1)>>
       IN  /\ db' = Tx(db, ss, failing)
           /\ screen' = IF Commits(db, ss, failing)
                        THEN [screen EXCEPT ![p].bag = db'.bag[p], ![q].bag = db'.bag[q]]
                        ELSE screen
  /\ UNCHANGED <<flags, playerVars, ledgerVars>>

\* Mutant: one of each is enough: spendItemAll takes what there is.
AffordableAny(p, r) == \A i \in DOMAIN Cost[r] : db.bag[p][Cost[r][i].item] > 0

(* world/guild.ts, resolvePromote *)
Affordable(p, r) == \A i \in DOMAIN Cost[r] : db.bag[p][Cost[r][i].item] >= Cost[r][i].n
Dues(p, r) == [i \in DOMAIN Cost[r] |-> Spend(p, Cost[r][i].item, Cost[r][i].n)] \o <<Promotion(p, r)>>
Promote(p) ==
  LET r == rank[p] + 1
  IN  /\ p \in atGuild /\ r \in Ranks /\ Affordable(p, r)
      /\ \E failing \in Failure(Dues(p, r)) :
           /\ db' = Tx(db, Dues(p, r), failing)
           /\ IF Commits(db, Dues(p, r), failing)
              THEN /\ rank' = [rank EXCEPT ![p] = r]
                   /\ screen' = [screen EXCEPT ![p].rank = r, ![p].bag = db'.bag[p]]
                   /\ spent' = [spent EXCEPT ![p] = [i \in Item |-> @[i] + db.bag[p][i] - db'.bag[p][i]]]
              ELSE UNCHANGED <<rank, screen, spent>>
      /\ UNCHANGED <<flags, hurt, atGuild, earned>>

Hurt(p) ==   \* a blow of a fight: the row is written, then the session
  /\ ~hurt[p] /\ hurt' = [hurt EXCEPT ![p] = TRUE]
  /\ db' = [db EXCEPT !.hurt[p] = TRUE]
  /\ UNCHANGED <<flags, screen, rank, atGuild, ledgerVars>>

Walk(p) ==
  /\ atGuild' = IF p \in atGuild THEN atGuild \ {p} ELSE atGuild \cup {p}
  /\ UNCHANGED <<db, flags, screen, rank, hurt, ledgerVars>>
-----------------------------------------------------------------------------
NoItems == [i \in Item |-> 0]
Init ==
  /\ db = [bag |-> [p \in Player |-> NoItems],
           mission |-> [p \in Player |-> [m \in Mission |-> Untaken]],
           rank |-> [p \in Player |-> 0], hurt |-> [p \in Player |-> FALSE]]
  /\ rank = db.rank /\ hurt = db.hurt /\ flags = {} /\ atGuild = Player
  /\ screen = [p \in Player |-> [bag |-> NoItems, journal |-> db.mission[p], rank |-> 0]]
  /\ earned = [p \in Player |-> NoItems] /\ spent = earned

Next ==
  \/ \E p \in Player : Promote(p) \/ Hurt(p) \/ Walk(p)
  \/ \E p \in Player, m \in Mission : Accept(p, m) \/ TurnIn(p, m) \/ Abandon(p, m)
  \/ \E p \in Player, i \in Item : Drink(p, i) \/ \E q \in Player : Give(p, q, i)
  \/ \E e \in Enemy : \E paid \in SUBSET Player : Slay(e, paid)

Spec == Init /\ [][Next]_vars
-----------------------------------------------------------------------------
MissionOK(r, m) == r.taken \in BOOLEAN /\ r.done \in BOOLEAN /\ r.progress \in 0..Count[m]

(* The rows and sessions hold values of their types; a progress never      *)
(* exceeds its goal.                                                       *)
TypeOK ==
  /\ \A p \in Player : /\ \A i \in Item : db.bag[p][i] \in Nat
                       /\ \A m \in Mission : MissionOK(db.mission[p][m], m)
  /\ rank \in [Player -> Ranks] /\ hurt \in [Player -> BOOLEAN]
  /\ flags \subseteq {SlainFlag[e] : e \in Enemy} /\ atGuild \subseteq Player

SumOf(f, i) ==
  LET order == SetToSeq(Player)
  IN  SumTo([k \in DOMAIN order |-> f[order[k]][i]], Len(order))

(* Items come from drops and rewards and go to potions drunk and ranks     *)
(* bought: gifts and statements that fail neither lose nor double any      *)
(* (inventory.ts:163, inventory.ts:117, missions.ts:194).                  *)
ItemsConserved == \A i \in Item : SumOf(db.bag, i) = SumOf(earned, i) - SumOf(spent, i)

(* A trophy stays with the player who won it (engine/items.ts: the ladder  *)
(* of ranks is a record, not a gift).                                      *)
TrophiesStay == \A p \in Player, i \in Trophy : db.bag[p][i] = earned[p][i] - spent[p][i]

(* A rank was paid for, once and in full, and nothing was taken for a rank *)
(* that was not given (guild.ts:47-64).                                    *)
Price(r, i) == SumTo([k \in 1..r |-> Total(Cost[k], i)], r)
RankPaid == \A p \in Player, i \in Trophy : spent[p][i] = Price(rank[p], i)

(* A session's copy is what the rows say, whatever failed: the commit      *)
(* comes first (guild.ts:47, inventory.ts:129).                            *)
SessionMatchesRows == rank = db.rank /\ hurt = db.hurt

(* Every client shows its bag, its journal and its rank as they are: each  *)
(* change of a row is told to whom it concerns, the receiver of a gift and *)
(* the helper of a kill included (inventory.ts:176, missions.ts:255).      *)
ScreensFresh ==
  \A p \in Player : screen[p] = [bag |-> db.bag[p], journal |-> Journal(db, p), rank |-> rank[p]]

(* What may be said of trophies: they are won by oneself and only buy      *)
(* ranks, each paid in full and once.                                      *)
TrophiesBuyRanks == TrophiesStay /\ RankPaid

(* What may be said of copies: sessions and clients have what the rows say.*)
CopiesAreFresh == TypeOK /\ SessionMatchesRows /\ ScreensFresh

(* A mission handed in stays so: it is not handed back, taken again or     *)
(* advanced, so that no second reward can follow (queries.ts:364-388).     *)
DoneForGood ==
  [][\A p \in Player, m \in Mission :
       db.mission[p][m].done => db'.mission[p][m] = db.mission[p][m]]_vars

(* The payment and the record of it are one step: in it the rewarded items *)
(* arrive, and no other step marks a mission done (missions.ts:190-202).   *)
PaidWhenDone ==
  [][\A p \in Player, m \in Mission :
       ~db.mission[p][m].done /\ db'.mission[p][m].done =>
         \A i \in Item : db'.bag[p][i] = db.bag[p][i] + Total(Reward[m], i)]_vars

(* A mission is paid for in the step that closes it, and closed for good,  *)
(* so that two tabs that hand it in are paid once.                         *)
PaidOnce == PaidWhenDone /\ DoneForGood

(* "Missions this person posts; those not posted and those already handed  *)
(* in do not come" (shared/protocol.ts:363): refuted, a mission whose boss *)
(* is slain for good is not listed, not even to who slew it.               *)
CompleteIsOffered ==
  \A p \in Player, m \in Mission :
    db.mission[p][m].taken /\ ~db.mission[p][m].done /\ Posted(m) /\ Done(p, m) => Offered(p, m)
=============================================================================
