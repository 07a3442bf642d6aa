------------------------------- MODULE Combat -------------------------------
(***************************************************************************)
(* Fights, defeat and revival (world/combat.ts, engine/combat.ts), with    *)
(* the ways out of a fight that other handlers open: a step, a closed      *)
(* socket, the end of the grace period, a crash of the process.            *)
(*                                                                         *)
(* Time is abstract.  A tick works through every swing that is due; each   *)
(* swing is an action of its own here (Swing, EnemySwing, EnemyReturns),   *)
(* and a tick in which several are due is their sequence.  Which swings    *)
(* are due, when a cooldown has passed and when a timer fires is left      *)
(* open.  Hit points, damage and the bag are small numbers.                *)
(*                                                                         *)
(* Connections follow the contract of Seats, as in Presence.  Hit points   *)
(* in memory and in the players table are one value: every write of the    *)
(* code changes the table first and memory only if that succeeds.          *)
(***************************************************************************)
EXTENDS Seats, Naturals, SequencesExt

CONSTANTS
  Room, Spawn,
  Den,          \* the rooms an enemy is placed in
  Boss,         \* dens whose enemy does not come back (respawnMs = null)
  NoRoom, NoPlayer, NoBattle,
  MaxHp,        \* of a player
  EnemyHp,      \* EnemyDef.maxHp
  Damage,       \* what one blow of either side may amount to
  Mend,         \* what one potion or healing skill restores
  EveryNth,     \* EnemyDef.windup.everyNth by den, 0 for an enemy without windup
  Skill,        \* the skills there are; each stands for its kind
  ShareNeeded,  \* the damage that earns a share of the loot
  MaxPotions,   \* bound: potions in a bag
  MaxTimers,    \* bound: respawn timers one connection of a player has armed
  MaxFaults,    \* bound: database writes that fail
  MaxCrashes    \* bound: crashes of the process

ASSUME CombatAssumption ==
  /\ Spawn \in Room
  /\ Boss \subseteq Den /\ Den \subseteq Room
  /\ NoRoom \notin Room /\ NoPlayer \notin Player
  /\ MaxHp \in Nat \ {0} /\ EnemyHp \in Nat \ {0} /\ ShareNeeded \in Nat \ {0}
  /\ Damage \subseteq Nat \ {0}
  /\ Mend \in Nat \ {0}
  /\ EveryNth \in [Den -> Nat] /\ MaxPotions \in Nat /\ MaxTimers \in Nat
  /\ MaxFaults \in Nat /\ MaxCrashes \in Nat
  /\ Skill \subseteq {"strike", "heal", "guard"}

VARIABLES
  conn,      \* the connection session.connId stands for
  pos,       \* session.pos
  hp,        \* session.hp and players.hp
  potions,   \* how many potions the bag holds
  battle,    \* the Combat of a room, NoBattle where nobody fights
  inCombat,  \* inCombat: where a player fights, NoRoom if nowhere
  engaged,   \* Fighter.engaged
  queued,    \* Fighter.queued
  guarded,   \* fighters with guardPercent > 0
  cooling,   \* <<player, skill>>: cooldowns that have not passed
  fallen,    \* downed: enemies that wait for their return
  slain,     \* world flags of the bosses that are dead
  ticking,   \* timer # null
  respawn,   \* respawn timers armed, by the player and the epoch captured
  screen,    \* UiState.combat of a client: the room and the enemy's hit points
  stranded,  \* history: down, and the respawn timer's write failed
  yanked,    \* history: moved by a respawn timer while in a fight
  faults, crashes

bodyVars == <<conn, pos, hp, potions>>
fightVars == <<battle, inCombat, engaged, queued, guarded>>
timerVars == <<fallen, ticking, respawn>>
ghostVars == <<stranded, yanked, faults, crashes>>
vars == <<seatVars, bodyVars, fightVars, timerVars, cooling, slain, screen, ghostVars>>

Order == [what : {"none", "item"} \cup Skill, aim : Player \cup {NoPlayer}]
NoOrder == [what |-> "none", aim |-> NoPlayer]

\* A Combat without its room and its seed.  order is the fighters by joinedSeq.
Battle(r) == [hp : 0..EnemyHp, order : Seq(Player), threat : [Player -> 0..EnemyHp],
              target : Player \cup {NoPlayer}, charged : BOOLEAN, swings : 0..EveryNth[r]]
NewBattle == [hp |-> EnemyHp, order |-> <<>>, threat |-> [p \in Player |-> 0],
              target |-> NoPlayer, charged |-> FALSE, swings |-> 0]

\* undefined is no fight, and null no room on a screen.
ASSUME MarkersAssumption ==
  /\ \A r \in Den : NoBattle \notin Battle(r)
  /\ NoRoom \notin Room \X (0..EnemyHp)

TypeOK ==
  /\ conn \in [Player -> Conn \cup {NoConn}]
  /\ pos \in [Player -> Room]
  /\ hp \in [Player -> 0..MaxHp]
  /\ potions \in [Player -> 0..MaxPotions]
  /\ DOMAIN battle = Room
  /\ \A r \in Room : battle[r] # NoBattle => r \in Den /\ battle[r] \in Battle(r)
  /\ inCombat \in [Player -> Den \cup {NoRoom}]
  /\ engaged \subseteq Player
  /\ queued \in [Player -> Order]
  /\ guarded \subseteq Player
  /\ cooling \subseteq Player \X Skill
  /\ fallen \subseteq Den \ Boss
  /\ slain \subseteq Boss
  /\ ticking \in BOOLEAN
  /\ respawn \in [Player \X Conn -> 0..MaxTimers]
  /\ screen \in [Player -> (Room \X (0..EnemyHp)) \cup {NoRoom}]

Init ==
  /\ SeatInit
  /\ conn = [p \in Player |-> NoConn]
  /\ pos = [p \in Player |-> Spawn]
  /\ hp = [p \in Player |-> MaxHp]
  /\ potions \in [Player -> 0..MaxPotions]
  /\ battle = [r \in Room |-> NoBattle]
  /\ inCombat = [p \in Player |-> NoRoom]
  /\ engaged = {}
  /\ queued = [p \in Player |-> NoOrder]
  /\ guarded = {}
  /\ cooling = {}
  /\ fallen = {}
  /\ slain = {}
  /\ ticking = FALSE
  /\ respawn = [t \in Player \X Conn |-> 0]
  /\ screen = [p \in Player |-> NoRoom]
  /\ stranded = {}
  /\ yanked = {}
  /\ faults = 0
  /\ crashes = 0

-----------------------------------------------------------------------------
(* Reading.                                                                *)

Live(p) == p \in present /\ holder[p] # NoConn /\ holder[p] \notin gone

Fighters(r) == {p \in Player : inCombat[p] = r}

\* enemyIn
EnemyIn(r) == r \in Den /\ r \notin fallen /\ r \notin slain

Least(m, n) == IF m <= n THEN m ELSE n

\* pickTarget: the most threatening candidate, the first to have joined on a tie.
PickTarget(order, threat) ==
  IF order = <<>> THEN NoPlayer
  ELSE LET best == {i \in DOMAIN order :
                      \A j \in DOMAIN order : threat[order[j]] <= threat[order[i]]}
       IN  order[CHOOSE i \in best : \A j \in best : i <= j]

\* The Combat after p is added to its fighters.
Joined(b, p) == [b EXCEPT !.order = Append(@, p), !.threat[p] = 0]

\* The Combat after p has hit the enemy, which is credited to it.
Wounded(b, p, d) == [b EXCEPT !.hp = @ - d, !.threat[p] = @ + d]

\* The fighters after p is deleted from them.
Rest(order, p) == RemoveAt(order, CHOOSE i \in DOMAIN order : order[i] = p)

\* Mutants of Without: the last fighter to go leaves the Combat behind; the enemy
\* keeps aiming at the fighter that left.
WithoutEnd(b, p) ==
  [b EXCEPT !.order = Rest(@, p), !.threat[p] = 0, !.target = NoPlayer]

WithoutRetarget(b, p) ==
  LET rest == Rest(b.order, p)
  IN  IF rest = <<>> THEN NoBattle
      ELSE [b EXCEPT !.order = rest, !.threat[p] = 0]

\* The Combat after p is deleted from it: gone with its last fighter, and aimed
\* at somebody else when p was the target.
Without(b, p) ==
  LET rest == Rest(b.order, p)
      threat == [b.threat EXCEPT ![p] = 0]
  IN  IF rest = <<>> THEN NoBattle
      ELSE [b EXCEPT !.order = rest, !.threat = threat,
              !.target = IF @ = p THEN PickTarget(rest, threat) ELSE @]

\* maybeStopTimer, given what is left to wait for.
StillTicking(battles, waiting) ==
  ticking /\ ((\E r \in Room : battles[r] # NoBattle) \/ waiting # {})

\* Mutant of Updated: nobody is told.
UpdatedNobody(fighters, r, b) == screen

\* combat.update, to the fighters of a room: a connected client that has a combat
\* takes the new hit points into it, whichever fight it has.
Updated(fighters, r, b) ==
  [p \in Player |->
     IF p \in fighters /\ Live(p) /\ screen[p] # NoRoom THEN <<screen[p][1], b.hp>>
     ELSE screen[p]]

-----------------------------------------------------------------------------
(* Leaving a fight: a step, the end of the grace period, a defeat.         *)

\* leave, when the fights stand as in battles.
Quit(p, battles) ==
  LET r == inCombat[p]
  IN
  IF r = NoRoom THEN UNCHANGED <<fightVars, ticking, screen, yanked>>
  ELSE /\ inCombat' = [inCombat EXCEPT ![p] = NoRoom]
       /\ battle' = [battles EXCEPT ![r] = Without(@, p)]
       /\ engaged' = engaged \ {p}
       /\ guarded' = guarded \ {p}
       /\ queued' = [queued EXCEPT ![p] = NoOrder]
       /\ ticking' = IF battle'[r] = NoBattle THEN StillTicking(battle', fallen)
                     ELSE ticking
       /\ screen' = [Updated(Fighters(r) \ {p}, r, battle'[r]) EXCEPT
                      ![p] = IF Live(p) THEN NoRoom ELSE @]
       /\ yanked' = yanked \ {p}

-----------------------------------------------------------------------------
(* Connections.                                                            *)

Half == IF MaxHp \div 2 = 0 THEN 1 ELSE MaxHp \div 2

\* hello: a new session stands where the table says, an adopted one where it
\* stood, a dead character at the spawn point with half its hit points.  The
\* snapshot carries the player's combat.
Hello(p, c) ==
  /\ Take(p, c)
  /\ conn' = [conn EXCEPT ![p] = c]
  /\ \E r \in Room :
       /\ p \in present => r = pos[p]
       /\ pos' = [pos EXCEPT ![p] = IF hp[p] = 0 THEN Spawn ELSE r]
  /\ hp' = [hp EXCEPT ![p] = IF @ = 0 THEN Half ELSE @]
  /\ screen' = [screen EXCEPT ![p] = IF inCombat[p] = NoRoom THEN NoRoom
                                     ELSE <<inCombat[p], battle[inCombat[p]].hp>>]
  /\ stranded' = stranded \ {p}
  /\ UNCHANGED <<potions, fightVars, timerVars, cooling, slain, yanked, faults, crashes>>

\* A closed socket leaves the fight alone: the player goes on being hit.
Disconnect(c) ==
  /\ c \in used
  /\ Close(c)
  /\ UNCHANGED <<bodyVars, fightVars, timerVars, cooling, slain, screen, ghostVars>>

\* The grace period ends.
Leave(p) ==
  /\ Depart(p)
  /\ Quit(p, battle)
  /\ stranded' = stranded \ {p}
  /\ UNCHANGED <<bodyVars, fallen, respawn, cooling, slain, faults, crashes>>

\* The process dies and starts again: memory is lost, the database is not.
Crash ==
  /\ crashes < MaxCrashes
  /\ crashes' = crashes + 1
  /\ present' = {}
  /\ holder' = [p \in Player |-> NoConn]
  /\ gone' = gone \cup used
  /\ battle' = [r \in Room |-> NoBattle]
  /\ inCombat' = [p \in Player |-> NoRoom]
  /\ engaged' = {}
  /\ queued' = [p \in Player |-> NoOrder]
  /\ guarded' = {}
  /\ cooling' = {}
  /\ fallen' = {}
  /\ ticking' = FALSE
  /\ respawn' = [t \in Player \X Conn |-> 0]
  /\ stranded' = {}
  /\ yanked' = {}
  /\ UNCHANGED <<used, stopped, bodyVars, slain, screen, faults>>

-----------------------------------------------------------------------------
(* Commands of a connected player.  A refusal changes nothing and is left   *)
(* out.                                                                     *)

\* doMove, as far as the fight is concerned.
Move(p, to) ==
  /\ Live(p)
  /\ to # pos[p]
  /\ pos' = [pos EXCEPT ![p] = to]
  /\ Quit(p, battle)
  /\ UNCHANGED <<seatVars, conn, hp, potions, fallen, respawn, cooling, slain, stranded,
                 faults, crashes>>

\* attack, by somebody who is already in this fight but had stopped.
AttackAgain(p) ==
  /\ Live(p)
  /\ hp[p] > 0
  /\ EnemyIn(pos[p])
  /\ inCombat[p] = pos[p]
  /\ p \notin engaged
  /\ engaged' = engaged \cup {p}
  /\ screen' = Updated(Fighters(pos[p]), pos[p], battle[pos[p]])
  /\ UNCHANGED <<seatVars, bodyVars, battle, inCombat, queued, guarded, timerVars, cooling, slain,
                 ghostVars>>

\* The fights as attack finds them once p has left a fight in another room.
AttackFrom(p) ==
  IF inCombat[p] = NoRoom THEN battle
  ELSE [battle EXCEPT ![inCombat[p]] = Without(@, p)]

Attackable(p) == hp[p] > 0 /\ EnemyIn(pos[p])

\* attack, by somebody who joins or opens the fight.
Attack(p) ==
  LET r == pos[p]
      left == AttackFrom(p)
      b == IF left[r] = NoBattle THEN NewBattle ELSE left[r]
  IN
  /\ Live(p)
  /\ Attackable(p)
  /\ inCombat[p] # r
  /\ battle' = [left EXCEPT ![r] = Joined(b, p)]
  /\ inCombat' = [inCombat EXCEPT ![p] = r]
  /\ engaged' = engaged \cup {p}
  /\ queued' = [queued EXCEPT ![p] = NoOrder]
  /\ guarded' = guarded \ {p}
  /\ ticking' = TRUE
  /\ screen' = [screen EXCEPT ![p] = <<r, b.hp>>]
  /\ yanked' = yanked \ {p}
  /\ UNCHANGED <<seatVars, bodyVars, fallen, respawn, cooling, slain, stranded, faults,
                 crashes>>

Ready(p, sk) == <<p, sk>> \notin cooling

\* skill: the order for the next swing, at an ally of the same fight or oneself.
UseSkill(p, sk, aim) ==
  /\ Live(p)
  /\ inCombat[p] # NoRoom
  /\ hp[p] > 0
  /\ aim # p
  /\ aim # NoPlayer => sk # "strike" /\ inCombat[aim] = inCombat[p]
  /\ Ready(p, sk)
  /\ queued' = [queued EXCEPT ![p] = [what |-> sk, aim |-> aim]]
  /\ engaged' = engaged \cup {p}
  /\ UNCHANGED <<seatVars, bodyVars, battle, inCombat, guarded, timerVars, cooling, slain,
                 screen, ghostVars>>

\* inventory.use: one transaction.
Drunk(p) ==
  /\ potions' = [potions EXCEPT ![p] = @ - 1]
  /\ hp' = [hp EXCEPT ![p] = Least(MaxHp, @ + Mend)]

Drinkable(p) == potions[p] > 0 /\ hp[p] < MaxHp

\* useItem outside a fight, or by a fighter that has stopped: at once, and
\* without asking whether the drinker is still alive.
Drink(p) ==
  /\ Live(p)
  /\ Drinkable(p)
  /\ p \notin engaged
  /\ Drunk(p)
  /\ stranded' = stranded \ {p}
  /\ UNCHANGED <<seatVars, conn, pos, fightVars, timerVars, cooling, slain, screen, yanked,
                 faults, crashes>>

\* useItem in a fight: instead of the next swing.
QueueDrink(p) ==
  /\ Live(p)
  /\ Drinkable(p)
  /\ p \in engaged
  /\ hp[p] > 0
  /\ queued' = [queued EXCEPT ![p] = [what |-> "item", aim |-> NoPlayer]]
  /\ UNCHANGED <<seatVars, bodyVars, battle, inCombat, engaged, guarded, timerVars,
                 cooling, slain, screen, ghostVars>>

\* stop
Stand(p) ==
  /\ Live(p)
  /\ inCombat[p] # NoRoom
  /\ engaged' = engaged \ {p}
  /\ queued' = [queued EXCEPT ![p] = NoOrder]
  /\ UNCHANGED <<seatVars, bodyVars, battle, inCombat, guarded, timerVars, cooling, slain,
                 screen, ghostVars>>

-----------------------------------------------------------------------------
(* The tick: a player's swing.                                             *)

Due(p) ==
  /\ ticking
  /\ inCombat[p] # NoRoom
  /\ p \in engaged
  /\ p \in present
  /\ hp[p] > 0

\* The order is taken off the queue, and a skill starts to cool.
Taken(p) ==
  /\ queued' = [queued EXCEPT ![p] = NoOrder]
  /\ cooling' = IF queued[p].what \in Skill THEN cooling \cup {<<p, queued[p].what>>}
                ELSE cooling

\* Whom a heal or a guard reaches: its aim if that one still fights here.
Reached(p) ==
  IF queued[p].aim # NoPlayer /\ inCombat[queued[p].aim] = inCombat[p]
    THEN queued[p].aim ELSE p

SwingItem(p) ==
  /\ Due(p)
  /\ queued[p].what = "item"
  /\ Taken(p)
  /\ IF Drinkable(p) THEN Drunk(p) ELSE UNCHANGED <<hp, potions>>
  /\ UNCHANGED <<seatVars, conn, pos, battle, inCombat, engaged, guarded, timerVars, slain,
                 screen, ghostVars>>

\* Mutant of SwingHeal: what is healed counts as threat.
SwingHealThreat(p) ==
  /\ Due(p)
  /\ queued[p].what = "heal"
  /\ Taken(p)
  /\ hp' = [hp EXCEPT ![Reached(p)] = Least(MaxHp, @ + Mend)]
  /\ battle' = [battle EXCEPT ![inCombat[p]].threat[p] = @ + Mend]
  /\ UNCHANGED <<seatVars, conn, pos, potions, inCombat, engaged, guarded, timerVars,
                 slain, screen, ghostVars>>

SwingHeal(p) ==
  /\ Due(p)
  /\ queued[p].what = "heal"
  /\ Taken(p)
  /\ \/ hp' = [hp EXCEPT ![Reached(p)] = Least(MaxHp, @ + Mend)] /\ UNCHANGED faults
     \/ faults < MaxFaults /\ faults' = faults + 1 /\ UNCHANGED hp
  /\ UNCHANGED <<seatVars, conn, pos, potions, battle, inCombat, engaged, guarded,
                 timerVars, slain, screen, stranded, yanked, crashes>>

SwingGuard(p) ==
  /\ Due(p)
  /\ queued[p].what = "guard"
  /\ Taken(p)
  /\ guarded' = guarded \cup {Reached(p)}
  /\ UNCHANGED <<seatVars, bodyVars, battle, inCombat, engaged, timerVars, slain, screen,
                 ghostVars>>

\* A basic attack or a strike that leaves the enemy alive.
SwingHits(p, d) ==
  LET r == inCombat[p]
  IN
  /\ Due(p)
  /\ queued[p].what \in {"none", "strike"}
  /\ d < battle[r].hp
  /\ Taken(p)
  /\ battle' = [battle EXCEPT ![r] = Wounded(@, p, d)]
  /\ screen' = Updated(Fighters(r), r, battle'[r])
  /\ UNCHANGED <<seatVars, bodyVars, inCombat, engaged, guarded, timerVars, slain, ghostVars>>

\* How an enemy that was killed is kept away: by a world flag or by a timer.
Removed(r) ==
  IF r \in Boss THEN slain' = slain \cup {r} /\ UNCHANGED fallen
  ELSE fallen' = fallen \cup {r} /\ UNCHANGED slain

\* sharers: those still in the fight whose damage earns a share of the loot.
Sharers(b, p) ==
  LET threat == [b.threat EXCEPT ![p] = @ + b.hp]
  IN  {q \in Player : threat[q] >= ShareNeeded}

\* The swing that kills: loot for any of the sharers, and everybody is out of the
\* fight.
SwingKills(p, d) ==
  LET r == inCombat[p]
      all == Fighters(r)
  IN
  /\ Due(p)
  /\ queued[p].what \in {"none", "strike"}
  /\ d >= battle[r].hp
  /\ cooling' = IF queued[p].what \in Skill THEN cooling \cup {<<p, queued[p].what>>}
                ELSE cooling
  /\ \E lucky \in SUBSET Sharers(battle[r], p) :
       potions' = [q \in Player |-> IF q \in lucky THEN Least(MaxPotions, potions[q] + 1)
                                    ELSE potions[q]]
  /\ Removed(r)
  /\ battle' = [battle EXCEPT ![r] = NoBattle]
  /\ inCombat' = [q \in Player |-> IF q \in all THEN NoRoom ELSE inCombat[q]]
  /\ engaged' = engaged \ all
  /\ guarded' = guarded \ all
  /\ queued' = [q \in Player |-> IF q \in all THEN NoOrder ELSE queued[q]]
  /\ screen' = [q \in Player |-> IF q \in all /\ Live(q) THEN NoRoom ELSE screen[q]]
  /\ ticking' = StillTicking(battle', fallen')
  /\ yanked' = yanked \ all
  /\ UNCHANGED <<seatVars, conn, pos, hp, respawn, stranded, faults, crashes>>

\* A cooldown passes.
Cool(p, sk) ==
  /\ <<p, sk>> \in cooling
  /\ cooling' = cooling \ {<<p, sk>>}
  /\ UNCHANGED <<seatVars, bodyVars, fightVars, timerVars, slain, screen, ghostVars>>

-----------------------------------------------------------------------------
(* The tick: the enemy's swing, and its return.                            *)

\* The enemy's fight with its target chosen anew.
Aimed(r) == [battle[r] EXCEPT !.target = PickTarget(battle[r].order, battle[r].threat)]

\* The enemy may swing, and its target is one that can be hit.
EnemyDue(r) ==
  /\ ticking
  /\ battle[r] # NoBattle
  /\ Aimed(r).target \in present
  /\ hp[Aimed(r).target] > 0

\* windsUp: after EveryNth plain swings the enemy draws back for a heavy one.
WindsUp(r) == ~battle[r].charged /\ EveryNth[r] # 0 /\ battle[r].swings >= EveryNth[r]

\* One swing of the clock goes into the announcement; nobody is hit.
EnemyWindsUp(r) ==
  /\ EnemyDue(r)
  /\ WindsUp(r)
  /\ battle' = [battle EXCEPT ![r] = [Aimed(r) EXCEPT !.charged = TRUE, !.swings = 0]]
  /\ UNCHANGED <<seatVars, bodyVars, inCombat, engaged, queued, guarded, timerVars, cooling,
                 slain, screen, ghostVars>>

\* The fight after a blow has fallen.  Plain swings are counted towards the next
\* windup, which an enemy without windup never reaches.
Struck(r) ==
  [Aimed(r) EXCEPT !.charged = FALSE,
     !.swings = IF @ < EveryNth[r] /\ ~battle[r].charged THEN @ + 1 ELSE @]

\* resolveEnemySwing: a heavy blow is multiplied by 2.5 first, and a guard then
\* takes half of it, but never all.
Blow(r, d) ==
  LET heavy == IF battle[r].charged THEN (5 * d + 1) \div 2 ELSE d
      half == (heavy + 1) \div 2
  IN  IF Aimed(r).target \in guarded THEN half ELSE heavy

\* A blow the target survives.  The write of its hit points may fail.
EnemyHits(r, d) ==
  LET t == Aimed(r).target
  IN
  /\ EnemyDue(r)
  /\ ~WindsUp(r)
  /\ Blow(r, d) < hp[t]
  /\ \/ hp' = [hp EXCEPT ![t] = @ - Blow(r, d)] /\ UNCHANGED faults
     \/ faults < MaxFaults /\ faults' = faults + 1 /\ UNCHANGED hp
  /\ battle' = [battle EXCEPT ![r] = Struck(r)]
  /\ guarded' = guarded \ {t}
  /\ UNCHANGED <<seatVars, conn, pos, potions, inCombat, engaged, queued, timerVars,
                 cooling, slain, screen, stranded, yanked, crashes>>

\* Mutant of Armed: a character that is not connected gets no respawn timer.
ArmedIfLive(p) ==
  respawn' = IF Live(p) THEN [respawn EXCEPT ![<<p, conn[p]>>] = @ + 1] ELSE respawn

\* The respawn timer captures the epoch of the moment by value.
Armed(p) == respawn' = [respawn EXCEPT ![<<p, conn[p]>>] = @ + 1]

\* defeat: the blow that strikes the target down, or should have if the write of
\* its hit points had not failed.
EnemyKills(r, d) ==
  LET t == Aimed(r).target
  IN
  /\ EnemyDue(r)
  /\ ~WindsUp(r)
  /\ Blow(r, d) >= hp[t]
  /\ respawn[<<t, conn[t]>>] < MaxTimers
  /\ \/ hp' = [hp EXCEPT ![t] = 0] /\ UNCHANGED faults
     \/ faults < MaxFaults /\ faults' = faults + 1 /\ UNCHANGED hp
  /\ Quit(t, [battle EXCEPT ![r] = Struck(r)])
  /\ Armed(t)
  /\ UNCHANGED <<seatVars, conn, pos, potions, fallen, cooling, slain, stranded, crashes>>

\* respawnEnemy
EnemyReturns(r) ==
  /\ ticking
  /\ r \in fallen
  /\ fallen' = fallen \ {r}
  /\ ticking' = StillTicking(battle, fallen')
  /\ UNCHANGED <<seatVars, bodyVars, fightVars, respawn, cooling, slain, screen, ghostVars>>

\* The respawn timer of p: nothing for a player that has left or come back on
\* another connection; nothing but a log line if a write fails; otherwise the
\* player is put at the spawn point with half its hit points, whatever it has
\* been doing meanwhile.
RespawnFires(p, c) ==
  /\ respawn[<<p, c>>] > 0
  /\ respawn' = [respawn EXCEPT ![<<p, c>>] = @ - 1]
  /\ \/ /\ p \notin present \/ conn[p] # c
        /\ UNCHANGED <<pos, hp, stranded, yanked, faults>>
     \/ /\ p \in present /\ conn[p] = c
        /\ faults < MaxFaults
        /\ faults' = faults + 1
        /\ stranded' = IF hp[p] = 0 THEN stranded \cup {p} ELSE stranded
        /\ UNCHANGED <<pos, hp, yanked>>
     \/ /\ p \in present /\ conn[p] = c
        /\ pos' = [pos EXCEPT ![p] = Spawn]
        /\ hp' = [hp EXCEPT ![p] = Half]
        /\ stranded' = stranded \ {p}
        /\ yanked' = IF inCombat[p] \notin {NoRoom, Spawn} THEN yanked \cup {p} ELSE yanked
        /\ UNCHANGED faults
  /\ UNCHANGED <<seatVars, conn, potions, fightVars, fallen, ticking, cooling, slain,
                 screen, crashes>>

-----------------------------------------------------------------------------
Next ==
  \/ \E p \in Player, c \in Conn : Hello(p, c)
  \/ \E c \in Conn : Disconnect(c)
  \/ \E p \in Player : Leave(p)
  \/ Crash
  \/ \E p \in Player, r \in Room : Move(p, r)
  \/ \E p \in Player : Attack(p)
  \/ \E p \in Player : AttackAgain(p)
  \/ \E p \in Player, sk \in Skill, aim \in Player \cup {NoPlayer} : UseSkill(p, sk, aim)
  \/ \E p \in Player : Drink(p)
  \/ \E p \in Player : QueueDrink(p)
  \/ \E p \in Player : Stand(p)
  \/ \E p \in Player : SwingItem(p)
  \/ \E p \in Player : SwingHeal(p)
  \/ \E p \in Player : SwingGuard(p)
  \/ \E p \in Player, d \in Damage : SwingHits(p, d)
  \/ \E p \in Player, d \in Damage : SwingKills(p, d)
  \/ \E p \in Player, sk \in Skill : Cool(p, sk)
  \/ \E r \in Den : EnemyWindsUp(r)
  \/ \E r \in Den, d \in Damage : EnemyHits(r, d)
  \/ \E r \in Den, d \in Damage : EnemyKills(r, d)
  \/ \E r \in Den : EnemyReturns(r)
  \/ \E p \in Player, c \in Conn : RespawnFires(p, c)

Spec == Init /\ [][Next]_vars

(***************************************************************************)
(* The timers of the process fire.  Nothing is assumed of the players.     *)
(***************************************************************************)
Fairness ==
  /\ \A r \in Den : WF_vars(EnemyReturns(r))
  /\ \A p \in Player, c \in Conn : WF_vars(RespawnFires(p, c))

FairSpec == Spec /\ Fairness

-----------------------------------------------------------------------------
(* Safety.                                                                 *)

\* The two indexes of the service agree: inCombat says a player fights in r
\* exactly when the Combat of r has it as a fighter, once; a Combat exists only
\* while it has fighters.  (Disagreement would be a fighter nobody can reach or
\* an attack that can never end.)
FightersIndexed ==
  /\ \A r \in Room :
       battle[r] # NoBattle =>
         /\ battle[r].order # <<>>
         /\ \A i, j \in DOMAIN battle[r].order :
              battle[r].order[i] = battle[r].order[j] => i = j
  /\ \A p \in Player, r \in Room :
       inCombat[p] = r <=>
         /\ battle[r] # NoBattle
         /\ \E i \in DOMAIN battle[r].order : battle[r].order[i] = p

\* Nobody fights dead or absent: whoever is struck down, leaves or times out is
\* out of the fight in the same step, so an enemy never stops at a target it
\* cannot hit.
FightersCanFight ==
  \A p \in Player : inCombat[p] # NoRoom => p \in present /\ hp[p] > 0

\* The enemy aims at somebody who is in the fight.
TargetFights ==
  \A r \in Room :
    battle[r] # NoBattle /\ battle[r].target # NoPlayer => inCombat[battle[r].target] = r

\* A fight is with an enemy that is there and alive: one that has fallen and not
\* returned, or is dead for good, is not fought.
EnemyIsThere ==
  \A r \in Room : battle[r] # NoBattle =>
    r \in Den \ (fallen \cup slain) /\ battle[r].hp > 0

\* The damage done by the fighters of b, added up in the order of their joining.
RunningTotal(b, total) ==
  /\ total[0] = 0
  /\ \A i \in DOMAIN b.order : total[i] = total[i - 1] + b.threat[b.order[i]]

\* Loot and mission credit follow the damage done: what the present fighters are
\* credited with is never more than what the enemy has lost, and nobody else is
\* credited (engine/combat.ts:60-158).
CreditIsDamage ==
  \A r \in Room : battle[r] # NoBattle =>
    /\ \A p \in Player : battle[r].threat[p] > 0 => inCombat[p] = r
    /\ \E total \in [0..Len(battle[r].order) -> 0..EnemyHp] :
         /\ RunningTotal(battle[r], total)
         /\ total[Len(battle[r].order)] + battle[r].hp <= EnemyHp

\* The clock of the service runs exactly while something waits for it: a fight,
\* or an enemy that is to return.
ClockRunsWhenNeeded ==
  ticking <=> (\E r \in Room : battle[r] # NoBattle) \/ fallen # {}

\* A connected client shows the fight its player is in, and the enemy's hit
\* points as they are (emit.ts, combat.ts:297-314).
ScreensShowFights ==
  \A p \in Player : Live(p) =>
    screen[p] = IF inCombat[p] = NoRoom THEN NoRoom
                ELSE <<inCombat[p], battle[inCombat[p]].hp>>

\* Fighters stand in the room of their fight, except those a respawn timer has
\* carried off (see FightEndsWithRoom).
FightersInPlace ==
  \A p \in Player : inCombat[p] # NoRoom /\ p \notin yanked => pos[p] = inCombat[p]

\* Nobody present lies dead without a timer that will raise it, unless that
\* timer has fired and its write has failed.
DownHasTimer ==
  \A p \in present : hp[p] = 0 /\ p \notin stranded => respawn[<<p, conn[p]>>] > 0

\* An order that waits is for a skill that is ready: the cooldown is asked for
\* when the order is given and not when it is carried out, which may be much
\* later, and still no skill is used while its cooldown lasts.
OrdersAreReady ==
  \A p \in Player : queued[p].what \in Skill => <<p, queued[p].what>> \notin cooling

\* A fight is known to every fighter it counts and to nobody else, all of them
\* are alive, here and in its room, the enemy is there and aims at one of them,
\* and no order waits that could not be carried out (combat.ts, attack, leave,
\* skill, respawnEnemy).
FightIsSound ==
  /\ TypeOK /\ FightersIndexed /\ FightersCanFight /\ TargetFights
  /\ EnemyIsThere /\ FightersInPlace /\ OrdersAreReady

\* Nothing waits for a clock that has stopped: it runs exactly while a fight or a
\* fallen enemy needs it, and whoever lies dead has a timer that will raise it,
\* through reconnections, failed writes and crashes (combat.ts:799-858).
ClocksRun == ClockRunsWhenNeeded /\ DownHasTimer

-----------------------------------------------------------------------------
(* Liveness, under Fairness.                                               *)

\* A repeating enemy comes back even if nobody fights anywhere.
EnemyComesBack == \A r \in Den : r \in fallen ~> r \notin fallen

\* Whoever is down in the world stands up again, leaves, or is left lying by a
\* failed write.
DownStandsUp ==
  \A p \in Player : (p \in present /\ hp[p] = 0) ~>
    (hp[p] > 0 \/ p \notin present \/ p \in stranded)

-----------------------------------------------------------------------------
(* What the comments say without exception.                                *)

\* handlers.ts: leaving the room ends the fight.
FightEndsWithRoom == \A p \in Player : inCombat[p] # NoRoom => pos[p] = inCombat[p]

\* handlers.ts: outside a fight nothing raises hit points, so that a character
\* without any is raised by the respawn timer or by a hello only.
OnlyRevivalRaises ==
  [][\A p \in Player :
       hp[p] = 0 /\ hp'[p] > 0 =>
         conn'[p] # conn[p] \/ \E c \in Conn : respawn'[<<p, c>>] < respawn[<<p, c>>]]_vars
=============================================================================
