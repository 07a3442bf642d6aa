---------------------------- MODULE CombatProofs ----------------------------
(***************************************************************************)
(* Theorems about Combat, for every set of players, connections and rooms, *)
(* every enemy and every amount of damage.                                 *)
(*                                                                         *)
(* A fight and the players who believe to be in it change together, so the *)
(* inductive invariant speaks of a room's Combat and of its set of         *)
(* fighters at once (Fought): who leaves, joins, strikes or is aimed at    *)
(* keeps it, and each action of the service is one or two of these.  That  *)
(* the credit of the fighters and the enemy's hit points never exceed what *)
(* the enemy had is kept by moving one running total along.                *)
(***************************************************************************)
EXTENDS Combat, FiniteSetTheorems, SequenceTheorems, TLAPS

\* No two places in the order are one player's.
Distinct(order) == \A i, j \in DOMAIN order : order[i] = order[j] => i = j

Credited(b) ==
  \E total \in [0..Len(b.order) -> 0..EnemyHp] :
    RunningTotal(b, total) /\ total[Len(b.order)] + b.hp <= EnemyHp

\* b is a Combat of r, and its fighters are those of S.
Fought(r, b, S) ==
  /\ b \in Battle(r)
  /\ b.order # <<>>
  /\ Distinct(b.order)
  /\ \A p \in Player : p \in S <=> \E i \in DOMAIN b.order : b.order[i] = p
  /\ b.target = NoPlayer \/ b.target \in S
  /\ b.hp > 0
  /\ \A p \in Player : b.threat[p] > 0 => p \in S
  /\ Credited(b)

-----------------------------------------------------------------------------
LEMMA LeastExists ==
  ASSUME NEW S, S \subseteq Nat, S # {}
  PROVE  \E m \in S : \A n \in S : m <= n
<1>1. PICK m \in S : \A n \in S : <<n, m>> \notin OpToRel(<, Nat)
  BY NatLessThanWellFounded, WFMin
<1>2. ASSUME NEW n \in S PROVE m <= n
  <2>1. <<n, m>> \in Nat \X Nat
    OBVIOUS
  <2>2. ~(n < m)
    BY <1>1, <2>1 DEF OpToRel
  <2> QED BY <2>2
<1> QED BY <1>2

\* A running total never falls: its last value is the largest.
LEMMA UpwardsTotal ==
  ASSUME NEW n \in Nat, NEW f, \A i \in 0..n : f[i] \in Nat,
         NEW g, \A i \in 1..n : g[i] \in Nat /\ f[i] = f[i - 1] + g[i]
  PROVE  \A i \in 0..n : f[i] <= f[n]
<1> DEFINE Over == {m \in 0..n : f[n - m] > f[n]}
<1> SUFFICES ASSUME Over # {} PROVE FALSE
  <2> TAKE i \in 0..n
  <2>1. n - i \in 0..n /\ n - (n - i) = i
    OBVIOUS
  <2>2. ~(f[n - (n - i)] > f[n])
    BY <2>1
  <2>3. f[i] \in Nat /\ f[n] \in Nat
    OBVIOUS
  <2> QED BY <2>1, <2>2, <2>3
<1>0. Over \subseteq Nat
  OBVIOUS
<1>1. PICK m \in Over : \A k \in Over : m <= k
  <2> HIDE DEF Over
  <2> QED BY <1>0, LeastExists
<1>2. m \in 0..n /\ f[n - m] > f[n]
  OBVIOUS
<1>3. m # 0
  <2>1. n - 0 = n /\ f[n] \in Nat
    OBVIOUS
  <2> QED BY <1>2, <2>1
<1>4. m - 1 \in 0..n /\ n - (m - 1) \in 1..n /\ (n - (m - 1)) - 1 = n - m /\ n - (m - 1) \in 0..n /\ n - m \in 0..n
  BY <1>2, <1>3
<1>5. ~(f[n - (m - 1)] > f[n])
  <2>1. m - 1 \notin Over
    <3>1. ~(m <= m - 1)
      BY <1>2
    <3> HIDE DEF Over
    <3> QED BY <1>1, <3>1
  <2> QED BY <1>4, <2>1
<1>6. f[n - (m - 1)] = f[n - m] + g[n - (m - 1)] /\ g[n - (m - 1)] \in Nat
  <2> DEFINE i == n - (m - 1)
  <2>1. i \in 1..n /\ i - 1 = n - m
    BY <1>4
  <2> HIDE DEF i
  <2>2. g[i] \in Nat /\ f[i] = f[i - 1] + g[i]
    BY <2>1
  <2> QED BY <2>1, <2>2 DEF i
<1>7. f[n - (m - 1)] \in Nat /\ f[n - m] \in Nat /\ f[n] \in Nat
  BY <1>4
<1> QED BY <1>2, <1>5, <1>6, <1>7

-----------------------------------------------------------------------------
(* The order of joining.                                                   *)

LEMMA OrderType ==
  ASSUME NEW order \in Seq(Player)
  PROVE  /\ Len(order) \in Nat /\ DOMAIN order = 1..Len(order)
         /\ \A i \in 1..Len(order) : order[i] \in Player
         /\ order # <<>> => Len(order) > 0
BY LenProperties, ElementOfSeq, EmptySeq

\* Deleting a fighter closes the gap it leaves.
LEMMA RestOrder ==
  ASSUME NEW order \in Seq(Player), Distinct(order), NEW k \in DOMAIN order
  PROVE  /\ Rest(order, order[k]) \in Seq(Player)
         /\ Len(Rest(order, order[k])) = Len(order) - 1
         /\ \A j \in 1..(Len(order) - 1) :
              Rest(order, order[k])[j] = IF j < k THEN order[j] ELSE order[j + 1]
<1> DEFINE n == Len(order)
           before == SubSeq(order, 1, k - 1)
           after == SubSeq(order, k + 1, n)
<1>1. /\ n \in Nat /\ DOMAIN order = 1..n /\ k \in 1..n
      /\ \A i \in 1..n : order[i] \in Player
  BY OrderType
<1>2. (CHOOSE i \in DOMAIN order : order[i] = order[k]) = k
  BY DEF Distinct
<1>3. Rest(order, order[k]) = before \o after
  BY <1>2 DEF Rest, RemoveAt
<1>4. /\ before \in Seq(Player) /\ Len(before) = k - 1
      /\ \A i \in 1..(k - 1) : before[i] = order[i]
  <2>1. /\ 1 \in Int /\ k - 1 \in Int
        /\ \A i \in 1..(k - 1) : order[i] \in Player
    BY <1>1
  <2>2. /\ before \in Seq(Player) /\ Len(before) = IF 1 <= k - 1 THEN k - 1 - 1 + 1 ELSE 0
        /\ \A i \in 1..(k - 1 - 1 + 1) : before[i] = order[1 + i - 1]
    BY <2>1, SubSeqProperties
  <2> HIDE DEF before
  <2> QED BY <1>1, <2>2
<1>5. /\ after \in Seq(Player) /\ Len(after) = n - k
      /\ \A i \in 1..(n - k) : after[i] = order[k + i]
  <2>1. /\ k + 1 \in Int /\ n \in Int
        /\ \A i \in (k + 1)..n : order[i] \in Player
    BY <1>1
  <2>2. /\ after \in Seq(Player) /\ Len(after) = IF k + 1 <= n THEN n - (k + 1) + 1 ELSE 0
        /\ \A i \in 1..(n - (k + 1) + 1) : after[i] = order[k + 1 + i - 1]
    BY <2>1, SubSeqProperties
  <2> HIDE DEF after
  <2>3. Len(after) = n - k
    BY <1>1, <2>2
  <2>4. ASSUME NEW i \in 1..(n - k) PROVE after[i] = order[k + i]
    <3>1. i \in 1..(n - (k + 1) + 1) /\ k + 1 + i - 1 = k + i
      BY <1>1
    <3> QED BY <2>2, <3>1
  <2> QED BY <2>2, <2>3, <2>4
<1> HIDE DEF before, after
<1>6. /\ before \o after \in Seq(Player) /\ Len(before \o after) = n - 1
      /\ \A i \in 1..(n - 1) :
           (before \o after)[i] = IF i <= k - 1 THEN before[i] ELSE after[i - (k - 1)]
  <2>1. Len(before) + Len(after) = n - 1
    BY <1>1, <1>4, <1>5
  <2>2. /\ before \o after \in Seq(Player)
        /\ Len(before \o after) = Len(before) + Len(after)
        /\ \A i \in 1..(Len(before) + Len(after)) :
             (before \o after)[i] = IF i <= Len(before) THEN before[i] ELSE after[i - Len(before)]
    BY <1>4, <1>5, ConcatProperties
  <2>3. Len(before) = k - 1
    BY <1>4
  <2> HIDE DEF n
  <2> QED BY <2>1, <2>2, <2>3
<1>7. ASSUME NEW j \in 1..(n - 1)
      PROVE  (before \o after)[j] = IF j < k THEN order[j] ELSE order[j + 1]
  <2>1. CASE j < k
    BY <1>1, <1>4, <1>6, <2>1
  <2>2. CASE ~(j < k)
    <3>1. j - (k - 1) \in 1..(n - k) /\ k + (j - (k - 1)) = j + 1
      BY <1>1, <2>2
    <3> QED BY <1>1, <1>5, <1>6, <2>2, <3>1
  <2> QED BY <2>1, <2>2
<1> QED BY <1>3, <1>6, <1>7

\* pickTarget finds somebody wherever anybody fights.
LEMMA PickTargetFights ==
  ASSUME NEW order \in Seq(Player), order # <<>>, NEW threat \in [Player -> 0..EnemyHp]
  PROVE  \E i \in DOMAIN order : PickTarget(order, threat) = order[i]
<1> DEFINE D == DOMAIN order
           gap(i) == EnemyHp - threat[order[i]]
           gaps == {gap(i) : i \in D}
           best == {i \in D : \A j \in D : threat[order[j]] <= threat[order[i]]}
<1>1. /\ D = 1..Len(order) /\ D # {} /\ D \subseteq Nat
      /\ \A i \in D : threat[order[i]] \in 0..EnemyHp
  BY OrderType
<1>2. EnemyHp \in Nat
  BY CombatAssumption
<1>3. gaps \subseteq Nat /\ gaps # {}
  BY <1>1, <1>2
<1>5. PICK g \in gaps : \A h \in gaps : g <= h
  BY <1>3, LeastExists
<1>6. PICK i \in D : g = gap(i)
  OBVIOUS
<1>7. i \in best
  <2> SUFFICES ASSUME NEW j \in D PROVE threat[order[j]] <= threat[order[i]]
    OBVIOUS
  <2>1. gap(j) \in gaps /\ g <= gap(j)
    BY <1>5
  <2>2. EnemyHp - threat[order[i]] <= EnemyHp - threat[order[j]]
    BY <1>6, <2>1
  <2>3. threat[order[i]] \in Int /\ threat[order[j]] \in Int
    BY <1>1
  <2> QED BY <1>2, <2>2, <2>3
<1>8. best \subseteq Nat /\ best # {}
  BY <1>1, <1>7
<1> HIDE DEF best
<1>10. \E k \in best : \A j \in best : k <= j
  BY <1>8, LeastExists
<1> DEFINE first == CHOOSE j \in best : \A l \in best : j <= l
<1>11. first \in best
  BY <1>10
<1>12. PickTarget(order, threat) = order[first]
  BY DEF PickTarget, best
<1> HIDE DEF first
<1>13. first \in D
  BY <1>11 DEF best
<1> QED BY <1>12, <1>13

-----------------------------------------------------------------------------
(* The fight of one room.                                                  *)

LEMMA FoughtTypes ==
  ASSUME NEW r, NEW b, NEW S, Fought(r, b, S)
  PROVE  /\ b.hp \in 0..EnemyHp /\ b.order \in Seq(Player)
         /\ b.threat \in [Player -> 0..EnemyHp]
         /\ b.target \in Player \cup {NoPlayer}
         /\ b.charged \in BOOLEAN /\ b.swings \in 0..EveryNth[r]
         /\ Len(b.order) \in Nat \ {0} /\ DOMAIN b.order = 1..Len(b.order)
         /\ \A i \in 1..Len(b.order) : b.order[i] \in Player
<1>1. /\ b.hp \in 0..EnemyHp /\ b.order \in Seq(Player)
      /\ b.threat \in [Player -> 0..EnemyHp]
      /\ b.target \in Player \cup {NoPlayer}
      /\ b.charged \in BOOLEAN /\ b.swings \in 0..EveryNth[r]
      /\ b.order # <<>>
  BY DEF Fought, Battle
<1> QED BY <1>1, OrderType

\* The first to attack opens a fight that nobody is in, and joins it.
LEMMA OpenedFight ==
  ASSUME NEW r \in Den, NEW p \in Player
  PROVE  Fought(r, Joined(NewBattle, p), {p})
<1> DEFINE none == [q \in Player |-> 0]
           order == <<p>>
           b == [NewBattle EXCEPT !.order = order, !.threat = none]
<1>1. [NewBattle EXCEPT !.order = Append(@, p), !.threat[p] = 0] = b
  <2>1. NewBattle.order = <<>> /\ NewBattle.threat = none
    BY DEF NewBattle
  <2>2. Append(<<>>, p) = <<p>> /\ [none EXCEPT ![p] = 0] = none
    OBVIOUS
  <2> HIDE DEF none
  <2>3. [NewBattle EXCEPT !.order = Append(@, p), !.threat[p] = 0] =
          [NewBattle EXCEPT !.order = Append(NewBattle.order, p),
                            !.threat = [NewBattle.threat EXCEPT ![p] = 0]]
    OBVIOUS
  <2> QED BY <2>1, <2>2, <2>3
<1>2. EnemyHp \in Nat \ {0} /\ EveryNth[r] \in Nat
  BY CombatAssumption
<1>3. /\ b \in Battle(r)
      /\ b.order = <<p>> /\ b.threat = none /\ b.hp = EnemyHp /\ b.target = NoPlayer
  <2>1. NewBattle \in Battle(r) /\ NewBattle.hp = EnemyHp /\ NewBattle.target = NoPlayer
    BY <1>2 DEF NewBattle, Battle
  <2>2. none \in [Player -> 0..EnemyHp] /\ order \in Seq(Player)
    BY <1>2
  <2> HIDE DEF none, order
  <2>3. /\ b \in Battle(r)
        /\ b.order = order /\ b.threat = none /\ b.hp = NewBattle.hp /\ b.target = NewBattle.target
    BY <2>1, <2>2 DEF Battle
  <2> QED BY <2>1, <2>3 DEF order
<1> HIDE DEF b
<1>4. Credited(b)
  <2> DEFINE total == [i \in 0..1 |-> 0]
  <2>1. Len(b.order) = 1 /\ DOMAIN b.order = {1}
    BY <1>3
  <2>2. total \in [0..Len(b.order) -> 0..EnemyHp] /\ RunningTotal(b, total)
    BY <1>2, <1>3, <2>1 DEF RunningTotal
  <2>3. total[Len(b.order)] + b.hp <= EnemyHp
    BY <1>2, <1>3, <2>1
  <2> QED BY <2>2, <2>3 DEF Credited
<1>5. /\ Distinct(b.order) /\ b.order # <<>>
      /\ \A q \in Player : q \in {p} <=> \E i \in DOMAIN b.order : b.order[i] = q
  BY <1>3 DEF Distinct
<1>6. b.target = NoPlayer /\ b.hp > 0 /\ \A q \in Player : ~(b.threat[q] > 0)
  BY <1>2, <1>3
<1> QED BY <1>1, <1>3, <1>4, <1>5, <1>6 DEF Fought, Joined

\* Who joins a fight stands last and has done nothing yet.
LEMMA JoinedFight ==
  ASSUME NEW r \in Den, NEW b, NEW S, Fought(r, b, S), NEW p \in Player, p \notin S
  PROVE  Fought(r, Joined(b, p), S \cup {p})
<1> DEFINE n == Len(b.order)
           order == Append(b.order, p)
           threat == [b.threat EXCEPT ![p] = 0]
           c == [b EXCEPT !.order = order, !.threat = threat]
<1>1. /\ b.hp \in 0..EnemyHp /\ b.order \in Seq(Player)
      /\ b.threat \in [Player -> 0..EnemyHp]
      /\ n \in Nat \ {0} /\ DOMAIN b.order = 1..n
      /\ \A i \in 1..n : b.order[i] \in Player
      /\ EnemyHp \in Nat
  BY FoughtTypes, CombatAssumption
<1>2. /\ order \in Seq(Player) /\ order # <<>> /\ Len(order) = n + 1 /\ DOMAIN order = 1..(n + 1)
      /\ \A i \in 1..n : order[i] = b.order[i]
      /\ order[n + 1] = p
  BY <1>1, AppendProperties, LenProperties, SMTT(30)
<1>3. [b EXCEPT !.order = Append(@, p), !.threat[p] = 0] = [b EXCEPT !.order = order, !.threat = threat]
  OBVIOUS
<1>4. \A i \in 1..n : b.order[i] # p
  BY <1>1 DEF Fought
<1>5. threat \in [Player -> 0..EnemyHp] /\ threat[p] = 0 /\ \A q \in Player : q # p => threat[q] = b.threat[q]
  BY <1>1
<1> HIDE DEF order, threat
<1>6. /\ c \in Battle(r) /\ c.order = order /\ c.threat = threat
      /\ c.hp = b.hp /\ c.target = b.target
  BY <1>2, <1>5 DEF Fought, Battle
<1> HIDE DEF c, n
<1>7. Distinct(order)
  <2> SUFFICES ASSUME NEW i \in 1..(n + 1), NEW j \in 1..(n + 1), order[i] = order[j] PROVE i = j
    BY <1>2 DEF Distinct
  <2>1. CASE i \in 1..n /\ j \in 1..n
    BY <1>1, <1>2, <2>1 DEF Fought, Distinct
  <2>2. CASE i = n + 1 /\ j \in 1..n
    BY <1>2, <1>4, <2>2
  <2>3. CASE j = n + 1 /\ i \in 1..n
    BY <1>2, <1>4, <2>3
  <2> QED BY <1>1, <2>1, <2>2, <2>3
<1>8. \A q \in Player : q \in S \cup {p} <=> \E i \in DOMAIN order : order[i] = q
  <2> TAKE q \in Player
  <2>1. q \in S <=> \E i \in 1..n : b.order[i] = q
    BY <1>1 DEF Fought
  <2>2. (\E i \in 1..(n + 1) : order[i] = q) <=> (\E i \in 1..n : b.order[i] = q) \/ q = p
    <3>1. \A i \in 1..(n + 1) : i = n + 1 \/ i \in 1..n
      BY <1>1
    <3>2. n + 1 \in 1..(n + 1) /\ \A i \in 1..n : i \in 1..(n + 1)
      BY <1>1
    <3> QED BY <1>2, <3>1, <3>2
  <2> QED BY <1>2, <2>1, <2>2
<1>9. Credited(c)
  <2>1. PICK old \in [0..n -> 0..EnemyHp] : RunningTotal(b, old) /\ old[n] + b.hp <= EnemyHp
    BY DEF Fought, Credited, n
  <2> DEFINE total == [i \in 0..(n + 1) |-> IF i = n + 1 THEN old[n] ELSE old[i]]
  <2>2. total \in [0..Len(order) -> 0..EnemyHp]
    BY <1>1, <1>2
  <2>3. \A i \in 0..n : total[i] = old[i]
    BY <1>1
  <2>4. total[n + 1] = old[n]
    BY <1>1
  <2>5. ASSUME NEW i \in 1..(n + 1) PROVE total[i] = total[i - 1] + threat[order[i]]
    <3>1. CASE i = n + 1
      <4>1. i - 1 = n /\ n \in 0..n /\ total[i] = old[n] /\ threat[order[i]] = 0
        BY <1>1, <1>2, <1>5, <2>4, <3>1
      <4> QED BY <2>3, <4>1, <1>1
    <3>2. CASE i \in 1..n
      <4>1. i \in 0..n /\ i - 1 \in 0..n
        BY <1>1, <3>2
      <4>2. old[i] = old[i - 1] + b.threat[b.order[i]]
        BY <1>1, <2>1, <3>2 DEF RunningTotal
      <4>3. threat[order[i]] = b.threat[b.order[i]]
        BY <1>1, <1>2, <1>4, <1>5, <3>2
      <4> QED BY <2>3, <4>1, <4>2, <4>3
    <3> QED BY <1>1, <3>1, <3>2
  <2>6. total[0] = 0
    BY <1>1, <2>1, <2>3 DEF RunningTotal
  <2>7. total[Len(order)] + b.hp <= EnemyHp
    BY <1>2, <2>1, <2>4
  <2> HIDE DEF total
  <2>8. RunningTotal(c, total)
    BY <1>2, <1>6, <2>5, <2>6 DEF RunningTotal
  <2> QED BY <1>6, <2>2, <2>7, <2>8 DEF Credited
<1>10. /\ c.target = NoPlayer \/ c.target \in S \cup {p}
       /\ c.hp > 0
       /\ \A q \in Player : c.threat[q] > 0 => q \in S \cup {p}
  BY <1>5, <1>6 DEF Fought
<1>11. Fought(r, c, S \cup {p})
  BY <1>2, <1>6, <1>7, <1>8, <1>9, <1>10 DEF Fought
<1>12. [b EXCEPT !.order = order, !.threat = threat] = c
  BY DEF c
<1> QED BY <1>3, <1>11, <1>12 DEF Joined

\* A blow moves hit points of the enemy to the credit of the one who strikes.
LEMMA HitFight ==
  ASSUME NEW r \in Den, NEW b, NEW S, Fought(r, b, S), NEW p \in Player, p \in S,
         NEW d \in Damage, d < b.hp
  PROVE  Fought(r, Wounded(b, p, d), S)
<1> DEFINE n == Len(b.order)
           threat == [b.threat EXCEPT ![p] = @ + d]
           c == [b EXCEPT !.hp = b.hp - d, !.threat = threat]
<1>1. /\ b.hp \in 0..EnemyHp /\ b.order \in Seq(Player)
      /\ b.threat \in [Player -> 0..EnemyHp]
      /\ n \in Nat \ {0} /\ DOMAIN b.order = 1..n
      /\ \A i \in 1..n : b.order[i] \in Player
      /\ EnemyHp \in Nat /\ d \in Nat \ {0}
  BY FoughtTypes, CombatAssumption
<1>2. [b EXCEPT !.hp = @ - d, !.threat[p] = @ + d] = c
  OBVIOUS
<1>3. PICK k \in 1..n : b.order[k] = p
  BY <1>1 DEF Fought
<1>4. PICK old \in [0..n -> 0..EnemyHp] : RunningTotal(b, old) /\ old[n] + b.hp <= EnemyHp
  BY DEF Fought, Credited
<1>5. \A i \in 0..n : old[i] \in Nat
  BY <1>1
<1>6. \A i \in 1..n : old[i] = old[i - 1] + b.threat[b.order[i]] /\ i - 1 \in 0..n /\ i \in 0..n
  <2> TAKE i \in 1..n
  <2>1. i \in DOMAIN b.order /\ i - 1 \in 0..n /\ i \in 0..n
    BY <1>1
  <2> QED BY <1>4, <2>1 DEF RunningTotal
<1>16. d \in Nat /\ EnemyHp \in Nat /\ b.hp \in Nat /\ d < b.hp
  BY <1>1
<1>7. \A i \in 0..n : old[i] <= old[n]
  <2> DEFINE g == [i \in 1..n |-> b.threat[b.order[i]]]
  <2>1. \A i \in 1..n : g[i] \in Nat /\ old[i] = old[i - 1] + g[i]
    <3> TAKE i \in 1..n
    <3>1. b.threat[b.order[i]] \in Nat
      BY <1>1
    <3> QED BY <1>6, <3>1
  <2> HIDE DEF g, n
  <2> QED BY <1>1, <1>5, <2>1, UpwardsTotal
<1>8. b.threat[p] + d <= EnemyHp
  <2>1. old[k] = old[k - 1] + b.threat[p] /\ old[k] <= old[n] /\ old[k - 1] \in Nat /\ old[k] \in Nat /\ old[n] \in Nat
    <3>1. old[k] = old[k - 1] + b.threat[p] /\ k - 1 \in 0..n /\ k \in 0..n
      BY <1>3, <1>6
    <3>2. n \in 0..n
      BY <1>1
    <3> QED BY <1>5, <1>7, <3>1, <3>2
  <2>2. b.threat[p] \in Nat
    BY <1>1
  <2>3. old[n] + b.hp <= EnemyHp
    BY <1>4
  <2>4. b.threat[p] <= old[k]
    BY <2>1, <2>2
  <2>5. b.threat[p] <= old[n]
    BY <2>1, <2>2, <2>4
  <2>6. b.threat[p] + d <= old[n] + b.hp
    BY <1>16, <2>1, <2>2, <2>5, SMTT(30)
  <2>7. old[n] + b.hp \in Nat
    BY <1>16, <2>1
  <2>8. b.threat[p] + d \in Nat
    BY <1>16, <2>2
  <2> QED BY <1>16, <2>3, <2>6, <2>7, <2>8
<1>9. /\ threat \in [Player -> 0..EnemyHp] /\ threat[p] = b.threat[p] + d
      /\ \A q \in Player : q # p => threat[q] = b.threat[q]
  BY <1>1, <1>8
<1>10. b.hp - d \in 0..EnemyHp /\ b.hp - d > 0
  BY <1>1
<1>15. k \in 1..n /\ \A i \in 1..n : i # k => b.order[i] # p
  BY <1>1, <1>3 DEF Fought, Distinct
<1> HIDE DEF threat, n
<1>11. /\ c \in Battle(r) /\ c.order = b.order /\ c.threat = threat
       /\ c.hp = b.hp - d /\ c.target = b.target
  BY <1>9, <1>10 DEF Fought, Battle
<1> HIDE DEF c
<1>12. Credited(c)
  <2> DEFINE total == [i \in 0..n |-> IF i < k THEN old[i] ELSE old[i] + d]
  <2>1. \A i \in 0..n : total[i] \in 0..EnemyHp
    <3> TAKE i \in 0..n
    <3>1. old[i] \in Nat /\ old[n] \in Nat /\ old[i] <= old[n] /\ old[n] + d <= EnemyHp
      BY <1>1, <1>4, <1>5, <1>7
    <3> QED BY <1>1, <3>1
  <2>2. ASSUME NEW i \in 1..n PROVE total[i] = total[i - 1] + threat[b.order[i]]
    <3>1. old[i] = old[i - 1] + b.threat[b.order[i]] /\ i - 1 \in 0..n /\ i \in 0..n
      BY <1>6
    <3>2. old[i] \in Nat /\ old[i - 1] \in Nat /\ b.threat[b.order[i]] \in Nat /\ b.order[i] \in Player
      BY <1>1, <1>5, <3>1, SMTT(30)
    <3>3. CASE i < k
      <4>1. b.order[i] # p
        BY <1>1, <1>15, <3>3
      <4>2. total[i] = old[i] /\ total[i - 1] = old[i - 1]
        BY <1>1, <3>1, <3>3
      <4> QED BY <1>9, <3>1, <3>2, <4>1, <4>2
    <3>4. CASE i = k
      <4>1. total[i] = old[i] + d /\ total[i - 1] = old[i - 1]
        BY <1>1, <3>1, <3>4
      <4>2. threat[b.order[i]] = b.threat[b.order[i]] + d
        BY <1>3, <1>9, <3>4
      <4> HIDE DEF total
      <4> QED BY <1>16, <3>1, <3>2, <4>1, <4>2, SMTT(30)
    <3>5. CASE i > k
      <4>1. b.order[i] # p
        BY <1>1, <1>15, <3>5
      <4>2. total[i] = old[i] + d /\ total[i - 1] = old[i - 1] + d
        BY <1>1, <3>1, <3>5, SMTT(30)
      <4>3. threat[b.order[i]] = b.threat[b.order[i]]
        BY <1>9, <3>2, <4>1
      <4> HIDE DEF total
      <4> QED BY <1>16, <3>1, <3>2, <4>2, <4>3
    <3> QED BY <1>1, <3>3, <3>4, <3>5
  <2>3. total[0] = 0 /\ total[n] = old[n] + d
    BY <1>1, <1>4 DEF RunningTotal
  <2>4. total \in [0..n -> 0..EnemyHp]
    BY <2>1
  <2>5. total[n] + (b.hp - d) <= EnemyHp
    <3>1. old[n] \in Nat
      BY <1>1, <1>5
    <3> QED BY <1>1, <1>4, <2>3, <3>1
  <2> HIDE DEF total
  <2>6. RunningTotal(c, total)
    BY <1>1, <1>11, <2>2, <2>3 DEF RunningTotal
  <2> QED BY <1>11, <2>4, <2>5, <2>6 DEF Credited, n
<1>13. /\ c.target = NoPlayer \/ c.target \in S
       /\ c.hp > 0
       /\ \A q \in Player : c.threat[q] > 0 => q \in S
  BY <1>9, <1>10, <1>11 DEF Fought
<1>14. /\ Distinct(c.order) /\ c.order # <<>>
       /\ \A q \in Player : q \in S <=> \E i \in DOMAIN c.order : c.order[i] = q
  BY <1>11 DEF Fought
<1> QED BY <1>2, <1>11, <1>12, <1>13, <1>14 DEF Fought, Wounded

\* The enemy's aim falls on a fighter.
LEMMA AimedFight ==
  ASSUME NEW r \in Den, NEW b, NEW S, Fought(r, b, S)
  PROVE  /\ PickTarget(b.order, b.threat) \in S \cap Player
         /\ Fought(r, [b EXCEPT !.target = PickTarget(b.order, b.threat)], S)
<1> DEFINE t == PickTarget(b.order, b.threat)
           c == [b EXCEPT !.target = t]
<1>1. t \in S \cap Player
  <2>1. PICK i \in DOMAIN b.order : t = b.order[i]
    <3>1. b.order \in Seq(Player) /\ b.order # <<>> /\ b.threat \in [Player -> 0..EnemyHp]
      BY FoughtTypes DEF Fought
    <3> QED BY <3>1, PickTargetFights
  <2>2. t \in Player
    BY <2>1, FoughtTypes
  <2> QED BY <2>1, <2>2 DEF Fought
<1> HIDE DEF t
<1>2. /\ c \in Battle(r) /\ c.order = b.order /\ c.threat = b.threat
      /\ c.hp = b.hp /\ c.target = t
  BY <1>1 DEF Fought, Battle
<1> HIDE DEF c
<1>3. Credited(c)
  BY <1>2 DEF Fought, Credited, RunningTotal
<1>4. Fought(r, c, S)
  BY <1>1, <1>2, <1>3 DEF Fought
<1> QED BY <1>1, <1>4 DEF c, t

\* Drawing back and striking are the enemy's own affair.
LEMMA SwungFight ==
  ASSUME NEW r \in Den, NEW b, NEW S, Fought(r, b, S),
         NEW charged \in BOOLEAN, NEW swings \in 0..EveryNth[r]
  PROVE  Fought(r, [b EXCEPT !.charged = charged, !.swings = swings], S)
<1> DEFINE c == [b EXCEPT !.charged = charged, !.swings = swings]
<1>1. /\ c \in Battle(r) /\ c.order = b.order /\ c.threat = b.threat
      /\ c.hp = b.hp /\ c.target = b.target
  BY DEF Fought, Battle
<1> HIDE DEF c
<1>2. Credited(c)
  BY <1>1 DEF Fought, Credited, RunningTotal
<1>3. Fought(r, c, S)
  BY <1>1, <1>2 DEF Fought
<1> QED BY <1>3 DEF c

\* Who leaves takes its credit along; the last one takes the fight along.
LEMMA LeftFight ==
  ASSUME NEW r \in Den, NEW b, NEW S, Fought(r, b, S), S \subseteq Player, NEW p \in S
  PROVE  IF S = {p} THEN Without(b, p) = NoBattle
         ELSE Fought(r, Without(b, p), S \ {p}) /\ Without(b, p).hp = b.hp
<1> DEFINE n == Len(b.order)
           rest == Rest(b.order, p)
           threat == [b.threat EXCEPT ![p] = 0]
           aim == IF b.target = p THEN PickTarget(rest, threat) ELSE b.target
           c == [b EXCEPT !.order = rest, !.threat = threat, !.target = aim]
<1>1. /\ b.hp \in 0..EnemyHp /\ b.order \in Seq(Player)
      /\ b.threat \in [Player -> 0..EnemyHp]
      /\ n \in Nat \ {0} /\ DOMAIN b.order = 1..n
      /\ \A i \in 1..n : b.order[i] \in Player
      /\ EnemyHp \in Nat /\ b.hp \in Nat
  BY FoughtTypes, CombatAssumption
<1>2. PICK k \in 1..n : b.order[k] = p
  BY <1>1 DEF Fought
<1>3. /\ rest \in Seq(Player) /\ Len(rest) = n - 1
      /\ DOMAIN rest = 1..(n - 1)
      /\ \A j \in 1..(n - 1) : rest[j] = IF j < k THEN b.order[j] ELSE b.order[j + 1]
  <2>1. Distinct(b.order) /\ k \in DOMAIN b.order
    BY <1>1 DEF Fought
  <2>2. /\ rest \in Seq(Player) /\ Len(rest) = n - 1
        /\ \A j \in 1..(n - 1) : rest[j] = IF j < k THEN b.order[j] ELSE b.order[j + 1]
    BY <1>1, <1>2, <2>1, RestOrder
  <2> HIDE DEF rest
  <2> QED BY <2>2, LenProperties
<1>4. \A i \in 1..n : i # k => b.order[i] # p
  BY <1>1, <1>2 DEF Fought, Distinct
<1>5. threat \in [Player -> 0..EnemyHp] /\ threat[p] = 0 /\ \A q \in Player : q # p => threat[q] = b.threat[q]
  BY <1>1
<1>6. \A q \in Player : q \in S <=> \E i \in 1..n : b.order[i] = q
  BY <1>1 DEF Fought
<1>7. Without(b, p) = IF rest = <<>> THEN NoBattle ELSE c
  BY DEF Without
<1> HIDE DEF rest, threat, n
<1>11. \A i \in 1..n : b.order[i] \in Player /\ b.threat[b.order[i]] \in Nat
  <2> TAKE i \in 1..n
  <2>1. b.order[i] \in Player
    BY <1>1
  <2> QED BY <1>1, <2>1
<1>12. ASSUME NEW j \in 1..(n - 1), j < k
       PROVE  /\ j \in 1..n /\ rest[j] = b.order[j] /\ b.order[j] # p
              /\ threat[rest[j]] = b.threat[b.order[j]]
  <2>1. j \in 1..n /\ j # k
    BY <1>1, <1>12
  <2>2. rest[j] = b.order[j]
    BY <1>3, <1>12
  <2>3. b.order[j] # p /\ b.order[j] \in Player
    BY <1>4, <1>11, <2>1
  <2> QED BY <1>5, <2>1, <2>2, <2>3
<1>13. ASSUME NEW j \in 1..(n - 1), ~(j < k)
       PROVE  /\ j + 1 \in 1..n /\ rest[j] = b.order[j + 1] /\ b.order[j + 1] # p
              /\ threat[rest[j]] = b.threat[b.order[j + 1]]
  <2>1. j + 1 \in 1..n /\ j + 1 # k
    BY <1>1, <1>13
  <2>2. rest[j] = b.order[j + 1]
    BY <1>3, <1>13
  <2>3. b.order[j + 1] # p /\ b.order[j + 1] \in Player
    BY <1>4, <1>11, <2>1
  <2> QED BY <1>5, <2>1, <2>2, <2>3
<1>8. \A q \in Player : q \in S \ {p} <=> \E j \in 1..(n - 1) : rest[j] = q
  <2> TAKE q \in Player
  <2>1. ASSUME NEW j \in 1..(n - 1) PROVE rest[j] \in S \ {p}
    <3>1. CASE j < k
      BY <1>6, <1>11, <1>12, <3>1
    <3>2. CASE ~(j < k)
      BY <1>6, <1>11, <1>13, <3>2
    <3> QED BY <3>1, <3>2
  <2>2. ASSUME q \in S \ {p} PROVE \E j \in 1..(n - 1) : rest[j] = q
    <3>1. PICK i \in 1..n : b.order[i] = q
      BY <1>6, <2>2
    <3>2. i # k
      BY <1>2, <2>2, <3>1
    <3>3. CASE i < k
      <4>1. i \in 1..(n - 1)
        BY <1>1, <3>3
      <4> QED BY <1>3, <3>1, <3>3, <4>1
    <3>4. CASE i > k
      <4>1. i - 1 \in 1..(n - 1) /\ ~(i - 1 < k) /\ (i - 1) + 1 = i
        BY <1>1, <3>4
      <4>2. rest[i - 1] = b.order[i]
        BY <1>3, <4>1
      <4> QED BY <3>1, <4>1, <4>2
    <3> QED BY <1>1, <3>2, <3>3, <3>4
  <2> QED BY <2>1, <2>2
<1>9. CASE S = {p}
  <2>1. ~(\E j \in 1..(n - 1) : TRUE)
    <3> SUFFICES ASSUME NEW j \in 1..(n - 1) PROVE FALSE
      OBVIOUS
    <3>1. rest[j] \in Player
      BY <1>3, ElementOfSeq
    <3> QED BY <1>8, <1>9, <3>1
  <2>2. n - 1 = 0
    BY <1>1, <2>1
  <2>3. rest = <<>>
    BY <1>3, <2>2, EmptySeq
  <2> QED BY <1>7, <1>9, <2>3
<1>10. CASE S # {p}
  <2>1. PICK mate \in S : mate # p
    BY <1>10
  <2>2. \E j \in 1..(n - 1) : rest[j] = mate
    BY <1>8, <2>1
  <2>3. rest # <<>>
    BY <1>3, <2>2
  <2>4. aim = NoPlayer \/ aim \in (S \ {p}) \cap Player
    <3>1. CASE b.target = p
      <4>1. PICK j \in DOMAIN rest : aim = rest[j]
        BY <1>3, <1>5, <2>3, <3>1, PickTargetFights
      <4>2. rest[j] \in Player
        BY <1>3, <4>1, ElementOfSeq
      <4> QED BY <1>3, <1>8, <4>1, <4>2
    <3>2. CASE b.target # p
      BY <3>2 DEF Fought
    <3> QED BY <3>1, <3>2
  <2> HIDE DEF aim
  <2>5. /\ c \in Battle(r) /\ c.order = rest /\ c.threat = threat
        /\ c.hp = b.hp /\ c.target = aim
    BY <1>3, <1>5, <2>4 DEF Fought, Battle
  <2>6. Without(b, p) = c
    BY <1>7, <2>3 DEF aim
  <2> HIDE DEF c
  <2>7. Distinct(rest)
    <3> SUFFICES ASSUME NEW i \in 1..(n - 1), NEW j \in 1..(n - 1), rest[i] = rest[j] PROVE i = j
      BY <1>3 DEF Distinct
    <3> DEFINE at(l) == IF l < k THEN l ELSE l + 1
    <3>1. \A l \in 1..(n - 1) : at(l) \in 1..n /\ rest[l] = b.order[at(l)]
      <4> TAKE l \in 1..(n - 1)
      <4>1. CASE l < k
        BY <1>12, <4>1
      <4>2. CASE ~(l < k)
        BY <1>13, <4>2
      <4> QED BY <4>1, <4>2
    <3>2. at(i) = at(j)
      <4>1. at(i) \in DOMAIN b.order /\ at(j) \in DOMAIN b.order /\ b.order[at(i)] = b.order[at(j)]
        BY <1>1, <3>1
      <4> HIDE DEF at
      <4> QED BY <4>1 DEF Fought, Distinct
    <3> QED BY <1>1, <3>2
  <2>8. Credited(c)
    <3>1. PICK old \in [0..n -> 0..EnemyHp] : RunningTotal(b, old) /\ old[n] + b.hp <= EnemyHp
      BY DEF Fought, Credited, n
    <3> DEFINE T == b.threat[p]
               total == [i \in 0..(n - 1) |-> IF i < k THEN old[i] ELSE old[i + 1] - T]
    <3>2. T \in Nat /\ \A i \in 0..n : old[i] \in Nat /\ old[i] <= EnemyHp
      BY <1>1
    <3>3. \A i \in 1..n : old[i] = old[i - 1] + b.threat[b.order[i]] /\ i - 1 \in 0..n /\ i \in 0..n
      <4> TAKE i \in 1..n
      <4>1. i \in DOMAIN b.order /\ i - 1 \in 0..n /\ i \in 0..n
        BY <1>1
      <4> QED BY <3>1, <4>1 DEF RunningTotal
    <3>4. old[k] = old[k - 1] + T /\ k \in 0..n /\ k - 1 \in 0..n
      BY <1>2, <3>3
    <3>5. T <= old[k]
      BY <3>2, <3>4
    <3>6. ASSUME NEW m \in k..n PROVE old[k] <= old[m]
      <4> DEFINE g == [i \in 1..m |-> b.threat[b.order[i]]]
      <4>1. m \in Nat /\ m \in 0..n /\ k \in 0..m
        BY <1>1
      <4>2. \A i \in 0..m : old[i] \in Nat
        BY <1>1, <3>2, <4>1
      <4>3. \A i \in 1..m : g[i] \in Nat /\ old[i] = old[i - 1] + g[i]
        <5> TAKE i \in 1..m
        <5>1. i \in 1..n
          BY <1>1, <4>1
        <5>2. b.threat[b.order[i]] \in Nat /\ old[i] = old[i - 1] + b.threat[b.order[i]]
          BY <1>11, <3>3, <5>1
        <5> QED BY <5>2
      <4> HIDE DEF g
      <4> QED BY <4>1, <4>2, <4>3, UpwardsTotal
    <3> HIDE DEF T
    <3>7. \A i \in 0..(n - 1) : total[i] \in 0..EnemyHp
      <4> TAKE i \in 0..(n - 1)
      <4>1. CASE i < k
        <5>1. i \in 0..n
          BY <1>1
        <5> QED BY <1>1, <3>2, <4>1, <5>1
      <4>2. CASE ~(i < k)
        <5>1. i + 1 \in k..n /\ i + 1 \in 0..n
          BY <1>1, <4>2
        <5>2. old[i + 1] \in Nat /\ old[k] \in Nat /\ old[i + 1] <= EnemyHp /\ T <= old[i + 1]
          BY <3>2, <3>4, <3>5, <3>6, <5>1
        <5>3. total[i] = old[i + 1] - T
          BY <4>2
        <5>4. T \in Nat
          BY <3>2
        <5> HIDE DEF total
        <5> QED BY <1>1, <5>2, <5>3, <5>4, SMTT(30)
      <4> QED BY <4>1, <4>2
    <3>8. ASSUME NEW i \in 1..(n - 1) PROVE total[i] = total[i - 1] + threat[rest[i]]
      <4>1. i \in 0..(n - 1) /\ i - 1 \in 0..(n - 1) /\ i \in 1..n /\ i + 1 \in 1..n /\ (i + 1) - 1 = i
            /\ (i - 1) + 1 = i
        BY <1>1
      <4>2. CASE i < k
        <5>1. total[i] = old[i] /\ total[i - 1] = old[i - 1]
          BY <1>1, <4>1, <4>2
        <5>2. threat[rest[i]] = b.threat[b.order[i]]
          BY <1>12, <4>2
        <5> QED BY <3>3, <4>1, <5>1, <5>2
      <4>3. CASE i = k
        <5>1. total[i] = old[i + 1] - T /\ total[i - 1] = old[i - 1]
          BY <1>1, <4>1, <4>3
        <5>2. threat[rest[i]] = b.threat[b.order[i + 1]]
          BY <1>1, <1>13, <4>3
        <5>3. old[i + 1] = old[i] + b.threat[b.order[i + 1]] /\ old[i] = old[i - 1] + T
          BY <3>3, <3>4, <4>1, <4>3
        <5>4. old[i + 1] \in Nat /\ old[i] \in Nat /\ old[i - 1] \in Nat /\ b.threat[b.order[i + 1]] \in Nat
          BY <1>11, <3>2, <3>3, <4>1
        <5> HIDE DEF total
        <5> QED BY <3>2, <5>1, <5>2, <5>3, <5>4, SMTT(30)
      <4>4. CASE i > k
        <5>1. total[i] = old[i + 1] - T /\ total[i - 1] = old[i] - T
          BY <1>1, <4>1, <4>4
        <5>2. threat[rest[i]] = b.threat[b.order[i + 1]]
          BY <1>1, <1>13, <4>4
        <5>3. old[i + 1] = old[i] + b.threat[b.order[i + 1]]
          BY <3>3, <4>1
        <5>4. old[i + 1] \in Nat /\ old[i] \in Nat /\ b.threat[b.order[i + 1]] \in Nat
          BY <1>11, <3>2, <3>3, <4>1
        <5> HIDE DEF total
        <5> QED BY <3>2, <5>1, <5>2, <5>3, <5>4
      <4> QED BY <1>1, <4>2, <4>3, <4>4
    <3>9. total[0] = 0
      BY <1>1, <3>1 DEF RunningTotal
    <3>10. total[n - 1] + b.hp <= EnemyHp
      <4>1. old[n] \in Nat /\ old[n] + b.hp <= EnemyHp /\ n - 1 \in 0..(n - 1) /\ (n - 1) + 1 = n
        BY <1>1, <3>1, <3>2
      <4>2. CASE k = n
        <5>1. total[n - 1] = old[n - 1] /\ old[n] = old[n - 1] + T /\ old[n - 1] \in Nat
          BY <1>1, <3>2, <3>4, <4>1, <4>2
        <5> HIDE DEF total
        <5> QED BY <1>1, <3>2, <4>1, <5>1, SMTT(30)
      <4>3. CASE k < n
        <5>1. total[n - 1] = old[n] - T
          BY <1>1, <4>1, <4>3
        <5> HIDE DEF total
        <5> QED BY <1>1, <3>2, <4>1, <5>1, SMTT(30)
      <4> QED BY <1>1, <4>2, <4>3
    <3>11. total \in [0..Len(rest) -> 0..EnemyHp] /\ total[Len(rest)] + c.hp <= EnemyHp
      BY <1>3, <2>5, <3>7, <3>10
    <3> HIDE DEF total
    <3>12. RunningTotal(c, total)
      BY <1>3, <2>5, <3>8, <3>9 DEF RunningTotal
    <3> QED BY <2>5, <3>11, <3>12 DEF Credited
  <2>9. /\ \A q \in Player : c.threat[q] > 0 => q \in S \ {p}
        /\ c.hp > 0
    <3>1. \A q \in Player : threat[q] > 0 => q \in S \ {p}
      BY <1>5 DEF Fought
    <3> QED BY <2>5, <3>1 DEF Fought
  <2>10. Fought(r, c, S \ {p})
    BY <1>3, <1>8, <2>3, <2>4, <2>5, <2>7, <2>8, <2>9 DEF Fought
  <2> QED BY <1>10, <2>5, <2>6, <2>10
<1> QED BY <1>9, <1>10

-----------------------------------------------------------------------------
(* All the fights of the service.                                          *)

\* Who fights where, and the Combat of every room, say the same.
FightsIn(battles, where) ==
  /\ DOMAIN battles = Room
  /\ where \in [Player -> Den \cup {NoRoom}]
  /\ \A r \in Room :
       IF battles[r] = NoBattle THEN \A p \in Player : where[p] # r
       ELSE r \in Den /\ Fought(r, battles[r], {p \in Player : where[p] = r})

\* Only fights are of the type of fights.
LEMMA FoughtIsFight ==
  ASSUME NEW r \in Den, NEW b, NEW S, Fought(r, b, S)
  PROVE  b # NoBattle
BY MarkersAssumption DEF Fought

LEMMA ChangedFights ==
  ASSUME NEW battles, NEW where, FightsIn(battles, where),
         NEW r \in Room, battles[r] # NoBattle,
         NEW b, Fought(r, b, {p \in Player : where[p] = r})
  PROVE  FightsIn([battles EXCEPT ![r] = b], where)
<1> DEFINE next == [battles EXCEPT ![r] = b]
<1>1. DOMAIN next = Room /\ next[r] = b /\ \A s \in Room : s # r => next[s] = battles[s]
  BY DEF FightsIn
<1>2. r \in Den /\ b # NoBattle
  BY FoughtIsFight DEF FightsIn
<1> HIDE DEF next
<1>3. FightsIn(next, where)
  BY <1>1, <1>2 DEF FightsIn
<1> QED BY <1>3 DEF next

LEMMA LeftFights ==
  ASSUME NEW battles, NEW where, FightsIn(battles, where),
         NEW p \in Player, where[p] # NoRoom,
         NEW next, DOMAIN next = Room,
         next[where[p]] = Without(battles[where[p]], p),
         \A s \in Room : s # where[p] => next[s] = battles[s]
  PROVE  /\ where[p] \in Den /\ battles[where[p]] # NoBattle
         /\ FightsIn(next, [where EXCEPT ![p] = NoRoom])
         /\ \A r \in Room : r # where[p] => next[r] = battles[r]
         /\ next[where[p]] # NoBattle => next[where[p]].hp = battles[where[p]].hp
         /\ \A q \in Player : q # p /\ where[q] = where[p] => next[where[p]] # NoBattle
<1> DEFINE r == where[p]
           S == {q \in Player : where[q] = r}
           there == [where EXCEPT ![p] = NoRoom]
<1>1. r \in Den /\ r \in Room
  BY CombatAssumption DEF FightsIn
<1>2. battles[r] # NoBattle /\ Fought(r, battles[r], S)
  BY <1>1 DEF FightsIn
<1>3. DOMAIN next = Room /\ next[r] = Without(battles[r], p)
      /\ \A s \in Room : s # r => next[s] = battles[s]
  BY <1>1 DEF FightsIn
<1>4. /\ there \in [Player -> Den \cup {NoRoom}] /\ there[p] = NoRoom
      /\ \A q \in Player : q # p => there[q] = where[q]
  BY DEF FightsIn
<1>5. S \subseteq Player /\ p \in S
  OBVIOUS
<1>6. \A s \in Room : s # r => {q \in Player : there[q] = s} = {q \in Player : where[q] = s}
  BY <1>4, CombatAssumption
<1>7. {q \in Player : there[q] = r} = S \ {p}
  BY <1>1, <1>4, CombatAssumption
<1> HIDE DEF r, S, there
<1>8. IF S = {p} THEN next[r] = NoBattle
      ELSE Fought(r, next[r], S \ {p}) /\ next[r].hp = battles[r].hp /\ next[r] # NoBattle
  <2>1. IF S = {p} THEN next[r] = NoBattle
        ELSE Fought(r, next[r], S \ {p}) /\ next[r].hp = battles[r].hp
    BY <1>1, <1>2, <1>3, <1>5, LeftFight
  <2> QED BY <1>1, <2>1, FoughtIsFight
<1>9. FightsIn(next, there)
  <2> SUFFICES ASSUME NEW s \in Room
               PROVE  IF next[s] = NoBattle THEN \A q \in Player : there[q] # s
                      ELSE s \in Den /\ Fought(s, next[s], {q \in Player : there[q] = s})
    BY <1>3, <1>4 DEF FightsIn
  <2>1. CASE s = r /\ S = {p}
    BY <1>7, <1>8, <2>1
  <2>2. CASE s = r /\ S # {p}
    BY <1>1, <1>7, <1>8, <2>2
  <2>3. CASE s # r
    <3>1. next[s] = battles[s]
      BY <1>3, <2>3
    <3>2. {q \in Player : there[q] = s} = {q \in Player : where[q] = s}
      BY <1>6, <2>3
    <3>3. CASE battles[s] = NoBattle
      <4>1. {q \in Player : where[q] = s} = {}
        BY <3>3 DEF FightsIn
      <4> QED BY <3>1, <3>2, <3>3, <4>1
    <3>4. CASE battles[s] # NoBattle
      BY <3>1, <3>2, <3>4 DEF FightsIn
    <3> QED BY <3>3, <3>4
  <2> QED BY <2>1, <2>2, <2>3
<1>10. ASSUME NEW q \in Player, q # p, where[q] = r PROVE next[r] # NoBattle
  BY <1>8, <1>10 DEF S
<1> QED BY <1>1, <1>2, <1>3, <1>8, <1>9, <1>10 DEF r, there

LEMMA JoinedFights ==
  ASSUME NEW battles, NEW where, FightsIn(battles, where),
         NEW p \in Player, where[p] = NoRoom, NEW r \in Den,
         NEW b, b = (IF battles[r] = NoBattle THEN NewBattle ELSE battles[r]),
         NEW c, c = Joined(b, p)
  PROVE  /\ FightsIn([battles EXCEPT ![r] = c], [where EXCEPT ![p] = r])
         /\ c # NoBattle /\ c.hp = b.hp /\ c.hp > 0
         /\ battles[r] = NoBattle => b.hp = EnemyHp
         /\ b.hp \in 0..EnemyHp
<1> DEFINE S == {q \in Player : where[q] = r}
           next == [battles EXCEPT ![r] = c]
           there == [where EXCEPT ![p] = r]
<1>1. r \in Room /\ p \notin S
  BY CombatAssumption
<1>2. Fought(r, c, S \cup {p})
  <2>1. CASE battles[r] = NoBattle
    <3>1. S = {}
      BY <1>1, <2>1 DEF FightsIn
    <3>2. S \cup {p} = {p}
      BY <3>1
    <3>3. c = Joined(NewBattle, p)
      BY <2>1
    <3>4. Fought(r, Joined(NewBattle, p), {p})
      BY OpenedFight
    <3> QED BY <3>2, <3>3, <3>4
  <2>2. CASE battles[r] # NoBattle
    <3>1. Fought(r, b, S)
      BY <1>1, <2>2 DEF FightsIn
    <3> HIDE DEF S
    <3> QED BY <1>1, <3>1, JoinedFight
  <2> QED BY <2>1, <2>2
<1>3. DOMAIN next = Room /\ next[r] = c /\ \A s \in Room : s # r => next[s] = battles[s]
  BY <1>1 DEF FightsIn
<1>4. /\ there \in [Player -> Den \cup {NoRoom}] /\ there[p] = r
      /\ \A q \in Player : q # p => there[q] = where[q]
  BY DEF FightsIn
<1>5. \A s \in Room : s # r => {q \in Player : there[q] = s} = {q \in Player : where[q] = s}
  BY <1>4, CombatAssumption
<1>6. {q \in Player : there[q] = r} = S \cup {p}
  BY <1>4
<1>7. c # NoBattle
  BY <1>2, FoughtIsFight
<1>8. battles[r] = NoBattle => b.hp = EnemyHp
  BY DEF NewBattle
<1>9. c.hp = b.hp
  <2>1. CASE battles[r] = NoBattle
    BY <2>1 DEF NewBattle, Joined
  <2>2. CASE battles[r] # NoBattle
    <3>1. b \in Battle(r)
      BY <1>1, <2>2 DEF FightsIn, Fought
    <3> QED BY <3>1 DEF Battle, Joined
  <2> QED BY <2>1, <2>2
<1>10. c.hp \in 0..EnemyHp /\ c.hp > 0
  <2>1. c.hp \in 0..EnemyHp
    BY <1>2, FoughtTypes
  <2> QED BY <1>2, <2>1 DEF Fought
<1> HIDE DEF S, next, there
<1>11. FightsIn(next, there)
  <2> SUFFICES ASSUME NEW s \in Room
               PROVE  IF next[s] = NoBattle THEN \A q \in Player : there[q] # s
                      ELSE s \in Den /\ Fought(s, next[s], {q \in Player : there[q] = s})
    BY <1>3, <1>4 DEF FightsIn
  <2>1. CASE s = r
    BY <1>2, <1>3, <1>6, <1>7, <2>1
  <2>2. CASE s # r
    <3>1. next[s] = battles[s]
      BY <1>3, <2>2
    <3>2. {q \in Player : there[q] = s} = {q \in Player : where[q] = s}
      BY <1>5, <2>2
    <3>3. CASE battles[s] = NoBattle
      <4>1. {q \in Player : where[q] = s} = {}
        BY <3>3 DEF FightsIn
      <4> QED BY <3>1, <3>2, <3>3, <4>1
    <3>4. CASE battles[s] # NoBattle
      BY <3>1, <3>2, <3>4 DEF FightsIn
    <3> QED BY <3>3, <3>4
  <2> QED BY <2>1, <2>2
<1> QED BY <1>7, <1>8, <1>9, <1>10, <1>11 DEF next, there

-----------------------------------------------------------------------------
(* The inductive invariant.                                                *)

Seated ==
  /\ present \subseteq Player
  /\ holder \in [Player -> Conn \cup {NoConn}]
  /\ conn \in [Player -> Conn \cup {NoConn}]
  /\ \A p \in present : conn[p] \in Conn

Bodies ==
  /\ pos \in [Player -> Room]
  /\ hp \in [Player -> 0..MaxHp]
  /\ potions \in [Player -> 0..MaxPotions]

Orders ==
  /\ engaged \subseteq Player
  /\ queued \in [Player -> Order]
  /\ guarded \subseteq Player
  /\ cooling \subseteq Player \X Skill
  /\ OrdersAreReady

Timers ==
  /\ respawn \in [Player \X Conn -> 0..MaxTimers]
  /\ DownHasTimer

Fights == FightsIn(battle, inCombat)

Enemies ==
  /\ fallen \subseteq Den \ Boss
  /\ slain \subseteq Boss
  /\ ticking \in BOOLEAN
  /\ \A r \in Room : battle[r] # NoBattle => r \notin fallen \cup slain
  /\ ClockRunsWhenNeeded

Able == FightersCanFight /\ FightersInPlace

Screens ==
  /\ screen \in [Player -> (Room \X (0..EnemyHp)) \cup {NoRoom}]
  /\ ScreensShowFights

IInv == Seated /\ Bodies /\ Orders /\ Timers /\ Fights /\ Enemies /\ Able /\ Screens

-----------------------------------------------------------------------------
(* Numbers.                                                                *)

LEMMA HalfType == Half \in 1..MaxHp
<1>1. MaxHp \in Nat \ {0}
  BY CombatAssumption
<1>2. MaxHp \div 2 \in 0..MaxHp
  BY <1>1
<1> QED BY <1>1, <1>2 DEF Half

LEMMA MendType ==
  ASSUME NEW n \in 0..MaxHp
  PROVE  Least(MaxHp, n + Mend) \in 1..MaxHp
<1>1. MaxHp \in Nat \ {0} /\ Mend \in Nat \ {0}
  BY CombatAssumption
<1> QED BY <1>1 DEF Least

LEMMA BlowType ==
  ASSUME NEW r, NEW d \in Damage
  PROVE  Blow(r, d) \in Nat
<1>1. d \in Nat
  BY CombatAssumption
<1> DEFINE heavy == IF battle[r].charged THEN (5 * d + 1) \div 2 ELSE d
<1>2. heavy \in Nat
  BY <1>1
<1> HIDE DEF heavy
<1>3. (heavy + 1) \div 2 \in Nat
  BY <1>2
<1> QED BY <1>2, <1>3 DEF Blow, heavy

-----------------------------------------------------------------------------
(* Reading a fight.                                                        *)

\* Where somebody fights there is a fight.
LEMMA FighterHasFight ==
  ASSUME IInv, NEW p \in Player, inCombat[p] # NoRoom
  PROVE  /\ inCombat[p] \in Den /\ inCombat[p] \in Room
         /\ battle[inCombat[p]] # NoBattle
         /\ Fought(inCombat[p], battle[inCombat[p]], Fighters(inCombat[p]))
         /\ battle[inCombat[p]].hp \in 0..EnemyHp /\ battle[inCombat[p]].hp > 0
<1>1. inCombat[p] \in Den /\ inCombat[p] \in Room
  BY CombatAssumption DEF IInv, Fights, FightsIn
<1>2. /\ battle[inCombat[p]] # NoBattle
      /\ Fought(inCombat[p], battle[inCombat[p]], Fighters(inCombat[p]))
  BY <1>1 DEF IInv, Fights, FightsIn, Fighters
<1>3. battle[inCombat[p]].hp \in 0..EnemyHp
  BY <1>2, FoughtTypes
<1>4. battle[inCombat[p]].hp > 0
  BY <1>2 DEF Fought
<1> QED BY <1>1, <1>2, <1>3, <1>4

\* The clients of the fighters, and of those that do not fight.
LEMMA ScreenIs ==
  ASSUME IInv, NEW p \in Player, Live(p)
  PROVE  IF inCombat[p] = NoRoom THEN screen[p] = NoRoom
         ELSE /\ screen[p] = <<inCombat[p], battle[inCombat[p]].hp>>
              /\ screen[p] # NoRoom
<1>1. CASE inCombat[p] = NoRoom
  BY <1>1 DEF IInv, Screens, ScreensShowFights
<1>2. CASE inCombat[p] # NoRoom
  <2>1. screen[p] = <<inCombat[p], battle[inCombat[p]].hp>>
    BY <1>2 DEF IInv, Screens, ScreensShowFights
  <2>2. screen[p] \in Room \X (0..EnemyHp)
    BY <1>2, <2>1, FighterHasFight
  <2> QED BY <1>2, <2>1, <2>2, MarkersAssumption
<1> QED BY <1>1, <1>2

\* The enemy's target.
LEMMA AimedAtFighter ==
  ASSUME IInv, NEW r \in Den, EnemyDue(r)
  PROVE  /\ r \in Room /\ battle[r] # NoBattle
         /\ Fought(r, Aimed(r), Fighters(r))
         /\ Aimed(r).hp = battle[r].hp
         /\ Aimed(r).target \in Player
         /\ inCombat[Aimed(r).target] = r
         /\ Aimed(r).target \in present
         /\ hp[Aimed(r).target] > 0
<1> DEFINE b == battle[r]
           t == PickTarget(b.order, b.threat)
<1>1. r \in Room /\ b # NoBattle
  BY CombatAssumption DEF EnemyDue
<1>2. Fought(r, b, Fighters(r))
  BY <1>1 DEF IInv, Fights, FightsIn, Fighters
<1>3. b \in Battle(r)
  BY <1>2 DEF Fought
<1>4. Aimed(r) = [b EXCEPT !.target = t]
  BY DEF Aimed
<1> HIDE DEF b
<1>5. t \in Fighters(r) \cap Player /\ Fought(r, [b EXCEPT !.target = t], Fighters(r))
  BY <1>2, AimedFight
<1>6. Aimed(r).hp = b.hp /\ Aimed(r).target = t
  BY <1>3, <1>4 DEF Battle
<1>7. t \in Player /\ inCombat[t] = r
  BY <1>5 DEF Fighters
<1>8. t \in present /\ hp[t] > 0
  BY <1>6 DEF EnemyDue
<1> QED BY <1>1, <1>4, <1>5, <1>6, <1>7, <1>8 DEF b

\* After a blow the fight goes on as it was, but for the target.
LEMMA StruckFight ==
  ASSUME IInv, NEW r \in Den, EnemyDue(r)
  PROVE  Fought(r, Struck(r), Fighters(r)) /\ Struck(r).hp = battle[r].hp
<1> DEFINE a == Aimed(r)
           swings == IF a.swings < EveryNth[r] /\ ~battle[r].charged
                     THEN a.swings + 1 ELSE a.swings
<1>1. Fought(r, a, Fighters(r)) /\ a.hp = battle[r].hp
  BY AimedAtFighter
<1>2. a.swings \in 0..EveryNth[r] /\ EveryNth[r] \in Nat /\ a \in Battle(r)
  BY <1>1, CombatAssumption DEF Fought, Battle
<1>3. Struck(r) = [a EXCEPT !.charged = FALSE, !.swings = swings]
  BY DEF Struck
<1> HIDE DEF a
<1>4. swings \in 0..EveryNth[r]
  BY <1>2
<1> HIDE DEF swings
<1>5. Fought(r, [a EXCEPT !.charged = FALSE, !.swings = swings], Fighters(r))
  BY <1>1, <1>4, SwungFight
<1>6. [a EXCEPT !.charged = FALSE, !.swings = swings].hp = a.hp
  BY <1>2 DEF Battle
<1> QED BY <1>1, <1>3, <1>5, <1>6

-----------------------------------------------------------------------------
(* Leaving a fight.                                                        *)

LEMMA QuitStep ==
  ASSUME IInv, NEW p \in Player,
         NEW battles, FightsIn(battles, inCombat),
         \A r \in Room : battles[r] # NoBattle <=> battle[r] # NoBattle,
         \A r \in Room : battle[r] # NoBattle => battles[r].hp = battle[r].hp,
         Quit(p, battles),
         \A q \in Player : Live(q)' => Live(q),
         UNCHANGED <<fallen, slain>>
  PROVE  /\ Fights' /\ Enemies' /\ Screens'
         /\ \A q \in Player : inCombat'[q] # NoRoom =>
              q # p /\ inCombat[q] = inCombat'[q] /\ (q \notin yanked' => q \notin yanked)
<1>1. CASE inCombat[p] = NoRoom
  <2>1. UNCHANGED <<battle, inCombat, ticking, screen, yanked>>
    BY <1>1 DEF Quit, fightVars
  <2>2. Fights' /\ Enemies'
    BY <2>1 DEF IInv, Fights, Enemies, ClockRunsWhenNeeded
  <2>3. Screens'
    BY <2>1 DEF IInv, Screens, ScreensShowFights
  <2> QED BY <1>1, <2>1, <2>2, <2>3
<1>2. CASE inCombat[p] # NoRoom
  <2> DEFINE r == inCombat[p]
  <2>1. /\ inCombat' = [inCombat EXCEPT ![p] = NoRoom]
        /\ battle' = [battles EXCEPT ![r] = Without(@, p)]
        /\ ticking' = IF battle'[r] = NoBattle THEN StillTicking(battle', fallen) ELSE ticking
        /\ screen' = [Updated(Fighters(r) \ {p}, r, battle'[r]) EXCEPT
                        ![p] = IF Live(p) THEN NoRoom ELSE @]
        /\ yanked' = yanked \ {p}
    BY <1>2 DEF Quit
  <2>2. /\ r \in Den /\ battles[r] # NoBattle
        /\ FightsIn(battle', inCombat')
        /\ \A s \in Room : s # r => battle'[s] = battles[s]
        /\ battle'[r] # NoBattle => battle'[r].hp = battles[r].hp
        /\ \A q \in Player : q # p /\ inCombat[q] = r => battle'[r] # NoBattle
    <3>1. /\ DOMAIN battle' = Room
          /\ battle'[inCombat[p]] = Without(battles[inCombat[p]], p)
          /\ \A s \in Room : s # inCombat[p] => battle'[s] = battles[s]
      <4>1. DOMAIN battles = Room /\ inCombat[p] \in Room
        BY <1>2, FighterHasFight DEF FightsIn
      <4> QED BY <2>1, <4>1
    <3>2. /\ inCombat[p] \in Den /\ battles[inCombat[p]] # NoBattle
          /\ FightsIn(battle', [inCombat EXCEPT ![p] = NoRoom])
          /\ \A s \in Room : s # inCombat[p] => battle'[s] = battles[s]
          /\ battle'[inCombat[p]] # NoBattle => battle'[inCombat[p]].hp = battles[inCombat[p]].hp
          /\ \A q \in Player : q # p /\ inCombat[q] = inCombat[p] => battle'[inCombat[p]] # NoBattle
      <4>1. inCombat[p] # NoRoom
        BY <1>2
      <4> QED BY <3>1, <4>1, LeftFights
    <3> QED BY <2>1, <3>2
  <2>3. r \in Room
    BY <2>2, CombatAssumption
  <2> HIDE DEF r
  <2>4. Fights'
    BY <2>2 DEF Fights
  <2>5. inCombat \in [Player -> Den \cup {NoRoom}]
    BY DEF IInv, Fights, FightsIn
  <2>6. \A q \in Player : inCombat'[q] = IF q = p THEN NoRoom ELSE inCombat[q]
    BY <2>1, <2>5
  <2>7. \A s \in Room : battle'[s] # NoBattle =>
          battle[s] # NoBattle /\ battle'[s].hp = battle[s].hp
    BY <2>2
  <2>8. Enemies'
    <3>1. ticking = TRUE
      BY <2>2, <2>3 DEF IInv, Enemies, ClockRunsWhenNeeded
    <3>2. ticking' = ((\E s \in Room : battle'[s] # NoBattle) \/ fallen # {})
      <4>1. CASE battle'[r] = NoBattle
        BY <2>1, <3>1, <4>1 DEF StillTicking
      <4>2. CASE battle'[r] # NoBattle
        BY <2>1, <2>3, <3>1, <4>2
      <4> QED BY <4>1, <4>2
    <3>3. ticking' \in BOOLEAN /\ ClockRunsWhenNeeded'
      BY <3>2 DEF ClockRunsWhenNeeded
    <3> QED BY <2>7, <3>3 DEF IInv, Enemies
  <2>9. screen \in [Player -> (Room \X (0..EnemyHp)) \cup {NoRoom}]
    BY DEF IInv, Screens
  <2>10. ASSUME NEW q \in Player, q \in Fighters(r) \ {p}, Live(q), screen[q] # NoRoom
         PROVE  /\ <<screen[q][1], battle'[r].hp>> \in Room \X (0..EnemyHp)
                /\ inCombat[q] = r /\ battle'[r] # NoBattle
    <3>1. inCombat[q] = r
      BY <2>10 DEF Fighters
    <3>2. battle'[r] # NoBattle /\ battle'[r].hp = battle[r].hp
      BY <2>2, <2>3, <2>10, <3>1
    <3>3. battle[r].hp \in 0..EnemyHp
      BY <1>2, FighterHasFight DEF r
    <3>4. screen[q][1] \in Room
      BY <2>9, <2>10
    <3> QED BY <3>1, <3>2, <3>3, <3>4
  <2>11. \A q \in Player : screen'[q] =
           IF q = p THEN (IF Live(p) THEN NoRoom ELSE screen[p])
           ELSE IF q \in Fighters(r) \ {p} /\ Live(q) /\ screen[q] # NoRoom
                THEN <<screen[q][1], battle'[r].hp>> ELSE screen[q]
    BY <2>1 DEF Updated
  <2>12. screen' \in [Player -> (Room \X (0..EnemyHp)) \cup {NoRoom}]
    <3> DEFINE told == Updated(Fighters(r) \ {p}, r, battle'[r])
    <3>1. told \in [Player -> (Room \X (0..EnemyHp)) \cup {NoRoom}]
      BY <2>9, <2>10 DEF Updated
    <3>2. screen' = [told EXCEPT ![p] = IF Live(p) THEN NoRoom ELSE @]
      BY <2>1
    <3> HIDE DEF told
    <3> QED BY <3>1, <3>2
  <2>13. ASSUME NEW q \in Player, Live(q)'
         PROVE  screen'[q] = IF inCombat'[q] = NoRoom THEN NoRoom
                             ELSE <<inCombat'[q], battle'[inCombat'[q]].hp>>
    <3>1. Live(q)
      BY <2>13
    <3>2. CASE q = p
      BY <2>6, <2>11, <3>1, <3>2
    <3>3. CASE q # p /\ inCombat[q] = r
      <4>1. screen[q] = <<r, battle[r].hp>> /\ screen[q] # NoRoom /\ screen[q][1] = r
        BY <1>2, <3>1, <3>3, ScreenIs DEF r
      <4>2. q \in Fighters(r) \ {p}
        BY <3>3 DEF Fighters
      <4>3. screen'[q] = <<r, battle'[r].hp>>
        BY <2>11, <3>1, <3>3, <4>1, <4>2
      <4> QED BY <1>2, <2>6, <3>3, <4>3 DEF r
    <3>4. CASE q # p /\ inCombat[q] # r
      <4>1. screen'[q] = screen[q] /\ inCombat'[q] = inCombat[q]
        BY <2>6, <2>11, <3>4 DEF Fighters
      <4>2. CASE inCombat[q] = NoRoom
        BY <3>1, <4>1, <4>2, ScreenIs
      <4>3. CASE inCombat[q] # NoRoom
        <5>1. inCombat[q] \in Room /\ battle[inCombat[q]] # NoBattle
          BY <4>3, FighterHasFight
        <5>2. battle'[inCombat[q]].hp = battle[inCombat[q]].hp
          BY <2>2, <3>4, <5>1
        <5> QED BY <3>1, <4>1, <4>3, <5>2, ScreenIs
      <4> QED BY <4>2, <4>3
    <3> QED BY <3>2, <3>3, <3>4
  <2>14. Screens'
    BY <2>12, <2>13 DEF Screens, ScreensShowFights
  <2>15. ASSUME NEW q \in Player, inCombat'[q] # NoRoom
         PROVE  q # p /\ inCombat[q] = inCombat'[q] /\ (q \notin yanked' => q \notin yanked)
    BY <2>1, <2>6, <2>15
  <2> QED BY <2>4, <2>8, <2>14, <2>15
<1> QED BY <1>1, <1>2

\* The grace period ends.
LEMMA LeaveStep ==
  ASSUME IInv, NEW p \in Player, Leave(p)
  PROVE  Fights' /\ Enemies' /\ Screens' /\ Able'
<1>1. FightsIn(battle, inCombat)
  BY DEF IInv, Fights
<1>2. \A q \in Player : Live(q)' => Live(q)
  BY DEF Leave, Depart, Live
<1>3. Quit(p, battle) /\ UNCHANGED <<fallen, slain>>
  BY DEF Leave
<1>4. /\ Fights' /\ Enemies' /\ Screens'
      /\ \A q \in Player : inCombat'[q] # NoRoom =>
           q # p /\ inCombat[q] = inCombat'[q] /\ (q \notin yanked' => q \notin yanked)
  BY <1>1, <1>2, <1>3, QuitStep
<1>5. Able'
  <2>1. present' = present \ {p} /\ UNCHANGED <<hp, pos>>
    BY DEF Leave, Depart, bodyVars
  <2> QED BY <1>4, <2>1 DEF IInv, Able, FightersCanFight, FightersInPlace
<1> QED BY <1>4, <1>5

\* A step out of the room.
LEMMA MoveStep ==
  ASSUME IInv, NEW p \in Player, NEW to \in Room, Move(p, to)
  PROVE  Fights' /\ Enemies' /\ Screens' /\ Able'
<1>1. FightsIn(battle, inCombat)
  BY DEF IInv, Fights
<1>2. \A q \in Player : Live(q)' => Live(q)
  BY DEF Move, Live, seatVars
<1>3. Quit(p, battle) /\ UNCHANGED <<fallen, slain>>
  BY DEF Move
<1>4. /\ Fights' /\ Enemies' /\ Screens'
      /\ \A q \in Player : inCombat'[q] # NoRoom =>
           q # p /\ inCombat[q] = inCombat'[q] /\ (q \notin yanked' => q \notin yanked)
  BY <1>1, <1>2, <1>3, QuitStep
<1>5. Able'
  <2>1. UNCHANGED <<present, hp>> /\ \A q \in Player : q # p => pos'[q] = pos[q]
    BY DEF Move, seatVars, IInv, Bodies
  <2> QED BY <1>4, <2>1 DEF IInv, Able, FightersCanFight, FightersInPlace
<1> QED BY <1>4, <1>5

\* The blow that strikes somebody down.
LEMMA EnemyKillsStep ==
  ASSUME IInv, NEW r \in Den, NEW d \in Damage, EnemyKills(r, d)
  PROVE  Fights' /\ Enemies' /\ Screens' /\ Able'
<1> DEFINE t == Aimed(r).target
           battles == [battle EXCEPT ![r] = Struck(r)]
<1>1. EnemyDue(r)
  BY DEF EnemyKills
<1>2. /\ r \in Room /\ battle[r] # NoBattle /\ t \in Player
      /\ Fought(r, Struck(r), Fighters(r)) /\ Struck(r).hp = battle[r].hp
  BY <1>1, AimedAtFighter, StruckFight
<1>3. FightsIn(battles, inCombat)
  BY <1>2, ChangedFights DEF IInv, Fights, Fighters
<1>4. /\ battles[r] = Struck(r) /\ battles[r] # NoBattle
      /\ \A s \in Room : s # r => battles[s] = battle[s]
  BY <1>2, FoughtIsFight DEF IInv, Fights, FightsIn
<1>5. Quit(t, battles) /\ UNCHANGED <<fallen, slain>>
  BY DEF EnemyKills
<1>6. \A q \in Player : Live(q)' => Live(q)
  BY DEF EnemyKills, Live, seatVars
<1> HIDE DEF battles, t
<1>7. /\ \A s \in Room : battles[s] # NoBattle <=> battle[s] # NoBattle
      /\ \A s \in Room : battle[s] # NoBattle => battles[s].hp = battle[s].hp
  BY <1>2, <1>4
<1>8. /\ Fights' /\ Enemies' /\ Screens'
      /\ \A q \in Player : inCombat'[q] # NoRoom =>
           q # t /\ inCombat[q] = inCombat'[q] /\ (q \notin yanked' => q \notin yanked)
  BY <1>2, <1>3, <1>5, <1>6, <1>7, QuitStep
<1>9. Able'
  <2>1. UNCHANGED <<present, pos>> /\ \A q \in Player : q # t => hp'[q] = hp[q]
    BY DEF EnemyKills, seatVars, IInv, Bodies, t
  <2> QED BY <1>8, <2>1 DEF IInv, Able, FightersCanFight, FightersInPlace
<1> QED BY <1>8, <1>9

-----------------------------------------------------------------------------
(* Joining and opening a fight.                                            *)

\* An attack first leaves the fight in another room.
LEMMA AttackLeaves ==
  ASSUME IInv, NEW p \in Player, NEW r \in Room, inCombat[p] # r
  PROVE  /\ FightsIn(AttackFrom(p), [inCombat EXCEPT ![p] = NoRoom])
         /\ \A s \in Room : AttackFrom(p)[s] # NoBattle =>
              battle[s] # NoBattle /\ AttackFrom(p)[s].hp = battle[s].hp
         /\ AttackFrom(p)[r] = battle[r]
<1>1. /\ FightsIn(battle, inCombat) /\ DOMAIN battle = Room
      /\ inCombat \in [Player -> Den \cup {NoRoom}]
  BY DEF IInv, Fights, FightsIn
<1>2. CASE inCombat[p] = NoRoom
  <2>1. AttackFrom(p) = battle
    BY <1>2 DEF AttackFrom
  <2>2. [inCombat EXCEPT ![p] = NoRoom] = inCombat
    BY <1>1, <1>2
  <2> QED BY <1>1, <2>1, <2>2
<1>3. CASE inCombat[p] # NoRoom
  <2> DEFINE left == AttackFrom(p)
  <2>1. inCombat[p] \in Room
    BY <1>3, FighterHasFight
  <2>2. /\ DOMAIN left = Room
        /\ left[inCombat[p]] = Without(battle[inCombat[p]], p)
        /\ \A s \in Room : s # inCombat[p] => left[s] = battle[s]
    BY <1>1, <1>3, <2>1 DEF AttackFrom
  <2> HIDE DEF left
  <2>3. /\ FightsIn(left, [inCombat EXCEPT ![p] = NoRoom])
        /\ left[inCombat[p]] # NoBattle => left[inCombat[p]].hp = battle[inCombat[p]].hp
        /\ battle[inCombat[p]] # NoBattle
    <3>1. FightsIn(battle, inCombat) /\ inCombat[p] # NoRoom
      BY <1>1, <1>3
    <3> QED BY <2>2, <3>1, LeftFights
  <2>4. \A s \in Room : left[s] # NoBattle => battle[s] # NoBattle /\ left[s].hp = battle[s].hp
    BY <2>2, <2>3
  <2> QED BY <2>2, <2>3, <2>4 DEF left
<1> QED BY <1>2, <1>3

LEMMA AttackStep ==
  ASSUME IInv, NEW p \in Player, Attack(p)
  PROVE  Fights' /\ Enemies' /\ Screens' /\ Able'
<1> DEFINE r == pos[p]
           left == AttackFrom(p)
           b == IF left[r] = NoBattle THEN NewBattle ELSE left[r]
           c == Joined(b, p)
           there == [inCombat EXCEPT ![p] = NoRoom]
<1>1. /\ Live(p) /\ hp[p] > 0 /\ EnemyIn(r) /\ inCombat[p] # r
      /\ battle' = [left EXCEPT ![r] = c]
      /\ inCombat' = [inCombat EXCEPT ![p] = r]
      /\ ticking' = TRUE
      /\ screen' = [screen EXCEPT ![p] = <<r, b.hp>>]
      /\ yanked' = yanked \ {p}
      /\ UNCHANGED <<present, holder, gone, hp, pos, fallen, slain>>
  BY DEF Attack, Attackable, seatVars, bodyVars
<1>2. r \in Room /\ r \in Den /\ r \notin fallen \cup slain /\ p \in present /\ r # NoRoom
  BY <1>1, CombatAssumption DEF EnemyIn, Live
<1>3. /\ FightsIn(left, there)
      /\ \A s \in Room : left[s] # NoBattle => battle[s] # NoBattle /\ left[s].hp = battle[s].hp
      /\ left[r] = battle[r]
  BY <1>1, <1>2, AttackLeaves
<1>4. inCombat \in [Player -> Den \cup {NoRoom}] /\ DOMAIN left = Room
  BY <1>3 DEF IInv, Fights, FightsIn
<1>5. there[p] = NoRoom /\ inCombat' = [there EXCEPT ![p] = r]
  BY <1>1, <1>4
<1> HIDE DEF left, r
<1>6. /\ FightsIn([left EXCEPT ![r] = c], [there EXCEPT ![p] = r])
      /\ c # NoBattle /\ c.hp = b.hp /\ b.hp \in 0..EnemyHp
  <2>1. b = (IF left[r] = NoBattle THEN NewBattle ELSE left[r]) /\ c = Joined(b, p)
    OBVIOUS
  <2>2. FightsIn(left, there) /\ there[p] = NoRoom /\ r \in Den
    BY <1>2, <1>3, <1>5
  <2> HIDE DEF there, b, c
  <2> QED BY <2>1, <2>2, JoinedFights
<1>7. battle[r] # NoBattle => b.hp = battle[r].hp
  BY <1>3
<1> HIDE DEF b, c
<1>8. Fights'
  BY <1>1, <1>5, <1>6 DEF Fights
<1>9. /\ battle'[r] = c /\ \A s \in Room : s # r => battle'[s] = left[s]
      /\ inCombat'[p] = r /\ \A q \in Player : q # p => inCombat'[q] = inCombat[q]
  BY <1>1, <1>2, <1>4
<1>10. Enemies'
  <2>1. ClockRunsWhenNeeded' /\ ticking' \in BOOLEAN
    BY <1>1, <1>2, <1>6, <1>9 DEF ClockRunsWhenNeeded
  <2>2. \A s \in Room : battle'[s] # NoBattle => s \notin fallen' \cup slain'
    BY <1>1, <1>2, <1>3, <1>9 DEF IInv, Enemies
  <2> QED BY <1>1, <2>1, <2>2 DEF IInv, Enemies
<1>11. Able'
  <2>1. FightersCanFight'
    BY <1>1, <1>2, <1>9 DEF IInv, Able, FightersCanFight
  <2>2. FightersInPlace'
    BY <1>1, <1>9 DEF IInv, Able, FightersInPlace, r
  <2> QED BY <2>1, <2>2 DEF Able
<1>12. Screens'
  <2>1. screen \in [Player -> (Room \X (0..EnemyHp)) \cup {NoRoom}]
    BY DEF IInv, Screens
  <2>2. screen' \in [Player -> (Room \X (0..EnemyHp)) \cup {NoRoom}]
    BY <1>1, <1>2, <1>6, <2>1
  <2>3. screen'[p] = <<r, c.hp>> /\ \A q \in Player : q # p => screen'[q] = screen[q]
    BY <1>1, <1>6, <2>1
  <2>4. ASSUME NEW q \in Player, Live(q)'
        PROVE  screen'[q] = IF inCombat'[q] = NoRoom THEN NoRoom
                            ELSE <<inCombat'[q], battle'[inCombat'[q]].hp>>
    <3>1. Live(q)
      BY <1>1, <2>4 DEF Live
    <3>2. CASE q = p
      BY <1>2, <1>9, <2>3, <3>2
    <3>3. CASE q # p /\ inCombat[q] = NoRoom
      BY <1>9, <2>3, <3>1, <3>3, ScreenIs
    <3>4. CASE q # p /\ inCombat[q] # NoRoom
      <4>1. inCombat[q] \in Room /\ battle[inCombat[q]] # NoBattle
        BY <3>4, FighterHasFight
      <4>2. battle'[inCombat[q]].hp = battle[inCombat[q]].hp
        <5>1. CASE inCombat[q] = r
          BY <1>6, <1>7, <1>9, <4>1, <5>1
        <5>2. CASE inCombat[q] # r
          <6>1. there[q] = inCombat[q]
            BY <1>4, <3>4
          <6>2. left[inCombat[q]] # NoBattle
            BY <1>3, <4>1, <6>1 DEF FightsIn
          <6> QED BY <1>3, <1>9, <4>1, <5>2, <6>2
        <5> QED BY <5>1, <5>2
      <4>3. screen'[q] = <<inCombat[q], battle[inCombat[q]].hp>>
        BY <2>3, <3>1, <3>4, ScreenIs
      <4> QED BY <1>9, <3>4, <4>2, <4>3
    <3> QED BY <3>2, <3>3, <3>4
  <2> QED BY <2>2, <2>4 DEF Screens, ScreensShowFights
<1> QED BY <1>8, <1>10, <1>11, <1>12

-----------------------------------------------------------------------------
(* Blows.                                                                  *)

\* A fight changes and no fighter comes or goes.
LEMMA BlowStep ==
  ASSUME IInv, NEW r \in Room, battle[r] # NoBattle,
         NEW b, Fought(r, b, Fighters(r)),
         battle' = [battle EXCEPT ![r] = b],
         UNCHANGED <<inCombat, fallen, slain, ticking>>
  PROVE  /\ Fights' /\ Enemies'
         /\ battle'[r] = b /\ \A s \in Room : s # r => battle'[s] = battle[s]
<1>1. FightsIn(battle, inCombat) /\ DOMAIN battle = Room /\ r \in Den
  BY DEF IInv, Fights, FightsIn
<1>2. Fights'
  BY <1>1, ChangedFights DEF Fights, Fighters
<1>3. b # NoBattle
  BY <1>1, FoughtIsFight
<1>4. battle'[r] = b /\ \A s \in Room : s # r => battle'[s] = battle[s]
  BY <1>1
<1>5. \A s \in Room : battle'[s] # NoBattle <=> battle[s] # NoBattle
  BY <1>3, <1>4
<1>6. Enemies'
  BY <1>5 DEF IInv, Enemies, ClockRunsWhenNeeded
<1> QED BY <1>2, <1>4, <1>6

LEMMA SwingHitsStep ==
  ASSUME IInv, NEW p \in Player, NEW d \in Damage, SwingHits(p, d)
  PROVE  Fights' /\ Enemies' /\ Screens' /\ Able'
<1> DEFINE r == inCombat[p]
           b == Wounded(battle[r], p, d)
<1>1. /\ r # NoRoom /\ d < battle[r].hp
      /\ screen' = Updated(Fighters(r), r, battle'[r])
      /\ UNCHANGED <<present, holder, gone, pos, hp, inCombat, fallen, slain, ticking, yanked>>
  BY DEF SwingHits, Due, seatVars, bodyVars, timerVars, ghostVars
<1>2. r \in Den /\ r \in Room /\ battle[r] # NoBattle /\ Fought(r, battle[r], Fighters(r))
  BY <1>1, FighterHasFight
<1>3. battle' = [battle EXCEPT ![r] = b]
  BY DEF SwingHits
<1>4. p \in Fighters(r)
  BY DEF Fighters
<1>5. Fought(r, b, Fighters(r))
  <2> HIDE DEF r
  <2> QED BY <1>1, <1>2, <1>4, HitFight
<1>6. b.hp \in 0..EnemyHp
  BY <1>5, FoughtTypes
<1> HIDE DEF b, r
<1>7. /\ Fights' /\ Enemies'
      /\ battle'[r] = b /\ \A s \in Room : s # r => battle'[s] = battle[s]
  BY <1>1, <1>2, <1>3, <1>5, BlowStep
<1>8. Able'
  BY <1>1 DEF IInv, Able, FightersCanFight, FightersInPlace
<1>9. Screens'
  <2>1. screen \in [Player -> (Room \X (0..EnemyHp)) \cup {NoRoom}]
    BY DEF IInv, Screens
  <2>2. screen' = [q \in Player |-> IF q \in Fighters(r) /\ Live(q) /\ screen[q] # NoRoom
                                    THEN <<screen[q][1], b.hp>> ELSE screen[q]]
    BY <1>1, <1>7 DEF Updated
  <2>3. screen' \in [Player -> (Room \X (0..EnemyHp)) \cup {NoRoom}]
    BY <1>6, <2>1, <2>2
  <2>4. ASSUME NEW q \in Player, Live(q)'
        PROVE  screen'[q] = IF inCombat'[q] = NoRoom THEN NoRoom
                            ELSE <<inCombat'[q], battle'[inCombat'[q]].hp>>
    <3>1. Live(q) /\ inCombat'[q] = inCombat[q]
      BY <1>1, <2>4 DEF Live
    <3>2. CASE inCombat[q] = r
      <4>1. q \in Fighters(r)
        BY <3>2 DEF Fighters
      <4>2. screen[q] # NoRoom /\ screen[q][1] = r
        BY <1>1, <3>1, <3>2, ScreenIs
      <4> QED BY <1>1, <1>7, <2>2, <3>1, <3>2, <4>1, <4>2
    <3>3. CASE inCombat[q] # r
      <4>1. screen'[q] = screen[q]
        BY <2>2, <3>3 DEF Fighters
      <4>2. CASE inCombat[q] = NoRoom
        BY <3>1, <4>1, <4>2, ScreenIs
      <4>3. CASE inCombat[q] # NoRoom
        <5>1. inCombat[q] \in Room
          BY <4>3, FighterHasFight
        <5> QED BY <1>7, <3>1, <3>3, <4>1, <4>3, <5>1, ScreenIs
      <4> QED BY <4>2, <4>3
    <3> QED BY <3>2, <3>3
  <2> QED BY <2>3, <2>4 DEF Screens, ScreensShowFights
<1> QED BY <1>7, <1>8, <1>9

\* The swing that kills ends the fight of everybody in it.
LEMMA SwingKillsStep ==
  ASSUME IInv, NEW p \in Player, NEW d \in Damage, SwingKills(p, d)
  PROVE  Fights' /\ Enemies' /\ Screens' /\ Able'
<1> DEFINE r == inCombat[p]
           all == Fighters(r)
<1>1. /\ r # NoRoom
      /\ Removed(r)
      /\ battle' = [battle EXCEPT ![r] = NoBattle]
      /\ inCombat' = [q \in Player |-> IF q \in all THEN NoRoom ELSE inCombat[q]]
      /\ screen' = [q \in Player |-> IF q \in all /\ Live(q) THEN NoRoom ELSE screen[q]]
      /\ ticking' = StillTicking(battle', fallen')
      /\ yanked' = yanked \ all
      /\ UNCHANGED <<present, holder, gone, pos, hp>>
  BY DEF SwingKills, Due, seatVars
<1>2. r \in Den /\ r \in Room /\ battle[r] # NoBattle
  BY <1>1, FighterHasFight
<1>3. \A q \in Player : q \in all <=> inCombat[q] = r
  BY DEF Fighters
<1> HIDE DEF r, all
<1>4. FightsIn(battle, inCombat) /\ inCombat \in [Player -> Den \cup {NoRoom}]
      /\ DOMAIN battle = Room
  BY DEF IInv, Fights, FightsIn
<1>5. /\ DOMAIN battle' = Room /\ battle'[r] = NoBattle
      /\ \A s \in Room : s # r => battle'[s] = battle[s]
  BY <1>1, <1>2, <1>4
<1>6. inCombat' \in [Player -> Den \cup {NoRoom}]
  BY <1>1, <1>4
<1>7. \A q \in Player : inCombat'[q] # NoRoom =>
        inCombat[q] = inCombat'[q] /\ inCombat[q] # r /\ q \notin all
  BY <1>1, <1>3
<1>8. \A s \in Room : s # r =>
        {q \in Player : inCombat'[q] = s} = {q \in Player : inCombat[q] = s}
  BY <1>1, <1>3, CombatAssumption
<1>9. Fights'
  <2> SUFFICES ASSUME NEW s \in Room
               PROVE  IF battle'[s] = NoBattle THEN \A q \in Player : inCombat'[q] # s
                      ELSE s \in Den /\ Fought(s, battle'[s], {q \in Player : inCombat'[q] = s})
    BY <1>5, <1>6 DEF Fights, FightsIn
  <2>1. CASE s = r
    BY <1>2, <1>5, <1>7, <2>1, CombatAssumption
  <2>2. CASE s # r
    <3>1. battle'[s] = battle[s] /\ s # NoRoom
      BY <1>5, <2>2, CombatAssumption
    <3>2. {q \in Player : inCombat'[q] = s} = {q \in Player : inCombat[q] = s}
      BY <1>8, <2>2
    <3>3. CASE battle[s] = NoBattle
      BY <1>4, <1>7, <3>1, <3>3 DEF FightsIn
    <3>4. CASE battle[s] # NoBattle
      BY <1>4, <3>1, <3>2, <3>4 DEF FightsIn
    <3> QED BY <3>3, <3>4
  <2> QED BY <2>1, <2>2
<1>10. Enemies'
  <2>1. ticking = TRUE
    BY <1>2 DEF IInv, Enemies, ClockRunsWhenNeeded
  <2>2. ticking' = ((\E s \in Room : battle'[s] # NoBattle) \/ fallen' # {})
    BY <1>1, <2>1 DEF StillTicking
  <2>3. ticking' \in BOOLEAN /\ ClockRunsWhenNeeded'
    BY <2>2 DEF ClockRunsWhenNeeded
  <2>4. /\ fallen' \subseteq Den \ Boss /\ slain' \subseteq Boss
        /\ fallen' \cup slain' \subseteq fallen \cup slain \cup {r}
    BY <1>1, <1>2 DEF Removed, IInv, Enemies
  <2>5. \A s \in Room : battle'[s] # NoBattle => s \notin fallen' \cup slain'
    BY <1>5, <2>4 DEF IInv, Enemies
  <2> QED BY <2>3, <2>4, <2>5 DEF Enemies
<1>11. Able'
  BY <1>1, <1>7 DEF IInv, Able, FightersCanFight, FightersInPlace
<1>12. Screens'
  <2>1. screen' \in [Player -> (Room \X (0..EnemyHp)) \cup {NoRoom}]
    BY <1>1 DEF IInv, Screens
  <2>2. ASSUME NEW q \in Player, Live(q)'
        PROVE  screen'[q] = IF inCombat'[q] = NoRoom THEN NoRoom
                            ELSE <<inCombat'[q], battle'[inCombat'[q]].hp>>
    <3>1. Live(q)
      BY <1>1, <2>2 DEF Live
    <3>2. CASE q \in all
      BY <1>1, <3>1, <3>2
    <3>3. CASE q \notin all
      <4>1. screen'[q] = screen[q] /\ inCombat'[q] = inCombat[q] /\ inCombat[q] # r
        BY <1>1, <1>3, <3>3
      <4>2. CASE inCombat[q] = NoRoom
        BY <3>1, <4>1, <4>2, ScreenIs
      <4>3. CASE inCombat[q] # NoRoom
        <5>1. inCombat[q] \in Room
          BY <4>3, FighterHasFight
        <5> QED BY <1>5, <3>1, <4>1, <4>3, <5>1, ScreenIs
      <4> QED BY <4>2, <4>3
    <3> QED BY <3>2, <3>3
  <2> QED BY <2>1, <2>2 DEF Screens, ScreensShowFights
<1> QED BY <1>9, <1>10, <1>11, <1>12

\* Screens stay right while nobody joins or leaves and the enemy is not hit.
LEMMA ScreensKept ==
  ASSUME IInv, UNCHANGED <<inCombat, screen>>,
         \A q \in Player : Live(q)' => Live(q),
         \A r \in Room : battle[r] # NoBattle => battle'[r].hp = battle[r].hp
  PROVE  Screens'
<1>1. ASSUME NEW q \in Player, Live(q)'
      PROVE  screen'[q] = IF inCombat'[q] = NoRoom THEN NoRoom
                          ELSE <<inCombat'[q], battle'[inCombat'[q]].hp>>
  <2>1. Live(q)
    BY <1>1
  <2>2. CASE inCombat[q] = NoRoom
    BY <2>1, <2>2, ScreenIs
  <2>3. CASE inCombat[q] # NoRoom
    <3>1. inCombat[q] \in Room /\ battle[inCombat[q]] # NoBattle
      BY <2>3, FighterHasFight
    <3> QED BY <2>1, <2>3, <3>1, ScreenIs
  <2> QED BY <2>2, <2>3
<1> QED BY <1>1 DEF IInv, Screens, ScreensShowFights

LEMMA EnemyWindsUpStep ==
  ASSUME IInv, NEW r \in Den, EnemyWindsUp(r)
  PROVE  Fights' /\ Enemies' /\ Screens' /\ Able'
<1> DEFINE b == [Aimed(r) EXCEPT !.charged = TRUE, !.swings = 0]
<1>1. /\ EnemyDue(r) /\ battle' = [battle EXCEPT ![r] = b]
      /\ UNCHANGED <<present, holder, gone, pos, hp, inCombat, fallen, slain, ticking, screen,
                     yanked>>
  BY DEF EnemyWindsUp, seatVars, bodyVars, timerVars, ghostVars
<1>2. /\ r \in Room /\ battle[r] # NoBattle
      /\ Fought(r, Aimed(r), Fighters(r)) /\ Aimed(r).hp = battle[r].hp
  BY <1>1, AimedAtFighter
<1>3. Fought(r, b, Fighters(r))
  <2>1. 0 \in 0..EveryNth[r]
    BY CombatAssumption
  <2> QED BY <1>2, <2>1, SwungFight
<1>4. b.hp = battle[r].hp
  <2>1. Aimed(r) \in Battle(r)
    BY <1>2 DEF Fought
  <2> QED BY <1>2, <2>1 DEF Battle
<1> HIDE DEF b
<1>5. /\ Fights' /\ Enemies'
      /\ battle'[r] = b /\ \A s \in Room : s # r => battle'[s] = battle[s]
  BY <1>1, <1>2, <1>3, BlowStep
<1>6. Screens'
  <2>1. \A q \in Player : Live(q)' => Live(q)
    BY <1>1 DEF Live
  <2> QED BY <1>1, <1>4, <1>5, <2>1, ScreensKept
<1>7. Able'
  BY <1>1 DEF IInv, Able, FightersCanFight, FightersInPlace
<1> QED BY <1>5, <1>6, <1>7

LEMMA EnemyHitsStep ==
  ASSUME IInv, NEW r \in Den, NEW d \in Damage, EnemyHits(r, d)
  PROVE  Fights' /\ Enemies' /\ Screens' /\ Able' /\ Bodies'
<1> DEFINE t == Aimed(r).target
<1>1. /\ EnemyDue(r) /\ battle' = [battle EXCEPT ![r] = Struck(r)]
      /\ Blow(r, d) < hp[t]
      /\ hp' = [hp EXCEPT ![t] = @ - Blow(r, d)] \/ hp' = hp
      /\ UNCHANGED <<present, holder, gone, pos, potions, inCombat, fallen, slain, ticking, screen,
                     yanked>>
  BY DEF EnemyHits, seatVars, timerVars
<1>2. /\ r \in Room /\ battle[r] # NoBattle /\ t \in Player
      /\ Fought(r, Struck(r), Fighters(r)) /\ Struck(r).hp = battle[r].hp
  BY <1>1, AimedAtFighter, StruckFight
<1>3. hp \in [Player -> 0..MaxHp] /\ MaxHp \in Nat /\ Blow(r, d) \in Nat
  BY BlowType, CombatAssumption DEF IInv, Bodies
<1> HIDE DEF t
<1>4. hp' \in [Player -> 0..MaxHp] /\ \A q \in Player : hp[q] > 0 => hp'[q] > 0
  <2>1. CASE hp' = hp
    BY <1>3, <2>1
  <2>2. CASE hp' = [hp EXCEPT ![t] = @ - Blow(r, d)]
    <3>1. hp[t] \in 0..MaxHp
      BY <1>2, <1>3
    <3>2. hp[t] - Blow(r, d) \in 0..MaxHp /\ hp[t] - Blow(r, d) > 0
      BY <1>1, <1>3, <3>1
    <3> QED BY <1>2, <1>3, <2>2, <3>2
  <2> QED BY <1>1, <2>1, <2>2
<1>5. /\ Fights' /\ Enemies'
      /\ battle'[r] = Struck(r) /\ \A s \in Room : s # r => battle'[s] = battle[s]
  BY <1>1, <1>2, BlowStep
<1>6. Screens'
  <2>1. \A q \in Player : Live(q)' => Live(q)
    BY <1>1 DEF Live
  <2>2. \A s \in Room : battle[s] # NoBattle => battle'[s].hp = battle[s].hp
    BY <1>2, <1>5
  <2> QED BY <1>1, <2>1, <2>2, ScreensKept
<1>7. Able'
  BY <1>1, <1>4 DEF IInv, Able, FightersCanFight, FightersInPlace
<1>8. Bodies'
  BY <1>1, <1>4 DEF IInv, Bodies
<1> QED BY <1>5, <1>6, <1>7, <1>8

-----------------------------------------------------------------------------
(* Connections, crashes, and what leaves the fights alone.                 *)

LEMMA CrashStep ==
  ASSUME IInv, Crash
  PROVE  Fights' /\ Enemies' /\ Screens' /\ Able'
<1>1. /\ battle' = [r \in Room |-> NoBattle] /\ inCombat' = [p \in Player |-> NoRoom]
      /\ present' = {} /\ fallen' = {} /\ ticking' = FALSE /\ UNCHANGED <<screen, slain>>
  BY DEF Crash
<1>2. Fights'
  BY <1>1, CombatAssumption DEF Fights, FightsIn
<1>3. Enemies'
  BY <1>1 DEF IInv, Enemies, ClockRunsWhenNeeded
<1>4. Screens'
  BY <1>1 DEF IInv, Screens, ScreensShowFights, Live
<1>5. Able'
  BY <1>1 DEF Able, FightersCanFight, FightersInPlace
<1> QED BY <1>2, <1>3, <1>4, <1>5

LEMMA HelloStep ==
  ASSUME IInv, NEW p \in Player, NEW c \in Conn, Hello(p, c)
  PROVE  Fights' /\ Enemies' /\ Screens' /\ Able'
<1>1. /\ present' = present \cup {p} /\ holder' = [holder EXCEPT ![p] = c] /\ gone' = gone
      /\ p \in present /\ hp[p] # 0 => pos' = [pos EXCEPT ![p] = pos[p]]
      /\ \E r : pos' = [pos EXCEPT ![p] = r]
      /\ hp' = [hp EXCEPT ![p] = IF @ = 0 THEN Half ELSE @]
      /\ screen' = [screen EXCEPT ![p] = IF inCombat[p] = NoRoom THEN NoRoom
                                         ELSE <<inCombat[p], battle[inCombat[p]].hp>>]
      /\ UNCHANGED <<battle, inCombat, fallen, slain, ticking, yanked>>
  <2>1. PICK r \in Room : /\ p \in present => r = pos[p]
                          /\ pos' = [pos EXCEPT ![p] = IF hp[p] = 0 THEN Spawn ELSE r]
    BY DEF Hello
  <2> QED BY <2>1 DEF Hello, Take, fightVars, timerVars
<1>2. Fights' /\ Enemies'
  BY <1>1 DEF IInv, Fights, Enemies, ClockRunsWhenNeeded
<1>3. hp \in [Player -> 0..MaxHp] /\ pos \in [Player -> Room]
  BY DEF IInv, Bodies
<1>4. \A q \in Player : hp[q] > 0 => hp'[q] > 0
  BY <1>1, <1>3
<1>5. \A q \in Player : q # p \/ (p \in present /\ hp[p] # 0) => pos'[q] = pos[q]
  BY <1>1, <1>3
<1>6. Able'
  <2>1. FightersCanFight'
    BY <1>1, <1>4 DEF IInv, Able, FightersCanFight
  <2>2. \A q \in Player : inCombat[q] # NoRoom => q \in present /\ hp[q] # 0
    BY <1>3 DEF IInv, Able, FightersCanFight
  <2>3. FightersInPlace'
    BY <1>1, <1>5, <2>2 DEF IInv, Able, FightersInPlace
  <2> QED BY <2>1, <2>3 DEF Able
<1>7. Screens'
  <2>1. screen \in [Player -> (Room \X (0..EnemyHp)) \cup {NoRoom}]
    BY DEF IInv, Screens
  <2> DEFINE new == IF inCombat[p] = NoRoom THEN NoRoom
                    ELSE <<inCombat[p], battle[inCombat[p]].hp>>
  <2>2. new \in (Room \X (0..EnemyHp)) \cup {NoRoom}
    BY FighterHasFight
  <2>3. screen' \in [Player -> (Room \X (0..EnemyHp)) \cup {NoRoom}]
    BY <1>1, <2>1, <2>2
  <2>4. ASSUME NEW q \in Player, Live(q)'
        PROVE  screen'[q] = IF inCombat'[q] = NoRoom THEN NoRoom
                            ELSE <<inCombat'[q], battle'[inCombat'[q]].hp>>
    <3>1. CASE q = p
      BY <1>1, <2>1, <3>1
    <3>2. CASE q # p
      <4>1. holder'[q] = holder[q]
        BY <1>1, <3>2 DEF IInv, Seated
      <4>2. Live(q)
        BY <1>1, <2>4, <3>2, <4>1 DEF Live
      <4>3. screen'[q] = screen[q]
        BY <1>1, <2>1, <3>2
      <4> QED BY <1>1, <4>2, <4>3, ScreenIs
    <3> QED BY <3>1, <3>2
  <2> QED BY <2>3, <2>4 DEF Screens, ScreensShowFights
<1> QED BY <1>2, <1>6, <1>7

LEMMA DisconnectStep ==
  ASSUME IInv, NEW c \in Conn, Disconnect(c)
  PROVE  Fights' /\ Enemies' /\ Screens' /\ Able'
<1>1. UNCHANGED <<present, pos, hp, battle, inCombat, fallen, slain, ticking, screen, yanked>>
  BY DEF Disconnect, Close, bodyVars, fightVars, timerVars, ghostVars
<1>2. \A q \in Player : Live(q)' => Live(q)
  <2>1. gone \subseteq gone'
    BY DEF Disconnect, Close
  <2>2. \A q \in Player : holder'[q] # NoConn => holder'[q] = holder[q]
    BY DEF Disconnect, Close
  <2> QED BY <1>1, <2>1, <2>2 DEF Live
<1>3. Screens'
  BY <1>1, <1>2, ScreensKept
<1> QED BY <1>1, <1>3 DEF IInv, Fights, Enemies, ClockRunsWhenNeeded, Able, FightersCanFight,
                        FightersInPlace

\* What is told to a room that fights on is what its clients show already.
LEMMA AttackAgainStep ==
  ASSUME IInv, NEW p \in Player, AttackAgain(p)
  PROVE  Fights' /\ Enemies' /\ Screens' /\ Able'
<1> DEFINE r == pos[p]
<1>1. /\ inCombat[p] = r
      /\ screen' = Updated(Fighters(r), r, battle[r])
      /\ UNCHANGED <<present, holder, gone, pos, hp, battle, inCombat, fallen, slain, ticking,
                     yanked>>
  BY DEF AttackAgain, seatVars, bodyVars, timerVars, ghostVars
<1>2. r # NoRoom
  BY CombatAssumption DEF IInv, Bodies
<1> HIDE DEF r
<1>3. \A q \in Player : Live(q) => screen'[q] = screen[q]
  <2> TAKE q \in Player
  <2> HAVE Live(q)
  <2>1. CASE q \in Fighters(r)
    <3>1. inCombat[q] = r
      BY <2>1 DEF Fighters
    <3>2. screen[q] = <<r, battle[r].hp>> /\ screen[q][1] = r
      BY <1>2, <3>1, ScreenIs
    <3> QED BY <1>1, <2>1, <3>2 DEF Updated
  <2>2. CASE q \notin Fighters(r)
    BY <1>1, <2>2 DEF Updated
  <2> QED BY <2>1, <2>2
<1>4. screen' \in [Player -> (Room \X (0..EnemyHp)) \cup {NoRoom}]
  <2>1. screen \in [Player -> (Room \X (0..EnemyHp)) \cup {NoRoom}]
    BY DEF IInv, Screens
  <2>2. screen' = [q \in Player |-> screen'[q]]
    BY <1>1 DEF Updated
  <2>3. \A q \in Player : screen'[q] \in (Room \X (0..EnemyHp)) \cup {NoRoom}
    <3> TAKE q \in Player
    <3>1. screen'[q] = screen[q] \/ (Live(q) /\ screen'[q] = screen[q])
      BY <1>1, <1>3 DEF Updated
    <3> QED BY <2>1, <3>1
  <2> QED BY <2>2, <2>3
<1>5. Screens'
  <2>1. \A q \in Player : Live(q)' => Live(q)
    BY <1>1 DEF Live
  <2> QED BY <1>1, <1>3, <1>4, <2>1 DEF IInv, Screens, ScreensShowFights
<1> QED BY <1>1, <1>5 DEF IInv, Fights, Enemies, ClockRunsWhenNeeded, Able, FightersCanFight,
                        FightersInPlace

\* Potions, skills and orders; the death of nobody.
LEMMA CalmStep ==
  ASSUME IInv,
         UNCHANGED <<present, holder, gone, pos, battle, inCombat, fallen, slain, ticking, screen,
                     yanked>>,
         \A q \in Player : hp[q] > 0 => hp'[q] > 0
  PROVE  Fights' /\ Enemies' /\ Screens' /\ Able'
<1>1. Screens'
  <2>1. \A q \in Player : Live(q)' => Live(q)
    BY DEF Live
  <2> QED BY <2>1, ScreensKept
<1> QED BY <1>1 DEF IInv, Fights, Enemies, ClockRunsWhenNeeded, Able, FightersCanFight,
                  FightersInPlace

LEMMA EnemyReturnsStep ==
  ASSUME IInv, NEW r \in Den, EnemyReturns(r)
  PROVE  Fights' /\ Enemies' /\ Screens' /\ Able'
<1>1. /\ ticking /\ fallen' = fallen \ {r} /\ ticking' = StillTicking(battle, fallen')
      /\ UNCHANGED <<present, holder, gone, pos, hp, battle, inCombat, slain, screen, yanked>>
  BY DEF EnemyReturns, seatVars, bodyVars, fightVars, ghostVars
<1>2. Enemies'
  <2>1. ticking' = ((\E s \in Room : battle'[s] # NoBattle) \/ fallen' # {})
    BY <1>1 DEF StillTicking
  <2>2. ticking' \in BOOLEAN /\ ClockRunsWhenNeeded'
    BY <2>1 DEF ClockRunsWhenNeeded
  <2> QED BY <1>1, <2>2 DEF IInv, Enemies
<1>3. Screens'
  <2>1. \A q \in Player : Live(q)' => Live(q)
    BY <1>1 DEF Live
  <2> QED BY <1>1, <2>1, ScreensKept
<1> QED BY <1>1, <1>2, <1>3 DEF IInv, Fights, Able, FightersCanFight, FightersInPlace

\* The timer that carries a fighter out of its fight's room is remembered.
LEMMA RespawnFiresStep ==
  ASSUME IInv, NEW p \in Player, NEW c \in Conn, RespawnFires(p, c)
  PROVE  Fights' /\ Enemies' /\ Screens' /\ Able' /\ Bodies'
<1>1. UNCHANGED <<present, holder, gone, potions, battle, inCombat, fallen, slain, ticking, screen>>
  BY DEF RespawnFires, seatVars, fightVars
<1>2. \/ UNCHANGED <<pos, hp, yanked>>
      \/ /\ pos' = [pos EXCEPT ![p] = Spawn]
         /\ hp' = [hp EXCEPT ![p] = Half]
         /\ yanked' = IF inCombat[p] \notin {NoRoom, Spawn} THEN yanked \cup {p} ELSE yanked
  BY DEF RespawnFires
<1>3. Half \in 0..MaxHp /\ Half > 0 /\ Spawn \in Room
  BY HalfType, CombatAssumption
<1>4. hp \in [Player -> 0..MaxHp] /\ pos \in [Player -> Room] /\ potions' \in [Player -> 0..MaxPotions]
  BY <1>1 DEF IInv, Bodies
<1>5. Fights' /\ Enemies'
  BY <1>1 DEF IInv, Fights, Enemies, ClockRunsWhenNeeded
<1>6. Screens'
  <2>1. \A q \in Player : Live(q)' => Live(q)
    BY <1>1 DEF Live
  <2> QED BY <1>1, <2>1, ScreensKept
<1>7. Bodies' /\ Able'
  <2>1. CASE UNCHANGED <<pos, hp, yanked>>
    BY <1>1, <2>1 DEF IInv, Bodies, Able, FightersCanFight, FightersInPlace
  <2>2. CASE /\ pos' = [pos EXCEPT ![p] = Spawn]
             /\ hp' = [hp EXCEPT ![p] = Half]
             /\ yanked' = IF inCombat[p] \notin {NoRoom, Spawn} THEN yanked \cup {p} ELSE yanked
    <3>1. Bodies'
      BY <1>3, <1>4, <2>2 DEF Bodies
    <3>2. \A q \in Player : hp[q] > 0 => hp'[q] > 0
      BY <1>3, <1>4, <2>2
    <3>3. pos'[p] = Spawn /\ \A q \in Player : q # p => pos'[q] = pos[q]
      BY <1>4, <2>2
    <3>4. FightersCanFight'
      BY <1>1, <3>2 DEF IInv, Able, FightersCanFight
    <3>5. FightersInPlace'
      BY <1>1, <2>2, <3>3 DEF IInv, Able, FightersInPlace
    <3> QED BY <3>1, <3>4, <3>5 DEF Able
  <2> QED BY <1>2, <2>1, <2>2
<1> QED BY <1>5, <1>6, <1>7

-----------------------------------------------------------------------------
(* Potions and skills.                                                     *)

LEMMA DrunkKeeps ==
  ASSUME IInv, NEW p \in Player, Drinkable(p), Drunk(p), UNCHANGED pos
  PROVE  Bodies' /\ hp'[p] > 0 /\ \A q \in Player : hp[q] > 0 => hp'[q] > 0
<1>1. /\ hp \in [Player -> 0..MaxHp] /\ pos \in [Player -> Room]
      /\ potions \in [Player -> 0..MaxPotions] /\ MaxPotions \in Nat
  BY CombatAssumption DEF IInv, Bodies
<1>2. Least(MaxHp, hp[p] + Mend) \in 1..MaxHp
  BY <1>1, MendType
<1>3. hp' = [hp EXCEPT ![p] = Least(MaxHp, hp[p] + Mend)]
  BY DEF Drunk
<1>4. hp' \in [Player -> 0..MaxHp] /\ hp'[p] > 0 /\ \A q \in Player : hp[q] > 0 => hp'[q] > 0
  BY <1>1, <1>2, <1>3
<1>5. potions' \in [Player -> 0..MaxPotions]
  <2>1. potions' = [potions EXCEPT ![p] = potions[p] - 1] /\ potions[p] > 0
    BY DEF Drunk, Drinkable
  <2>2. potions[p] - 1 \in 0..MaxPotions
    BY <1>1, <2>1
  <2> QED BY <1>1, <2>1, <2>2
<1> QED BY <1>1, <1>4, <1>5 DEF Bodies

LEMMA DrinkStep ==
  ASSUME IInv, NEW p \in Player, Drink(p)
  PROVE  Fights' /\ Enemies' /\ Screens' /\ Able' /\ Bodies' /\ hp'[p] > 0
<1>1. /\ UNCHANGED <<present, holder, gone, pos, battle, inCombat, fallen, slain, ticking, screen,
                     yanked>>
      /\ Drinkable(p) /\ Drunk(p)
  BY DEF Drink, seatVars, fightVars, timerVars
<1>2. Bodies' /\ hp'[p] > 0 /\ \A q \in Player : hp[q] > 0 => hp'[q] > 0
  BY <1>1, DrunkKeeps
<1> QED BY <1>1, <1>2, CalmStep

LEMMA SwingItemStep ==
  ASSUME IInv, NEW p \in Player, SwingItem(p)
  PROVE  Fights' /\ Enemies' /\ Screens' /\ Able' /\ Bodies'
<1>1. UNCHANGED <<present, holder, gone, pos, battle, inCombat, fallen, slain, ticking, screen,
                  yanked>>
  BY DEF SwingItem, seatVars, timerVars, ghostVars
<1>2. Bodies' /\ \A q \in Player : hp[q] > 0 => hp'[q] > 0
  <2>1. CASE Drinkable(p)
    BY <1>1, <2>1, DrunkKeeps DEF SwingItem
  <2>2. CASE ~Drinkable(p)
    BY <1>1, <2>2 DEF SwingItem, IInv, Bodies
  <2> QED BY <2>1, <2>2
<1> QED BY <1>1, <1>2, CalmStep

LEMMA ReachedType ==
  ASSUME IInv, NEW p \in Player
  PROVE  Reached(p) \in Player
<1>1. queued[p].aim \in Player \cup {NoPlayer}
  BY DEF IInv, Orders, Order
<1> QED BY <1>1 DEF Reached

LEMMA SwingHealStep ==
  ASSUME IInv, NEW p \in Player, SwingHeal(p)
  PROVE  Fights' /\ Enemies' /\ Screens' /\ Able' /\ Bodies'
<1> DEFINE t == Reached(p)
<1>1. /\ UNCHANGED <<present, holder, gone, pos, potions, battle, inCombat, fallen, slain, ticking,
                     screen, yanked>>
      /\ hp' = [hp EXCEPT ![t] = Least(MaxHp, hp[t] + Mend)] \/ hp' = hp
  BY DEF SwingHeal, seatVars, timerVars
<1>2. hp \in [Player -> 0..MaxHp] /\ t \in Player
  BY ReachedType DEF IInv, Bodies
<1>3. Least(MaxHp, hp[t] + Mend) \in 1..MaxHp
  BY <1>2, MendType
<1>4. hp' \in [Player -> 0..MaxHp] /\ \A q \in Player : hp[q] > 0 => hp'[q] > 0
  <2> HIDE DEF t
  <2>1. CASE hp' = hp
    BY <1>2, <2>1
  <2>2. CASE hp' = [hp EXCEPT ![t] = Least(MaxHp, hp[t] + Mend)]
    BY <1>2, <1>3, <2>2
  <2> QED BY <1>1, <2>1, <2>2
<1>5. Bodies'
  BY <1>1, <1>4 DEF IInv, Bodies
<1> QED BY <1>1, <1>4, <1>5, CalmStep

-----------------------------------------------------------------------------
(* Every step keeps the fights.                                            *)

LEMMA FightsKept ==
  ASSUME IInv, Next
  PROVE  Fights' /\ Enemies' /\ Screens' /\ Able'
<1>1. ASSUME NEW p \in Player, NEW c \in Conn, Hello(p, c)
      PROVE  Fights' /\ Enemies' /\ Screens' /\ Able'
  BY <1>1, HelloStep
<1>2. ASSUME NEW c \in Conn, Disconnect(c)
      PROVE  Fights' /\ Enemies' /\ Screens' /\ Able'
  BY <1>2, DisconnectStep
<1>3. ASSUME NEW p \in Player,
             \/ Leave(p) \/ (\E r \in Room : Move(p, r)) \/ Attack(p) \/ AttackAgain(p)
             \/ Drink(p) \/ SwingItem(p) \/ SwingHeal(p)
      PROVE  Fights' /\ Enemies' /\ Screens' /\ Able'
  BY <1>3, LeaveStep, MoveStep, AttackStep, AttackAgainStep, DrinkStep, SwingItemStep,
     SwingHealStep
<1>4. CASE Crash
  BY <1>4, CrashStep
<1>5. ASSUME NEW p \in Player,
             \/ \E sk \in Skill, aim \in Player \cup {NoPlayer} : UseSkill(p, sk, aim)
             \/ QueueDrink(p) \/ Stand(p) \/ SwingGuard(p)
             \/ \E sk \in Skill : Cool(p, sk)
      PROVE  Fights' /\ Enemies' /\ Screens' /\ Able'
  <2>1. UNCHANGED <<present, holder, gone, pos, hp, battle, inCombat, fallen, slain, ticking,
                    screen, yanked>>
    BY <1>5 DEF UseSkill, QueueDrink, Stand, SwingGuard, Cool, seatVars, bodyVars, fightVars,
                timerVars, ghostVars
  <2> QED BY <2>1, CalmStep
<1>6. ASSUME NEW p \in Player, NEW d \in Damage, SwingHits(p, d) \/ SwingKills(p, d)
      PROVE  Fights' /\ Enemies' /\ Screens' /\ Able'
  BY <1>6, SwingHitsStep, SwingKillsStep
<1>7. ASSUME NEW r \in Den, EnemyWindsUp(r) \/ EnemyReturns(r)
      PROVE  Fights' /\ Enemies' /\ Screens' /\ Able'
  BY <1>7, EnemyWindsUpStep, EnemyReturnsStep
<1>8. ASSUME NEW r \in Den, NEW d \in Damage, EnemyHits(r, d) \/ EnemyKills(r, d)
      PROVE  Fights' /\ Enemies' /\ Screens' /\ Able'
  BY <1>8, EnemyHitsStep, EnemyKillsStep
<1>9. ASSUME NEW p \in Player, NEW c \in Conn, RespawnFires(p, c)
      PROVE  Fights' /\ Enemies' /\ Screens' /\ Able'
  BY <1>9, RespawnFiresStep
<1> QED BY <1>1, <1>2, <1>3, <1>4, <1>5, <1>6, <1>7, <1>8, <1>9 DEF Next

-----------------------------------------------------------------------------
(* Seats, bodies, orders and timers.                                       *)

LEMMA SeatedKept ==
  ASSUME IInv, Next
  PROVE  Seated'
<1>1. ASSUME NEW p \in Player, NEW c \in Conn, Hello(p, c) PROVE Seated'
  BY <1>1 DEF Hello, Take, IInv, Seated
<1>2. ASSUME NEW c \in Conn, Disconnect(c) PROVE Seated'
  BY <1>2 DEF Disconnect, Close, bodyVars, IInv, Seated
<1>3. ASSUME NEW p \in Player, Leave(p) PROVE Seated'
  BY <1>3 DEF Leave, Depart, bodyVars, IInv, Seated
<1>4. CASE Crash
  BY <1>4 DEF Crash, bodyVars, IInv, Seated
<1>5. ASSUME NEW p \in Player,
             \/ \E r \in Room : Move(p, r)
             \/ Attack(p) \/ AttackAgain(p) \/ Drink(p) \/ QueueDrink(p) \/ Stand(p)
             \/ SwingItem(p) \/ SwingHeal(p) \/ SwingGuard(p)
             \/ \E sk \in Skill, aim \in Player \cup {NoPlayer} : UseSkill(p, sk, aim)
             \/ \E sk \in Skill : Cool(p, sk)
             \/ \E d \in Damage : SwingHits(p, d) \/ SwingKills(p, d)
             \/ \E c \in Conn : RespawnFires(p, c)
      PROVE  Seated'
  <2>1. UNCHANGED <<present, holder, conn>>
    BY <1>5 DEF Move, Attack, AttackAgain, Drink, QueueDrink, Stand, SwingItem, SwingHeal,
                SwingGuard, UseSkill, Cool, SwingHits, SwingKills, RespawnFires, seatVars, bodyVars
  <2> QED BY <2>1 DEF IInv, Seated
<1>6. ASSUME NEW r \in Den,
             \/ EnemyWindsUp(r) \/ EnemyReturns(r)
             \/ \E d \in Damage : EnemyHits(r, d) \/ EnemyKills(r, d)
      PROVE  Seated'
  <2>1. UNCHANGED <<present, holder, conn>>
    BY <1>6 DEF EnemyWindsUp, EnemyReturns, EnemyHits, EnemyKills, seatVars, bodyVars
  <2> QED BY <2>1 DEF IInv, Seated
<1> QED BY <1>1, <1>2, <1>3, <1>4, <1>5, <1>6 DEF Next

LEMMA BodiesKept ==
  ASSUME IInv, Next
  PROVE  Bodies'
<1>0. /\ pos \in [Player -> Room] /\ hp \in [Player -> 0..MaxHp]
      /\ potions \in [Player -> 0..MaxPotions]
  BY DEF IInv, Bodies
<1>1. ASSUME NEW p \in Player, NEW c \in Conn, Hello(p, c) PROVE Bodies'
  <2>1. PICK r \in Room : pos' = [pos EXCEPT ![p] = IF hp[p] = 0 THEN Spawn ELSE r]
    BY <1>1 DEF Hello
  <2>2. hp' = [hp EXCEPT ![p] = IF @ = 0 THEN Half ELSE @] /\ potions' = potions
    BY <1>1 DEF Hello
  <2>3. Spawn \in Room /\ Half \in 0..MaxHp
    BY CombatAssumption, HalfType
  <2> QED BY <1>0, <2>1, <2>2, <2>3 DEF Bodies
<1>2. ASSUME NEW p \in Player, NEW r \in Room, Move(p, r) PROVE Bodies'
  BY <1>0, <1>2 DEF Move, Bodies
<1>3. ASSUME NEW p \in Player, Drink(p) \/ SwingItem(p) \/ SwingHeal(p) PROVE Bodies'
  BY <1>3, DrinkStep, SwingItemStep, SwingHealStep
<1>4. ASSUME NEW p \in Player, NEW d \in Damage, SwingKills(p, d) PROVE Bodies'
  <2>1. PICK lucky : potions' = [q \in Player |-> IF q \in lucky
                                                  THEN Least(MaxPotions, potions[q] + 1)
                                                  ELSE potions[q]]
    BY <1>4 DEF SwingKills
  <2>2. \A q \in Player : Least(MaxPotions, potions[q] + 1) \in 0..MaxPotions
    BY <1>0, CombatAssumption DEF Least
  <2>3. potions' \in [Player -> 0..MaxPotions]
    BY <1>0, <2>1, <2>2
  <2> QED BY <1>0, <1>4, <2>3 DEF SwingKills, Bodies
<1>5. ASSUME NEW r \in Den, NEW d \in Damage, EnemyHits(r, d) PROVE Bodies'
  BY <1>5, EnemyHitsStep
<1>6. ASSUME NEW r \in Den, NEW d \in Damage, EnemyKills(r, d) PROVE Bodies'
  <2>1. hp' = [hp EXCEPT ![Aimed(r).target] = 0] \/ hp' = hp
    BY <1>6 DEF EnemyKills
  <2>2. UNCHANGED <<pos, potions>> /\ MaxHp \in Nat
    BY <1>6, CombatAssumption DEF EnemyKills
  <2> QED BY <1>0, <2>1, <2>2 DEF Bodies
<1>7. ASSUME NEW p \in Player, NEW c \in Conn, RespawnFires(p, c) PROVE Bodies'
  BY <1>7, RespawnFiresStep
<1>8. ASSUME NEW p \in Player,
             \/ Leave(p) \/ Attack(p) \/ AttackAgain(p) \/ QueueDrink(p) \/ Stand(p)
             \/ SwingGuard(p)
             \/ \E sk \in Skill, aim \in Player \cup {NoPlayer} : UseSkill(p, sk, aim)
             \/ \E sk \in Skill : Cool(p, sk)
             \/ \E d \in Damage : SwingHits(p, d)
      PROVE  Bodies'
  <2>1. UNCHANGED <<pos, hp, potions>>
    BY <1>8 DEF Leave, Attack, AttackAgain, QueueDrink, Stand, SwingGuard, UseSkill, Cool,
                SwingHits, bodyVars
  <2> QED BY <1>0, <2>1 DEF Bodies
<1>9. ASSUME \/ \E c \in Conn : Disconnect(c)
             \/ Crash
             \/ \E r \in Den : EnemyWindsUp(r) \/ EnemyReturns(r)
      PROVE  Bodies'
  <2>1. UNCHANGED <<pos, hp, potions>>
    BY <1>9 DEF Disconnect, Crash, EnemyWindsUp, EnemyReturns, bodyVars
  <2> QED BY <1>0, <2>1 DEF Bodies
<1> QED BY <1>1, <1>2, <1>3, <1>4, <1>5, <1>6, <1>7, <1>8, <1>9 DEF Next

LEMMA OrderFacts ==
  /\ NoOrder \in Order /\ NoOrder.what \notin Skill /\ "item" \notin Skill
  /\ \A o \in Order : o.what \in {"none", "item"} \cup Skill /\ o.aim \in Player \cup {NoPlayer}
  /\ [what |-> "item", aim |-> NoPlayer] \in Order
<1>1. "item" \notin Skill /\ "none" \notin Skill
  BY CombatAssumption
<1> QED BY <1>1 DEF NoOrder, Order

\* An order that is cleared waits for nothing.
LEMMA QuitOrders ==
  ASSUME IInv, NEW p \in Player, NEW battles, Quit(p, battles), cooling' = cooling
  PROVE  Orders'
<1>1. CASE inCombat[p] = NoRoom
  BY <1>1 DEF Quit, fightVars, IInv, Orders, OrdersAreReady
<1>2. CASE inCombat[p] # NoRoom
  <2>1. /\ engaged' = engaged \ {p} /\ guarded' = guarded \ {p}
        /\ queued' = [queued EXCEPT ![p] = NoOrder]
    BY <1>2 DEF Quit
  <2> QED BY <2>1, OrderFacts DEF IInv, Orders, OrdersAreReady
<1> QED BY <1>1, <1>2

\* The order that is carried out is the one whose skill begins to cool.
LEMMA TakenOrders ==
  ASSUME IInv, NEW p \in Player, Taken(p), UNCHANGED engaged, guarded' \subseteq Player
  PROVE  Orders'
<1>1. queued' = [queued EXCEPT ![p] = NoOrder] /\ queued \in [Player -> Order]
  BY DEF Taken, IInv, Orders
<1>2. \A q \in Player : q # p => queued'[q] = queued[q]
  BY <1>1
<1>3. queued'[p] = NoOrder /\ queued' \in [Player -> Order]
  BY <1>1, OrderFacts
<1>4. cooling' \subseteq Player \X Skill /\ \A x \in cooling' : x \in cooling \/ x[1] = p
  BY DEF Taken, IInv, Orders
<1>5. OrdersAreReady'
  <2> SUFFICES ASSUME NEW q \in Player, queued'[q].what \in Skill
               PROVE  <<q, queued'[q].what>> \notin cooling'
    BY DEF OrdersAreReady
  <2>1. q # p
    BY <1>3, OrderFacts
  <2>2. <<q, queued[q].what>> \notin cooling /\ queued'[q] = queued[q]
    BY <1>2, <2>1 DEF IInv, Orders, OrdersAreReady
  <2>3. <<q, queued[q].what>>[1] # p
    BY <2>1
  <2> QED BY <1>4, <2>2, <2>3
<1> QED BY <1>3, <1>4, <1>5 DEF IInv, Orders

LEMMA OrdersKept ==
  ASSUME IInv, Next
  PROVE  Orders'
<1>0. /\ engaged \subseteq Player /\ guarded \subseteq Player /\ cooling \subseteq Player \X Skill
      /\ queued \in [Player -> Order] /\ OrdersAreReady
  BY DEF IInv, Orders
<1>1. ASSUME NEW p \in Player, Leave(p) \/ \E r \in Room : Move(p, r) PROVE Orders'
  BY <1>1, QuitOrders DEF Leave, Move
<1>2. ASSUME NEW r \in Den, NEW d \in Damage, EnemyKills(r, d) PROVE Orders'
  <2>1. Aimed(r).target \in Player
    BY <1>2, AimedAtFighter DEF EnemyKills
  <2> QED BY <1>2, <2>1, QuitOrders DEF EnemyKills
<1>3. ASSUME NEW p \in Player, Attack(p) PROVE Orders'
  <2>1. /\ engaged' = engaged \cup {p} /\ guarded' = guarded \ {p} /\ cooling' = cooling
        /\ queued' = [queued EXCEPT ![p] = NoOrder]
    BY <1>3 DEF Attack
  <2> QED BY <1>0, <2>1, OrderFacts DEF Orders, OrdersAreReady
<1>4. ASSUME NEW p \in Player, AttackAgain(p) PROVE Orders'
  BY <1>0, <1>4 DEF AttackAgain, Orders, OrdersAreReady
<1>5. ASSUME NEW p \in Player, NEW sk \in Skill, NEW aim \in Player \cup {NoPlayer},
             UseSkill(p, sk, aim)
      PROVE  Orders'
  <2>1. /\ engaged' = engaged \cup {p} /\ UNCHANGED <<guarded, cooling>>
        /\ queued' = [queued EXCEPT ![p] = [what |-> sk, aim |-> aim]]
        /\ <<p, sk>> \notin cooling
    BY <1>5 DEF UseSkill, Ready
  <2>2. [what |-> sk, aim |-> aim] \in Order
    BY DEF Order
  <2>3. queued' \in [Player -> Order] /\ queued'[p].what = sk
        /\ \A q \in Player : q # p => queued'[q] = queued[q]
    BY <1>0, <2>1, <2>2
  <2> QED BY <1>0, <2>1, <2>3 DEF Orders, OrdersAreReady
<1>6. ASSUME NEW p \in Player, QueueDrink(p) PROVE Orders'
  <2>1. /\ UNCHANGED <<engaged, guarded, cooling>>
        /\ queued' = [queued EXCEPT ![p] = [what |-> "item", aim |-> NoPlayer]]
    BY <1>6 DEF QueueDrink
  <2>2. queued' \in [Player -> Order] /\ queued'[p].what = "item"
        /\ \A q \in Player : q # p => queued'[q] = queued[q]
    BY <1>0, <2>1, OrderFacts
  <2> QED BY <1>0, <2>1, <2>2, OrderFacts DEF Orders, OrdersAreReady
<1>7. ASSUME NEW p \in Player, Stand(p) PROVE Orders'
  <2>1. /\ engaged' = engaged \ {p} /\ UNCHANGED <<guarded, cooling>>
        /\ queued' = [queued EXCEPT ![p] = NoOrder]
    BY <1>7 DEF Stand
  <2> QED BY <1>0, <2>1, OrderFacts DEF Orders, OrdersAreReady
<1>8. ASSUME NEW p \in Player,
             SwingItem(p) \/ SwingHeal(p) \/ SwingGuard(p) \/ \E d \in Damage : SwingHits(p, d)
      PROVE  Orders'
  <2>1. Taken(p) /\ engaged' = engaged
    BY <1>8 DEF SwingItem, SwingHeal, SwingGuard, SwingHits
  <2>2. guarded' = guarded \/ guarded' = guarded \cup {Reached(p)}
    BY <1>8 DEF SwingItem, SwingHeal, SwingGuard, SwingHits
  <2>3. guarded' \subseteq Player
    BY <1>0, <2>2, ReachedType
  <2> QED BY <2>1, <2>3, TakenOrders
<1>9. ASSUME NEW p \in Player, NEW d \in Damage, SwingKills(p, d) PROVE Orders'
  <2> DEFINE all == Fighters(inCombat[p])
  <2>1. /\ engaged' = engaged \ all /\ guarded' = guarded \ all
        /\ queued' = [q \in Player |-> IF q \in all THEN NoOrder ELSE queued[q]]
        /\ cooling' = IF queued[p].what \in Skill THEN cooling \cup {<<p, queued[p].what>>}
                      ELSE cooling
    BY <1>9 DEF SwingKills
  <2>2. p \in all
    BY DEF Fighters
  <2> HIDE DEF all
  <2>3. queued' \in [Player -> Order] /\ \A q \in all \cap Player : queued'[q].what \notin Skill
    BY <1>0, <2>1, OrderFacts
  <2>4. \A q \in Player : q \notin all => queued'[q] = queued[q] /\ q # p
    BY <2>1, <2>2
  <2>5. cooling' \subseteq Player \X Skill /\ \A x \in cooling' : x \in cooling \/ x[1] = p
    BY <1>0, <2>1
  <2>6. OrdersAreReady'
    <3> SUFFICES ASSUME NEW q \in Player, queued'[q].what \in Skill
                 PROVE  <<q, queued'[q].what>> \notin cooling'
      BY DEF OrdersAreReady
    <3>1. queued'[q] = queued[q] /\ q # p
      BY <2>3, <2>4
    <3>2. <<q, queued[q].what>> \notin cooling
      BY <1>0, <3>1 DEF OrdersAreReady
    <3>3. <<q, queued[q].what>>[1] # p
      BY <3>1
    <3> QED BY <2>5, <3>1, <3>2, <3>3
  <2> QED BY <1>0, <2>1, <2>3, <2>5, <2>6 DEF Orders
<1>10. ASSUME NEW p \in Player, NEW sk \in Skill, Cool(p, sk) PROVE Orders'
  BY <1>0, <1>10 DEF Cool, fightVars, Orders, OrdersAreReady
<1>11. ASSUME NEW r \in Den, NEW d \in Damage, EnemyHits(r, d) PROVE Orders'
  BY <1>0, <1>11 DEF EnemyHits, Orders, OrdersAreReady
<1>12. CASE Crash
  BY <1>0, <1>12, OrderFacts DEF Crash, Orders, OrdersAreReady
<1>13. ASSUME \/ \E p \in Player, c \in Conn : Hello(p, c) \/ RespawnFires(p, c)
              \/ \E c \in Conn : Disconnect(c)
              \/ \E p \in Player : Drink(p)
              \/ \E r \in Den : EnemyWindsUp(r) \/ EnemyReturns(r)
       PROVE  Orders'
  <2>1. UNCHANGED <<engaged, queued, guarded, cooling>>
    BY <1>13 DEF Hello, RespawnFires, Disconnect, Drink, EnemyWindsUp, EnemyReturns, fightVars
  <2> QED BY <1>0, <2>1 DEF Orders, OrdersAreReady
<1> QED BY <1>1, <1>2, <1>3, <1>4, <1>5, <1>6, <1>7, <1>8, <1>9, <1>10, <1>11, <1>12, <1>13
        DEF Next

LEMMA TimersKept ==
  ASSUME IInv, Next
  PROVE  Timers'
<1>0. /\ respawn \in [Player \X Conn -> 0..MaxTimers] /\ DownHasTimer
      /\ hp \in [Player -> 0..MaxHp] /\ MaxTimers \in Nat
      /\ present \subseteq Player /\ \A p \in present : conn[p] \in Conn
      /\ conn \in [Player -> Conn \cup {NoConn}]
  BY CombatAssumption DEF IInv, Timers, Bodies, Seated
<1>1. ASSUME NEW p \in Player, NEW c \in Conn, Hello(p, c) PROVE Timers'
  <2>1. /\ present' = present \cup {p} /\ conn' = [conn EXCEPT ![p] = c] /\ respawn' = respawn
        /\ hp' = [hp EXCEPT ![p] = IF @ = 0 THEN Half ELSE @] /\ stranded' = stranded \ {p}
    BY <1>1 DEF Hello, Take, timerVars
  <2>2. hp'[p] # 0 /\ \A q \in Player : q # p => hp'[q] = hp[q] /\ conn'[q] = conn[q]
    BY <1>0, <2>1, HalfType
  <2> QED BY <1>0, <2>1, <2>2 DEF Timers, DownHasTimer
<1>2. ASSUME NEW p \in Player, Leave(p) PROVE Timers'
  BY <1>0, <1>2 DEF Leave, Depart, bodyVars, Timers, DownHasTimer
<1>3. CASE Crash
  BY <1>0, <1>3 DEF Crash, Timers, DownHasTimer
<1>4. ASSUME UNCHANGED <<present, conn, respawn>>, UNCHANGED stranded,
             \A q \in Player : hp[q] > 0 => hp'[q] > 0
      PROVE  Timers'
  <2>1. \A q \in Player : hp'[q] = 0 => hp[q] = 0
    BY <1>0, <1>4
  <2> QED BY <1>0, <1>4, <2>1 DEF Timers, DownHasTimer
<1>5. ASSUME NEW p \in Player, SwingItem(p) \/ SwingHeal(p) PROVE Timers'
  <2>1. UNCHANGED <<present, conn, respawn, stranded>>
    BY <1>5 DEF SwingItem, SwingHeal, seatVars, timerVars, ghostVars
  <2>2. \A q \in Player : hp[q] > 0 => hp'[q] > 0
    <3>1. CASE SwingItem(p) /\ Drinkable(p)
      BY <3>1, DrunkKeeps DEF SwingItem
    <3>2. CASE SwingItem(p) /\ ~Drinkable(p)
      BY <3>2 DEF SwingItem
    <3>3. CASE SwingHeal(p)
      <4>1. hp' = [hp EXCEPT ![Reached(p)] = Least(MaxHp, hp[Reached(p)] + Mend)] \/ hp' = hp
        BY <3>3 DEF SwingHeal
      <4>2. Least(MaxHp, hp[Reached(p)] + Mend) \in 1..MaxHp
        BY <1>0, ReachedType, MendType
      <4> QED BY <1>0, <4>1, <4>2
    <3> QED BY <1>5, <3>1, <3>2, <3>3
  <2> QED BY <1>4, <2>1, <2>2
<1>6. ASSUME NEW p \in Player, Drink(p) PROVE Timers'
  <2>1. UNCHANGED <<present, conn, respawn, pos>> /\ stranded' = stranded \ {p}
        /\ Drinkable(p) /\ Drunk(p)
    BY <1>6 DEF Drink, seatVars, timerVars
  <2>2. hp'[p] > 0 /\ \A q \in Player : hp[q] > 0 => hp'[q] > 0
    BY <2>1, DrunkKeeps
  <2>3. \A q \in Player : hp'[q] = 0 => hp[q] = 0 /\ q # p
    BY <1>0, <2>2
  <2> QED BY <1>0, <2>1, <2>3 DEF Timers, DownHasTimer
<1>7. ASSUME NEW r \in Den, NEW d \in Damage, EnemyHits(r, d) PROVE Timers'
  <2> DEFINE t == Aimed(r).target
  <2>1. /\ UNCHANGED <<present, conn, respawn, stranded>> /\ EnemyDue(r) /\ Blow(r, d) < hp[t]
        /\ hp' = [hp EXCEPT ![t] = hp[t] - Blow(r, d)] \/ hp' = hp
    BY <1>7 DEF EnemyHits, seatVars, timerVars
  <2>2. t \in Player
    BY <2>1, AimedAtFighter
  <2> HIDE DEF t
  <2>3. hp[t] - Blow(r, d) > 0
    BY <1>0, <2>1, <2>2, BlowType
  <2>4. \A q \in Player : hp[q] > 0 => hp'[q] > 0
    BY <1>0, <2>1, <2>2, <2>3
  <2> QED BY <1>4, <2>1, <2>4
<1>8. ASSUME NEW r \in Den, NEW d \in Damage, EnemyKills(r, d) PROVE Timers'
  <2> DEFINE t == Aimed(r).target
  <2>1. /\ UNCHANGED <<present, conn, stranded>> /\ EnemyDue(r)
        /\ respawn[<<t, conn[t]>>] < MaxTimers
        /\ respawn' = [respawn EXCEPT ![<<t, conn[t]>>] = @ + 1]
        /\ hp' = [hp EXCEPT ![t] = 0] \/ hp' = hp
    BY <1>8 DEF EnemyKills, Armed, seatVars
  <2>2. t \in present /\ t \in Player
    BY <2>1, AimedAtFighter
  <2> HIDE DEF t
  <2>3. <<t, conn[t]>> \in Player \X Conn
    BY <1>0, <2>2
  <2>4. respawn[<<t, conn[t]>>] \in 0..MaxTimers
    BY <1>0, <2>3
  <2>5. respawn' \in [Player \X Conn -> 0..MaxTimers] /\ respawn'[<<t, conn[t]>>] > 0
    BY <1>0, <2>1, <2>3, <2>4
  <2>6. ASSUME NEW q \in present, q # t PROVE respawn'[<<q, conn[q]>>] = respawn[<<q, conn[q]>>] /\ hp'[q] = hp[q]
    <3>1. <<q, conn[q]>> \in Player \X Conn /\ <<q, conn[q]>> # <<t, conn[t]>>
      BY <1>0, <2>6
    <3> QED BY <1>0, <2>1, <3>1
  <2> QED BY <1>0, <2>1, <2>5, <2>6 DEF Timers, DownHasTimer
<1>9. ASSUME NEW p \in Player, NEW c \in Conn, RespawnFires(p, c) PROVE Timers'
  <2>1. /\ UNCHANGED <<present, conn>> /\ respawn[<<p, c>>] > 0
        /\ respawn' = [respawn EXCEPT ![<<p, c>>] = @ - 1]
    BY <1>9 DEF RespawnFires, seatVars
  <2>2. /\ respawn' \in [Player \X Conn -> 0..MaxTimers]
        /\ \A x \in Player \X Conn : x # <<p, c>> => respawn'[x] = respawn[x]
    <3>1. respawn[<<p, c>>] \in 0..MaxTimers
      BY <1>0
    <3>2. respawn[<<p, c>>] - 1 \in 0..MaxTimers
      BY <1>0, <2>1, <3>1
    <3> QED BY <1>0, <2>1, <3>2
  <2>3. ASSUME NEW q \in present, q # p \/ conn[q] # c
        PROVE  respawn'[<<q, conn[q]>>] = respawn[<<q, conn[q]>>]
    <3>1. <<q, conn[q]>> \in Player \X Conn /\ <<q, conn[q]>> # <<p, c>>
      BY <1>0, <2>3
    <3> QED BY <2>2, <3>1
  <2>4. CASE (p \notin present \/ conn[p] # c) /\ UNCHANGED <<hp, stranded>>
    BY <1>0, <2>1, <2>2, <2>3, <2>4 DEF Timers, DownHasTimer
  <2>5. CASE hp' = hp /\ stranded' = (IF hp[p] = 0 THEN stranded \cup {p} ELSE stranded)
    BY <1>0, <2>1, <2>2, <2>3, <2>5 DEF Timers, DownHasTimer
  <2>6. CASE hp' = [hp EXCEPT ![p] = Half] /\ stranded' = stranded \ {p}
    <3>1. hp'[p] # 0 /\ \A q \in Player : q # p => hp'[q] = hp[q]
      BY <1>0, <2>6, HalfType
    <3> QED BY <1>0, <2>1, <2>2, <2>3, <2>6, <3>1 DEF Timers, DownHasTimer
  <2> QED BY <1>9, <2>4, <2>5, <2>6 DEF RespawnFires
<1>10. ASSUME NEW p \in Player,
              \/ \E r \in Room : Move(p, r)
              \/ Attack(p) \/ AttackAgain(p) \/ QueueDrink(p) \/ Stand(p) \/ SwingGuard(p)
              \/ \E sk \in Skill, aim \in Player \cup {NoPlayer} : UseSkill(p, sk, aim)
              \/ \E sk \in Skill : Cool(p, sk)
              \/ \E d \in Damage : SwingHits(p, d) \/ SwingKills(p, d)
       PROVE  Timers'
  <2>1. UNCHANGED <<present, conn, respawn, stranded, hp>>
    BY <1>10 DEF Move, Attack, AttackAgain, QueueDrink, Stand, SwingGuard, UseSkill, Cool,
                 SwingHits, SwingKills, seatVars, bodyVars, timerVars, ghostVars
  <2> QED BY <1>4, <2>1
<1>11. ASSUME \/ \E c \in Conn : Disconnect(c)
              \/ \E r \in Den : EnemyWindsUp(r) \/ EnemyReturns(r)
       PROVE  Timers'
  <2>1. UNCHANGED <<present, conn, respawn, stranded, hp>>
    BY <1>11 DEF Disconnect, Close, EnemyWindsUp, EnemyReturns, seatVars, bodyVars, timerVars,
                 ghostVars
  <2> QED BY <1>4, <2>1
<1> QED BY <1>1, <1>2, <1>3, <1>5, <1>6, <1>7, <1>8, <1>9, <1>10, <1>11 DEF Next

-----------------------------------------------------------------------------
(* The theorems.                                                           *)

LEMMA InitIInv == Init => IInv
<1> SUFFICES ASSUME Init PROVE IInv
  OBVIOUS
<1>1. Seated
  BY DEF Init, SeatInit, Seated
<1>2. Bodies
  BY CombatAssumption DEF Init, Bodies
<1>3. Orders
  BY OrderFacts DEF Init, Orders, OrdersAreReady
<1>4. Timers
  <2>1. respawn = [t \in Player \X Conn |-> 0] /\ MaxTimers \in Nat /\ present = {}
    BY CombatAssumption DEF Init, SeatInit
  <2> QED BY <2>1 DEF Timers, DownHasTimer
<1>5. Fights
  BY CombatAssumption DEF Init, Fights, FightsIn
<1>6. Enemies
  BY DEF Init, Enemies, ClockRunsWhenNeeded
<1>7. Able
  BY DEF Init, Able, FightersCanFight, FightersInPlace
<1>8. Screens
  BY DEF Init, SeatInit, Screens, ScreensShowFights, Live
<1> QED BY <1>1, <1>2, <1>3, <1>4, <1>5, <1>6, <1>7, <1>8 DEF IInv

LEMMA NextIInv == IInv /\ [Next]_vars => IInv'
<1> SUFFICES ASSUME IInv, [Next]_vars PROVE IInv'
  OBVIOUS
<1>1. CASE Next
  BY <1>1, FightsKept, SeatedKept, BodiesKept, OrdersKept, TimersKept DEF IInv
<1>2. CASE UNCHANGED vars
  <2>1. UNCHANGED <<seatVars, bodyVars, fightVars, timerVars, cooling, slain, screen, ghostVars>>
    BY <1>2 DEF vars
  <2>2. Seated' /\ Bodies' /\ Fights' /\ Enemies' /\ Able'
    BY <2>1 DEF IInv, Seated, Bodies, Fights, Enemies, ClockRunsWhenNeeded, Able,
                FightersCanFight, FightersInPlace, seatVars, bodyVars, fightVars, timerVars,
                ghostVars
  <2>3. Orders' /\ Timers' /\ Screens'
    BY <2>1 DEF IInv, Orders, OrdersAreReady, Timers, DownHasTimer, Screens, ScreensShowFights,
                Live, seatVars, bodyVars, fightVars, timerVars, ghostVars
  <2> QED BY <2>2, <2>3 DEF IInv
<1> QED BY <1>1, <1>2

\* The inductive invariant holds in every state the service reaches
\* (world/combat.ts, engine/combat.ts).
THEOREM CombatInvariant == Spec => []IInv
<1> QED BY InitIInv, NextIInv, PTL DEF Spec

\* A fight is known to every fighter it counts and to nobody else; all of them
\* are alive, here and in its room; the enemy is there, alive, and aims at one of
\* them; no order waits that could not be carried out (combat.ts, attack, leave,
\* defeat, respawnEnemy).
THEOREM FightsAreSound == Spec => []FightIsSound
<1>1. IInv => FightIsSound
  <2> SUFFICES ASSUME IInv PROVE FightIsSound
    OBVIOUS
  <2>1. ASSUME NEW r \in Room, battle[r] # NoBattle
        PROVE  /\ r \in Den /\ Fought(r, battle[r], Fighters(r)) /\ battle[r] \in Battle(r)
               /\ r \notin fallen \cup slain
    <3>1. r \in Den /\ Fought(r, battle[r], Fighters(r))
      BY <2>1 DEF IInv, Fights, FightsIn, Fighters
    <3> QED BY <2>1, <3>1 DEF IInv, Enemies, Fought
  <2>2. TypeOK
    <3>1. DOMAIN battle = Room /\ inCombat \in [Player -> Den \cup {NoRoom}]
      BY DEF IInv, Fights, FightsIn
    <3> QED BY <2>1, <3>1 DEF IInv, Seated, Bodies, Orders, Timers, Enemies, Screens, TypeOK
  <2>3. FightersIndexed
    <3>1. ASSUME NEW r \in Room, battle[r] # NoBattle
          PROVE  /\ battle[r].order # <<>>
                 /\ \A i, j \in DOMAIN battle[r].order :
                      battle[r].order[i] = battle[r].order[j] => i = j
      BY <2>1, <3>1 DEF Fought, Distinct
    <3>2. ASSUME NEW p \in Player, NEW r \in Room
          PROVE  inCombat[p] = r <=>
                   /\ battle[r] # NoBattle
                   /\ \E i \in DOMAIN battle[r].order : battle[r].order[i] = p
      <4>1. CASE battle[r] = NoBattle
        BY <4>1 DEF IInv, Fights, FightsIn
      <4>2. CASE battle[r] # NoBattle
        <5>1. p \in Fighters(r) <=> \E i \in DOMAIN battle[r].order : battle[r].order[i] = p
          BY <2>1, <4>2 DEF Fought
        <5> QED BY <4>2, <5>1 DEF Fighters
      <4> QED BY <4>1, <4>2
    <3> QED BY <3>1, <3>2 DEF FightersIndexed
  <2>4. TargetFights
    <3> SUFFICES ASSUME NEW r \in Room, battle[r] # NoBattle, battle[r].target # NoPlayer
                 PROVE  inCombat[battle[r].target] = r
      BY DEF TargetFights
    <3>1. battle[r].target \in Fighters(r)
      BY <2>1 DEF Fought
    <3> QED BY <3>1 DEF Fighters
  <2>5. EnemyIsThere
    BY <2>1 DEF EnemyIsThere, Fought
  <2> QED BY <2>2, <2>3, <2>4, <2>5 DEF FightIsSound, IInv, Able, Orders
<1> QED BY <1>1, CombatInvariant, PTL

\* A connected client shows the fight its player is in, and the enemy's hit
\* points as they are (emit.ts, combat.ts:297-314).
THEOREM ScreensAlwaysShowFights == Spec => []ScreensShowFights
<1>1. IInv => ScreensShowFights
  BY DEF IInv, Screens
<1> QED BY <1>1, CombatInvariant, PTL

\* However many fighters join, strike, leave and come back: what those in the
\* fight are credited with is never more than what the enemy has lost, and nobody
\* else is credited (engine/combat.ts:60-158).
THEOREM CreditIsAlwaysDamage == Spec => []CreditIsDamage
<1>1. IInv => CreditIsDamage
  <2> SUFFICES ASSUME IInv, NEW r \in Room, battle[r] # NoBattle
               PROVE  /\ \A p \in Player : battle[r].threat[p] > 0 => inCombat[p] = r
                      /\ Credited(battle[r])
    BY DEF CreditIsDamage, Credited
  <2>1. Fought(r, battle[r], Fighters(r))
    BY DEF IInv, Fights, FightsIn, Fighters
  <2> QED BY <2>1 DEF Fought, Fighters
<1> QED BY <1>1, CombatInvariant, PTL

\* The clock runs exactly while a fight or a fallen enemy needs it, and whoever
\* lies dead has a timer that will raise it, through reconnections, failed writes
\* and crashes (combat.ts:799-858).
THEOREM ClocksAlwaysRun == Spec => []ClocksRun
<1>1. IInv => ClocksRun
  BY DEF IInv, Enemies, Timers, ClocksRun
<1> QED BY <1>1, CombatInvariant, PTL

=============================================================================
