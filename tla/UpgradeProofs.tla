--------------------------- MODULE UpgradeProofs ---------------------------
(***************************************************************************)
(* Theorems about Upgrade, for every number of readers, targets, slots,    *)
(* attempts and bounds.                                                    *)
(*                                                                         *)
(* The inductive invariant has three parts.  WorldOK: a row is absent, or  *)
(* the first or the final sentence of the state its key stands for.        *)
(* QueueOK: what the queue has in hand is named once, has a row and can    *)
(* still be tried, and no slot idles while a key waits; it is kept by push *)
(* and by pump, and each action of the queue is made of these.  PagesOK:   *)
(* lines are numbered by epoch and place, and whoever waits for a key      *)
(* waits with a line of it.  A step that publishes (Commit) settles the    *)
(* row first, so that nobody is left waiting (NoWatcherLeft).  What a step *)
(* does to rows and pages (RowsMove, LinesKept) is proved with each        *)
(* action: from it follow the action property LinesKeepTheirPlace and      *)
(* the refinement of Canon.                                                *)
(***************************************************************************)
EXTENDS Upgrade, FiniteSetTheorems, SequenceTheorems, TLAPS

-----------------------------------------------------------------------------
(* Lemmas about numbers and finite sets.                                   *)

\* A set of naturals that is not empty has a least element.
LEMMA LeastNatural ==
  ASSUME NEW S, S \subseteq Nat, S # {}
  PROVE  \E m \in S : \A n \in S : m <= n
<1>1. PICK m \in S : \A n \in S : <<n, m>> \notin OpToRel(<, Nat)
  BY NatLessThanWellFounded, WFMin
<1>2. ASSUME NEW n \in S PROVE m <= n
  <2>1. <<n, m>> \in Nat \X Nat
    OBVIOUS
  <2>2. ~(n < m)
    BY <1>1, <2>1 DEF OpToRel
  <2> QED BY <2>2
<1> QED BY <1>2

\* A set of naturals that is not empty and bounded has a largest element.
LEMMA MaxOf ==
  ASSUME NEW n \in Nat, NEW S, S \subseteq 0..n, S # {}
  PROVE  Max(S) \in S /\ \A i \in S : i <= Max(S)
<1> DEFINE above == {m \in Nat : \A i \in S : i <= m}
<1>1. above \subseteq Nat /\ n \in above
  OBVIOUS
<1>2. PICK m \in above : \A i \in above : m <= i
  BY <1>1, LeastNatural
<1>3. m \in S
  <2>1. CASE m = 0
    <3>1. PICK i \in S : TRUE
      OBVIOUS
    <3>2. i \in Nat /\ i <= m
      BY <1>2
    <3>3. i = m
      BY <2>1, <3>2
    <3> QED BY <3>3
  <2>2. CASE m > 0 /\ m \notin S
    <3>1. \A i \in S : i <= m - 1
      BY <1>2, <2>2
    <3>2. m - 1 \in above
      BY <2>2, <3>1
    <3> QED BY <1>2, <3>2
  <2> QED BY <1>2, <2>1, <2>2
<1>4. \A i \in S : m >= i
  BY <1>2
<1> QED BY <1>3, <1>4 DEF Max

\* A finite set can be listed.
LEMMA Listed ==
  ASSUME NEW S, IsFiniteSet(S)
  PROVE  /\ SetToSeq(S) \in Seq(S)
         /\ \A i \in DOMAIN SetToSeq(S) : SetToSeq(S)[i] \in S
<1>1. Cardinality(S) \in Nat
  BY FS_CardinalityType
<1>2. PICK f \in Bijection(1..Cardinality(S), S) : TRUE
  BY FS_CardinalityType DEF ExistsBijection
<1>3. f \in [1..Cardinality(S) -> S] /\ IsInjective(f)
  BY <1>2 DEF Bijection, Injection, IsInjective
<1>4. SetToSeq(S) \in [1..Cardinality(S) -> S]
  BY <1>3 DEF SetToSeq
<1>5. SetToSeq(S) \in Seq(S)
  BY <1>1, <1>4, SeqDef
<1> QED BY <1>4, <1>5

\* There are finitely many keys; each is a target and a projected flag value.
LEMMA KeyFacts ==
  /\ IsFiniteSet(Key)
  /\ \A k \in Key : k[1] \in Target /\ k[2] \in Value
<1>1. IsFiniteSet(Value)
  <2>1. IsFiniteSet({"on"}) /\ IsFiniteSet({"on"} \cup {"off"})
    BY FS_Singleton, FS_AddElement
  <2>2. IsFiniteSet(({"on"} \cup {"off"}) \cup {"any"})
    BY <2>1, FS_AddElement
  <2>3. Value = ({"on"} \cup {"off"}) \cup {"any"}
    BY DEF Value
  <2> QED BY <2>2, <2>3
<1>2. IsFiniteSet(Target \X Value)
  BY <1>1, UpgradeAssumption, FS_Product
<1>3. Key \subseteq Target \X Value
  BY DEF Key
<1>4. IsFiniteSet(Key)
  BY <1>2, <1>3, FS_Subset
<1> QED BY <1>3, <1>4

\* A target and what it shows of the flag make a key.
LEMMA KeyOfIsKey ==
  ASSUME NEW t \in Target, NEW f \in BOOLEAN
  PROVE  <<t, Projected(t, f)>> \in Key
BY DEF Key, Projected, Value

-----------------------------------------------------------------------------
(* The queue.                                                              *)

\* The queues a process can hold.
Queues == [queued : Seq(Key), running : [Key -> Value \cup {Idle}], cooling : SUBSET Key,
           targets : SUBSET Key, published : SUBSET Key]

\* Every row is absent or a sentence of the state of its key.
TrueRows(rows) ==
  /\ DOMAIN rows = Key
  /\ \A k \in Key : rows[k] \in {None, Row(k[2], k[2], "fallback"), Row(k[2], k[2], "final")}

\* What the queue has in hand is named once, known, has a row and is not given
\* up; what it has published is settled and out of its hands.
Works(q, rows, tries) ==
  /\ q \in Queues
  /\ \A i, j \in 1..Len(q.queued) : q.queued[i] = q.queued[j] => i = j
  /\ \A i \in 1..Len(q.queued) : q.running[q.queued[i]] = Idle
  /\ \A k \in Key : k \in ToSet(q.queued) \/ q.running[k] # Idle =>
       k \in q.targets \ q.published /\ rows[k] # None /\ tries[k] < MaxAttempts
  /\ \A k \in Key : q.running[k] # Idle => q.running[k] = k[2]
  /\ \A k \in q.published : Settled(rows[k])
  /\ Cardinality(Running(q)) <= Concurrency

\* No slot idles while a key waits.
Busy(q) == q.queued # <<>> => Cardinality(Running(q)) = Concurrency

\* A stored sentence is of its key's state, and settled when it is not the fallback.
LEMMA SettledOrNot ==
  ASSUME NEW rows, TrueRows(rows), NEW k \in Key, rows[k] # None
  PROVE  /\ Settled(rows[k]) <=> rows[k].source # "fallback"
         /\ rows[k].pre = k[2] /\ rows[k].text = k[2]
BY DEF TrueRows, Row, Settled, None

\* The renderings under way can be counted.
LEMMA RunningFinite ==
  ASSUME NEW q
  PROVE  IsFiniteSet(Running(q)) /\ Cardinality(Running(q)) \in Nat
BY KeyFacts, FS_Subset, FS_CardinalityType DEF Running

\* Of the first n keys of the queue, the count of those to render is a natural
\* that grows by at most one with n.
LEMMA UnsettledCounts ==
  ASSUME NEW q, NEW rows, NEW n \in Nat
  PROVE  /\ Unsettled(q, rows, n) \in Nat
         /\ Unsettled(q, rows, 0) = 0
         /\ Unsettled(q, rows, n + 1) <= Unsettled(q, rows, n) + 1
<1> DEFINE first(m) == {i \in 1..m : ~Settled(rows[q.queued[i]])}
<1>1. IsFiniteSet(first(n)) /\ IsFiniteSet(first(n + 1))
  <2>1. IsFiniteSet(1..n) /\ IsFiniteSet(1..(n + 1))
    BY FS_Interval
  <2>2. first(n) \in SUBSET (1..n) /\ first(n + 1) \in SUBSET (1..(n + 1))
    OBVIOUS
  <2> HIDE DEF first
  <2> QED BY <2>1, <2>2, FS_Subset
<1>2. Cardinality(first(n)) \in Nat
  BY <1>1, FS_CardinalityType
<1>3. first(0) = {} /\ Cardinality(first(0)) = 0
  BY FS_EmptySet
<1>4. first(n + 1) = first(n) \/ first(n + 1) = first(n) \cup {n + 1}
  OBVIOUS
<1>5. Cardinality(first(n + 1)) <= Cardinality(first(n)) + 1
  <2>1. CASE first(n + 1) = first(n)
    <3> HIDE DEF first
    <3> QED BY <1>2, <2>1
  <2>2. CASE first(n + 1) = first(n) \cup {n + 1}
    <3> HIDE DEF first
    <3> QED BY <1>1, <1>2, <2>2, FS_AddElement
  <2> QED BY <1>4, <2>1, <2>2
<1> QED BY <1>2, <1>3, <1>5 DEF Unsettled

\* What pump takes: as many jobs as there is room for, and if keys are left, so
\* many.
LEMMA TakenCounts ==
  ASSUME NEW q, q.queued \in Seq(Key), NEW rows, Cardinality(Running(q)) <= Concurrency
  PROVE  /\ Taken(q, rows) \in 0..Len(q.queued)
         /\ Unsettled(q, rows, Taken(q, rows)) <= Concurrency - Cardinality(Running(q))
         /\ Taken(q, rows) # Len(q.queued) =>
              Unsettled(q, rows, Taken(q, rows)) = Concurrency - Cardinality(Running(q))
<1> DEFINE free == Concurrency - Cardinality(Running(q))
           fits == {0} \cup {n \in 1..Len(q.queued) : Unsettled(q, rows, n - 1) < free}
           t == Taken(q, rows)
           count(n) == Unsettled(q, rows, n)
<1>1. free \in Nat /\ Len(q.queued) \in Nat
  BY RunningFinite, UpgradeAssumption, LenProperties
<1>2. fits \subseteq 0..Len(q.queued) /\ fits # {}
  BY <1>1
<1>3. t = Max(fits)
  BY DEF Taken
<1>4. t \in fits /\ \A n \in fits : n <= t
  BY <1>1, <1>2, <1>3, MaxOf
<1>5. \A n \in Nat : count(n) \in Nat /\ count(0) = 0 /\ count(n + 1) <= count(n) + 1
  BY UnsettledCounts
<1>6. t \in 0..Len(q.queued)
  BY <1>2, <1>4
<1>7. count(t) <= free
  <2>1. CASE t = 0
    BY <1>1, <1>5, <2>1
  <2>2. CASE t # 0
    <3>1. t - 1 \in Nat /\ count(t - 1) < free
      BY <1>4, <1>6, <2>2
    <3>2. count((t - 1) + 1) <= count(t - 1) + 1
      BY <1>5, <3>1
    <3>3. (t - 1) + 1 = t
      BY <1>6
    <3>4. count(t - 1) \in Nat /\ count(t) \in Nat
      BY <1>5, <1>6, <3>1
    <3> HIDE DEF t, count, free
    <3>5. count(t) <= count(t - 1) + 1
      BY <3>2, <3>3
    <3> QED BY <1>1, <3>1, <3>4, <3>5
  <2> QED BY <2>1, <2>2
<1>8. ASSUME t # Len(q.queued) PROVE count(t) = free
  <2>1. t + 1 \in 1..Len(q.queued) /\ ~(t + 1 <= t) /\ (t + 1) - 1 = t
    BY <1>6, <1>8
  <2>2. t + 1 \notin fits
    BY <1>4, <2>1
  <2>3. ~(count(t) < free)
    <3>1. ~(count((t + 1) - 1) < free)
      BY <2>1, <2>2
    <3> HIDE DEF t, count
    <3> QED BY <2>1, <3>1
  <2> HIDE DEF t, count
  <2> QED BY <1>1, <1>5, <1>6, <1>7, <2>3
<1> QED BY <1>6, <1>7, <1>8

\* The jobs pump starts are as many as the keys it takes that are not settled.
LEMMA JobsCount ==
  ASSUME NEW q, NEW rows, NEW t \in Nat, NEW jobs,
         \A i, j \in 1..t : q.queued[i] = q.queued[j] => i = j,
         jobs = {q.queued[i] : i \in {j \in 1..t : ~Settled(rows[q.queued[j]])}}
  PROVE  IsFiniteSet(jobs) /\ Cardinality(jobs) = Unsettled(q, rows, t)
<1> DEFINE first == {i \in 1..t : ~Settled(rows[q.queued[i]])}
           f == [i \in first |-> q.queued[i]]
<1>1. IsFiniteSet(first)
  <2>1. IsFiniteSet(1..t)
    BY FS_Interval
  <2>2. first \in SUBSET (1..t)
    OBVIOUS
  <2> HIDE DEF first
  <2> QED BY <2>1, <2>2, FS_Subset
<1>2. f \in Bijection(first, jobs)
  <2>1. f \in [first -> jobs]
    OBVIOUS
  <2>2. \A i, j \in first : f[i] = f[j] => i = j
    OBVIOUS
  <2>3. \A k \in jobs : \E i \in first : f[i] = k
    OBVIOUS
  <2> HIDE DEF f, first
  <2> QED BY <2>1, <2>2, <2>3 DEF Bijection, Injection, Surjection, IsInjective
<1>3. ExistsBijection(first, jobs)
  BY <1>2 DEF ExistsBijection
<1>4. IsFiniteSet(jobs) /\ Cardinality(jobs) = Cardinality(first)
  BY <1>1, <1>3, FS_Bijection
<1> QED BY <1>4 DEF Unsettled

\* pump keeps the queue in order and leaves no slot idle.
LEMMA PumpWorks ==
  ASSUME NEW rows, TrueRows(rows), NEW tries, NEW q, Works(q, rows, tries)
  PROVE  Works(Pump(q, rows), rows, tries) /\ Busy(Pump(q, rows))
<1> DEFINE T == Taken(q, rows)
           L == Len(q.queued)
           took == {q.queued[i] : i \in 1..T}
           jobs == {k \in took \cap q.targets : rows[k].source = "fallback"}
           done == {k \in took \cap q.targets : Settled(rows[k])}
           rest == SubSeq(q.queued, T + 1, L)
           next == Pump(q, rows)
<1>1. /\ q.queued \in Seq(Key) /\ L \in Nat /\ DOMAIN q.queued = 1..L
      /\ q.running \in [Key -> Value \cup {Idle}] /\ q.targets \subseteq Key
      /\ q.published \subseteq Key
  BY LenProperties DEF Works, Queues
<1>2. /\ T \in 0..L
      /\ Unsettled(q, rows, T) <= Concurrency - Cardinality(Running(q))
      /\ T # L => Unsettled(q, rows, T) = Concurrency - Cardinality(Running(q))
  BY <1>1, TakenCounts DEF Works
<1> HIDE DEF T
<1>3. /\ next \in Queues
      /\ next.queued = rest /\ next.targets = q.targets /\ next.published = q.published \cup done
      /\ next.running = [k \in Key |-> IF k \in jobs THEN rows[k].pre ELSE q.running[k]]
  <2>1. /\ next.queued = rest /\ next.targets = q.targets /\ next.published = q.published \cup done
        /\ next.running = [k \in Key |-> IF k \in jobs THEN rows[k].pre ELSE q.running[k]]
    BY DEF Pump, Works, Queues, T
  <2>2. rest \in Seq(Key)
    BY <1>1, <1>2, SubSeqProperties, ElementOfSeq
  <2>3. \A k \in jobs : k \in Key /\ rows[k] # None
    BY <1>1 DEF None
  <2>4. \A k \in jobs : rows[k].pre \in Value
    BY <2>3, KeyFacts, SettledOrNot
  <2>5. [k \in Key |-> IF k \in jobs THEN rows[k].pre ELSE q.running[k]] \in [Key -> Value \cup {Idle}]
    BY <1>1, <2>4
  <2>6. q.published \cup done \subseteq Key
    BY <1>1
  <2> HIDE DEF rest, jobs, done
  <2> QED BY <2>1, <2>2, <2>5, <2>6 DEF Pump, Works, Queues
<1>4. \A k \in took : k \in ToSet(q.queued) /\ k \in Key /\ k \in q.targets /\ rows[k] # None
                      /\ q.running[k] = Idle /\ k \notin q.published
  <2>1. \A i \in 1..T : i \in 1..L /\ q.queued[i] \in ToSet(q.queued) /\ q.queued[i] \in Key
    BY <1>1, <1>2, ElementOfSeq DEF ToSet
  <2> QED BY <2>1 DEF Works
<1>5. /\ Len(rest) = L - T
      /\ \A i \in 1..(L - T) : rest[i] = q.queued[i + T]
  <2>1. \A i \in (T + 1)..L : q.queued[i] \in Key
    BY <1>1, <1>2, ElementOfSeq
  <2>2. /\ Len(rest) = IF T + 1 <= L THEN L - (T + 1) + 1 ELSE 0
        /\ \A i \in 1..(L - (T + 1) + 1) : rest[i] = q.queued[T + 1 + i - 1]
    BY <1>1, <1>2, <2>1, SubSeqProperties
  <2>3. /\ (IF T + 1 <= L THEN L - (T + 1) + 1 ELSE 0) = L - T
        /\ L - (T + 1) + 1 = L - T
        /\ \A i \in 1..(L - T) : T + 1 + i - 1 = i + T
    BY <1>1, <1>2
  <2> HIDE DEF rest
  <2> QED BY <2>2, <2>3
<1> HIDE DEF next, rest
<1>6. /\ \A i, j \in 1..Len(rest) : rest[i] = rest[j] => i = j
      /\ \A i \in 1..Len(rest) : rest[i] \notin took /\ rest[i] \in ToSet(q.queued) /\ rest[i] \in Key
  <2>1. \A i \in 1..(L - T) : i + T \in 1..L /\ ~(i + T <= T)
    BY <1>1, <1>2
  <2>2. \A i, j \in 1..L : q.queued[i] = q.queued[j] => i = j
    BY DEF Works
  <2>3. \A i \in 1..(L - T) : rest[i] \notin took
    BY <1>1, <1>2, <1>5, <2>1, <2>2
  <2>4. \A i \in 1..(L - T) : rest[i] \in ToSet(q.queued) /\ rest[i] \in Key
    BY <1>1, <1>5, <2>1, ElementOfSeq DEF ToSet
  <2>5. \A i, j \in 1..(L - T) : rest[i] = rest[j] => i = j
    BY <1>1, <1>2, <1>5, <2>1, <2>2, SMTT(30)
  <2> QED BY <1>5, <2>3, <2>4, <2>5
<1>7. ToSet(rest) \subseteq ToSet(q.queued) \ took
  <2>1. rest \in Seq(Key) /\ DOMAIN rest = 1..Len(rest)
    BY <1>3, LenProperties DEF Queues
  <2> QED BY <1>6, <2>1 DEF ToSet
<1>8. jobs = {q.queued[i] : i \in {j \in 1..T : ~Settled(rows[q.queued[j]])}}
  BY <1>4, SettledOrNot
<1>9. IsFiniteSet(jobs) /\ Cardinality(jobs) = Unsettled(q, rows, T)
  <2>1. T \in Nat /\ \A i, j \in 1..T : q.queued[i] = q.queued[j] => i = j
    BY <1>1, <1>2 DEF Works
  <2> HIDE DEF jobs
  <2> QED BY <1>8, <2>1, JobsCount
<1>10. Running(next) = Running(q) \cup jobs /\ Running(q) \cap jobs = {}
  <2>1. \A k \in jobs : rows[k].pre # Idle /\ k \in took
    BY <1>4, KeyFacts, SettledOrNot DEF Value, Idle
  <2>2. Running(q) \cap jobs = {}
    BY <1>4, <2>1 DEF Running
  <2>3. jobs \subseteq Key
    BY <1>4
  <2> HIDE DEF jobs
  <2> QED BY <1>3, <2>1, <2>2, <2>3 DEF Running
<1>11. Cardinality(Running(next)) = Cardinality(Running(q)) + Cardinality(jobs)
  <2> HIDE DEF jobs
  <2>1. Cardinality(Running(q) \cap jobs) = 0
    BY <1>10, FS_EmptySet
  <2>2. Cardinality(jobs) \in Nat
    BY <1>9, FS_CardinalityType
  <2>3. Cardinality(Running(q) \cup jobs)
          = Cardinality(Running(q)) + Cardinality(jobs) - Cardinality(Running(q) \cap jobs)
    BY <1>9, RunningFinite, FS_Union
  <2> QED BY <1>10, <2>1, <2>2, <2>3, RunningFinite
<1> HIDE DEF jobs, took
<1>12. Cardinality(Running(next)) <= Concurrency
  BY <1>2, <1>9, <1>11, RunningFinite, UpgradeAssumption, FS_CardinalityType
<1>13. Busy(next)
  <2>1. CASE T = L
    <3>1. Len(rest) = 0
      BY <1>1, <1>5, <2>1
    <3> QED BY <1>3, <3>1, EmptySeq DEF Busy, Queues
  <2>2. CASE T # L
    BY <1>2, <1>9, <1>11, <2>2, RunningFinite, UpgradeAssumption, FS_CardinalityType DEF Busy
  <2> QED BY <2>1, <2>2
<1>14. \A k \in jobs : k \in took /\ ~Settled(rows[k]) /\ rows[k].pre = k[2]
  BY <1>4, SettledOrNot DEF jobs
<1>15. \A i \in 1..Len(rest) : next.running[rest[i]] = Idle
  <2>1. ASSUME NEW i \in 1..Len(rest) PROVE q.running[rest[i]] = Idle
    <3>1. \E j \in 1..L : q.queued[j] = rest[i]
      BY <1>1, <1>6 DEF ToSet
    <3> QED BY <3>1 DEF Works
  <2>2. \A i \in 1..Len(rest) : rest[i] \in Key /\ rest[i] \notin jobs
    BY <1>6, <1>14
  <2> QED BY <1>3, <2>1, <2>2
<1>16. ASSUME NEW k \in Key, k \in ToSet(rest) \/ next.running[k] # Idle
       PROVE  k \in q.targets \ (q.published \cup done) /\ rows[k] # None /\ tries[k] < MaxAttempts
  <2>1. CASE k \in jobs
    BY <1>4, <1>14, <2>1 DEF Works
  <2>2. CASE k \notin jobs
    <3>1. k \in ToSet(q.queued) \/ q.running[k] # Idle
      BY <1>3, <1>7, <1>16, <2>2
    <3>2. k \notin took
      BY <1>3, <1>4, <1>7, <1>16, <2>2
    <3> QED BY <3>1, <3>2 DEF Works
  <2> QED BY <2>1, <2>2
<1>17. \A k \in Key : next.running[k] # Idle => next.running[k] = k[2]
  BY <1>3, <1>14 DEF Works
<1>18. \A k \in q.published \cup done : Settled(rows[k])
  BY DEF Works
<1> HIDE DEF done
<1>19. Works(next, rows, tries)
  BY <1>3, <1>6, <1>12, <1>15, <1>16, <1>17, <1>18 DEF Works
<1> QED BY <1>13, <1>19 DEF next

\* No key is tried more often than allowed.
TriesOK == attempts \in [Key -> 0..MaxAttempts]

\* push keeps the queue in order; a key that it names has its row.
LEMMA PushWorks ==
  ASSUME TriesOK, NEW rows, TrueRows(rows), NEW q, Works(q, rows, attempts), Busy(q),
         NEW k \in Key, rows[k] # None, k \notin q.published
  PROVE  Works(Push(q, k, rows), rows, attempts) /\ Busy(Push(q, k, rows))
<1> DEFINE named == [q EXCEPT !.targets = @ \cup {k}]
           asked == [named EXCEPT !.queued = Append(@, k)]
<1>1. /\ q.queued \in Seq(Key) /\ Len(q.queued) \in Nat /\ DOMAIN q.queued = 1..Len(q.queued)
      /\ q.running \in [Key -> Value \cup {Idle}] /\ q.targets \subseteq Key
      /\ q.published \subseteq Key
  BY LenProperties DEF Works, Queues
<1>2. k \notin q.published /\ rows[k] # None
  OBVIOUS
<1>3. /\ named \in Queues /\ named.queued = q.queued /\ named.running = q.running
      /\ named.published = q.published /\ named.targets = q.targets \cup {k}
  BY DEF Works, Queues
<1>4. Running(named) = Running(q)
  BY <1>3 DEF Running
<1>5. CASE Accepts(q, k)
  <2>1. attempts[k] < MaxAttempts /\ k \notin ToSet(q.queued) /\ q.running[k] = Idle
    BY <1>5, UpgradeAssumption DEF Accepts, GivenUp, TriesOK
  <2>2. /\ Append(q.queued, k) \in Seq(Key) /\ Len(Append(q.queued, k)) = Len(q.queued) + 1
        /\ \A i \in 1..Len(q.queued) : Append(q.queued, k)[i] = q.queued[i]
        /\ Append(q.queued, k)[Len(q.queued) + 1] = k
        /\ DOMAIN Append(q.queued, k) = 1..(Len(q.queued) + 1)
    BY <1>1, AppendProperties, LenProperties
  <2>3. /\ asked \in Queues /\ asked.queued = Append(q.queued, k) /\ asked.running = q.running
        /\ asked.published = q.published /\ asked.targets = q.targets \cup {k}
    BY <1>3, <2>2 DEF Queues
  <2> HIDE DEF asked, named
  <2>4. Running(asked) = Running(q)
    BY <2>3 DEF Running
  <2>5. \A i \in 1..Len(q.queued) : q.queued[i] # k /\ q.queued[i] \in ToSet(q.queued)
    BY <1>1, <2>1 DEF ToSet
  <2>6. ToSet(asked.queued) = ToSet(q.queued) \cup {k}
    <3>1. \A i \in 1..(Len(q.queued) + 1) : i \in 1..Len(q.queued) \/ i = Len(q.queued) + 1
      BY <1>1
    <3>2. \A x \in ToSet(q.queued) : \E i \in 1..Len(q.queued) : x = q.queued[i]
      BY <1>1 DEF ToSet
    <3>3. ToSet(asked.queued) \subseteq ToSet(q.queued) \cup {k}
      BY <2>2, <2>3, <2>5, <3>1 DEF ToSet
    <3>4. \A i \in 1..Len(q.queued) : i \in 1..(Len(q.queued) + 1)
      BY <1>1
    <3>5. ToSet(q.queued) \subseteq ToSet(asked.queued)
      BY <2>2, <2>3, <3>2, <3>4 DEF ToSet
    <3>6. k \in ToSet(asked.queued)
      BY <1>1, <2>2, <2>3 DEF ToSet
    <3> QED BY <3>3, <3>5, <3>6
  <2>7. \A i, j \in 1..(Len(q.queued) + 1) :
          Append(q.queued, k)[i] = Append(q.queued, k)[j] => i = j
    <3>1. \A i \in 1..(Len(q.queued) + 1) : i \in 1..Len(q.queued) \/ i = Len(q.queued) + 1
      BY <1>1
    <3>2. \A i, j \in 1..Len(q.queued) : q.queued[i] = q.queued[j] => i = j
      BY DEF Works
    <3> QED BY <2>2, <2>5, <3>1, <3>2
  <2>8. \A i \in 1..(Len(q.queued) + 1) : q.running[Append(q.queued, k)[i]] = Idle
    <3>1. \A i \in 1..(Len(q.queued) + 1) : i \in 1..Len(q.queued) \/ i = Len(q.queued) + 1
      BY <1>1
    <3>2. \A i \in 1..Len(q.queued) : q.running[q.queued[i]] = Idle
      BY DEF Works
    <3> QED BY <2>1, <2>2, <3>1, <3>2
  <2>9. \A j \in Key : j \in ToSet(asked.queued) \/ asked.running[j] # Idle =>
          j \in asked.targets \ asked.published /\ rows[j] # None /\ attempts[j] < MaxAttempts
    BY <1>2, <2>1, <2>3, <2>6 DEF Works
  <2>10. Works(asked, rows, attempts)
    BY <2>2, <2>3, <2>4, <2>7, <2>8, <2>9 DEF Works
  <2>11. Push(q, k, rows) = Pump(asked, rows)
    BY <1>5 DEF Push, asked, named
  <2> QED BY <2>10, <2>11, PumpWorks
<1>6. CASE ~Accepts(q, k) /\ (k \in ToSet(q.queued) \/ q.running[k] # Idle)
  <2>1. Push(q, k, rows) = named
    BY <1>6 DEF Push
  <2> HIDE DEF named
  <2>2. Works(named, rows, attempts)
    BY <1>3, <1>4 DEF Works
  <2> QED BY <1>3, <1>4, <2>1, <2>2 DEF Busy
<1>7. CASE ~Accepts(q, k) /\ ~(k \in ToSet(q.queued) \/ q.running[k] # Idle)
  <2> DEFINE out == [q EXCEPT !.targets = @ \ {k}]
  <2>1. Push(q, k, rows) = out
    BY <1>7 DEF Push
  <2>2. /\ out \in Queues /\ out.queued = q.queued /\ out.running = q.running
        /\ out.published = q.published /\ out.targets = q.targets \ {k}
    BY DEF Works, Queues
  <2> HIDE DEF out
  <2>3. Running(out) = Running(q)
    BY <2>2 DEF Running
  <2>4. Works(out, rows, attempts)
    BY <1>7, <2>2, <2>3 DEF Works
  <2> QED BY <2>1, <2>2, <2>3, <2>4 DEF Busy
<1> QED BY <1>5, <1>6, <1>7

\* While the upgrades are stopped, push names or forgets a key and does nothing else.
LEMMA PushStopped ==
  ASSUME phase # "up", NEW rows, NEW q \in Queues, NEW k \in Key
  PROVE  /\ Push(q, k, rows) \in Queues /\ Push(q, k, rows).queued = q.queued
         /\ Push(q, k, rows).running = q.running /\ Push(q, k, rows).published = q.published
         /\ Push(q, k, rows).cooling = q.cooling
<1>1. ~Accepts(q, k)
  BY DEF Accepts
<1> QED BY <1>1 DEF Push, Queues

\* f[i] is the queue after the first i pushes.
PushesOf(f, q, keys, rows) ==
  /\ f[0] = q
  /\ \A i \in 1..Len(keys) : f[i] = Push(f[i - 1], keys[i], rows)
  /\ Pushed(q, keys, rows) = f[Len(keys)]

\* The pushes of several keys are made one after another.
LEMMA PushedSteps ==
  ASSUME NEW q, NEW keys, Len(keys) \in Nat, NEW rows
  PROVE  \E f : PushesOf(f, q, keys, rows)
<1>0. PICK n \in Nat : n = Len(keys)
  OBVIOUS
<1> DEFINE Run(f, m) == f = [i \in 0..m |-> IF i = 0 THEN q ELSE Push(f[i - 1], keys[i], rows)]
           bad == {m \in Nat : ~ \E f : Run(f, m)}
<1>1. ASSUME bad # {} PROVE FALSE
  <2>1. PICK m \in bad : \A i \in bad : m <= i
    BY <1>1, LeastNatural
  <2>2. m # 0
    <3>1. Run([i \in 0..0 |-> q], 0)
      OBVIOUS
    <3> QED BY <2>1, <3>1
  <2>3. m \in Nat /\ m - 1 \in Nat /\ ~(m <= m - 1)
    BY <2>1, <2>2
  <2>4. m - 1 \notin bad
    <3> HIDE DEF bad
    <3> QED BY <2>1, <2>3
  <2>10. PICK g : Run(g, m - 1)
    BY <2>3, <2>4
  <2> DEFINE f == [i \in 0..m |-> IF i = m THEN Push(g[m - 1], keys[m], rows) ELSE g[i]]
  <2>5. \A i \in 0..m : f[i] = IF i = 0 THEN q ELSE Push(f[i - 1], keys[i], rows)
    <3>1. \A i \in 0..(m - 1) : g[i] = IF i = 0 THEN q ELSE Push(g[i - 1], keys[i], rows)
      BY <2>10
    <3>2. \A i \in 0..(m - 1) : f[i] = g[i]
      BY <2>1
    <3>3. \A i \in 0..m : i = m \/ i \in 0..(m - 1)
      BY <2>1
    <3>4. \A i \in 0..m : i # 0 => i - 1 \in 0..(m - 1)
      BY <2>1
    <3>5. f[m] = Push(g[m - 1], keys[m], rows)
      BY <2>1
    <3> HIDE DEF f
    <3> QED BY <2>1, <2>2, <3>1, <3>2, <3>3, <3>4, <3>5
  <2>6. f = [i \in 0..m |-> f[i]]
    OBVIOUS
  <2> HIDE DEF f
  <2>7. Run(f, m)
    BY <2>5, <2>6
  <2> QED BY <2>1, <2>7
<1>2. PICK f0 : Run(f0, n)
  BY <1>1
<1> DEFINE f == CHOOSE g : Run(g, n)
<1>3. Run(f, n)
  BY <1>2
<1>4. Pushed(q, keys, rows) = f[n]
  BY <1>0 DEF Pushed
<1> HIDE DEF f
<1>5. f[0] = q /\ \A i \in 1..n : f[i] = Push(f[i - 1], keys[i], rows)
  BY <1>3
<1>6. PushesOf(f, q, keys, rows)
  BY <1>0, <1>4, <1>5 DEF PushesOf
<1> QED BY <1>6

\* Several pushes keep the queue in order.
LEMMA PushedWorks ==
  ASSUME TriesOK, NEW rows, TrueRows(rows), NEW q, Works(q, rows, attempts), Busy(q),
         NEW keys \in Seq(Key), \A i \in 1..Len(keys) : rows[keys[i]].source = "fallback"
  PROVE  Works(Pushed(q, keys, rows), rows, attempts) /\ Busy(Pushed(q, keys, rows))
<1>0. PICK n \in Nat : n = Len(keys)
  BY LenProperties
<1>1. n \in Nat /\ Len(keys) = n
  BY <1>0
<1>7. PICK f : PushesOf(f, q, keys, rows)
  BY <1>1, PushedSteps
<1>2. /\ f[0] = q
      /\ \A i \in 1..Len(keys) : f[i] = Push(f[i - 1], keys[i], rows)
      /\ Pushed(q, keys, rows) = f[Len(keys)]
  BY <1>7 DEF PushesOf
<1> DEFINE good(i) == Works(f[i], rows, attempts) /\ Busy(f[i])
           bad == {i \in 0..n : ~good(i)}
<1>3. ASSUME bad # {} PROVE FALSE
  <2>0. bad \subseteq Nat /\ bad # {}
    BY <1>1, <1>3
  <2>1. PICK m \in bad : \A i \in bad : m <= i
    <3> HIDE DEF bad
    <3> QED BY <2>0, LeastNatural
  <2>2. m # 0
    BY <1>2, <2>1
  <2>3. m \in 1..n /\ m - 1 \in 0..n /\ ~(m <= m - 1)
    BY <1>1, <2>1, <2>2
  <2>4. good(m - 1)
    <3>1. m - 1 \notin bad
      <4> HIDE DEF bad
      <4> QED BY <2>1, <2>3
    <3> QED BY <2>3, <3>1
  <2>5. keys[m] \in Key /\ rows[keys[m]] # None /\ keys[m] \notin f[m - 1].published
    <3>1. keys[m] \in Key /\ rows[keys[m]].source = "fallback"
      BY <1>1, <2>3, ElementOfSeq
    <3>2. rows[keys[m]] # None /\ ~Settled(rows[keys[m]])
      BY <3>1 DEF Settled, None
    <3>3. \A k \in f[m - 1].published : Settled(rows[k])
      BY <2>4 DEF Works
    <3> QED BY <3>1, <3>2, <3>3
  <2>6. f[m] = Push(f[m - 1], keys[m], rows)
    BY <1>1, <1>2, <2>3
  <2>7. good(m)
    BY <2>4, <2>5, <2>6, PushWorks
  <2> QED BY <2>1, <2>7
<1>4. n \in 0..n
  BY <1>1
<1> QED BY <1>1, <1>2, <1>3, <1>4

-----------------------------------------------------------------------------
(* The pages.                                                              *)

\* The lines that may stand on a page of c lines in the epoch e.
LineOf(e, c) ==
  {l \in [id : {e} \X (1..c), key : Key, text : Value, source : {"fallback", "final"}] :
     l.text = l.key[2]}

\* The lines of a page are numbered by their epoch and their place, each once.
Numbered(p, e) ==
  /\ IsFiniteSet(p)
  /\ \A l \in p : l \in LineOf(e, Cardinality(p))
  /\ \A l, m \in p : l.id = m.id => l = m

\* Every page is numbered within its epoch.
PageOK(pg, ep) == DOMAIN pg = Session /\ \A s \in Session : Numbered(pg[s], ep[s])

\* A reader, the epoch it was in and the line it waits with.
WatcherOf == [s : Session, epoch : Nat, id : Nat \X Nat]

\* Who waits for a key waits with a line of that key, or is of an epoch that is over.
Follows(w, k, pg, ep) ==
  /\ w.epoch <= ep[w.s]
  /\ w.epoch = ep[w.s] => \E l \in pg[w.s] : l.id = w.id /\ l.key = k

\* The watchers of each key are few enough and follow it.
WatchOK(seen, pg, ep) ==
  /\ seen \in [Key -> Seq(WatcherOf)]
  /\ \A k \in Key : Len(seen[k]) <= MaxWatchers
  /\ \A k \in Key : \A w \in ToSet(seen[k]) : Follows(w, k, pg, ep)

\* Every reader is in some epoch.
EpochOK == epoch \in [Session -> 0..MaxEpochs]

\* A line that is replaced is now the final sentence of the same key.
LEMMA ShownIs ==
  ASSUME EpochOK, NEW pg, PageOK(pg, epoch), NEW seen, WatchOK(seen, pg, epoch),
         NEW keys, keys \subseteq Key, NEW rows, TrueRows(rows), \A k \in keys : Settled(rows[k]),
         NEW s \in Session, NEW l \in pg[s]
  PROVE  Shown(l, s, keys, rows, seen) \in {l, [l EXCEPT !.source = "final"]}
<1> DEFINE e == epoch[s]
           c == Cardinality(pg[s])
           w == [s |-> s, epoch |-> epoch[s], id |-> l.id]
<1>1. l \in LineOf(e, c) /\ \A m \in pg[s] : l.id = m.id => l = m
  BY DEF PageOK, Numbered
<1>2. CASE \E k \in keys : Watching(seen, k, s, l.id)
  <2> DEFINE k == CHOOSE k \in keys : Watching(seen, k, s, l.id)
  <2>1. k \in keys /\ Watching(seen, k, s, l.id)
    BY <1>2
  <2>2. Shown(l, s, keys, rows, seen) = Line(l.id, k, rows[k])
    BY <1>2 DEF Shown
  <2> HIDE DEF k
  <2>3. Follows(w, k, pg, epoch)
    BY <2>1 DEF Watching, WatchOK
  <2>4. \E m \in pg[s] : m.id = l.id /\ m.key = k
    BY <2>3 DEF Follows
  <2>5. l.key = k
    BY <1>1, <2>4
  <2>6. rows[k] = Row(k[2], k[2], "final")
    BY <2>1 DEF TrueRows, Settled, None, Row
  <2>7. Line(l.id, k, rows[k]) = [id |-> l.id, key |-> k, text |-> k[2], source |-> "final"]
    BY <2>6 DEF Line, Row
  <2>8. [l EXCEPT !.source = "final"] = [id |-> l.id, key |-> l.key, text |-> l.text, source |-> "final"]
    BY <1>1 DEF LineOf
  <2>9. l.text = k[2]
    BY <1>1, <2>5 DEF LineOf
  <2> QED BY <2>2, <2>5, <2>7, <2>8, <2>9
<1>3. CASE ~ \E k \in keys : Watching(seen, k, s, l.id)
  BY <1>3 DEF Shown
<1> QED BY <1>2, <1>3

\* A page's line can become the final sentence of its key.
LEMMA FinalLine ==
  ASSUME NEW e, NEW c, NEW l \in LineOf(e, c)
  PROVE  LET f == [l EXCEPT !.source = "final"]
         IN  f \in LineOf(e, c) /\ f.id = l.id /\ f.key = l.key
BY DEF LineOf

\* What a publication does to the pages and to those who wait.
LEMMA ReplacedOK ==
  ASSUME EpochOK, NEW pg, PageOK(pg, epoch), NEW seen, WatchOK(seen, pg, epoch),
         NEW keys, keys \subseteq Key, NEW rows, TrueRows(rows), \A k \in keys : Settled(rows[k])
  PROVE  LET new == Replaced(pg, keys, rows, seen)
         IN  /\ PageOK(new, epoch)
             /\ WatchOK(Forgotten(seen, keys), new, epoch)
             /\ \A s \in Session :
                  /\ Cardinality(new[s]) = Cardinality(pg[s])
                  /\ \A l \in pg[s] : l \in new[s] \/ [l EXCEPT !.source = "final"] \in new[s]
<1> DEFINE new == Replaced(pg, keys, rows, seen)
           shown(s, l) == Shown(l, s, keys, rows, seen)
<1>1. DOMAIN new = Session /\ \A s \in Session : new[s] = {shown(s, l) : l \in pg[s]}
  BY DEF Replaced
<1>2. \A s \in Session : \A l \in pg[s] : shown(s, l) \in {l, [l EXCEPT !.source = "final"]}
  BY ShownIs
<1> HIDE DEF new, shown
<1>3. ASSUME NEW s \in Session
      PROVE  /\ Numbered(new[s], epoch[s]) /\ Cardinality(new[s]) = Cardinality(pg[s])
             /\ \A l \in pg[s] : /\ l \in new[s] \/ [l EXCEPT !.source = "final"] \in new[s]
                                 /\ \E m \in new[s] : m.id = l.id /\ m.key = l.key
  <2> DEFINE c == Cardinality(pg[s])
             f == [l \in pg[s] |-> shown(s, l)]
  <2>1. /\ IsFiniteSet(pg[s]) /\ \A l \in pg[s] : l \in LineOf(epoch[s], c)
        /\ \A l, m \in pg[s] : l.id = m.id => l = m
    BY DEF PageOK, Numbered
  <2> HIDE DEF c
  <2>2. \A l \in pg[s] : /\ shown(s, l) \in LineOf(epoch[s], c)
                         /\ shown(s, l).id = l.id /\ shown(s, l).key = l.key
    <3> TAKE l \in pg[s]
    <3>1. CASE shown(s, l) = l
      BY <2>1, <3>1
    <3>2. CASE shown(s, l) = [l EXCEPT !.source = "final"]
      BY <2>1, <3>2, FinalLine
    <3> QED BY <1>2, <3>1, <3>2
  <2>3. f \in Bijection(pg[s], new[s])
    <3>1. f \in [pg[s] -> new[s]]
      BY <1>1
    <3>2. \A l, m \in pg[s] : f[l] = f[m] => l = m
      BY <2>1, <2>2
    <3>3. \A n \in new[s] : \E l \in pg[s] : f[l] = n
      BY <1>1
    <3> HIDE DEF f
    <3> QED BY <3>1, <3>2, <3>3 DEF Bijection, Injection, Surjection, IsInjective
  <2>4. ExistsBijection(pg[s], new[s])
    BY <2>3 DEF ExistsBijection
  <2>5. IsFiniteSet(new[s]) /\ Cardinality(new[s]) = c
    BY <2>1, <2>4, FS_Bijection DEF c
  <2>6. \A n \in new[s] : \E l \in pg[s] : n = shown(s, l)
    BY <1>1
  <2>7. \A n \in new[s] : n \in LineOf(epoch[s], c)
    BY <2>2, <2>6
  <2>8. \A m, n \in new[s] : m.id = n.id => m = n
    BY <2>1, <2>2, <2>6
  <2>9. \A l \in pg[s] : shown(s, l) \in new[s]
    BY <1>1
  <2> QED BY <1>2, <2>2, <2>5, <2>7, <2>8, <2>9 DEF Numbered, c
<1>4. PageOK(new, epoch)
  BY <1>1, <1>3 DEF PageOK
<1>5. WatchOK(Forgotten(seen, keys), new, epoch)
  <2> DEFINE kept == Forgotten(seen, keys)
  <2>1. \A k \in Key : kept[k] = <<>> \/ kept[k] = seen[k]
    BY DEF Forgotten
  <2>2. DOMAIN kept = Key /\ kept = [k \in Key |-> kept[k]]
    BY DEF Forgotten
  <2> HIDE DEF kept
  <2>3. \A k \in Key : seen[k] \in Seq(WatcherOf) /\ Len(seen[k]) <= MaxWatchers
    BY DEF WatchOK
  <2>4. <<>> \in Seq(WatcherOf) /\ Len(<<>>) = 0 /\ ToSet(<<>>) = {}
    BY EmptySeq DEF ToSet
  <2>5. kept \in [Key -> Seq(WatcherOf)]
    BY <2>1, <2>2, <2>3, <2>4
  <2>6. \A k \in Key : Len(kept[k]) <= MaxWatchers
    BY <2>1, <2>3, <2>4, UpgradeAssumption
  <2>7. ASSUME NEW k \in Key, NEW w \in ToSet(kept[k])
        PROVE  Follows(w, k, new, epoch)
    <3>1. w \in ToSet(seen[k])
      BY <2>1, <2>4, <2>7
    <3>2. Follows(w, k, pg, epoch)
      BY <3>1 DEF WatchOK
    <3>3. w.s \in Session
      <4>1. seen[k] \in Seq(WatcherOf)
        BY <2>3
      <4>2. w \in WatcherOf
        BY <3>1, <4>1, ElementOfSeq, LenProperties DEF ToSet
      <4> QED BY <4>2 DEF WatcherOf
    <3> QED BY <1>3, <3>2, <3>3 DEF Follows
  <2>8. WatchOK(kept, new, epoch)
    BY <2>5, <2>6, <2>7 DEF WatchOK
  <2> QED BY <2>8 DEF kept
<1> QED BY <1>3, <1>4, <1>5 DEF new

\* Pages, epochs and watchers are of their types.
LEMMA PageFacts ==
  ASSUME EpochOK, PageOK(page, epoch), NEW s \in Session
  PROVE  /\ IsFiniteSet(page[s]) /\ Cardinality(page[s]) \in Nat /\ epoch[s] \in Nat
         /\ \A l \in page[s] : l \in LineOf(epoch[s], Cardinality(page[s])) /\ l.id # NewId(s)
         /\ \A l, m \in page[s] : l.id = m.id => l = m
<1>1. Numbered(page[s], epoch[s])
  BY DEF PageOK
<1>2. IsFiniteSet(page[s]) /\ Cardinality(page[s]) \in Nat /\ epoch[s] \in Nat
  BY <1>1, FS_CardinalityType DEF Numbered, EpochOK
<1>3. ASSUME NEW l \in page[s] PROVE l \in LineOf(epoch[s], Cardinality(page[s])) /\ l.id # NewId(s)
  <2>1. l \in LineOf(epoch[s], Cardinality(page[s]))
    BY <1>1 DEF Numbered
  <2>2. l.id[2] \in 1..Cardinality(page[s])
    BY <2>1 DEF LineOf
  <2>3. NewId(s)[2] = Cardinality(page[s]) + 1
    BY DEF NewId
  <2> QED BY <1>2, <2>1, <2>2, <2>3
<1> QED BY <1>1, <1>2, <1>3 DEF Numbered

\* The pages new are those of the state and one line more for each reader.
Gains(new, readers, k) ==
  /\ \A s \in Session : page[s] \subseteq new[s] /\ (s \notin readers => new[s] = page[s])
  /\ \A s \in readers : \E l \in new[s] : l.id = NewId(s) /\ l.key = k

\* A delivery adds one line to the page of each reader.
LEMMA DeliveredOK ==
  ASSUME EpochOK, PageOK(page, epoch), NEW readers, readers \subseteq Session, NEW k \in Key,
         NEW r \in {Row(k[2], k[2], "fallback"), Row(k[2], k[2], "final")}
  PROVE  PageOK(Delivered(readers, k, r), epoch) /\ Gains(Delivered(readers, k, r), readers, k)
<1> DEFINE new == Delivered(readers, k, r)
           line(s) == Line(NewId(s), k, r)
<1>1. /\ DOMAIN new = Session
      /\ \A s \in Session : new[s] = page[s] \cup (IF s \in readers THEN {line(s)} ELSE {})
  BY DEF Delivered
<1>2. \A s : line(s).id = NewId(s) /\ line(s).key = k
  BY DEF Line
<1>3. ASSUME NEW s \in Session PROVE Numbered(new[s], epoch[s])
  <2> DEFINE c == Cardinality(page[s])
  <2>1. /\ IsFiniteSet(page[s]) /\ c \in Nat /\ epoch[s] \in Nat
        /\ \A l \in page[s] : l \in LineOf(epoch[s], c) /\ l.id # NewId(s)
        /\ \A l, m \in page[s] : l.id = m.id => l = m
    BY PageFacts
  <2>2. CASE s \notin readers
    BY <1>1, <2>1, <2>2 DEF Numbered
  <2>3. CASE s \in readers
    <3>1. new[s] = page[s] \cup {line(s)}
      BY <1>1, <2>3
    <3>2. line(s) \notin page[s]
      BY <1>2, <2>1
    <3>3. line(s) \in LineOf(epoch[s], c + 1)
      <4>1. NewId(s) \in {epoch[s]} \X (1..(c + 1))
        BY <2>1 DEF NewId
      <4>2. k[2] \in Value
        BY KeyFacts
      <4>3. line(s) = [id |-> NewId(s), key |-> k, text |-> k[2], source |-> r.source]
        BY DEF Line, Row
      <4>4. r.source \in {"fallback", "final"}
        BY DEF Row
      <4> HIDE DEF line, c
      <4> QED BY <4>1, <4>2, <4>3, <4>4 DEF LineOf
    <3> HIDE DEF line, new
    <3>4. IsFiniteSet(new[s]) /\ Cardinality(new[s]) = c + 1
      BY <2>1, <3>1, <3>2, FS_AddElement
    <3>5. \A l \in page[s] : l \in LineOf(epoch[s], c + 1)
      <4>1. 1..c \subseteq 1..(c + 1)
        BY <2>1
      <4> QED BY <2>1, <4>1 DEF LineOf
    <3>6. \A l, m \in new[s] : l.id = m.id => l = m
      BY <1>2, <2>1, <3>1
    <3> QED BY <3>1, <3>3, <3>4, <3>5, <3>6 DEF Numbered
  <2> QED BY <2>2, <2>3
<1>4. ASSUME NEW s \in readers PROVE \E l \in new[s] : l.id = NewId(s) /\ l.key = k
  BY <1>1, <1>2
<1>5. \A s \in Session : page[s] \subseteq new[s] /\ (s \notin readers => new[s] = page[s])
  BY <1>1
<1> HIDE DEF new
<1> QED BY <1>1, <1>3, <1>4, <1>5 DEF PageOK, Gains, new

\* Those who waited for lines of this page wait for lines of any larger page.
LEMMA WatchGrows ==
  ASSUME EpochOK, NEW pg, NEW new, \A s \in Session : pg[s] \subseteq new[s],
         NEW seen, WatchOK(seen, pg, epoch)
  PROVE  WatchOK(seen, new, epoch)
<1>1. ASSUME NEW k \in Key, NEW w \in ToSet(seen[k]) PROVE Follows(w, k, new, epoch)
  <2>1. Follows(w, k, pg, epoch)
    BY DEF WatchOK
  <2>2. seen[k] \in Seq(WatcherOf)
    BY DEF WatchOK
  <2>3. w \in WatcherOf
    BY <2>2, ElementOfSeq, LenProperties DEF ToSet
  <2>4. w.s \in Session
    BY <2>3 DEF WatcherOf
  <2> QED BY <2>1, <2>4 DEF Follows
<1> QED BY <1>1 DEF WatchOK

\* The readers who begin to wait do so with the line they were just given.
LEMMA WatchedOK ==
  ASSUME EpochOK, PageOK(page, epoch), NEW seen, NEW new, WatchOK(seen, new, epoch),
         NEW readers, readers \subseteq Session, NEW k \in Key,
         \A s \in readers : \E l \in new[s] : l.id = NewId(s) /\ l.key = k
  PROVE  /\ WatchOK(Watched(readers, k, seen), new, epoch)
         /\ \A j \in Key \ {k} : Watched(readers, k, seen)[j] = seen[j]
<1> DEFINE all == {Watcher(s) : s \in readers}
           more == SetToSeq(all)
           room == MaxWatchers - Len(seen[k])
           cut == IF Len(more) < room THEN Len(more) ELSE room
           added == SubSeq(more, 1, cut)
           res == Watched(readers, k, seen)
<1>1. IsFiniteSet(all)
  <2> DEFINE f == [s \in readers |-> Watcher(s)]
  <2>1. IsFiniteSet(readers)
    BY UpgradeAssumption, FS_Subset
  <2>2. f \in Bijection(readers, all)
    <3>1. f \in [readers -> all]
      OBVIOUS
    <3>2. \A s, u \in readers : f[s] = f[u] => s = u
      BY DEF Watcher
    <3>3. \A w \in all : \E s \in readers : f[s] = w
      OBVIOUS
    <3> HIDE DEF f, all
    <3> QED BY <3>1, <3>2, <3>3 DEF Bijection, Injection, Surjection, IsInjective
  <2> QED BY <2>1, <2>2, FS_Bijection DEF ExistsBijection
<1>2. \A s \in readers : /\ Watcher(s) \in WatcherOf /\ Follows(Watcher(s), k, new, epoch)
  <2> TAKE s \in readers
  <2>1. epoch[s] \in Nat /\ Cardinality(page[s]) \in Nat
    BY PageFacts
  <2>2. NewId(s) \in Nat \X Nat
    BY <2>1 DEF NewId
  <2>3. /\ Watcher(s).s = s /\ Watcher(s).epoch = epoch[s] /\ Watcher(s).id = NewId(s)
        /\ Watcher(s) \in WatcherOf
    BY <2>1, <2>2 DEF Watcher, WatcherOf
  <2> QED BY <2>1, <2>3 DEF Follows
<1>3. /\ more \in Seq(all) /\ Len(more) \in Nat /\ \A i \in 1..Len(more) : more[i] \in all
  <2> HIDE DEF all
  <2> QED BY <1>1, Listed, LenProperties
<1>4. seen[k] \in Seq(WatcherOf) /\ Len(seen[k]) \in Nat /\ Len(seen[k]) <= MaxWatchers
  BY LenProperties DEF WatchOK
<1>5. room \in Nat /\ cut \in Nat /\ cut <= room /\ cut <= Len(more)
  <2>1. room \in Nat
    BY <1>4, UpgradeAssumption
  <2> HIDE DEF room, more
  <2>2. CASE Len(more) < room
    BY <1>3, <2>1, <2>2
  <2>3. CASE ~(Len(more) < room)
    BY <1>3, <2>1, <2>3
  <2> QED BY <2>2, <2>3
<1> HIDE DEF more, room
<1>6. /\ added \in Seq(all) /\ Len(added) = cut
  <2> HIDE DEF all, cut
  <2>1. 1 \in Int /\ cut \in Int /\ \A i \in 1..cut : more[i] \in all
    BY <1>3, <1>5
  <2>2. added \in Seq(all) /\ Len(added) = IF 1 <= cut THEN cut - 1 + 1 ELSE 0
    BY <2>1, SubSeqProperties
  <2> QED BY <1>5, <2>2
<1> HIDE DEF added, cut
<1>7. \A i \in 1..cut : added[i] \in all
  <2> HIDE DEF all
  <2> QED BY <1>6, ElementOfSeq
<1>8. added \in Seq(WatcherOf)
  <2>1. all \subseteq WatcherOf
    BY <1>2
  <2> HIDE DEF all
  <2> QED BY <1>5, <1>6, <1>7, <2>1, SeqDef
<1>9. /\ seen[k] \o added \in Seq(WatcherOf)
      /\ Len(seen[k] \o added) = Len(seen[k]) + cut
      /\ \A i \in 1..(Len(seen[k]) + cut) : (seen[k] \o added)[i]
           = IF i <= Len(seen[k]) THEN seen[k][i] ELSE added[i - Len(seen[k])]
  <2>1. /\ seen[k] \o added \in Seq(WatcherOf)
        /\ Len(seen[k] \o added) = Len(seen[k]) + Len(added)
        /\ \A i \in 1..(Len(seen[k]) + Len(added)) : (seen[k] \o added)[i]
             = IF i <= Len(seen[k]) THEN seen[k][i] ELSE added[i - Len(seen[k])]
    BY <1>4, <1>8, ConcatProperties
  <2>2. Len(added) = cut
    BY <1>6
  <2> QED BY <2>1, <2>2, Zenon
<1>10. res = [seen EXCEPT ![k] = seen[k] \o added] /\ seen \in [Key -> Seq(WatcherOf)]
  BY DEF Watched, more, room, cut, added, WatchOK
<1> HIDE DEF res
<1>11. /\ res[k] = seen[k] \o added /\ \A j \in Key \ {k} : res[j] = seen[j]
       /\ res \in [Key -> Seq(WatcherOf)]
  BY <1>9, <1>10
<1>12. \A j \in Key : Len(res[j]) <= MaxWatchers
  <2>1. Len(seen[k]) + cut <= MaxWatchers
    BY <1>4, <1>5, UpgradeAssumption DEF room
  <2> QED BY <1>9, <1>11, <2>1 DEF WatchOK
<1>13. ASSUME NEW w \in ToSet(res[k]) PROVE Follows(w, k, new, epoch)
  <2>1. PICK i \in 1..(Len(seen[k]) + cut) : w = (seen[k] \o added)[i]
    <3>1. DOMAIN (seen[k] \o added) = 1..(Len(seen[k]) + cut)
      BY <1>9, LenProperties
    <3> QED BY <1>11, <3>1 DEF ToSet
  <2>2. CASE i <= Len(seen[k])
    <3>1. i \in DOMAIN seen[k] /\ w = seen[k][i]
      BY <1>4, <1>9, <2>1, <2>2, LenProperties
    <3> QED BY <3>1 DEF ToSet, WatchOK
  <2>3. CASE ~(i <= Len(seen[k]))
    <3>1. i - Len(seen[k]) \in 1..cut /\ w = added[i - Len(seen[k])]
      BY <1>4, <1>5, <1>9, <2>1, <2>3
    <3> QED BY <1>2, <1>7, <3>1
  <2> QED BY <2>2, <2>3
<1>14. WatchOK(res, new, epoch)
  BY <1>11, <1>12, <1>13 DEF WatchOK
<1> QED BY <1>11, <1>14 DEF res

-----------------------------------------------------------------------------
(* The inductive invariant.                                                *)

\* What a rendering under way is for.
FillOf(k) == [source : {"fill"}, pre : {k[2]}, readers : SUBSET [s : Session, epoch : Nat],
              enqueue : BOOLEAN]

\* The first part of the invariant: flag, rows and renderings under way.
WorldOK ==
  /\ phase \in {"up", "stopping", "down"} /\ flag \in BOOLEAN /\ flagRow = flag
  /\ TrueRows(row)
  /\ DOMAIN filling = Key /\ \A k \in Key : filling[k] \in {None} \cup FillOf(k)

\* The second part: the queue, its attempts and its slots.
QueueOK ==
  /\ Queue \in Queues /\ TriesOK
  /\ phase = "up" => Works(Queue, row, attempts) /\ Busy(Queue)
  /\ phase # "up" => queued = <<>>

\* The third part: pages and watchers.
PagesOK ==
  /\ EpochOK /\ PageOK(page, epoch) /\ WatchOK(watchers, page, epoch) /\ NoWatcherLeft

\* The inductive invariant.
IInv == WorldOK /\ QueueOK /\ PagesOK

\* What a step does to the pages.
LinesKept == LinesImprove /\ LinesComeInPlace

\* A queue record that becomes the state leaves the pages and the watchers in order.
LEMMA CommitOK ==
  ASSUME EpochOK, NEW rows, TrueRows(rows), NEW q \in Queues, \A k \in q.published : Settled(rows[k]),
         NEW pg, PageOK(pg, epoch), NEW seen, WatchOK(seen, pg, epoch),
         \A k \in Key \ OtherProcess : Settled(rows[k]) => seen[k] = <<>> \/ k \in q.published,
         Commit(q, rows, seen, pg), row' = rows, epoch' = epoch
  PROVE  /\ PagesOK'
         /\ Queue' \in Queues
         /\ queued' = q.queued
         /\ \A s \in Session :
              /\ Cardinality(page'[s]) = Cardinality(pg[s])
              /\ \A l \in pg[s] : l \in page'[s] \/ [l EXCEPT !.source = "final"] \in page'[s]
<1>1. /\ queued' = q.queued /\ running' = q.running /\ cooling' = q.cooling
      /\ targets' = q.targets \ q.published
      /\ watchers' = Forgotten(seen, q.published)
      /\ page' = Replaced(pg, q.published, rows, seen)
  BY DEF Commit
<1>2. q.published \subseteq Key
  BY DEF Queues
<1>3. /\ PageOK(page', epoch) /\ WatchOK(watchers', page', epoch)
      /\ \A s \in Session :
           /\ Cardinality(page'[s]) = Cardinality(pg[s])
           /\ \A l \in pg[s] : l \in page'[s] \/ [l EXCEPT !.source = "final"] \in page'[s]
  BY <1>1, <1>2, ReplacedOK
<1>4. EpochOK'
  BY DEF EpochOK
<1>5. NoWatcherLeft'
  BY <1>1 DEF NoWatcherLeft, Forgotten
<1>6. Queue' \in Queues
  BY <1>1 DEF Queue, Queues
<1> QED BY <1>1, <1>3, <1>4, <1>5, <1>6 DEF PagesOK

\* A commit publishes the finished keys and leaves the queue in order.
LEMMA CommitWorks ==
  ASSUME NEW rows, NEW tries, NEW q, Works(q, rows, tries), Busy(q), NEW seen, NEW pg,
         Commit(q, rows, seen, pg)
  PROVE  Works(Queue', rows, tries) /\ Busy(Queue')
<1>1. /\ Queue'.queued = q.queued /\ Queue'.running = q.running /\ Queue'.cooling = q.cooling
      /\ Queue'.targets = q.targets \ q.published /\ Queue'.published = {}
  BY DEF Queue, Commit
<1>2. Queue' \in Queues
  BY DEF Works, Queue, Queues, Commit
<1>3. Running(Queue') = Running(q)
  BY <1>1 DEF Running
<1> HIDE DEF Queue
<1>4. Works(Queue', rows, tries)
  BY <1>1, <1>2, <1>3 DEF Works
<1> QED BY <1>1, <1>3, <1>4 DEF Busy

\* A row that is written for the first time, or made final, disturbs no key in hand.
LEMMA RowsMoveOn ==
  ASSUME NEW rows, NEW more, NEW tries, NEW q, Works(q, rows, tries), q.published = {},
         \A k \in Key : rows[k] # None => more[k] # None
  PROVE  Works(q, more, tries)
BY DEF Works

\* The queue of the state is in order, whether it runs or is stopped.
LEMMA QueueFacts ==
  ASSUME QueueOK
  PROVE  /\ Queue \in Queues /\ Queue.queued = queued /\ Queue.running = running
         /\ Queue.cooling = cooling /\ Queue.targets = targets /\ Queue.published = {}
BY DEF QueueOK, Queue

\* A queue record that is in order.
InOrder(q, rows, tries) ==
  /\ q \in Queues
  /\ phase = "up" => Works(q, rows, tries) /\ Busy(q)
  /\ phase # "up" => q.queued = <<>> /\ q.published = {}

\* The state's queue stays in order when rows are only added.
LEMMA QueueInOrder ==
  ASSUME QueueOK, NEW rows, \A k \in Key : row[k] # None => rows[k] # None
  PROVE  InOrder(Queue, rows, attempts)
BY QueueFacts, RowsMoveOn DEF QueueOK, InOrder

\* A push keeps it in order.
LEMMA PushInOrder ==
  ASSUME TriesOK, NEW rows, TrueRows(rows), NEW q, InOrder(q, rows, attempts),
         NEW k \in Key, rows[k] # None, k \notin q.published
  PROVE  InOrder(Push(q, k, rows), rows, attempts)
<1>1. CASE phase = "up"
  <2>1. Works(Push(q, k, rows), rows, attempts) /\ Busy(Push(q, k, rows))
    BY <1>1, PushWorks DEF InOrder
  <2> QED BY <1>1, <2>1 DEF InOrder, Works
<1>2. CASE phase # "up"
  BY <1>2, PushStopped DEF InOrder
<1> QED BY <1>1, <1>2

\* The pages and the queue after a step that hands the state to a queue record.
LEMMA QueueStep ==
  ASSUME EpochOK, NEW rows, TrueRows(rows), NEW tries \in [Key -> 0..MaxAttempts],
         NEW q, InOrder(q, rows, tries), NEW pg, PageOK(pg, epoch),
         NEW seen, WatchOK(seen, pg, epoch),
         \A k \in Key \ OtherProcess : Settled(rows[k]) => seen[k] = <<>> \/ k \in q.published,
         Commit(q, rows, seen, pg), row' = rows, attempts' = tries, epoch' = epoch, phase' = phase
  PROVE  /\ QueueOK' /\ PagesOK'
         /\ \A s \in Session :
              /\ Cardinality(page'[s]) = Cardinality(pg[s])
              /\ \A l \in pg[s] : l \in page'[s] \/ [l EXCEPT !.source = "final"] \in page'[s]
<1>1. \A k \in q.published : Settled(rows[k])
  BY DEF InOrder, Works
<1>2. q \in Queues
  BY DEF InOrder
<1>3. /\ PagesOK' /\ Queue' \in Queues /\ queued' = q.queued
      /\ \A s \in Session :
           /\ Cardinality(page'[s]) = Cardinality(pg[s])
           /\ \A l \in pg[s] : l \in page'[s] \/ [l EXCEPT !.source = "final"] \in page'[s]
  BY <1>1, <1>2, CommitOK
<1>4. phase = "up" => Works(Queue', rows, tries) /\ Busy(Queue')
  BY CommitWorks DEF InOrder
<1>5. phase' # "up" => queued' = <<>>
  BY <1>3 DEF InOrder
<1>6. QueueOK'
  BY <1>3, <1>4, <1>5 DEF QueueOK, TriesOK
<1> QED BY <1>3, <1>6

\* A delivery to those who are there, with the queue record and the watchers it leaves.
LEMMA HandedOver ==
  ASSUME PagesOK, NEW rows, TrueRows(rows), NEW k \in Key, rows[k] # None,
         NEW readers, readers \subseteq Session, \A s \in readers : at[s],
         NEW q, InOrder(q, rows, attempts), TriesOK,
         NEW seen, seen = watchers \/ seen = Watched(readers, k, watchers),
         \A j \in Key \ OtherProcess : Settled(rows[j]) => seen[j] = <<>> \/ j \in q.published,
         Commit(q, rows, seen, Delivered(readers, k, rows[k])),
         row' = rows, attempts' = attempts, epoch' = epoch, phase' = phase
  PROVE  QueueOK' /\ PagesOK' /\ LinesKept
<1> DEFINE r == rows[k]
           pg == Delivered(readers, k, r)
<1>1. EpochOK /\ PageOK(page, epoch) /\ WatchOK(watchers, page, epoch)
  BY DEF PagesOK
<1>2. r \in {Row(k[2], k[2], "fallback"), Row(k[2], k[2], "final")}
  BY DEF TrueRows
<1>3. /\ PageOK(pg, epoch)
      /\ \A s \in Session : page[s] \subseteq pg[s] /\ (s \notin readers => pg[s] = page[s])
      /\ \A s \in readers : \E l \in pg[s] : l.id = NewId(s) /\ l.key = k
  <2> HIDE DEF r
  <2>1. PageOK(pg, epoch) /\ Gains(pg, readers, k)
    BY <1>1, <1>2, DeliveredOK
  <2> HIDE DEF pg
  <2> QED BY <2>1 DEF Gains
<1>4. Commit(q, rows, seen, pg)
  OBVIOUS
<1> HIDE DEF r, pg
<1>5. WatchOK(watchers, pg, epoch)
  BY <1>1, <1>3, WatchGrows
<1>6. WatchOK(Watched(readers, k, watchers), pg, epoch)
  BY <1>1, <1>3, <1>5, WatchedOK
<1>7. WatchOK(seen, pg, epoch)
  BY <1>5, <1>6
<1>8. attempts \in [Key -> 0..MaxAttempts]
  BY DEF TriesOK
<1>9. /\ QueueOK' /\ PagesOK'
      /\ \A s \in Session :
           /\ Cardinality(page'[s]) = Cardinality(pg[s])
           /\ \A l \in pg[s] : l \in page'[s] \/ [l EXCEPT !.source = "final"] \in page'[s]
  BY <1>1, <1>3, <1>4, <1>7, <1>8, QueueStep
<1>10. LinesImprove
  BY <1>3, <1>9 DEF LinesImprove
<1>11. LinesComeInPlace
  <2>1. ASSUME NEW s \in Session, s \notin readers PROVE ~(Cardinality(page'[s]) > Cardinality(page[s]))
    <3>1. Cardinality(page'[s]) = Cardinality(page[s])
      BY <1>3, <1>9, <2>1
    <3>2. Cardinality(page[s]) \in Nat
      BY <1>1, PageFacts
    <3> QED BY <3>1, <3>2
  <2> QED BY <2>1 DEF LinesComeInPlace
<1> QED BY <1>9, <1>10, <1>11 DEF LinesKept

\* A delivery, to those who are there.
LEMMA DeliverOK ==
  ASSUME QueueOK, PagesOK, NEW rows, TrueRows(rows), \A j \in Key : row[j] # None => rows[j] # None,
         \A j \in Key \ OtherProcess : Settled(rows[j]) => Settled(row[j]),
         NEW k \in Key, rows[k] # None,
         NEW readers, readers \subseteq Session, \A s \in readers : at[s],
         Deliver(readers, k, rows), row' = rows, attempts' = attempts, epoch' = epoch, phase' = phase
  PROVE  QueueOK' /\ PagesOK' /\ LinesKept
<1> DEFINE q == IF rows[k].source = "fallback" /\ readers # {} THEN Push(Queue, k, rows) ELSE Queue
           waits == rows[k].source = "fallback" /\ (k \in ToSet(q.queued) \/ q.running[k] # Idle)
           seen == IF waits THEN Watched(readers, k, watchers) ELSE watchers
<1>1. Commit(q, rows, seen, Delivered(readers, k, rows[k]))
  BY DEF Deliver
<1>2. /\ EpochOK /\ PageOK(page, epoch) /\ WatchOK(watchers, page, epoch) /\ NoWatcherLeft /\ TriesOK
  BY DEF PagesOK, QueueOK
<1>3. InOrder(q, rows, attempts)
  <2>1. InOrder(Queue, rows, attempts) /\ Queue.published = {}
    BY QueueInOrder, QueueFacts
  <2> QED BY <1>2, <2>1, PushInOrder
<1> HIDE DEF q
<1>4. PageOK(page, epoch) /\ \A s \in Session : page[s] \subseteq page[s]
  BY <1>2
<1>5. \A j \in Key \ {k} : Watched(readers, k, watchers)[j] = watchers[j]
  BY DEF Watched
<1>6. \A j \in Key \ OtherProcess : Settled(rows[j]) => seen[j] = <<>>
  <2> SUFFICES ASSUME NEW j \in Key \ OtherProcess, Settled(rows[j]) PROVE seen[j] = <<>>
    OBVIOUS
  <2>1. watchers[j] = <<>>
    BY <1>2 DEF NoWatcherLeft
  <2>2. waits => j # k
    BY DEF Settled
  <2> QED BY <1>5, <2>1, <2>2
<1>7. seen = watchers \/ seen = Watched(readers, k, watchers)
  OBVIOUS
<1> HIDE DEF seen, waits
<1> QED BY <1>1, <1>2, <1>3, <1>6, <1>7, HandedOver

\* A step that leaves the pages, the queue and the world alone.
LEMMA PagesStay ==
  ASSUME PagesOK, page' = page
  PROVE  LinesKept
<1>1. \A s \in Session : ~(Cardinality(page[s]) > Cardinality(page[s]))
  BY PageFacts DEF PagesOK
<1> QED BY <1>1 DEF LinesKept, LinesImprove, LinesComeInPlace

-----------------------------------------------------------------------------
(* The steps.                                                              *)

\* A step writes at most one row: for the first time, or its final sentence.
RowsMove ==
  \/ row' = row
  \/ \E k \in Key :
       \/ row[k] = None /\ row' = [row EXCEPT ![k] = Row(k[2], k[2], "fallback")]
       \/ ~Settled(row[k]) /\ row' = [row EXCEPT ![k] = Row(k[2], k[2], "final")]

\* What every step is proved to keep.
Good == IInv' /\ LinesKept /\ RowsMove

\* A step that leaves the queue, the pages or the world alone keeps its part.
LEMMA QueueStays ==
  ASSUME QueueOK, phase' = phase, row' = row, UNCHANGED queueVars, targets' = targets
  PROVE  QueueOK'
BY DEF QueueOK, Queue, TriesOK, queueVars

LEMMA WatchStays ==
  ASSUME PagesOK, row' = row, watchers' = watchers, epoch' = epoch, page' = page
  PROVE  PagesOK' /\ LinesKept
<1>1. PagesOK'
  BY DEF PagesOK, EpochOK, NoWatcherLeft
<1> QED BY <1>1, PagesStay

LEMMA WorldStays ==
  ASSUME WorldOK, UNCHANGED <<phase, flag, flagRow, row, filling>>
  PROVE  WorldOK'
BY DEF WorldOK

\* One lemma per action: it keeps all three parts, and moves rows and lines rightly.
LEMMA EnterStep == ASSUME IInv, NEW s \in Session, Enter(s) PROVE Good
BY QueueStays, WatchStays, WorldStays
   DEF IInv, Enter, Good, RowsMove, textVars, queueVars, watchVars

LEMMA WalkStep == ASSUME IInv, NEW s \in Session, Walk(s) PROVE Good
BY QueueStays, WatchStays, WorldStays
   DEF IInv, Walk, Good, RowsMove, textVars, queueVars, watchVars

LEMMA CloseStep == ASSUME IInv, CloseDatabase PROVE Good
<1>1. PagesOK' /\ LinesKept
  BY WatchStays DEF IInv, CloseDatabase, textVars, watchVars, readerVars
<1>2. QueueOK'
  BY DEF IInv, CloseDatabase, QueueOK, Queue, TriesOK, textVars, queueVars, watchVars
<1>3. WorldOK'
  BY DEF IInv, CloseDatabase, WorldOK, textVars
<1> QED BY <1>1, <1>2, <1>3 DEF Good, IInv, RowsMove, CloseDatabase, textVars

\* A reload empties the page, and the epoch of those who waited is over.
LEMMA ReloadStep == ASSUME IInv, NEW s \in Session, Reload(s) PROVE Good
<1>1. /\ phase' = phase /\ flagRow' = flagRow /\ flag' = flag /\ row' = row /\ filling' = filling
      /\ UNCHANGED queueVars /\ targets' = targets /\ watchers' = watchers
  BY DEF Reload, textVars, watchVars
<1>2. WorldOK' /\ QueueOK' /\ RowsMove
  BY <1>1, WorldStays, QueueStays DEF IInv, RowsMove
<1>3. EpochOK /\ PageOK(page, epoch) /\ WatchOK(watchers, page, epoch) /\ NoWatcherLeft
  BY DEF IInv, PagesOK
<1>4. /\ epoch' = [epoch EXCEPT ![s] = @ + 1] /\ page' = [page EXCEPT ![s] = {}]
      /\ epoch[s] < MaxEpochs
  BY DEF Reload
<1>5. epoch' \in [Session -> 0..MaxEpochs] /\ epoch'[s] = epoch[s] + 1 /\ epoch[s] \in Nat
  BY <1>3, <1>4, UpgradeAssumption DEF EpochOK
<1>6. /\ DOMAIN page' = Session /\ page'[s] = {}
      /\ \A u \in Session \ {s} : page'[u] = page[u] /\ epoch'[u] = epoch[u]
  BY <1>3, <1>4 DEF PageOK, EpochOK
<1>7. PageOK(page', epoch')
  <2>1. Numbered({}, epoch'[s])
    BY FS_EmptySet DEF Numbered
  <2> QED BY <1>3, <1>6, <2>1 DEF PageOK
<1>8. WatchOK(watchers', page', epoch')
  <2> SUFFICES ASSUME NEW k \in Key, NEW w \in ToSet(watchers[k]) PROVE Follows(w, k, page', epoch')
    BY <1>1, <1>3 DEF WatchOK
  <2>1. Follows(w, k, page, epoch) /\ watchers[k] \in Seq(WatcherOf)
    BY <1>3 DEF WatchOK
  <2>2. w \in WatcherOf
    BY <2>1, ElementOfSeq, LenProperties DEF ToSet
  <2>3. w.s \in Session /\ w.epoch \in Nat
    BY <2>2 DEF WatcherOf
  <2>4. CASE w.s = s
    BY <1>5, <2>1, <2>3, <2>4 DEF Follows
  <2>5. CASE w.s # s
    BY <1>6, <2>1, <2>3, <2>5 DEF Follows
  <2> QED BY <2>4, <2>5
<1>9. PagesOK'
  BY <1>1, <1>3, <1>5, <1>7, <1>8 DEF PagesOK, EpochOK, NoWatcherLeft
<1>10. LinesKept
  <2>1. \A u \in Session : ~(Cardinality(page'[u]) > Cardinality(page[u]))
    <3> TAKE u \in Session
    <3>1. Cardinality(page[u]) \in Nat
      BY <1>3, PageFacts
    <3>2. CASE u = s
      BY <1>6, <3>1, <3>2, FS_EmptySet
    <3>3. CASE u # s
      BY <1>6, <3>1, <3>3
    <3> QED BY <3>2, <3>3
  <2>2. LinesImprove
    BY <1>5, <1>6 DEF LinesImprove
  <2> QED BY <2>1, <2>2 DEF LinesKept, LinesComeInPlace
<1> QED BY <1>2, <1>9, <1>10 DEF Good, IInv

\* With no process up nothing waits in the queue.
LEMMA NoneWaits ==
  /\ [k \in Key |-> <<>>] \in [Key -> Seq(WatcherOf)]
  /\ \A k \in Key : [j \in Key |-> <<>>][k] = <<>>
  /\ Len(<<>>) = 0 /\ ToSet(<<>>) = {}
BY EmptySeq DEF ToSet

LEMMA StopStep == ASSUME IInv, Stop PROVE Good
<1>1. /\ phase = "up" /\ phase' = "stopping" /\ queued' = <<>> /\ targets' = {}
      /\ watchers' = [k \in Key |-> <<>>] /\ flag' = flag /\ flagRow' = flagRow
      /\ row' = row /\ filling' = filling /\ running' = running /\ attempts' = attempts
      /\ cooling' = cooling /\ epoch' = epoch /\ page' = page
  BY DEF Stop, textVars, readerVars
<1>2. WorldOK' /\ RowsMove
  BY <1>1 DEF IInv, WorldOK, RowsMove
<1>3. QueueOK'
  BY <1>1, EmptySeq DEF IInv, QueueOK, Queue, Queues, TriesOK
<1>4. WatchOK(watchers', page, epoch)
  BY <1>1, NoneWaits, UpgradeAssumption DEF WatchOK
<1>5. PagesOK'
  BY <1>1, <1>4 DEF IInv, PagesOK, EpochOK, NoWatcherLeft
<1>6. LinesKept
  BY <1>1, PagesStay DEF IInv
<1> QED BY <1>2, <1>3, <1>5, <1>6 DEF Good, IInv

\* A start finds the flags and the rows; nothing runs and nobody waits.
LEMMA BlankQueue ==
  ASSUME NEW q, q = [queued |-> <<>>, running |-> [k \in Key |-> Idle], cooling |-> {},
                     targets |-> {}, published |-> {}],
         NEW rows
  PROVE  Works(q, rows, [k \in Key |-> 0]) /\ Busy(q)
<1>1. q \in Queues
  BY EmptySeq DEF Queues
<1>2. Running(q) = {} /\ Cardinality(Running(q)) = 0
  BY FS_EmptySet DEF Running
<1>3. Len(q.queued) = 0 /\ ToSet(q.queued) = {} /\ q.queued = <<>> /\ q.published = {}
  BY NoneWaits
<1>4. \A k \in Key : q.running[k] = Idle
  OBVIOUS
<1>5. \A i \in 1..Len(q.queued) : FALSE
  BY <1>3
<1>6. Cardinality(Running(q)) <= Concurrency
  <2>1. 0 <= Concurrency
    BY UpgradeAssumption
  <2> QED BY <1>2, <2>1, Zenon
<1>7. Works(q, rows, [k \in Key |-> 0])
  BY <1>1, <1>3, <1>4, <1>5, <1>6 DEF Works
<1> QED BY <1>3, <1>7 DEF Busy

\* Pages that a restart blanks are in order.
LEMMA BlankPages ==
  ASSUME NEW pg, pg = [s \in Session |-> {}], NEW ep, ep = [s \in Session |-> 0],
         NEW seen, seen = [k \in Key |-> <<>>]
  PROVE  PageOK(pg, ep) /\ WatchOK(seen, pg, ep)
<1>1. PageOK(pg, ep)
  BY FS_EmptySet DEF PageOK, Numbered
<1>2. WatchOK(seen, pg, ep)
  BY NoneWaits, UpgradeAssumption DEF WatchOK
<1> QED BY <1>1, <1>2

LEMMA BootStep == ASSUME IInv, Boot PROVE Good
<1>1. /\ phase' = "up" /\ flag' = flagRow /\ flagRow' = flagRow /\ row' = row
      /\ filling' = [k \in Key |-> None] /\ queued' = <<>>
      /\ running' = [k \in Key |-> Idle] /\ attempts' = [k \in Key |-> 0]
      /\ cooling' = {} /\ targets' = {} /\ watchers' = [k \in Key |-> <<>>]
      /\ epoch' = [s \in Session |-> 0] /\ page' = [s \in Session |-> {}]
  BY DEF Boot, Fresh
<1>2. WorldOK' /\ RowsMove
  BY <1>1 DEF IInv, WorldOK, RowsMove
<1>3. QueueOK'
  <2>1. Works(Queue', row', attempts') /\ Busy(Queue')
    BY <1>1, BlankQueue DEF Queue
  <2>2. attempts' \in [Key -> 0..MaxAttempts]
    BY <1>1, UpgradeAssumption
  <2> QED BY <1>1, <2>1, <2>2 DEF QueueOK, TriesOK, Works
<1>4. PagesOK'
  <2>1. EpochOK'
    BY <1>1, UpgradeAssumption DEF EpochOK
  <2> QED BY <1>1, <2>1, BlankPages, NoneWaits DEF PagesOK, NoWatcherLeft
<1>5. LinesKept
  <2>1. \A s \in Session : ~(Cardinality(page'[s]) > Cardinality(page[s]))
    BY <1>1, FS_EmptySet, PageFacts DEF IInv, PagesOK
  <2>2. \A s \in Session : epoch'[s] = 0
    BY <1>1
  <2> QED BY <2>1, <2>2 DEF LinesKept, LinesImprove, LinesComeInPlace
<1> QED BY <1>2, <1>3, <1>4, <1>5 DEF Good, IInv

\* A row that is written leaves every row true.
LEMMA WrittenTrue ==
  ASSUME TrueRows(row), NEW k \in Key, NEW r \in {Row(k[2], k[2], "fallback"), Row(k[2], k[2], "final")}
  PROVE  /\ TrueRows([row EXCEPT ![k] = r])
         /\ [row EXCEPT ![k] = r][k] = r
         /\ \A j \in Key \ {k} : [row EXCEPT ![k] = r][j] = row[j]
         /\ \A j \in Key : row[j] # None => [row EXCEPT ![k] = r][j] # None
         /\ Settled(r) <=> r = Row(k[2], k[2], "final")
<1>1. r # None
  BY DEF Row, None
<1>2. Settled(r) <=> r = Row(k[2], k[2], "final")
  BY DEF Row, Settled
<1> QED BY <1>1, <1>2 DEF TrueRows

LEMMA ElsewhereStep == ASSUME IInv, NEW k \in Key, Elsewhere(k) PROVE Good
<1>1. /\ k \in OtherProcess /\ ~Settled(row[k])
      /\ row' = [row EXCEPT ![k] = Row(k[2], k[2], "final")]
      /\ phase' = phase /\ flagRow' = flagRow /\ flag' = flag /\ filling' = filling
      /\ queued' = queued /\ running' = running /\ attempts' = attempts /\ cooling' = cooling
      /\ targets' = targets /\ watchers' = watchers /\ epoch' = epoch /\ page' = page
  BY DEF Elsewhere, queueVars, watchVars, readerVars
<1>2. /\ TrueRows(row') /\ \A j \in Key \ {k} : row'[j] = row[j]
      /\ \A j \in Key : row[j] # None => row'[j] # None
  BY <1>1, WrittenTrue DEF IInv, WorldOK
<1>3. WorldOK' /\ RowsMove
  BY <1>1, <1>2 DEF IInv, WorldOK, RowsMove
<1>4. QueueOK'
  <2>1. InOrder(Queue, row', attempts)
    BY <1>2, QueueInOrder DEF IInv
  <2>2. Queue' = Queue /\ TriesOK'
    BY <1>1 DEF Queue, TriesOK, IInv, QueueOK
  <2> QED BY <1>1, <2>1, <2>2 DEF QueueOK, InOrder, Queue
<1>5. PagesOK'
  BY <1>1, <1>2 DEF IInv, PagesOK, EpochOK, NoWatcherLeft
<1>6. LinesKept
  BY <1>1, PagesStay DEF IInv
<1> QED BY <1>3, <1>4, <1>5, <1>6 DEF Good, IInv

LEMMA CooldownStep == ASSUME IInv, NEW k \in Key, CooldownEnds(k) PROVE Good
<1>1. /\ cooling' = cooling \ {k}
      /\ phase' = phase /\ flagRow' = flagRow /\ flag' = flag /\ row' = row /\ filling' = filling
      /\ queued' = queued /\ running' = running /\ attempts' = attempts
      /\ targets' = targets /\ watchers' = watchers /\ epoch' = epoch /\ page' = page
  BY DEF CooldownEnds, textVars, watchVars, readerVars
<1>2. WorldOK' /\ RowsMove /\ PagesOK' /\ LinesKept
  BY <1>1, WorldStays, WatchStays DEF IInv, RowsMove
<1>3. QueueOK'
  <2>1. /\ Queue'.queued = Queue.queued /\ Queue'.running = Queue.running
        /\ Queue'.targets = Queue.targets /\ Queue'.published = Queue.published
    BY <1>1 DEF Queue
  <2>2. Queue' \in Queues
    BY <1>1 DEF Queue, Queues, IInv, QueueOK
  <2>3. Running(Queue') = Running(Queue)
    BY <2>1 DEF Running
  <2> HIDE DEF Queue
  <2>4. phase = "up" => Works(Queue', row, attempts) /\ Busy(Queue')
    BY <2>1, <2>2, <2>3 DEF IInv, QueueOK, Works, Busy
  <2> QED BY <1>1, <2>2, <2>4 DEF IInv, QueueOK, TriesOK
<1> QED BY <1>2, <1>3 DEF Good, IInv

LEMMA DroppedStep == ASSUME IInv, NEW k \in Key, JobDropped(k) PROVE Good
<1>1. /\ phase # "up" /\ running' = [running EXCEPT ![k] = Idle]
      /\ phase' = phase /\ flagRow' = flagRow /\ flag' = flag /\ row' = row /\ filling' = filling
      /\ queued' = queued /\ cooling' = cooling /\ attempts' = attempts
      /\ targets' = targets /\ watchers' = watchers /\ epoch' = epoch /\ page' = page
  BY DEF JobDropped, textVars, watchVars, readerVars
<1>2. WorldOK' /\ RowsMove /\ PagesOK' /\ LinesKept
  BY <1>1, WorldStays, WatchStays DEF IInv, RowsMove
<1>3. QueueOK'
  BY <1>1 DEF IInv, QueueOK, TriesOK, Queue, Queues
<1> QED BY <1>2, <1>3 DEF Good, IInv

\* The job of k ends and leaves its slot.
LEMMA EndedWorks ==
  ASSUME QueueOK, phase = "up", NEW k \in Key, running[k] # Idle,
         NEW rows, \A j \in Key : row[j] # None => rows[j] # None,
         NEW q \in Queues, q.queued = queued, q.running = [running EXCEPT ![k] = Idle],
         q.targets = targets, q.published \subseteq {k}, k \in q.published => Settled(rows[k]),
         NEW tries, \A j \in Key \ {k} : tries[j] = attempts[j]
  PROVE  Works(q, rows, tries)
<1>1. /\ Works(Queue, row, attempts) /\ Queue.queued = queued /\ Queue.running = running
      /\ Queue.targets = targets /\ Queue.published = {}
  BY QueueFacts DEF QueueOK
<1>2. running \in [Key -> Value \cup {Idle}] /\ queued \in Seq(Key) /\ DOMAIN queued = 1..Len(queued)
  BY <1>1, LenProperties DEF Works, Queues
<1>3. Running(q) \subseteq Running(Queue)
  BY <1>1, <1>2 DEF Running
<1>4. Cardinality(Running(q)) <= Concurrency
  <2>1. Cardinality(Running(q)) <= Cardinality(Running(Queue))
    BY <1>3, RunningFinite, FS_Subset
  <2>2. Cardinality(Running(Queue)) <= Concurrency
    BY <1>1 DEF Works
  <2> QED BY <2>1, <2>2, RunningFinite, UpgradeAssumption
<1> HIDE DEF Queue
<1>5. \A i \in 1..Len(queued) : queued[i] \in Key /\ queued[i] # k /\ running[queued[i]] = Idle
  <2>1. \A i \in 1..Len(queued) : queued[i] \in Key
    BY <1>2, ElementOfSeq
  <2> QED BY <1>1, <2>1 DEF Works
<1>6. k \notin ToSet(queued)
  BY <1>2, <1>5 DEF ToSet
<1>7. /\ q.running[k] = Idle /\ \A j \in Key \ {k} : q.running[j] = running[j]
  BY <1>2
<1>8. \A i, j \in 1..Len(q.queued) : q.queued[i] = q.queued[j] => i = j
  BY <1>1 DEF Works
<1>9. \A i \in 1..Len(q.queued) : q.running[q.queued[i]] = Idle
  BY <1>5, <1>7
<1>10. \A j \in Key : j \in ToSet(q.queued) \/ q.running[j] # Idle =>
         j \in q.targets \ q.published /\ rows[j] # None /\ tries[j] < MaxAttempts
  <2> SUFFICES ASSUME NEW j \in Key, j \in ToSet(q.queued) \/ q.running[j] # Idle
               PROVE  j \in q.targets \ q.published /\ rows[j] # None /\ tries[j] < MaxAttempts
    OBVIOUS
  <2>1. j # k
    BY <1>6, <1>7
  <2>2. j \in ToSet(queued) \/ running[j] # Idle
    BY <1>7, <2>1
  <2>3. j \in targets /\ row[j] # None /\ attempts[j] < MaxAttempts
    BY <1>1, <2>2 DEF Works
  <2> QED BY <2>1, <2>3
<1>11. \A j \in Key : q.running[j] # Idle => q.running[j] = j[2]
  BY <1>1, <1>7 DEF Works
<1>12. \A j \in q.published : Settled(rows[j])
  OBVIOUS
<1> QED BY <1>4, <1>8, <1>9, <1>10, <1>11, <1>12 DEF Works

LEMMA SucceedsStep == ASSUME IInv, NEW k \in Key, JobSucceeds(k) PROVE Good
<1> DEFINE rows == IF Settled(row[k]) THEN row
                   ELSE [row EXCEPT ![k] = Row(running[k], @.pre, "final")]
           q == [Ended(k) EXCEPT !.published = {k}]
           tries == [attempts EXCEPT ![k] = 0]
<1>1. /\ running[k] # Idle /\ phase = "up" /\ row' = rows /\ attempts' = tries
      /\ Commit(Pump(q, rows), rows, watchers, page)
      /\ phase' = phase /\ flagRow' = flagRow /\ flag' = flag /\ filling' = filling
      /\ epoch' = epoch
  BY DEF JobSucceeds
<1>2. /\ TrueRows(row) /\ QueueOK /\ PagesOK /\ EpochOK /\ PageOK(page, epoch)
      /\ WatchOK(watchers, page, epoch) /\ NoWatcherLeft /\ TriesOK
      /\ Works(Queue, row, attempts)
  BY <1>1 DEF IInv, WorldOK, PagesOK, QueueOK
<1>3. running[k] = k[2] /\ row[k] # None
  BY <1>1, <1>2, QueueFacts DEF Works
<1>4. \/ Settled(row[k]) /\ rows = row
      \/ ~Settled(row[k]) /\ rows = [row EXCEPT ![k] = Row(k[2], k[2], "final")]
  BY <1>2, <1>3, SettledOrNot DEF TrueRows
<1> HIDE DEF rows
<1>5. /\ TrueRows(rows) /\ Settled(rows[k]) /\ \A j \in Key \ {k} : rows[j] = row[j]
      /\ \A j \in Key : row[j] # None => rows[j] # None
  <2>1. CASE Settled(row[k]) /\ rows = row
    BY <1>2, <2>1
  <2>2. CASE rows = [row EXCEPT ![k] = Row(k[2], k[2], "final")]
    BY <1>2, <2>2, WrittenTrue
  <2> QED BY <1>4, <2>1, <2>2
<1>6. /\ q \in Queues /\ q.queued = queued /\ q.running = [running EXCEPT ![k] = Idle]
      /\ q.targets = targets /\ q.published = {k}
  <2>1. Queue \in Queues
    BY <1>2 DEF QueueOK
  <2> QED BY <2>1 DEF Ended, Queue, Queues
<1>7. tries \in [Key -> 0..MaxAttempts] /\ \A j \in Key \ {k} : tries[j] = attempts[j]
  BY <1>2, UpgradeAssumption DEF TriesOK
<1> HIDE DEF q, tries
<1>8. Works(q, rows, tries)
  BY <1>1, <1>2, <1>5, <1>6, <1>7, EndedWorks
<1>9. InOrder(Pump(q, rows), rows, tries) /\ q.published \subseteq Pump(q, rows).published
  <2>1. Works(Pump(q, rows), rows, tries) /\ Busy(Pump(q, rows))
    BY <1>5, <1>8, PumpWorks
  <2>2. q.published \subseteq Pump(q, rows).published
    BY <1>6 DEF Pump, Queues
  <2> QED BY <1>1, <2>1, <2>2 DEF InOrder, Works
<1>10. \A j \in Key \ OtherProcess : Settled(rows[j]) => watchers[j] = <<>> \/ j \in Pump(q, rows).published
  BY <1>2, <1>5, <1>6, <1>9 DEF NoWatcherLeft
<1>11. /\ QueueOK' /\ PagesOK'
       /\ \A s \in Session :
            /\ Cardinality(page'[s]) = Cardinality(page[s])
            /\ \A l \in page[s] : l \in page'[s] \/ [l EXCEPT !.source = "final"] \in page'[s]
  BY <1>1, <1>2, <1>5, <1>7, <1>9, <1>10, QueueStep
<1>12. LinesKept
  BY <1>11, <1>2, PageFacts DEF LinesKept, LinesImprove, LinesComeInPlace
<1>13. WorldOK' /\ RowsMove
  BY <1>1, <1>4, <1>5 DEF IInv, WorldOK, RowsMove
<1> QED BY <1>11, <1>12, <1>13 DEF Good, IInv

LEMMA FailsStep == ASSUME IInv, NEW k \in Key, JobFails(k) PROVE Good
<1> DEFINE q == [Ended(k) EXCEPT !.cooling = IF attempts[k] + 1 < MaxAttempts THEN @ \cup {k} ELSE @]
           tries == [attempts EXCEPT ![k] = @ + 1]
<1>1. /\ running[k] # Idle /\ phase = "up" /\ row' = row /\ attempts' = tries
      /\ Commit(Pump(q, row), row, watchers, page)
      /\ phase' = phase /\ flagRow' = flagRow /\ flag' = flag /\ filling' = filling
      /\ epoch' = epoch
  BY DEF JobFails, textVars
<1>2. /\ TrueRows(row) /\ QueueOK /\ PagesOK /\ EpochOK /\ PageOK(page, epoch)
      /\ WatchOK(watchers, page, epoch) /\ NoWatcherLeft /\ TriesOK
      /\ Works(Queue, row, attempts)
  BY <1>1 DEF IInv, WorldOK, PagesOK, QueueOK
<1>3. attempts[k] < MaxAttempts
  BY <1>1, <1>2, QueueFacts DEF Works
<1>4. /\ q \in Queues /\ q.queued = queued /\ q.running = [running EXCEPT ![k] = Idle]
      /\ q.targets = targets /\ q.published = {}
  <2>1. Queue \in Queues
    BY <1>2 DEF QueueOK
  <2> QED BY <2>1 DEF Ended, Queue, Queues
<1>5. tries \in [Key -> 0..MaxAttempts] /\ \A j \in Key \ {k} : tries[j] = attempts[j]
  BY <1>2, <1>3, UpgradeAssumption DEF TriesOK
<1> HIDE DEF q, tries
<1>6. Works(q, row, tries)
  BY <1>1, <1>2, <1>4, <1>5, EndedWorks
<1>7. InOrder(Pump(q, row), row, tries)
  <2>1. Works(Pump(q, row), row, tries) /\ Busy(Pump(q, row))
    BY <1>2, <1>6, PumpWorks
  <2> QED BY <1>1, <2>1 DEF InOrder, Works
<1>8. \A j \in Key \ OtherProcess : Settled(row[j]) => watchers[j] = <<>> \/ j \in Pump(q, row).published
  BY <1>2 DEF NoWatcherLeft
<1>9. /\ QueueOK' /\ PagesOK'
      /\ \A s \in Session :
           /\ Cardinality(page'[s]) = Cardinality(page[s])
           /\ \A l \in page[s] : l \in page'[s] \/ [l EXCEPT !.source = "final"] \in page'[s]
  BY <1>1, <1>2, <1>5, <1>7, <1>8, QueueStep
<1>10. LinesKept
  BY <1>9, <1>2, PageFacts DEF LinesKept, LinesImprove, LinesComeInPlace
<1>11. WorldOK' /\ RowsMove
  BY <1>1 DEF IInv, WorldOK, RowsMove
<1> QED BY <1>9, <1>10, <1>11 DEF Good, IInv

\* A question about a key, with or without a stored row, keeps the invariant.
LEMMA AskOK ==
  ASSUME IInv, phase = "up", NEW s \in Session, NEW t \in Target, Ask(s, t),
         phase' = phase, flagRow' = flagRow, flag' = flag, epoch' = epoch
  PROVE  Good
<1> DEFINE k == KeyOf(t)
<1>1. k \in Key /\ k[2] = Projected(t, flag)
  BY KeyOfIsKey DEF IInv, WorldOK, KeyOf
<1>2. /\ WorldOK /\ QueueOK /\ PagesOK /\ TrueRows(row)
  BY DEF IInv, WorldOK
<1>3. CASE row[k] # None /\ Deliver(IF at[s] THEN {s} ELSE {}, k, row) /\ UNCHANGED <<textVars, attempts>>
  <2> DEFINE readers == IF at[s] THEN {s} ELSE {}
  <2>1. readers \subseteq Session /\ \A u \in readers : at[u]
    OBVIOUS
  <2>2. row' = row /\ filling' = filling /\ attempts' = attempts
    BY <1>3 DEF textVars
  <2> HIDE DEF readers
  <2>3. Deliver(readers, k, row)
    BY <1>3 DEF readers
  <2>4. QueueOK' /\ PagesOK' /\ LinesKept
    <3> HIDE DEF k
    <3> QED BY <1>1, <1>2, <1>3, <2>1, <2>2, <2>3, DeliverOK
  <2>5. WorldOK' /\ RowsMove
    BY <1>2, <2>2, WorldStays DEF RowsMove
  <2> QED BY <2>4, <2>5 DEF Good, IInv
<1>4. CASE /\ filling' = [filling EXCEPT ![k] =
                IF filling[k] = None
                THEN [source |-> "fill", pre |-> Projected(t, flag),
                      readers |-> {Reader(s)}, enqueue |-> FALSE]
                ELSE [filling[k] EXCEPT !.readers = @ \cup {Reader(s)}]]
           /\ UNCHANGED <<row, queueVars, watchVars, page>>
  <2> DEFINE fill == IF filling[k] = None
                     THEN [source |-> "fill", pre |-> Projected(t, flag),
                           readers |-> {Reader(s)}, enqueue |-> FALSE]
                     ELSE [filling[k] EXCEPT !.readers = @ \cup {Reader(s)}]
  <2>1. Reader(s) \in [s : Session, epoch : Nat]
    BY <1>2 DEF Reader, PagesOK, EpochOK
  <2>2. fill \in FillOf(k)
    <3>1. filling[k] \in {None} \cup FillOf(k)
      BY <1>1, <1>2 DEF WorldOK
    <3> HIDE DEF k
    <3>2. CASE filling[k] = None
      BY <1>1, <2>1, <3>2 DEF FillOf
    <3>3. CASE filling[k] # None
      BY <2>1, <3>1, <3>3 DEF FillOf
    <3> QED BY <3>2, <3>3
  <2>3. filling' = [filling EXCEPT ![k] = fill]
    BY <1>4
  <2>4. /\ row' = row /\ UNCHANGED queueVars /\ targets' = targets /\ watchers' = watchers
        /\ page' = page
    BY <1>4 DEF watchVars
  <2> HIDE DEF k, fill
  <2>5. WorldOK' /\ RowsMove
    BY <1>1, <1>2, <2>2, <2>3, <2>4 DEF WorldOK, RowsMove
  <2> QED BY <1>2, <2>4, <2>5, QueueStays, WatchStays DEF Good, IInv
<1> QED BY <1>3, <1>4 DEF Ask

LEMMA DescribeStep == ASSUME IInv, NEW s \in Session, Describe(s) PROVE Good
<1>1. /\ phase = "up" /\ phase' = phase /\ flagRow' = flagRow /\ flag' = flag /\ epoch' = epoch
      /\ \/ Ask(s, RoomTarget)
         \/ UNCHANGED <<textVars, queueVars, watchVars, page>>
  BY DEF Describe, Readable
<1>2. CASE Ask(s, RoomTarget)
  BY <1>1, <1>2, AskOK, UpgradeAssumption
<1>3. CASE UNCHANGED <<textVars, queueVars, watchVars, page>>
  BY <1>1, <1>3, QueueStays, WatchStays, WorldStays
     DEF IInv, Good, RowsMove, textVars, queueVars, watchVars
<1> QED BY <1>1, <1>2, <1>3

LEMMA TopicStep ==
  ASSUME IInv, NEW s \in Session, NEW t \in Target \ {RoomTarget}, AskTopic(s, t) PROVE Good
BY AskOK DEF AskTopic, Readable

LEMMA FillStep == ASSUME IInv, NEW k \in Key, FillSettles(k) PROVE Good
<1> DEFINE rows == IF row[k] = None
                   THEN [row EXCEPT ![k] = Row(filling[k].pre, filling[k].pre, "fallback")]
                   ELSE row
<1>1. /\ WorldOK /\ QueueOK /\ PagesOK /\ TrueRows(row) /\ EpochOK /\ TriesOK
      /\ PageOK(page, epoch) /\ WatchOK(watchers, page, epoch) /\ NoWatcherLeft
  BY DEF IInv, WorldOK, PagesOK, QueueOK
<1>2. /\ filling[k] # None /\ filling' = [filling EXCEPT ![k] = None]
      /\ phase' = phase /\ flagRow' = flagRow /\ flag' = flag /\ epoch' = epoch
      /\ \/ UNCHANGED <<row, queueVars, watchVars, page>>
         \/ row' = rows /\ Commit(Push(Queue, k, rows), rows, watchers, Delivered(Present(k), k, rows[k]))
              /\ UNCHANGED attempts
         \/ row' = rows /\ Deliver(Present(k), k, rows) /\ UNCHANGED attempts
  BY DEF FillSettles
<1>3. DOMAIN filling' = Key /\ \A j \in Key : filling'[j] \in {None} \cup FillOf(j)
  BY <1>1, <1>2 DEF WorldOK
<1>4. filling[k].pre = k[2]
  BY <1>1, <1>2 DEF WorldOK, FillOf
<1>5. \/ row[k] # None /\ rows = row
      \/ row[k] = None /\ rows = [row EXCEPT ![k] = Row(k[2], k[2], "fallback")]
  BY <1>4
<1> HIDE DEF rows
<1>6. /\ TrueRows(rows) /\ rows[k] # None
      /\ \A j \in Key : row[j] # None => rows[j] # None
      /\ \A j \in Key : Settled(rows[j]) => Settled(row[j])
  <2>1. CASE row[k] # None /\ rows = row
    BY <1>1, <2>1
  <2>2. CASE row[k] = None /\ rows = [row EXCEPT ![k] = Row(k[2], k[2], "fallback")]
    <3>1. Row(k[2], k[2], "fallback") # None /\ ~Settled(Row(k[2], k[2], "fallback"))
      BY DEF Row, None, Settled
    <3>2. /\ TrueRows(rows) /\ rows[k] = Row(k[2], k[2], "fallback")
          /\ \A j \in Key \ {k} : rows[j] = row[j]
          /\ \A j \in Key : row[j] # None => rows[j] # None
      BY <1>1, <2>2, WrittenTrue
    <3>3. \A j \in Key : Settled(rows[j]) => Settled(row[j])
      BY <3>1, <3>2
    <3> QED BY <3>1, <3>2, <3>3
  <2> QED BY <1>5, <2>1, <2>2
<1>7. ASSUME row' = rows PROVE WorldOK' /\ RowsMove
  BY <1>1, <1>2, <1>3, <1>5, <1>6, <1>7 DEF WorldOK, RowsMove
<1>8. CASE UNCHANGED <<row, queueVars, watchVars, page>>
  <2>1. WorldOK' /\ RowsMove
    BY <1>1, <1>2, <1>3, <1>8 DEF WorldOK, RowsMove
  <2> QED BY <1>1, <1>2, <1>8, <2>1, QueueStays, WatchStays DEF Good, IInv, watchVars
<1>9. CASE row' = rows /\ Commit(Push(Queue, k, rows), rows, watchers, Delivered(Present(k), k, rows[k]))
              /\ UNCHANGED attempts
  <2> DEFINE q == Push(Queue, k, rows)
  <2>1. InOrder(Queue, rows, attempts)
    BY <1>1, <1>6, QueueInOrder
  <2>2. InOrder(q, rows, attempts)
    BY <1>1, <1>6, <2>1, QueueFacts, PushInOrder
  <2>3. Present(k) \subseteq Session /\ \A s \in Present(k) : at[s]
    BY DEF Present
  <2>4. \A j \in Key \ OtherProcess : Settled(rows[j]) => watchers[j] = <<>>
    BY <1>1, <1>6 DEF NoWatcherLeft
  <2>5. Commit(q, rows, watchers, Delivered(Present(k), k, rows[k])) /\ row' = rows /\ attempts' = attempts
    BY <1>9
  <2> HIDE DEF q
  <2>6. QueueOK' /\ PagesOK' /\ LinesKept
    BY <1>1, <1>2, <1>6, <2>2, <2>3, <2>4, <2>5, HandedOver
  <2> QED BY <1>7, <1>9, <2>6 DEF Good, IInv
<1>10. CASE row' = rows /\ Deliver(Present(k), k, rows) /\ UNCHANGED attempts
  <2>1. Present(k) \subseteq Session /\ \A s \in Present(k) : at[s]
    BY DEF Present
  <2>2. QueueOK' /\ PagesOK' /\ LinesKept
    BY <1>1, <1>2, <1>6, <1>10, <2>1, DeliverOK
  <2> QED BY <1>7, <1>10, <2>2 DEF Good, IInv
<1> QED BY <1>2, <1>8, <1>9, <1>10

\* A flag that changes pushes the keys of its new value.
LEMMA SetFlagStep == ASSUME IInv, SetFlag PROVE Good
<1> DEFINE key(t) == <<t, Projected(t, flag')>>
           fill == {key(t) : t \in {u \in Pregenerated : row[key(u)] = None}}
           push == {key(t) : t \in {u \in Pregenerated : row[key(u)].source = "fallback"}}
           q == Pushed(Queue, SetToSeq(push), row)
<1>1. /\ WorldOK /\ QueueOK /\ PagesOK /\ TrueRows(row) /\ EpochOK /\ TriesOK
      /\ PageOK(page, epoch) /\ WatchOK(watchers, page, epoch) /\ NoWatcherLeft
  BY DEF IInv, WorldOK, PagesOK, QueueOK
<1>2. /\ phase = "up" /\ flag' = ~flag /\ flagRow' = flag' /\ phase' = phase /\ row' = row
      /\ attempts' = attempts /\ epoch' = epoch
      /\ filling' = [k \in Key |->
           IF k \notin fill THEN filling[k]
           ELSE IF filling[k] = None
           THEN [source |-> "fill", pre |-> k[2], readers |-> {}, enqueue |-> TRUE]
           ELSE [filling[k] EXCEPT !.enqueue = TRUE]]
      /\ Commit(q, row, watchers, page)
  BY DEF SetFlag
<1>3. Pregenerated \subseteq Target /\ flag' \in BOOLEAN
  BY <1>2, UpgradeAssumption DEF Pregenerated
<1>4. push \subseteq Key /\ \A k \in push : row[k].source = "fallback"
  BY <1>3, KeyOfIsKey
<1>5. IsFiniteSet(push)
  <2> HIDE DEF push
  <2> QED BY <1>4, KeyFacts, FS_Subset
<1> DEFINE list == SetToSeq(push)
<1>6. list \in Seq(Key) /\ \A i \in 1..Len(list) : row[list[i]].source = "fallback"
  <2> HIDE DEF push
  <2>1. list \in Seq(push) /\ \A i \in DOMAIN list : list[i] \in push
    BY <1>5, Listed
  <2> HIDE DEF list
  <2>2. Len(list) \in Nat /\ DOMAIN list = 1..Len(list)
    BY <2>1, LenProperties
  <2>3. list \in Seq(Key)
    BY <1>4, <2>1, <2>2, SeqDef
  <2> QED BY <1>4, <2>1, <2>2, <2>3
<1> HIDE DEF list, push
<1>7. Works(Queue, row, attempts) /\ Busy(Queue)
  BY <1>1, <1>2 DEF QueueOK
<1>8. Works(q, row, attempts) /\ Busy(q)
  <2> HIDE DEF list
  <2>1. Works(Pushed(Queue, list, row), row, attempts) /\ Busy(Pushed(Queue, list, row))
    BY <1>1, <1>6, <1>7, PushedWorks
  <2> QED BY <2>1 DEF list
<1>9. InOrder(q, row, attempts)
  BY <1>2, <1>8 DEF InOrder, Works
<1>10. attempts \in [Key -> 0..MaxAttempts]
  BY <1>1 DEF TriesOK
<1>11. \A j \in Key \ OtherProcess : Settled(row[j]) => watchers[j] = <<>> \/ j \in q.published
  BY <1>1 DEF NoWatcherLeft
<1> HIDE DEF q
<1>12. /\ QueueOK' /\ PagesOK'
       /\ \A s \in Session :
            /\ Cardinality(page'[s]) = Cardinality(page[s])
            /\ \A l \in page[s] : l \in page'[s] \/ [l EXCEPT !.source = "final"] \in page'[s]
  BY <1>1, <1>2, <1>9, <1>10, <1>11, QueueStep
<1>13. LinesKept
  BY <1>12, <1>1, PageFacts DEF LinesKept, LinesImprove, LinesComeInPlace
<1>14. \A k \in Key : filling'[k] \in {None} \cup FillOf(k)
  <2> SUFFICES ASSUME NEW k \in Key PROVE filling'[k] \in {None} \cup FillOf(k)
    OBVIOUS
  <2>1. filling[k] \in {None} \cup FillOf(k)
    BY <1>1 DEF WorldOK
  <2> HIDE DEF fill
  <2>2. CASE k \notin fill
    BY <1>2, <2>1, <2>2
  <2>3. CASE k \in fill /\ filling[k] = None
    <3>1. filling'[k] = [source |-> "fill", pre |-> k[2], readers |-> {}, enqueue |-> TRUE]
      BY <1>2, <2>3
    <3> QED BY <3>1 DEF FillOf
  <2>4. CASE k \in fill /\ filling[k] # None
    <3>1. filling'[k] = [filling[k] EXCEPT !.enqueue = TRUE]
      BY <1>2, <2>4
    <3> QED BY <2>1, <2>4, <3>1 DEF FillOf
  <2> QED BY <2>2, <2>3, <2>4
<1>15. WorldOK' /\ RowsMove
  <2> HIDE DEF fill
  <2>1. DOMAIN filling' = Key
    BY <1>2
  <2> QED BY <1>1, <1>2, <1>3, <1>14, <2>1 DEF WorldOK, RowsMove
<1> QED BY <1>12, <1>13, <1>15 DEF Good, IInv

LEMMA StutterStep == ASSUME IInv, UNCHANGED vars PROVE Good
BY QueueStays, WatchStays, WorldStays
   DEF IInv, vars, Good, RowsMove, textVars, queueVars, watchVars, readerVars

\* Every step keeps the invariant, the lines and the rows.
LEMMA StepIsGood == ASSUME IInv, [Next]_vars PROVE Good
<1>1. CASE SetFlag
  BY <1>1, SetFlagStep
<1>2. CASE SetFlagFails
  BY <1>2, StutterStep DEF SetFlagFails
<1>3. CASE Stop
  BY <1>3, StopStep
<1>4. CASE CloseDatabase
  BY <1>4, CloseStep
<1>5. CASE Boot
  BY <1>5, BootStep
<1>6. ASSUME NEW s \in Session, Enter(s) \/ Describe(s) \/ Walk(s) \/ Reload(s) PROVE Good
  BY <1>6, EnterStep, DescribeStep, WalkStep, ReloadStep
<1>7. ASSUME NEW s \in Session, NEW t \in Target \ {RoomTarget}, AskTopic(s, t) PROVE Good
  BY <1>7, TopicStep
<1>8. ASSUME NEW k \in Key, FillSettles(k) \/ JobEnds(k) \/ CooldownEnds(k) \/ Elsewhere(k) PROVE Good
  BY <1>8, FillStep, SucceedsStep, FailsStep, DroppedStep, CooldownStep, ElsewhereStep DEF JobEnds
<1>9. CASE UNCHANGED vars
  BY <1>9, StutterStep
<1> QED BY <1>1, <1>2, <1>3, <1>4, <1>5, <1>6, <1>7, <1>8, <1>9 DEF Next

\* The initial states satisfy the invariant.
LEMMA InitIsGood == ASSUME Init PROVE IInv
<1>1. WorldOK
  BY DEF Init, WorldOK, TrueRows
<1>2. QueueOK
  <2>1. Works(Queue, row, attempts) /\ Busy(Queue)
    BY BlankQueue DEF Init, Queue
  <2>2. attempts \in [Key -> 0..MaxAttempts]
    BY UpgradeAssumption DEF Init
  <2> QED BY <2>1, <2>2 DEF Init, QueueOK, TriesOK, Works
<1>3. PagesOK
  <2>1. EpochOK
    BY UpgradeAssumption DEF EpochOK, Init
  <2> QED BY <2>1, BlankPages, NoneWaits DEF Init, PagesOK, NoWatcherLeft
<1> QED BY <1>1, <1>2, <1>3 DEF IInv

\* The invariant holds in every behaviour of the text services (narration/queue.ts,
\* world/upgrade.ts, world/describe.ts), whatever stops, crashes or is written elsewhere.
THEOREM Inductive == Spec => []IInv
<1>1. IInv /\ [Next]_vars => IInv'
  BY StepIsGood DEF Good
<1> QED BY <1>1, InitIsGood, PTL DEF Spec

-----------------------------------------------------------------------------
(* The theorems.                                                           *)

\* It implies the two invariants that TLC checks.
LEMMA InvariantHolds == ASSUME IInv PROVE TextsAreTrue /\ QueueWorks
<1>1. /\ WorldOK /\ QueueOK /\ PagesOK
  BY DEF IInv
<1>2. ASSUME NEW k \in Key
      PROVE  /\ row[k] = None \/ row[k] \in [text : Value, pre : Value, source : Source]
             /\ row[k] # None => row[k].text = k[2] /\ row[k].pre = k[2]
  <2>1. row[k] \in {None, Row(k[2], k[2], "fallback"), Row(k[2], k[2], "final")}
    BY <1>1 DEF WorldOK, TrueRows
  <2>2. k[2] \in Value
    BY KeyFacts
  <2> QED BY <2>1, <2>2 DEF Row, Source
<1>3. \A k \in Key : filling[k] # None => filling[k].pre \in Value
  BY <1>1, KeyFacts DEF WorldOK, FillOf
<1>4. /\ queued \in Seq(Key) /\ running \in [Key -> Value \cup {Idle}]
      /\ attempts \in [Key -> 0..MaxAttempts] /\ cooling \subseteq Key /\ targets \subseteq Key
  BY <1>1 DEF QueueOK, Queue, Queues, TriesOK
<1>5. \A k \in Key : Len(watchers[k]) <= MaxWatchers
  BY <1>1 DEF PagesOK, WatchOK
<1>6. \A s \in Session : epoch[s] \in 0..MaxEpochs /\ \A l \in page[s] : LineOK(l)
  <2> SUFFICES ASSUME NEW s \in Session PROVE epoch[s] \in 0..MaxEpochs /\ \A l \in page[s] : LineOK(l)
    OBVIOUS
  <2>1. epoch[s] \in 0..MaxEpochs
    BY <1>1 DEF PagesOK, EpochOK
  <2>2. \A l \in page[s] : l \in LineOf(epoch[s], Cardinality(page[s]))
    BY <1>1, PageFacts DEF PagesOK
  <2> QED BY <2>1, <2>2 DEF LineOf, LineOK, Source
<1>7. TypeOK
  BY <1>1, <1>2, <1>3, <1>4, <1>5, <1>6 DEF TypeOK, WorldOK
<1>8. TextMatchesKey
  BY <1>2 DEF TextMatchesKey
<1>9. NoWatcherLeft
  BY <1>1 DEF PagesOK
<1>10. FlagsStored
  BY <1>1 DEF WorldOK, FlagsStored
<1>11. NoSlotIdle
  BY <1>1, QueueFacts DEF QueueOK, Busy, NoSlotIdle
<1>12. TargetsKnown
  <2> SUFFICES ASSUME phase = "up", NEW k \in Key, Active(k) PROVE k \in targets
    BY DEF TargetsKnown
  <2>1. Works(Queue, row, attempts)
    BY <1>1 DEF QueueOK
  <2>2. k \in ToSet(Queue.queued) \/ Queue.running[k] # Idle
    BY <1>1, QueueFacts DEF Active
  <2> QED BY <1>1, <2>1, <2>2, QueueFacts DEF Works
<1> QED BY <1>7, <1>8, <1>9, <1>10, <1>11, <1>12 DEF TextsAreTrue, QueueWorks

\* A stored sentence is of the state of the flags its key stands for, and nobody
\* waits for a replacement that was made (roomText.ts:60-66, upgrade.ts:125-139).
THEOREM TextsStayTrue == Spec => []TextsAreTrue
<1>1. IInv => TextsAreTrue
  BY InvariantHolds
<1> QED BY <1>1, Inductive, PTL

\* The queue never idles while keys wait, knows what each of its keys is for, and
\* works for flags that are stored (queue.ts:59-90, events.ts:92-96).
THEOREM QueueAlwaysWorks == Spec => []QueueWorks
<1>1. IInv => QueueWorks
  BY InvariantHolds
<1> QED BY <1>1, Inductive, PTL

\* A line on a page is printed where its reader stands, and then only gives way to
\* the final sentence of the same state (handlers.ts:119-125, upgrade.ts:229-244).
THEOREM PagesKeepTheirLines == Spec => LinesKeepTheirPlace
<1>1. IInv /\ [Next]_vars => LinesImprove /\ LinesComeInPlace
  BY StepIsGood DEF Good, LinesKept
<1> QED BY <1>1, Inductive, PTL DEF Spec, LinesKeepTheirPlace

\* The services implement Canon: a sentence is written once and replaced at most
\* once, whatever stops or restarts (roomText.ts:72, upgrade.ts:157-176).
THEOREM ServicesImplementCanon == Spec => WrittenOnce
<1> DEFINE state == [k \in Key |-> row[k].source]
<1>1. Init => RowSources!Init
  BY DEF Init, RowSources!Init, None
<1>2. ASSUME IInv, [Next]_vars PROVE RowSources!Next \/ state' = state
  <2>1. RowsMove /\ TrueRows(row)
    BY <1>2, StepIsGood DEF Good, IInv, WorldOK
  <2>2. CASE row' = row
    BY <2>2
  <2>3. ASSUME NEW k \in Key, row[k] = None, row' = [row EXCEPT ![k] = Row(k[2], k[2], "fallback")]
        PROVE  RowSources!Next
    <3>1. state[k] = "none"
      BY <2>3 DEF None
    <3>2. state' = [state EXCEPT ![k] = "fallback"]
      BY <2>1, <2>3 DEF TrueRows, Row
    <3> QED BY <3>1, <3>2 DEF RowSources!Next, RowSources!Provisional
  <2>4. ASSUME NEW k \in Key, ~Settled(row[k]), row' = [row EXCEPT ![k] = Row(k[2], k[2], "final")]
        PROVE  RowSources!Next
    <3>1. state[k] # "final"
      BY <2>4 DEF Settled
    <3>2. state' = [state EXCEPT ![k] = "final"]
      BY <2>1, <2>4 DEF TrueRows, Row
    <3> QED BY <3>1, <3>2 DEF RowSources!Next, RowSources!Final
  <2> QED BY <2>1, <2>2, <2>3, <2>4 DEF RowsMove
<1>3. IInv /\ [Next]_vars => [RowSources!Next]_state
  BY <1>2
<1> HIDE DEF state
<1> QED BY <1>1, <1>3, Inductive, PTL DEF Spec, WrittenOnce, RowSources!Spec, state
=============================================================================
