---------------------------- MODULE StoredProofs ----------------------------
(* What the database holds and who works on its file.                      *)
(*   What players own and have done, for every number of players, items,   *)
(* missions and ranks, and whichever statement of a handler fails: the     *)
(* rows, the sessions' copies and the pages agree (Copies), and the ledger *)
(* of what came in and went out explains what is there (Books).  A         *)
(* transaction and a sum are recursive functions over the naturals, which  *)
(* the first section unfolds step by step.                                 *)
(*   The file, whichever processes boot on it, copy it and restore it, and *)
(* wherever they die (KeepInv).  The run of the tool that writes the first *)
(* sentences, in whichever order its answers come (PreInv).                *)
EXTENDS Stored, FiniteSetTheorems, SequenceTheorems, TLAPS

-----------------------------------------------------------------------------
(* Numbers, sums and statements one after another.                         *)

\* A set of naturals that is not empty has a least element.
LEMMA NatLeast ==
  ASSUME NEW S, S \subseteq Nat, S # {}
  PROVE  \E m \in S : \A n \in S : m <= n
<1>1. PICK m \in S : \A n \in S : <<n, m>> \notin OpToRel(<, Nat)
  BY NatLessThanWellFounded, WFMin
<1>2. ASSUME NEW n \in S PROVE m <= n
  <2>1. <<n, m>> \in Nat \X Nat
    OBVIOUS
  <2>2. ~(n < m)
    BY <1>1, <2>1 DEF OpToRel
  <2> QED BY <2>2
<1> QED BY <1>2

\* Induction, with the set of those of whom the claim holds.
LEMMA Induct ==
  ASSUME NEW S, 0 \in S, NEW n \in Nat, \A k \in 0..(n - 1) : k \in S => k + 1 \in S
  PROVE  0..n \subseteq S
<1> DEFINE bad == {k \in 0..n : k \notin S}
<1>1. SUFFICES ASSUME bad # {} PROVE FALSE
  OBVIOUS
<1>2. PICK m \in bad : \A k \in bad : m <= k
  <2>1. bad \subseteq Nat
    OBVIOUS
  <2> HIDE DEF bad
  <2> QED BY <1>1, <2>1, NatLeast
<1>3. m \in 0..n /\ m \notin S /\ m # 0
  BY <1>2
<1>4. m - 1 \in 0..(n - 1) /\ m - 1 \in 0..n /\ (m - 1) + 1 = m /\ ~(m <= m - 1)
  BY <1>3
<1>5. m - 1 \in S
  BY <1>2, <1>4
<1> QED BY <1>3, <1>4, <1>5

\* f is the run of the first m statements of ss on d.
Ran(f, d, ss, m) == f = [i \in 0..m |-> IF i = 0 THEN d ELSE Effect(f[i - 1], ss[i])]

\* Such a run exists for every n.
LEMMA RanExists ==
  ASSUME NEW d, NEW ss, NEW n \in Nat
  PROVE  \E f : Ran(f, d, ss, n)
<1> DEFINE S == {m \in Nat : \E f : Ran(f, d, ss, m)}
<1>1. 0 \in S
  <2>1. Ran([i \in 0..0 |-> d], d, ss, 0)
    BY DEF Ran
  <2> QED BY <2>1
<1>2. ASSUME NEW m \in 0..(n - 1), m \in S PROVE m + 1 \in S
  <2>1. PICK g : Ran(g, d, ss, m)
    BY <1>2
  <2> DEFINE f == [i \in 0..(m + 1) |-> IF i = m + 1 THEN Effect(g[m], ss[m + 1]) ELSE g[i]]
  <2>2. \A i \in 0..(m + 1) : f[i] = IF i = 0 THEN d ELSE Effect(f[i - 1], ss[i])
    <3>1. \A i \in 0..m : g[i] = IF i = 0 THEN d ELSE Effect(g[i - 1], ss[i])
      BY <2>1 DEF Ran
    <3>2. \A i \in 0..m : f[i] = g[i]
      BY <1>2
    <3>3. \A i \in 0..(m + 1) : i = m + 1 \/ i \in 0..m
      BY <1>2
    <3>4. \A i \in 0..(m + 1) : i # 0 => i - 1 \in 0..m
      BY <1>2
    <3>5. f[m + 1] = Effect(g[m], ss[m + 1]) /\ m + 1 # 0 /\ (m + 1) - 1 = m /\ m \in 0..m
      BY <1>2
    <3> HIDE DEF f
    <3> QED BY <3>1, <3>2, <3>3, <3>4, <3>5
  <2>3. f = [i \in 0..(m + 1) |-> f[i]]
    OBVIOUS
  <2> HIDE DEF f
  <2>4. Ran(f, d, ss, m + 1)
    BY <2>2, <2>3 DEF Ran
  <2> QED BY <1>2, <2>4
<1>3. 0..n \subseteq S
  <2> HIDE DEF S
  <2> QED BY <1>1, <1>2, Induct
<1> QED BY <1>3

\* A longer run begins with the shorter one.
LEMMA RanAgree ==
  ASSUME NEW d, NEW ss, NEW n \in Nat, NEW f, Ran(f, d, ss, n), NEW g, Ran(g, d, ss, n + 1)
  PROVE  f[n] = g[n]
<1> DEFINE S == {m \in Nat : m <= n => f[m] = g[m]}
<1>1. \A i \in 0..n : f[i] = IF i = 0 THEN d ELSE Effect(f[i - 1], ss[i])
  BY DEF Ran
<1>2. \A i \in 0..(n + 1) : g[i] = IF i = 0 THEN d ELSE Effect(g[i - 1], ss[i])
  BY DEF Ran
<1>3. 0 \in S
  BY <1>1, <1>2
<1>4. ASSUME NEW m \in 0..(n - 1), m \in S PROVE m + 1 \in S
  <2>1. m \in Nat /\ m + 1 \in 0..n /\ m + 1 \in 0..(n + 1) /\ m + 1 # 0 /\ (m + 1) - 1 = m /\ f[m] = g[m]
    BY <1>4
  <2>2. f[m + 1] = g[m + 1]
    BY <1>1, <1>2, <2>1
  <2> QED BY <2>1, <2>2
<1>5. 0..n \subseteq S
  <2> HIDE DEF S
  <2> QED BY <1>3, <1>4, Induct
<1> QED BY <1>5

\* Statements are executed one after another.
LEMMA AfterIs ==
  ASSUME NEW d, NEW ss
  PROVE  /\ After(d, ss, 0) = d
         /\ \A n \in Nat : After(d, ss, n + 1) = Effect(After(d, ss, n), ss[n + 1])
<1> DEFINE Long(f) == f = [i \in Nat |-> IF i = 0 THEN d ELSE Effect(f[i - 1], ss[i])]
           run(m) == CHOOSE f : Ran(f, d, ss, m)
           whole == [m \in Nat |-> run(m)[m]]
<1>1. \A m \in Nat : Ran(run(m), d, ss, m)
  BY RanExists
<1>2. \A m \in Nat : run(m)[m] = IF m = 0 THEN d ELSE Effect(run(m)[m - 1], ss[m])
  <2> SUFFICES ASSUME NEW m \in Nat PROVE run(m)[m] = IF m = 0 THEN d ELSE Effect(run(m)[m - 1], ss[m])
    OBVIOUS
  <2>1. Ran(run(m), d, ss, m) /\ m \in 0..m
    BY <1>1
  <2> HIDE DEF run
  <2> QED BY <2>1 DEF Ran
<1>3. \A m \in Nat : m # 0 => run(m)[m - 1] = run(m - 1)[m - 1]
  <2> SUFFICES ASSUME NEW m \in Nat, m # 0 PROVE run(m)[m - 1] = run(m - 1)[m - 1]
    OBVIOUS
  <2>1. m - 1 \in Nat /\ (m - 1) + 1 = m
    OBVIOUS
  <2>2. Ran(run(m), d, ss, m) /\ Ran(run(m - 1), d, ss, m - 1)
    BY <1>1, <2>1
  <2> HIDE DEF run
  <2> QED BY <2>1, <2>2, RanAgree
<1>4. Long(whole)
  <2> HIDE DEF run
  <2>1. \A m \in Nat : whole[m] = IF m = 0 THEN d ELSE Effect(whole[m - 1], ss[m])
    BY <1>2, <1>3
  <2>2. whole = [m \in Nat |-> whole[m]]
    OBVIOUS
  <2> HIDE DEF whole
  <2> QED BY <2>1, <2>2
<1> DEFINE after == CHOOSE f : Long(f)
<1>5. Long(after)
  BY <1>4
<1>6. \A n \in Nat : After(d, ss, n) = after[n]
  BY DEF After
<1> HIDE DEF after
<1>7. after[0] = d /\ \A n \in Nat : after[n + 1] = Effect(after[n], ss[n + 1])
  <2>1. \A i \in Nat : after[i] = IF i = 0 THEN d ELSE Effect(after[i - 1], ss[i])
    BY <1>5
  <2>2. \A n \in Nat : n + 1 \in Nat /\ n + 1 # 0 /\ (n + 1) - 1 = n
    OBVIOUS
  <2> QED BY <2>1, <2>2
<1> QED BY <1>6, <1>7

\* f[i] is the sum of the first i of v.
Summed(f, v, m) == f = [i \in 0..m |-> IF i = 0 THEN 0 ELSE f[i - 1] + v[i]]

\* Such an f exists for every n.
LEMMA SummedExists ==
  ASSUME NEW v, NEW n \in Nat
  PROVE  \E f : Summed(f, v, n)
<1> DEFINE S == {m \in Nat : \E f : Summed(f, v, m)}
<1>1. 0 \in S
  <2>1. Summed([i \in 0..0 |-> 0], v, 0)
    BY DEF Summed
  <2> QED BY <2>1
<1>2. ASSUME NEW m \in 0..(n - 1), m \in S PROVE m + 1 \in S
  <2>1. PICK g : Summed(g, v, m)
    BY <1>2
  <2> DEFINE f == [i \in 0..(m + 1) |-> IF i = m + 1 THEN g[m] + v[m + 1] ELSE g[i]]
  <2>2. \A i \in 0..(m + 1) : f[i] = IF i = 0 THEN 0 ELSE f[i - 1] + v[i]
    <3>1. \A i \in 0..m : g[i] = IF i = 0 THEN 0 ELSE g[i - 1] + v[i]
      BY <2>1 DEF Summed
    <3>2. \A i \in 0..m : f[i] = g[i]
      BY <1>2
    <3>3. \A i \in 0..(m + 1) : i = m + 1 \/ i \in 0..m
      BY <1>2
    <3>4. \A i \in 0..(m + 1) : i # 0 => i - 1 \in 0..m
      BY <1>2
    <3>5. f[m + 1] = g[m] + v[m + 1] /\ m + 1 # 0 /\ (m + 1) - 1 = m /\ m \in 0..m
      BY <1>2
    <3> HIDE DEF f
    <3> QED BY <3>1, <3>2, <3>3, <3>4, <3>5
  <2>3. f = [i \in 0..(m + 1) |-> f[i]]
    OBVIOUS
  <2> HIDE DEF f
  <2>4. Summed(f, v, m + 1)
    BY <2>2, <2>3 DEF Summed
  <2> QED BY <1>2, <2>4
<1>3. 0..n \subseteq S
  <2> HIDE DEF S
  <2> QED BY <1>1, <1>2, Induct
<1> QED BY <1>3

\* Longer sums begin with the shorter ones.
LEMMA SummedAgree ==
  ASSUME NEW v, NEW n \in Nat, NEW f, Summed(f, v, n), NEW g, Summed(g, v, n + 1)
  PROVE  f[n] = g[n]
<1> DEFINE S == {m \in Nat : m <= n => f[m] = g[m]}
<1>1. \A i \in 0..n : f[i] = IF i = 0 THEN 0 ELSE f[i - 1] + v[i]
  BY DEF Summed
<1>2. \A i \in 0..(n + 1) : g[i] = IF i = 0 THEN 0 ELSE g[i - 1] + v[i]
  BY DEF Summed
<1>3. 0 \in S
  BY <1>1, <1>2
<1>4. ASSUME NEW m \in 0..(n - 1), m \in S PROVE m + 1 \in S
  <2>1. m \in Nat /\ m + 1 \in 0..n /\ m + 1 \in 0..(n + 1) /\ m + 1 # 0 /\ (m + 1) - 1 = m /\ f[m] = g[m]
    BY <1>4
  <2>2. f[m + 1] = g[m + 1]
    BY <1>1, <1>2, <2>1
  <2> QED BY <2>1, <2>2
<1>5. 0..n \subseteq S
  <2> HIDE DEF S
  <2> QED BY <1>3, <1>4, Induct
<1> QED BY <1>5

\* A sum is added up one number after another.
LEMMA SumIs ==
  ASSUME NEW v
  PROVE  /\ SumTo(v, 0) = 0
         /\ \A n \in Nat : SumTo(v, n + 1) = SumTo(v, n) + v[n + 1]
<1> DEFINE Long(f) == f = [i \in Nat |-> IF i = 0 THEN 0 ELSE f[i - 1] + v[i]]
           run(m) == CHOOSE f : Summed(f, v, m)
           whole == [m \in Nat |-> run(m)[m]]
<1>1. \A m \in Nat : Summed(run(m), v, m)
  BY SummedExists
<1>2. \A m \in Nat : run(m)[m] = IF m = 0 THEN 0 ELSE run(m)[m - 1] + v[m]
  <2> SUFFICES ASSUME NEW m \in Nat PROVE run(m)[m] = IF m = 0 THEN 0 ELSE run(m)[m - 1] + v[m]
    OBVIOUS
  <2>1. Summed(run(m), v, m) /\ m \in 0..m
    BY <1>1
  <2> HIDE DEF run
  <2> QED BY <2>1 DEF Summed
<1>3. \A m \in Nat : m # 0 => run(m)[m - 1] = run(m - 1)[m - 1]
  <2> SUFFICES ASSUME NEW m \in Nat, m # 0 PROVE run(m)[m - 1] = run(m - 1)[m - 1]
    OBVIOUS
  <2>1. m - 1 \in Nat /\ (m - 1) + 1 = m
    OBVIOUS
  <2>2. Summed(run(m), v, m) /\ Summed(run(m - 1), v, m - 1)
    BY <1>1, <2>1
  <2> HIDE DEF run
  <2> QED BY <2>1, <2>2, SummedAgree
<1>4. Long(whole)
  <2> HIDE DEF run
  <2>1. \A m \in Nat : whole[m] = IF m = 0 THEN 0 ELSE whole[m - 1] + v[m]
    BY <1>2, <1>3
  <2>2. whole = [m \in Nat |-> whole[m]]
    OBVIOUS
  <2> HIDE DEF whole
  <2> QED BY <2>1, <2>2
<1> DEFINE sums == CHOOSE f : Long(f)
<1>5. Long(sums)
  BY <1>4
<1>6. \A n \in Nat : SumTo(v, n) = sums[n]
  BY DEF SumTo
<1> HIDE DEF sums
<1>7. sums[0] = 0 /\ \A n \in Nat : sums[n + 1] = sums[n] + v[n + 1]
  <2>1. \A i \in Nat : sums[i] = IF i = 0 THEN 0 ELSE sums[i - 1] + v[i]
    BY <1>5
  <2>2. \A n \in Nat : n + 1 \in Nat /\ n + 1 # 0 /\ (n + 1) - 1 = n
    OBVIOUS
  <2> QED BY <2>1, <2>2
<1> QED BY <1>6, <1>7
-----------------------------------------------------------------------------
(* Sums and lists.                                                         *)

\* A sum of naturals is a natural.
LEMMA SumNat ==
  ASSUME NEW v, NEW n \in Nat, \A k \in 1..n : v[k] \in Nat
  PROVE  SumTo(v, n) \in Nat
<1> DEFINE S == {m \in Nat : SumTo(v, m) \in Nat}
<1>1. 0 \in S
  BY SumIs
<1>2. ASSUME NEW m \in 0..(n - 1), m \in S PROVE m + 1 \in S
  <2>1. m \in Nat /\ m + 1 \in 1..n /\ SumTo(v, m + 1) = SumTo(v, m) + v[m + 1]
    BY <1>2, SumIs
  <2> QED BY <1>2, <2>1
<1>3. 0..n \subseteq S
  <2> HIDE DEF S
  <2> QED BY <1>1, <1>2, Induct
<1> QED BY <1>3

\* Sums of the same numbers are the same.
LEMMA SumSame ==
  ASSUME NEW u, NEW v, NEW n \in Nat, \A k \in 1..n : u[k] = v[k]
  PROVE  SumTo(u, n) = SumTo(v, n)
<1> DEFINE S == {m \in Nat : SumTo(u, m) = SumTo(v, m)}
<1>1. 0 \in S
  BY SumIs
<1>2. ASSUME NEW m \in 0..(n - 1), m \in S PROVE m + 1 \in S
  <2>1. /\ m \in Nat /\ m + 1 \in 1..n /\ SumTo(v, m + 1) = SumTo(v, m) + v[m + 1]
        /\ SumTo(u, m + 1) = SumTo(u, m) + u[m + 1]
    BY <1>2, SumIs
  <2> QED BY <1>2, <2>1
<1>3. 0..n \subseteq S
  <2> HIDE DEF S
  <2> QED BY <1>1, <1>2, Induct
<1> QED BY <1>3

\* Nothing but zeros sums up to zero.
LEMMA SumZero ==
  ASSUME NEW v, NEW n \in Nat, \A k \in 1..n : v[k] = 0
  PROVE  SumTo(v, n) = 0
<1> DEFINE S == {m \in Nat : SumTo(v, m) = 0}
<1>1. 0 \in S
  BY SumIs
<1>2. ASSUME NEW m \in 0..(n - 1), m \in S PROVE m + 1 \in S
  <2>1. m \in Nat /\ m + 1 \in 1..n /\ SumTo(v, m + 1) = SumTo(v, m) + v[m + 1]
    BY <1>2, SumIs
  <2> QED BY <1>2, <2>1
<1>3. 0..n \subseteq S
  <2> HIDE DEF S
  <2> QED BY <1>1, <1>2, Induct
<1> QED BY <1>3

\* b becomes c while e becomes f and s becomes t: entries of 1..n, in balance.
Even(b, e, s, c, f, t, n) ==
  \A k \in 1..n : /\ {b[k], e[k], s[k], c[k], f[k], t[k]} \subseteq Nat
                  /\ c[k] = b[k] + (f[k] - e[k]) - (t[k] - s[k])

\* What comes in and goes out is what changes, summed up as well.
LEMMA SumBalance ==
  ASSUME NEW n \in Nat, NEW b, NEW e, NEW s, NEW c, NEW f, NEW t, Even(b, e, s, c, f, t, n)
  PROVE  SumTo(b, n) = SumTo(e, n) - SumTo(s, n) => SumTo(c, n) = SumTo(f, n) - SumTo(t, n)
<1> DEFINE Kept(m) ==
      /\ {SumTo(b, m), SumTo(e, m), SumTo(s, m), SumTo(c, m), SumTo(f, m), SumTo(t, m)} \subseteq Nat
      /\ SumTo(c, m) = SumTo(b, m) + (SumTo(f, m) - SumTo(e, m)) - (SumTo(t, m) - SumTo(s, m))
    S == {m \in Nat : Kept(m)}
<1>1. 0 \in S
  <2>1. /\ SumTo(b, 0) = 0 /\ SumTo(e, 0) = 0 /\ SumTo(s, 0) = 0
        /\ SumTo(c, 0) = 0 /\ SumTo(f, 0) = 0 /\ SumTo(t, 0) = 0
    BY SumIs
  <2> QED BY <2>1
<1>2. ASSUME NEW m \in 0..(n - 1), m \in S PROVE m + 1 \in S
  <2>1. m \in Nat /\ m + 1 \in 1..n
    BY <1>2
  <2>2. /\ SumTo(b, m + 1) = SumTo(b, m) + b[m + 1] /\ SumTo(c, m + 1) = SumTo(c, m) + c[m + 1]
        /\ SumTo(e, m + 1) = SumTo(e, m) + e[m + 1] /\ SumTo(f, m + 1) = SumTo(f, m) + f[m + 1]
        /\ SumTo(s, m + 1) = SumTo(s, m) + s[m + 1] /\ SumTo(t, m + 1) = SumTo(t, m) + t[m + 1]
    BY <2>1, SumIs
  <2>3. /\ {b[m + 1], e[m + 1], s[m + 1], c[m + 1], f[m + 1], t[m + 1]} \subseteq Nat
        /\ c[m + 1] = b[m + 1] + (f[m + 1] - e[m + 1]) - (t[m + 1] - s[m + 1])
    BY <2>1 DEF Even
  <2>4. Kept(m)
    BY <1>2
  <2>5. Kept(m + 1)
    BY <2>2, <2>3, <2>4
  <2> QED BY <2>1, <2>5
<1>3. 0..n \subseteq S
  <2> HIDE DEF S
  <2> QED BY <1>1, <1>2, Induct
<1>4. Kept(n)
  BY <1>3
<1> QED BY <1>4

\* w is v with one moved from the j-th to the k-th of n.
OneMoves(v, w, j, k, n) ==
  /\ \A i \in 1..n : v[i] \in Nat /\ w[i] \in Nat
  /\ w[j] = v[j] - 1 /\ w[k] = v[k] + 1 /\ \A i \in (1..n) \ {j, k} : w[i] = v[i]

\* What moves from one place to another stays in the sum.
LEMMA SumMoves ==
  ASSUME NEW n \in Nat, NEW v, NEW w, NEW j \in 1..n, NEW k \in 1..n, j # k, OneMoves(v, w, j, k, n)
  PROVE  SumTo(w, n) = SumTo(v, n)
<1>0. /\ \A i \in 1..n : v[i] \in Nat /\ w[i] \in Nat
      /\ w[j] = v[j] - 1 /\ w[k] = v[k] + 1 /\ \A i \in (1..n) \ {j, k} : w[i] = v[i]
  BY DEF OneMoves
<1> DEFINE Moved(m) == /\ {SumTo(v, m), SumTo(w, m)} \subseteq Nat
                       /\ SumTo(w, m) = SumTo(v, m) - (IF j <= m THEN 1 ELSE 0) + (IF k <= m THEN 1 ELSE 0)
           S == {m \in Nat : Moved(m)}
<1>1. 0 \in S
  <2>1. SumTo(v, 0) = 0 /\ SumTo(w, 0) = 0 /\ ~(j <= 0) /\ ~(k <= 0)
    BY SumIs
  <2> QED BY <2>1
<1>2. ASSUME NEW m \in 0..(n - 1), m \in S PROVE m + 1 \in S
  <2>1. m \in Nat /\ m + 1 \in 1..n
    BY <1>2
  <2>2. /\ SumTo(v, m + 1) = SumTo(v, m) + v[m + 1] /\ SumTo(w, m + 1) = SumTo(w, m) + w[m + 1]
    BY <2>1, SumIs
  <2>3. v[m + 1] \in Nat /\ w[m + 1] \in Nat /\ Moved(m)
    BY <1>0, <1>2, <2>1
  <2>6. SumTo(w, m + 1) \in Nat /\ SumTo(v, m + 1) \in Nat
    BY <2>2, <2>3
  <2>4. CASE m + 1 \in {j, k}
    BY <1>0, <2>1, <2>2, <2>3, <2>4, <2>6
  <2>5. CASE m + 1 \notin {j, k}
    <3>1. w[m + 1] = v[m + 1]
      BY <1>0, <2>1, <2>5
    <3> QED BY <2>1, <2>2, <2>3, <2>5, <2>6, <3>1
  <2> QED BY <2>1, <2>4, <2>5
<1>3. 0..n \subseteq S
  <2> HIDE DEF S
  <2> QED BY <1>1, <1>2, Induct
<1>4. Moved(n)
  BY <1>3
<1> QED BY <1>4

\* order lists the members of S, each once.
Lists(order, S) ==
  /\ Len(order) \in Nat /\ DOMAIN order = 1..Len(order)
  /\ \A k \in 1..Len(order) : order[k] \in S
  /\ \A j, k \in 1..Len(order) : order[j] = order[k] => j = k
  /\ \A x \in S : \E k \in 1..Len(order) : order[k] = x

\* A finite set can be listed.
LEMMA Listed ==
  ASSUME NEW S, IsFiniteSet(S)
  PROVE  SetToSeq(S) \in Seq(S) /\ Lists(SetToSeq(S), S)
<1>1. PICK n \in Nat : n = Cardinality(S)
  BY FS_CardinalityType
<1>2. PICK f \in Bijection(1..n, S) : TRUE
  BY <1>1, FS_CardinalityType DEF ExistsBijection
<1>3. f \in [1..n -> S] /\ IsInjective(f)
  BY <1>2 DEF Bijection, Injection, IsInjective
<1>4. PICK order : order = SetToSeq(S)
  OBVIOUS
<1>5. order \in [1..n -> S] /\ IsInjective(order)
  BY <1>1, <1>3, <1>4 DEF SetToSeq
<1>6. order \in Injection(1..n, S)
  BY <1>5 DEF Injection, IsInjective
<1>7. IsFiniteSet(1..n) /\ Cardinality(1..n) = n
  BY FS_Interval
<1>8. order \in Surjection(1..n, S)
  BY <1>1, <1>6, <1>7, FS_Injection
<1>9. order \in Seq(S) /\ Len(order) = n /\ DOMAIN order = 1..n
  BY <1>5, SeqDef, LenProperties
<1>10. Lists(order, S)
  BY <1>5, <1>8, <1>9 DEF Lists, Surjection, IsInjective
<1> QED BY <1>4, <1>9, <1>10

-----------------------------------------------------------------------------
(* The rows.                                                               *)

MissionRow == [taken : BOOLEAN, progress : Nat, done : BOOLEAN]
Rows == [bag : [Player -> [Item -> Nat]], mission : [Player -> [Mission -> MissionRow]],
         rank : [Player -> Ranks], hurt : [Player -> BOOLEAN]]

\* e is d but for the bags.
SameBut(e, d) == e \in Rows /\ e.mission = d.mission /\ e.rank = d.rank /\ e.hurt = d.hurt

\* Rows are of their types, entry for entry.
LEMMA RowTypes ==
  ASSUME NEW d \in Rows, NEW p \in Player
  PROVE  /\ d.bag \in [Player -> [Item -> Nat]] /\ d.bag[p] \in [Item -> Nat]
         /\ d.mission \in [Player -> [Mission -> MissionRow]] /\ d.mission[p] \in [Mission -> MissionRow]
         /\ d.rank[p] \in Ranks /\ d.hurt[p] \in BOOLEAN
BY DEF Rows

\* e is d with n of i put in p's bag.
Added(e, d, p, i, n) ==
  /\ SameBut(e, d)
  /\ e.bag = [d.bag EXCEPT ![p] = [d.bag[p] EXCEPT ![i] = d.bag[p][i] + n]]

\* What addItem does to the rows.
LEMMA AddIs ==
  ASSUME NEW d \in Rows, NEW p \in Player, NEW i \in Item, NEW n \in Nat
  PROVE  Added(Effect(d, Add(p, i, n)), d, p, i, n)
<1> DEFINE e == Effect(d, Add(p, i, n))
<1>1. e = [d EXCEPT !.bag = [d.bag EXCEPT ![p] = [d.bag[p] EXCEPT ![i] = d.bag[p][i] + n]]]
  BY DEF Effect, Add, Rows
<1>2. e.bag = [d.bag EXCEPT ![p] = [d.bag[p] EXCEPT ![i] = d.bag[p][i] + n]]
  BY <1>1 DEF Rows
<1>3. e.bag \in [Player -> [Item -> Nat]]
  BY <1>2, RowTypes
<1>4. SameBut(e, d)
  BY <1>1, <1>3 DEF SameBut, Rows
<1> HIDE DEF e
<1>5. Added(e, d, p, i, n)
  BY <1>2, <1>4 DEF Added
<1> QED BY <1>5 DEF e

\* e is d with up to n of i taken from p's bag.
Taken(e, d, p, i, n) ==
  /\ SameBut(e, d)
  /\ e.bag = [d.bag EXCEPT ![p] = [d.bag[p] EXCEPT ![i] =
                IF d.bag[p][i] > n THEN d.bag[p][i] - n ELSE 0]]

\* What consumeItem, spendItemAll and spendItemSome do.
LEMMA SpendIs ==
  ASSUME NEW d \in Rows, NEW p \in Player, NEW i \in Item, NEW n \in Nat
  PROVE  Taken(Effect(d, Spend(p, i, n)), d, p, i, n)
<1> DEFINE e == Effect(d, Spend(p, i, n))
<1>1. e = [d EXCEPT !.bag = [d.bag EXCEPT ![p] = [d.bag[p] EXCEPT ![i] =
             IF d.bag[p][i] > n THEN d.bag[p][i] - n ELSE 0]]]
  BY DEF Effect, Spend, Rows
<1>2. e.bag = [d.bag EXCEPT ![p] = [d.bag[p] EXCEPT ![i] = IF d.bag[p][i] > n THEN d.bag[p][i] - n ELSE 0]]
  BY <1>1 DEF Rows
<1>3. e.bag \in [Player -> [Item -> Nat]]
  BY <1>2, RowTypes
<1>4. SameBut(e, d)
  BY <1>1, <1>3 DEF SameBut, Rows
<1> HIDE DEF e
<1>5. Taken(e, d, p, i, n)
  BY <1>2, <1>4 DEF Taken
<1> QED BY <1>5 DEF e

\* What completeMission does.
LEMMA CompleteIs ==
  ASSUME NEW d \in Rows, NEW p \in Player, NEW m \in Mission
  PROVE  LET e == Effect(d, Complete(p, m))
         IN  /\ e \in Rows /\ e.bag = d.bag /\ e.rank = d.rank /\ e.hurt = d.hurt
             /\ e.mission = [d.mission EXCEPT ![p] = [d.mission[p] EXCEPT ![m] =
                               [d.mission[p][m] EXCEPT !.done = TRUE]]]
<1> DEFINE e == Effect(d, Complete(p, m))
           after == [d.mission EXCEPT ![p] = [d.mission[p] EXCEPT ![m] =
                       [d.mission[p][m] EXCEPT !.done = TRUE]]]
<1>1. e = [d EXCEPT !.mission = after]
  BY DEF Effect, Complete, Rows
<1>2. [d.mission[p][m] EXCEPT !.done = TRUE] \in MissionRow
  <2>1. d.mission[p][m] \in MissionRow
    BY RowTypes
  <2> QED BY <2>1 DEF MissionRow
<1>3. after \in [Player -> [Mission -> MissionRow]]
  BY <1>2, RowTypes
<1> HIDE DEF after
<1>4. e \in Rows /\ e.bag = d.bag /\ e.rank = d.rank /\ e.hurt = d.hurt /\ e.mission = after
  BY <1>1, <1>3 DEF Rows
<1> QED BY <1>4 DEF after

\* What promotePlayer does to a rank below the new one.
LEMMA PromotionIs ==
  ASSUME NEW d \in Rows, NEW p \in Player, NEW r \in Ranks, d.rank[p] < r
  PROVE  LET e == Effect(d, Promotion(p, r))
         IN  /\ e \in Rows /\ e.bag = d.bag /\ e.mission = d.mission /\ e.hurt = d.hurt
             /\ e.rank = [d.rank EXCEPT ![p] = r] /\ Touches(d, Promotion(p, r))
<1> DEFINE e == Effect(d, Promotion(p, r))
<1>1. ~(d.rank[p] > r)
  BY RowTypes DEF Ranks
<1>2. e = [d EXCEPT !.rank = [d.rank EXCEPT ![p] = r]]
  BY <1>1 DEF Effect, Promotion, Rows
<1>3. Touches(d, Promotion(p, r))
  BY DEF Touches, Promotion
<1>4. [d.rank EXCEPT ![p] = r] \in [Player -> Ranks]
  BY DEF Rows
<1>5. /\ e \in Rows /\ e.bag = d.bag /\ e.mission = d.mission /\ e.hurt = d.hurt
      /\ e.rank = [d.rank EXCEPT ![p] = r]
  BY <1>2, <1>4 DEF Rows
<1> QED BY <1>3, <1>5

\* What setPlayerHp does after a potion.
LEMMA HealIs ==
  ASSUME NEW d \in Rows, NEW p \in Player, NEW left \in BOOLEAN
  PROVE  LET e == Effect(d, Heal(p, left))
         IN  /\ e \in Rows /\ e.bag = d.bag /\ e.mission = d.mission /\ e.rank = d.rank
             /\ e.hurt = [d.hurt EXCEPT ![p] = left] /\ Touches(d, Heal(p, left))
<1> DEFINE e == Effect(d, Heal(p, left))
<1>1. e = [d EXCEPT !.hurt = [d.hurt EXCEPT ![p] = left]]
  BY DEF Effect, Heal, Rows
<1>2. Touches(d, Heal(p, left))
  BY DEF Touches, Heal
<1>3. [d.hurt EXCEPT ![p] = left] \in [Player -> BOOLEAN]
  BY DEF Rows
<1>4. /\ e \in Rows /\ e.bag = d.bag /\ e.mission = d.mission /\ e.rank = d.rank
      /\ e.hurt = [d.hurt EXCEPT ![p] = left]
  BY <1>1, <1>3 DEF Rows
<1> QED BY <1>2, <1>4

-----------------------------------------------------------------------------
(* Transactions.                                                           *)

\* A transaction leaves all of its statements or none.
LEMMA TxIs ==
  ASSUME NEW d, NEW ss, NEW failing \in Nat
  PROVE  Tx(d, ss, failing) = IF Commits(d, ss, failing) THEN After(d, ss, Len(ss)) ELSE d
BY DEF Tx, Commits, Statements

\* The commit of two statements.
LEMMA TwoAre ==
  ASSUME NEW d, NEW s, NEW t
  PROVE  /\ After(d, <<s, t>>, Len(<<s, t>>)) = Effect(Effect(d, s), t)
         /\ Sound(d, <<s, t>>) => Touches(d, s)
<1> DEFINE ss == <<s, t>>
<1>1. Len(ss) = 2 /\ ss[1] = s /\ ss[2] = t /\ DOMAIN ss = 1..2
  OBVIOUS
<1> HIDE DEF ss
<1>2. After(d, ss, 0) = d
  BY AfterIs
<1>3. \A n \in Nat : After(d, ss, n + 1) = Effect(After(d, ss, n), ss[n + 1])
  BY AfterIs
<1>4. After(d, ss, 1) = Effect(After(d, ss, 0), ss[1]) /\ After(d, ss, 2) = Effect(After(d, ss, 1), ss[2])
  BY <1>3
<1>6. After(d, ss, 2) = Effect(Effect(d, s), t)
  BY <1>1, <1>2, <1>4
<1>7. Sound(d, ss) => Touches(d, s)
  <2>1. 1 \in 1..2 /\ 1 - 1 = 0
    OBVIOUS
  <2>2. Sound(d, ss) => Touches(After(d, ss, 1 - 1), ss[1])
    BY <1>1, <2>1 DEF Sound
  <2> QED BY <1>1, <1>2, <2>1, <2>2
<1> QED BY <1>1, <1>6, <1>7 DEF ss

\* e is d with the things of the first k of list added to p's bag.
Gained(e, d, p, list, k) ==
  /\ SameBut(e, d)
  /\ e.bag = [d.bag EXCEPT ![p] = [i \in Item |-> d.bag[p][i] + SumTo(Amounts(list, i), k)]]

\* Before the first thing is added.
LEMMA GainedNothing ==
  ASSUME NEW d \in Rows, NEW p \in Player, NEW list
  PROVE  Gained(d, d, p, list, 0)
<1>1. \A i \in Item : d.bag[p][i] + SumTo(Amounts(list, i), 0) = d.bag[p][i]
  BY SumIs, RowTypes
<1>2. [i \in Item |-> d.bag[p][i] + SumTo(Amounts(list, i), 0)] = d.bag[p]
  BY <1>1, RowTypes
<1>3. d.bag = [d.bag EXCEPT ![p] = d.bag[p]]
  BY RowTypes
<1> QED BY <1>2, <1>3 DEF Gained, SameBut

\* The k-th thing of a list, as an amount of i.
LEMMA AmountIs ==
  ASSUME NEW list \in Seq(Things), NEW i, NEW k \in 1..Len(list)
  PROVE  /\ k \in DOMAIN list /\ list[k].item \in Item /\ list[k].n \in Nat \ {0}
         /\ Amounts(list, i)[k] = IF list[k].item = i THEN list[k].n ELSE 0
<1>1. k \in DOMAIN list /\ list[k] \in Things
  BY ElementOfSeq, LenProperties
<1> QED BY <1>1 DEF Things, Amounts

\* A list holds a natural number of i.
LEMMA TotalNat ==
  ASSUME NEW list \in Seq(Things), NEW i
  PROVE  Len(list) \in Nat /\ Total(list, i) \in Nat
<1>1. PICK n \in Nat : n = Len(list)
  BY LenProperties
<1>2. \A k \in 1..n : Amounts(list, i)[k] \in Nat
  BY <1>1, AmountIs
<1>3. SumTo(Amounts(list, i), n) \in Nat
  BY <1>2, SumNat
<1> QED BY <1>1, <1>3 DEF Total

\* And after one more.
LEMMA GainedNext ==
  ASSUME NEW d \in Rows, NEW p \in Player, NEW list \in Seq(Things), NEW k \in Nat, k + 1 \in 1..Len(list),
         NEW e, Gained(e, d, p, list, k)
  PROVE  Gained(Effect(e, Add(p, list[k + 1].item, list[k + 1].n)), d, p, list, k + 1)
<1> DEFINE item == list[k + 1].item
           n == list[k + 1].n
           f == Effect(e, Add(p, item, n))
           sum(i) == SumTo(Amounts(list, i), k)
<1>1. item \in Item /\ n \in Nat
  BY AmountIs
<1>2. \A i \in Item : SumTo(Amounts(list, i), k + 1) = sum(i) + (IF item = i THEN n ELSE 0)
  <2> SUFFICES ASSUME NEW i \in Item
               PROVE  SumTo(Amounts(list, i), k + 1) = sum(i) + (IF item = i THEN n ELSE 0)
    OBVIOUS
  <2>1. SumTo(Amounts(list, i), k + 1) = sum(i) + Amounts(list, i)[k + 1]
    BY SumIs
  <2> QED BY <2>1, AmountIs
<1>3. e \in Rows /\ e.bag = [d.bag EXCEPT ![p] = [i \in Item |-> d.bag[p][i] + sum(i)]]
  BY DEF Gained, SameBut
<1>4. SameBut(f, e) /\ f.bag = [e.bag EXCEPT ![p] = [e.bag[p] EXCEPT ![item] = e.bag[p][item] + n]]
  <2> HIDE DEF item, n
  <2>1. e \in Rows
    BY <1>3
  <2>2. Added(f, e, p, item, n)
    BY <1>1, <2>1, AddIs
  <2> HIDE DEF f
  <2> QED BY <2>2 DEF Added
<1>5. \A i \in Item : sum(i) \in Int
  <2> SUFFICES ASSUME NEW i \in Item PROVE sum(i) \in Int
    OBVIOUS
  <2>1. PICK len \in Nat : len = Len(list)
    BY LenProperties
  <2>2. \A j \in 1..k : Amounts(list, i)[j] \in Nat
    BY <2>1, AmountIs
  <2> QED BY <2>2, SumNat
<1>6. f.bag[p] = [i \in Item |-> d.bag[p][i] + SumTo(Amounts(list, i), k + 1)]
  <2>1. e.bag[p] = [i \in Item |-> d.bag[p][i] + sum(i)]
    BY <1>3, RowTypes
  <2>2. f.bag[p] = [e.bag[p] EXCEPT ![item] = e.bag[p][item] + n]
    BY <1>3, <1>4, RowTypes
  <2>3. \A i \in Item : f.bag[p][i] = d.bag[p][i] + SumTo(Amounts(list, i), k + 1)
    <3> HIDE DEF item, n, sum, f
    <3> SUFFICES ASSUME NEW i \in Item
                 PROVE  f.bag[p][i] = d.bag[p][i] + SumTo(Amounts(list, i), k + 1)
      OBVIOUS
    <3>1. d.bag[p][i] \in Nat /\ e.bag[p][i] = d.bag[p][i] + sum(i)
      BY <2>1, RowTypes
    <3>2. f.bag[p][i] = e.bag[p][i] + (IF item = i THEN n ELSE 0)
      BY <1>1, <1>5, <2>1, <2>2, <3>1
    <3>3. SumTo(Amounts(list, i), k + 1) = sum(i) + (IF item = i THEN n ELSE 0) /\ sum(i) \in Int
      BY <1>2, <1>5
    <3> QED BY <1>1, <3>1, <3>2, <3>3
  <2>4. f.bag[p] = [i \in Item |-> f.bag[p][i]]
    <3> HIDE DEF item, n, sum, f
    <3> QED BY <2>1, <2>2
  <2> HIDE DEF f
  <2> QED BY <2>3, <2>4
<1>7. f.bag = [d.bag EXCEPT ![p] = f.bag[p]]
  <2> HIDE DEF item, n, sum, f
  <2> QED BY <1>3, <1>4, RowTypes
<1>8. SameBut(f, d)
  BY <1>4 DEF Gained, SameBut
<1> HIDE DEF f
<1>9. Gained(f, d, p, list, k + 1)
  BY <1>6, <1>7, <1>8 DEF Gained
<1> QED BY <1>9 DEF f

\* A reward: the mission is closed and the things are added.
LEMMA PaymentIs ==
  ASSUME EconomyAssumption, NEW d \in Rows, NEW p \in Player, NEW m \in Mission, NEW e,
         e = After(d, Payment(p, m), Len(Payment(p, m)))
  PROVE  /\ e \in Rows /\ e.rank = d.rank /\ e.hurt = d.hurt
         /\ e.mission = [d.mission EXCEPT ![p] = [d.mission[p] EXCEPT ![m] =
                           [d.mission[p][m] EXCEPT !.done = TRUE]]]
         /\ e.bag = [d.bag EXCEPT ![p] = [i \in Item |-> d.bag[p][i] + Total(Reward[m], i)]]
<1> DEFINE list == Reward[m]
           ss == Payment(p, m)
           closed == Effect(d, Complete(p, m))
<1>1. list \in Seq(Things)
  BY DEF EconomyAssumption
<1>2. PICK n \in Nat : n = Len(list)
  BY <1>1, LenProperties
<1>3. Len(ss) = n + 1 /\ ss[1] = Complete(p, m)
      /\ \A k \in 1..n : ss[k + 1] = Add(p, list[k].item, list[k].n)
  <2> DEFINE adds == [k \in DOMAIN list |-> Add(p, list[k].item, list[k].n)]
  <2>1. DOMAIN list = 1..n
    BY <1>1, <1>2, LenProperties
  <2> DEFINE T == {Complete(p, m)} \cup {adds[k] : k \in 1..n}
  <2>2. adds \in Seq(T) /\ Len(adds) = n /\ <<Complete(p, m)>> \in Seq(T) /\ Len(<<Complete(p, m)>>) = 1
    BY <2>1, SeqDef, LenProperties
  <2>3. ss = <<Complete(p, m)>> \o adds
    BY DEF Payment
  <2>4. \A k \in 1..n : adds[k] = Add(p, list[k].item, list[k].n)
    BY <2>1
  <2> HIDE DEF adds, ss, T
  <2>5. Len(ss) = n + 1
    BY <2>2, <2>3, ConcatProperties
  <2>6. ss[1] = Complete(p, m)
    BY <2>2, <2>3, ConcatProperties
  <2>7. ASSUME NEW k \in 1..n PROVE ss[k + 1] = Add(p, list[k].item, list[k].n)
    <3>1. k + 1 \in 1..(1 + n) /\ ~(k + 1 <= 1) /\ (k + 1) - 1 = k
      OBVIOUS
    <3>2. ss[k + 1] = adds[k]
      BY <2>2, <2>3, <3>1, ConcatProperties
    <3> QED BY <2>4, <3>2
  <2> QED BY <2>5, <2>6, <2>7
<1> HIDE DEF ss
<1>4. After(d, ss, 1) = closed
  <2>1. After(d, ss, 0 + 1) = Effect(After(d, ss, 0), ss[0 + 1]) /\ After(d, ss, 0) = d
    BY AfterIs
  <2> QED BY <1>3, <2>1
<1>5. /\ closed \in Rows /\ closed.bag = d.bag /\ closed.rank = d.rank /\ closed.hurt = d.hurt
      /\ closed.mission = [d.mission EXCEPT ![p] = [d.mission[p] EXCEPT ![m] =
                             [d.mission[p][m] EXCEPT !.done = TRUE]]]
  BY CompleteIs
<1> HIDE DEF closed, list
<1> DEFINE S == {k \in Nat : Gained(After(d, ss, k + 1), closed, p, list, k)}
<1>6. 0 \in S
  BY <1>4, <1>5, GainedNothing
<1>7. ASSUME NEW k \in 0..(n - 1), k \in S PROVE k + 1 \in S
  <2>1. k \in Nat /\ k + 1 \in 1..n /\ k + 1 \in Nat
    BY <1>7
  <2>2. After(d, ss, (k + 1) + 1) = Effect(After(d, ss, k + 1), ss[(k + 1) + 1])
    BY <2>1, AfterIs
  <2>3. ss[(k + 1) + 1] = Add(p, list[k + 1].item, list[k + 1].n)
    BY <1>3, <2>1
  <2>4. Gained(After(d, ss, k + 1), closed, p, list, k)
    BY <1>7
  <2>5. Gained(After(d, ss, (k + 1) + 1), closed, p, list, k + 1)
    BY <1>1, <1>2, <1>5, <2>1, <2>2, <2>3, <2>4, GainedNext
  <2> QED BY <2>1, <2>5
<1>8. 0..n \subseteq S
  <2> HIDE DEF S
  <2> QED BY <1>6, <1>7, Induct
<1>9. Gained(e, closed, p, list, n)
  <2>1. n \in 0..n
    OBVIOUS
  <2> QED BY <1>3, <1>8, <2>1 DEF ss
<1> QED BY <1>2, <1>5, <1>9 DEF Gained, SameBut, Total, list

\* The drops of one kill: each of the lucky gets n of item, nobody else anything.
LEMMA AwardsAre ==
  ASSUME EconomyAssumption, NEW d \in Rows, NEW lucky \in SUBSET Player, NEW en \in Enemy,
         Drops[en] # NoDrop, NEW e, e = After(d, Awards(lucky, en), Len(Awards(lucky, en)))
  PROVE  /\ SameBut(e, d)
         /\ \A q \in Player, i \in Item :
              e.bag[q][i] = d.bag[q][i] + (IF q \in lucky /\ i = Drops[en].item THEN Drops[en].n ELSE 0)
<1> DEFINE order == SetToSeq(lucky)
           ss == Awards(lucky, en)
           item == Drops[en].item
           n == Drops[en].n
<1>1. item \in Item /\ n \in Nat
  <2>1. Drops[en] \in Things
    BY DEF EconomyAssumption
  <2> QED BY <2>1 DEF Things
<1>2. IsFiniteSet(lucky)
  BY FS_Subset DEF EconomyAssumption
<1>3. PICK len \in Nat : len = Len(order)
  BY <1>2, Listed DEF Lists
<1>4. /\ DOMAIN order = 1..len /\ \A k \in 1..len : order[k] \in lucky
      /\ \A j, k \in 1..len : order[j] = order[k] => j = k
      /\ \A q \in lucky : \E k \in 1..len : order[k] = q
  BY <1>2, <1>3, Listed DEF Lists
<1>5. Len(ss) = len /\ \A k \in 1..len : ss[k] = Add(order[k], item, n)
  <2>1. ss = [k \in 1..len |-> Add(order[k], item, n)]
    BY <1>4 DEF Awards
  <2> HIDE DEF ss, item, n, order
  <2>2. ss \in Seq({ss[k] : k \in 1..len})
    BY <2>1, SeqDef
  <2> QED BY <2>1, <2>2, LenProperties
<1> HIDE DEF ss, item, n, order
<1> DEFINE Got(q, k) == \E j \in 1..k : order[j] = q
           Right(a, k) == /\ SameBut(a, d)
                          /\ \A q \in Player, i \in Item :
                               a.bag[q][i] = d.bag[q][i] + (IF Got(q, k) /\ i = item THEN n ELSE 0)
           S == {k \in Nat : Right(After(d, ss, k), k)}
<1>6. 0 \in S
  <2>1. After(d, ss, 0) = d
    BY AfterIs
  <2>2. Right(d, 0)
    <3>1. \A q \in Player, i \in Item : d.bag[q][i] \in Nat /\ ~Got(q, 0)
      BY RowTypes
    <3> QED BY <3>1 DEF SameBut
  <2> HIDE DEF Right
  <2> QED BY <2>1, <2>2
<1>7. ASSUME NEW k \in 0..(len - 1), k \in S PROVE k + 1 \in S
  <2>1. k \in Nat /\ k + 1 \in 1..len /\ k + 1 \in Nat
    BY <1>7
  <2> DEFINE a == After(d, ss, k)
             w == order[k + 1]
             b == Effect(a, Add(w, item, n))
  <2>2. After(d, ss, k + 1) = b
    <3>1. After(d, ss, k + 1) = Effect(a, ss[k + 1])
      BY <2>1, AfterIs
    <3> QED BY <1>5, <2>1, <3>1
  <2>3. Right(a, k) /\ a \in Rows
    BY <1>7 DEF SameBut
  <2>4. w \in Player
    BY <1>4, <2>1
  <2>5. SameBut(b, a) /\ b.bag = [a.bag EXCEPT ![w] = [a.bag[w] EXCEPT ![item] = a.bag[w][item] + n]]
    <3> HIDE DEF a, w
    <3>1. Added(b, a, w, item, n)
      BY <1>1, <2>3, <2>4, AddIs
    <3> HIDE DEF b
    <3> QED BY <3>1 DEF Added
  <2>6. ~Got(w, k)
    BY <1>4, <2>1
  <2>7. \A q \in Player : Got(q, k + 1) <=> Got(q, k) \/ q = w
    BY <2>1
  <2> HIDE DEF a, b, w
  <2>8. ASSUME NEW q \in Player, NEW i \in Item
        PROVE  b.bag[q][i] = d.bag[q][i] + (IF Got(q, k + 1) /\ i = item THEN n ELSE 0)
    <3>1. a.bag[q][i] = d.bag[q][i] + (IF Got(q, k) /\ i = item THEN n ELSE 0)
      BY <2>3
    <3>2. d.bag[q][i] \in Nat /\ a.bag[q] \in [Item -> Nat] /\ a.bag \in [Player -> [Item -> Nat]]
      BY <2>3, RowTypes
    <3>3. b.bag[q][i] = IF q = w /\ i = item THEN a.bag[q][i] + n ELSE a.bag[q][i]
      BY <2>4, <2>5, <3>2
    <3> HIDE DEF Got
    <3>4. CASE q = w
      BY <1>1, <2>6, <2>7, <3>1, <3>2, <3>3, <3>4
    <3>5. CASE q # w
      BY <1>1, <2>7, <3>1, <3>2, <3>3, <3>5
    <3> QED BY <3>4, <3>5
  <2>9. SameBut(b, d)
    BY <2>3, <2>5 DEF SameBut
  <2>10. Right(b, k + 1)
    BY <2>8, <2>9
  <2> QED BY <2>1, <2>2, <2>10
<1>8. 0..len \subseteq S
  <2> HIDE DEF S
  <2> QED BY <1>6, <1>7, Induct
<1>9. Right(e, len)
  <2>1. len \in 0..len
    OBVIOUS
  <2> QED BY <1>5, <1>8, <2>1 DEF ss
<1>10. \A q \in Player : Got(q, len) <=> q \in lucky
  BY <1>4
<1> QED BY <1>9, <1>10 DEF item, n

\* The statements of a promotion: one per thing asked for, then the rank.
LEMMA DuesList ==
  ASSUME NEW p, NEW r, Cost[r] \in Seq(Things)
  PROVE  LET n == Len(Cost[r])
             ss == Dues(p, r)
         IN  /\ n \in Nat /\ Len(ss) = n + 1 /\ ss[n + 1] = Promotion(p, r)
             /\ \A k \in 1..n : ss[k] = Spend(p, Cost[r][k].item, Cost[r][k].n)
<1> DEFINE list == Cost[r]
           ss == Dues(p, r)
           spends == [k \in DOMAIN list |-> Spend(p, list[k].item, list[k].n)]
           T == {Promotion(p, r)} \cup {spends[k] : k \in 1..Len(list)}
<1>1. PICK n \in Nat : n = Len(list) /\ DOMAIN list = 1..n
  BY LenProperties
<1>2. spends \in Seq(T) /\ Len(spends) = n /\ <<Promotion(p, r)>> \in Seq(T) /\ Len(<<Promotion(p, r)>>) = 1
  BY <1>1, SeqDef, LenProperties
<1>3. ss = spends \o <<Promotion(p, r)>>
  BY DEF Dues
<1>4. \A k \in 1..n : spends[k] = Spend(p, list[k].item, list[k].n)
  BY <1>1
<1> HIDE DEF spends, ss, T
<1>5. Len(ss) = n + 1
  BY <1>2, <1>3, ConcatProperties
<1>6. ss[n + 1] = Promotion(p, r)
  <2>1. n + 1 \in 1..(n + 1) /\ ~(n + 1 <= n) /\ (n + 1) - n = 1
    OBVIOUS
  <2> QED BY <1>2, <1>3, <2>1, ConcatProperties
<1>7. ASSUME NEW k \in 1..n PROVE ss[k] = Spend(p, list[k].item, list[k].n)
  <2>1. k \in 1..(n + 1) /\ k <= n
    OBVIOUS
  <2>2. ss[k] = spends[k]
    BY <1>2, <1>3, <2>1, ConcatProperties
  <2> QED BY <1>4, <2>2
<1> QED BY <1>1, <1>5, <1>6, <1>7 DEF ss

\* What p owes for r is there, line by line, and no item has two lines.
Covered(d, p, r) ==
  /\ \A j, k \in DOMAIN Cost[r] : Cost[r][j].item = Cost[r][k].item => j = k
  /\ \A k \in DOMAIN Cost[r] : d.bag[p][Cost[r][k].item] >= Cost[r][k].n

\* e is d after the first k payments of p for r.
Charged(e, d, p, r, k) ==
  /\ SameBut(e, d)
  /\ e.bag = [d.bag EXCEPT ![p] = e.bag[p]]
  /\ \A i \in Item : e.bag[p][i] <= d.bag[p][i]
  /\ Covered(d, p, r) => \A i \in Item : e.bag[p][i] = d.bag[p][i] - SumTo(Amounts(Cost[r], i), k)

\* Before the first payment.
LEMMA ChargedNothing ==
  ASSUME NEW d \in Rows, NEW p \in Player, NEW r
  PROVE  Charged(d, d, p, r, 0)
<1>1. d.bag = [d.bag EXCEPT ![p] = d.bag[p]]
  BY RowTypes
<1>2. \A i \in Item : SumTo(Amounts(Cost[r], i), 0) = 0 /\ d.bag[p][i] \in Nat
  BY SumIs, RowTypes
<1> QED BY <1>1, <1>2 DEF Charged, SameBut

\* And after one more: no later line names the item again.
LEMMA ChargedNext ==
  ASSUME NEW d \in Rows, NEW p \in Player, NEW r, Cost[r] \in Seq(Things),
         NEW k \in Nat, k + 1 \in 1..Len(Cost[r]), NEW e, Charged(e, d, p, r, k)
  PROVE  Charged(Effect(e, Spend(p, Cost[r][k + 1].item, Cost[r][k + 1].n)), d, p, r, k + 1)
<1> DEFINE list == Cost[r]
           item == list[k + 1].item
           n == list[k + 1].n
           f == Effect(e, Spend(p, item, n))
           sum(i) == SumTo(Amounts(list, i), k)
<1>1. item \in Item /\ n \in Nat
  BY AmountIs
<1>2. \A i \in Item : SumTo(Amounts(list, i), k + 1) = sum(i) + (IF item = i THEN n ELSE 0)
  <2> SUFFICES ASSUME NEW i \in Item
               PROVE  SumTo(Amounts(list, i), k + 1) = sum(i) + (IF item = i THEN n ELSE 0)
    OBVIOUS
  <2>1. SumTo(Amounts(list, i), k + 1) = sum(i) + Amounts(list, i)[k + 1]
    BY SumIs
  <2> QED BY <2>1, AmountIs
<1>3. PICK len \in Nat : len = Len(list) /\ DOMAIN list = 1..len
  BY LenProperties
<1>4. e \in Rows
  BY DEF Charged, SameBut
<1>5. /\ SameBut(f, e)
      /\ f.bag = [e.bag EXCEPT ![p] = [e.bag[p] EXCEPT ![item] =
                    IF e.bag[p][item] > n THEN e.bag[p][item] - n ELSE 0]]
  <2> HIDE DEF item, n
  <2>1. Taken(f, e, p, item, n)
    BY <1>1, <1>4, SpendIs
  <2> HIDE DEF f
  <2> QED BY <2>1 DEF Taken
<1> HIDE DEF f, item, n
<1>6. /\ e.bag \in [Player -> [Item -> Nat]] /\ e.bag[p] \in [Item -> Nat] /\ d.bag \in [Player -> [Item -> Nat]]
      /\ f.bag[p] = [e.bag[p] EXCEPT ![item] = IF e.bag[p][item] > n THEN e.bag[p][item] - n ELSE 0]
  BY <1>4, <1>5, RowTypes
<1>7. f.bag = [d.bag EXCEPT ![p] = f.bag[p]]
  <2>1. e.bag = [d.bag EXCEPT ![p] = e.bag[p]]
    BY DEF Charged
  <2>2. f.bag = [e.bag EXCEPT ![p] = f.bag[p]]
    BY <1>5, <1>6
  <2>3. f.bag[p] \in [Item -> Nat]
    BY <1>1, <1>6
  <2> QED BY <1>6, <2>1, <2>2, <2>3
<1>8. \A i \in Item : f.bag[p][i] <= d.bag[p][i]
  <2> SUFFICES ASSUME NEW i \in Item PROVE f.bag[p][i] <= d.bag[p][i]
    OBVIOUS
  <2>1. e.bag[p][i] <= d.bag[p][i] /\ e.bag[p][i] \in Nat /\ d.bag[p][i] \in Nat
    BY <1>6 DEF Charged
  <2>2. CASE i = item
    <3>1. f.bag[p][i] = IF e.bag[p][i] > n THEN e.bag[p][i] - n ELSE 0
      BY <1>6, <2>2
    <3> QED BY <1>1, <2>1, <3>1
  <2>3. CASE i # item
    <3>1. f.bag[p][i] = e.bag[p][i]
      BY <1>6, <2>3
    <3> QED BY <2>1, <3>1
  <2> QED BY <2>2, <2>3
<1>9. ASSUME Covered(d, p, r), NEW i \in Item
      PROVE  f.bag[p][i] = d.bag[p][i] - SumTo(Amounts(list, i), k + 1)
  <2>1. /\ e.bag[p][i] = d.bag[p][i] - sum(i) /\ e.bag[p][i] \in Nat /\ d.bag[p][i] \in Nat
        /\ SumTo(Amounts(list, i), k + 1) = sum(i) + (IF item = i THEN n ELSE 0)
    BY <1>2, <1>6, <1>9 DEF Charged
  <2>2. CASE i = item
    <3>1. \A j \in 1..k : Amounts(list, i)[j] = 0
      <4> SUFFICES ASSUME NEW j \in 1..k PROVE Amounts(list, i)[j] = 0
        OBVIOUS
      <4>1. j \in DOMAIN list /\ k + 1 \in DOMAIN list /\ j # k + 1 /\ j \in 1..Len(list)
        BY <1>3
      <4>2. list[j].item # list[k + 1].item
        BY <1>9, <4>1 DEF Covered
      <4> QED BY <2>2, <4>1, <4>2, AmountIs DEF item
    <3>2. sum(i) = 0
      BY <3>1, SumZero
    <3>3. d.bag[p][i] >= n
      <4>1. k + 1 \in DOMAIN list
        BY <1>3
      <4> QED BY <1>9, <2>2, <4>1 DEF Covered, item, n
    <3>4. f.bag[p][i] = IF e.bag[p][i] > n THEN e.bag[p][i] - n ELSE 0
      BY <1>6, <2>2
    <3> HIDE DEF sum
    <3>5. e.bag[p][i] = d.bag[p][i] /\ SumTo(Amounts(list, i), k + 1) = n
      <4> HIDE DEF n
      <4> QED BY <1>1, <2>1, <2>2, <3>2
    <3>6. f.bag[p][i] = d.bag[p][i] - n
      <4> HIDE DEF n
      <4> QED BY <1>1, <2>1, <3>3, <3>4, <3>5
    <3> QED BY <3>5, <3>6
  <2>3. CASE i # item
    <3>1. f.bag[p][i] = e.bag[p][i]
      BY <1>6, <2>3
    <3>2. SumTo(Amounts(list, i), k + 1) = sum(i) + 0
      BY <2>1, <2>3
    <3>3. sum(i) \in Nat
      <4>1. \A j \in 1..k : Amounts(list, i)[j] \in Nat
        BY <1>3, AmountIs
      <4> QED BY <4>1, SumNat
    <3> HIDE DEF sum
    <3> QED BY <2>1, <3>1, <3>2, <3>3
  <2> QED BY <2>2, <2>3
<1>10. SameBut(f, d)
  BY <1>5 DEF Charged, SameBut
<1>11. Charged(f, d, p, r, k + 1)
  BY <1>7, <1>8, <1>9, <1>10 DEF Charged
<1> QED BY <1>11 DEF f, item, n

\* A promotion: p loses nothing but what the rank costs, and that in full when
\* no item is named twice.
LEMMA DuesAre ==
  ASSUME NEW d \in Rows, NEW p \in Player, NEW r \in Ranks, Cost[r] \in Seq(Things), d.rank[p] < r,
         NEW e, e = After(d, Dues(p, r), Len(Dues(p, r)))
  PROVE  /\ e \in Rows /\ e.mission = d.mission /\ e.hurt = d.hurt /\ e.rank = [d.rank EXCEPT ![p] = r]
         /\ e.bag = [d.bag EXCEPT ![p] = e.bag[p]]
         /\ \A i \in Item : e.bag[p][i] <= d.bag[p][i]
         /\ Covered(d, p, r) => \A i \in Item : e.bag[p][i] = d.bag[p][i] - Total(Cost[r], i)
<1> DEFINE list == Cost[r]
           ss == Dues(p, r)
<1>1. PICK n \in Nat : n = Len(list)
  BY DuesList
<1>2. /\ Len(ss) = n + 1 /\ ss[n + 1] = Promotion(p, r)
      /\ \A k \in 1..n : ss[k] = Spend(p, list[k].item, list[k].n)
  BY <1>1, DuesList
<1> HIDE DEF ss
<1> DEFINE S == {k \in Nat : Charged(After(d, ss, k), d, p, r, k)}
<1>3. 0 \in S
  <2>1. After(d, ss, 0) = d
    BY AfterIs
  <2> QED BY <2>1, ChargedNothing
<1>4. ASSUME NEW k \in 0..(n - 1), k \in S PROVE k + 1 \in S
  <2>1. k \in Nat /\ k + 1 \in 1..n /\ k + 1 \in Nat
    BY <1>4
  <2>2. After(d, ss, k + 1) = Effect(After(d, ss, k), ss[k + 1])
    BY <2>1, AfterIs
  <2>3. ss[k + 1] = Spend(p, list[k + 1].item, list[k + 1].n)
    BY <1>2, <2>1
  <2>4. Charged(After(d, ss, k), d, p, r, k)
    BY <1>4
  <2>5. Charged(After(d, ss, k + 1), d, p, r, k + 1)
    BY <1>1, <2>1, <2>2, <2>3, <2>4, ChargedNext
  <2> QED BY <2>1, <2>5
<1>5. 0..n \subseteq S
  <2> HIDE DEF S
  <2> QED BY <1>3, <1>4, Induct
<1> DEFINE paid == After(d, ss, n)
<1>6. Charged(paid, d, p, r, n)
  <2>1. n \in 0..n
    OBVIOUS
  <2> QED BY <1>5, <2>1
<1>7. e = Effect(paid, Promotion(p, r))
  <2>1. After(d, ss, n + 1) = Effect(After(d, ss, n), ss[n + 1])
    BY AfterIs
  <2> QED BY <1>2, <2>1 DEF ss
<1> HIDE DEF paid
<1>8. paid \in Rows /\ paid.rank = d.rank /\ paid.mission = d.mission /\ paid.hurt = d.hurt
  BY <1>6 DEF Charged, SameBut
<1>9. /\ e \in Rows /\ e.bag = paid.bag /\ e.mission = paid.mission /\ e.hurt = paid.hurt
      /\ e.rank = [paid.rank EXCEPT ![p] = r]
  BY <1>7, <1>8, PromotionIs
<1> QED BY <1>1, <1>6, <1>8, <1>9 DEF Charged, Total

-----------------------------------------------------------------------------
(* The inductive invariant.                                                *)

Ledger == [Player -> [Item -> Nat]]

\* Progress stays within the goal, and only who took a mission closed it.
Tracked(d) ==
  \A p \in Player, m \in Mission : /\ d.mission[p][m].progress <= Count[m]
                                   /\ d.mission[p][m].done => d.mission[p][m].taken

Copies ==
  /\ db \in Rows /\ Tracked(db)
  /\ rank = db.rank /\ hurt = db.hurt
  /\ flags \subseteq {SlainFlag[e] : e \in Enemy} /\ atGuild \subseteq Player
  /\ earned \in Ledger /\ spent \in Ledger
  /\ screen = [p \in Player |-> Shown(db, p)]

\* What a step does to one entry: what came in and went out is the change.
Balanced(p, i) ==
  db'.bag[p][i] = db.bag[p][i] + (earned'[p][i] - earned[p][i]) - (spent'[p][i] - spent[p][i])
Priced(p, i) ==
  \/ rank'[p] = rank[p] /\ spent'[p][i] = spent[p][i]
  \/ /\ rank'[p] = rank[p] + 1
     /\ RanksAskOnce => spent'[p][i] = spent[p][i] + Total(Cost[rank[p] + 1], i)
Conserved(i) == SumOf(db.bag, i) = SumOf(earned, i) - SumOf(spent, i)

\* What a step does to one mission.
Closing(p, m) ==
  /\ db.mission[p][m].done => db'.mission[p][m] = db.mission[p][m]
  /\ ~db.mission[p][m].done /\ db'.mission[p][m].done =>
       \A i \in Item : db'.bag[p][i] = db.bag[p][i] + Total(Reward[m], i)

Books ==
  /\ \A i \in Item : Conserved(i) => Conserved(i)'
  /\ \A p \in Player, i \in Trophy : Balanced(p, i) /\ Priced(p, i)

StepOK == Copies' /\ Books /\ \A p \in Player, m \in Mission : Closing(p, m)

\* A page is the record of its three entries.
LEMMA PageIs ==
  ASSUME NEW t, t = [f \in {"bag", "journal", "rank"} |-> t[f]]
  PROVE  t = [bag |-> t.bag, journal |-> t.journal, rank |-> t.rank]
<1> DEFINE u == [bag |-> t.bag, journal |-> t.journal, rank |-> t.rank]
<1>1. u.bag = t.bag /\ u.journal = t.journal /\ u.rank = t.rank
  OBVIOUS
<1>2. u = [f \in {"bag", "journal", "rank"} |-> u[f]]
  OBVIOUS
<1> HIDE DEF u
<1>3. t = u
  BY <1>1, <1>2
<1> QED BY <1>3 DEF u

\* A page that is told of its bag and its journal,
LEMMA PaidShown ==
  ASSUME NEW a, NEW b, NEW c, NEW s, s = [bag |-> a, journal |-> b, rank |-> c], NEW x, NEW y
  PROVE  [s EXCEPT !.bag = x, !.journal = y] = [bag |-> x, journal |-> y, rank |-> c]
<1> DEFINE t == [s EXCEPT !.bag = x, !.journal = y]
<1>1. t.bag = x /\ t.journal = y /\ t.rank = c /\ t = [f \in {"bag", "journal", "rank"} |-> t[f]]
  OBVIOUS
<1> HIDE DEF t
<1>2. t = [bag |-> t.bag, journal |-> t.journal, rank |-> t.rank]
  BY <1>1, PageIs
<1>3. t = [bag |-> x, journal |-> y, rank |-> c]
  BY <1>1, <1>2
<1> QED BY <1>3 DEF t

\* and one that is told of its rank and its bag.
LEMMA RankShown ==
  ASSUME NEW a, NEW b, NEW c, NEW s, s = [bag |-> a, journal |-> b, rank |-> c], NEW x, NEW y
  PROVE  [s EXCEPT !.rank = y, !.bag = x] = [bag |-> x, journal |-> b, rank |-> y]
<1> DEFINE t == [s EXCEPT !.rank = y, !.bag = x]
<1>1. t.bag = x /\ t.journal = b /\ t.rank = y /\ t = [f \in {"bag", "journal", "rank"} |-> t[f]]
  OBVIOUS
<1> HIDE DEF t
<1>2. t = [bag |-> t.bag, journal |-> t.journal, rank |-> t.rank]
  BY <1>1, PageIs
<1>3. t = [bag |-> x, journal |-> b, rank |-> y]
  BY <1>1, <1>2
<1> QED BY <1>3 DEF t

\* A journal depends on the missions of its owner only,
LEMMA JournalSame ==
  ASSUME NEW d, NEW e, NEW q, e.mission[q] = d.mission[q]
  PROVE  Journal(e, q) = Journal(d, q)
BY DEF Journal

\* and what a page is sent on the rows of its owner.
LEMMA ShownSame ==
  ASSUME NEW d, NEW e, NEW q, e.mission[q] = d.mission[q], e.bag[q] = d.bag[q], e.rank[q] = d.rank[q]
  PROVE  Shown(e, q) = Shown(d, q)
BY JournalSame DEF Shown

\* What a page shows, written out.
LEMMA ScreenIs ==
  ASSUME Copies, NEW q \in Player
  PROVE  screen[q] = [bag |-> db.bag[q], journal |-> Journal(db, q), rank |-> db.rank[q]]
BY DEF Copies, Shown

\* The entries of i in six ledgers, in balance.
Flows(b, e, s, c, f, t, i) ==
  /\ {b, e, s, c, f, t} \subseteq Ledger
  /\ \A p \in Player : c[p][i] = b[p][i] + (f[p][i] - e[p][i]) - (t[p][i] - s[p][i])

\* Entry for entry in balance, in balance all told.
LEMMA SumsBalance ==
  ASSUME IsFiniteSet(Player), NEW i \in Item,
         NEW b, NEW e, NEW s, NEW c, NEW f, NEW t, Flows(b, e, s, c, f, t, i)
  PROVE  SumOf(b, i) = SumOf(e, i) - SumOf(s, i) => SumOf(c, i) = SumOf(f, i) - SumOf(t, i)
<1> DEFINE order == SetToSeq(Player)
           col(l) == [k \in DOMAIN order |-> l[order[k]][i]]
<1>1. PICK n \in Nat : n = Len(order) /\ DOMAIN order = 1..n /\ \A k \in 1..n : order[k] \in Player
  BY Listed DEF Lists
<1> HIDE DEF order
<1>2. \A k \in 1..n : {col(b)[k], col(e)[k], col(s)[k], col(c)[k], col(f)[k], col(t)[k]} \subseteq Nat
  BY <1>1 DEF Flows, Ledger
<1>3. \A k \in 1..n : col(c)[k] = col(b)[k] + (col(f)[k] - col(e)[k]) - (col(t)[k] - col(s)[k])
  BY <1>1 DEF Flows
<1>4. \A l : SumOf(l, i) = SumTo(col(l), n)
  BY <1>1 DEF SumOf, order
<1> DEFINE cb == col(b)  ce == col(e)  cs == col(s)  cc == col(c)  cf == col(f)  ct == col(t)
<1>5. Even(cb, ce, cs, cc, cf, ct, n)
  BY <1>2, <1>3 DEF Even
<1>6. /\ SumOf(b, i) = SumTo(cb, n) /\ SumOf(e, i) = SumTo(ce, n) /\ SumOf(s, i) = SumTo(cs, n)
      /\ SumOf(c, i) = SumTo(cc, n) /\ SumOf(f, i) = SumTo(cf, n) /\ SumOf(t, i) = SumTo(ct, n)
  BY <1>4
<1> HIDE DEF col, cb, ce, cs, cc, cf, ct
<1>7. SumTo(cb, n) = SumTo(ce, n) - SumTo(cs, n) => SumTo(cc, n) = SumTo(cf, n) - SumTo(ct, n)
  BY <1>5, SumBalance
<1> QED BY <1>6, <1>7

\* A step that balances every entry keeps the books.
LEMMA BooksKept ==
  ASSUME EconomyAssumption, Copies, Copies',
         \A p \in Player, i \in Item : Balanced(p, i),
         \A p \in Player, i \in Trophy : Priced(p, i)
  PROVE  Books
<1>1. db.bag \in Ledger /\ db'.bag \in Ledger /\ earned \in Ledger /\ spent \in Ledger
      /\ earned' \in Ledger /\ spent' \in Ledger
  BY DEF Copies, Rows, Ledger
<1>2. IsFiniteSet(Player) /\ Trophy \subseteq Item
  BY DEF EconomyAssumption
<1>3. ASSUME NEW i \in Item, Conserved(i) PROVE Conserved(i)'
  <2> DEFINE b == db.bag  c == db'.bag  f == earned'  t == spent'
  <2>1. \A p \in Player : c[p][i] = b[p][i] + (f[p][i] - earned[p][i]) - (t[p][i] - spent[p][i])
    BY DEF Balanced
  <2>2. SumOf(b, i) = SumOf(earned, i) - SumOf(spent, i)
    BY <1>3 DEF Conserved
  <2>3. Flows(b, earned, spent, c, f, t, i)
    BY <1>1, <2>1 DEF Flows
  <2> HIDE DEF b, c, f, t
  <2>4. SumOf(c, i) = SumOf(f, i) - SumOf(t, i)
    BY <1>2, <2>2, <2>3, SumsBalance
  <2> QED BY <2>4 DEF Conserved, c, f, t
<1> QED BY <1>2, <1>3 DEF Books

\* Bags, ranks and ledgers are as they were.
LEMMA BooksClosed ==
  ASSUME EconomyAssumption, Copies, Copies', db'.bag = db.bag, rank' = rank, earned' = earned, spent' = spent
  PROVE  Books
<1>1. ASSUME NEW p \in Player, NEW i \in Item PROVE Balanced(p, i)
  <2>1. db.bag[p][i] \in Nat /\ earned[p][i] \in Nat /\ spent[p][i] \in Nat
    BY DEF Copies, Rows, Ledger
  <2> QED BY <2>1 DEF Balanced
<1>2. \A p \in Player, i \in Trophy : Priced(p, i)
  BY DEF Priced
<1> QED BY <1>1, <1>2, BooksKept

-----------------------------------------------------------------------------
(* The steps.                                                              *)

\* Nothing of this happened, or all of it was taken back.
LEMMA NothingOK ==
  ASSUME EconomyAssumption, Copies, db' = db, screen' = screen, rank' = rank, hurt' = hurt,
         earned' = earned, spent' = spent,
         flags' \subseteq {SlainFlag[e] : e \in Enemy}, atGuild' \subseteq Player
  PROVE  StepOK
<1>1. Copies'
  BY DEF Copies
<1>2. Books
  BY <1>1, BooksClosed
<1>3. \A p \in Player, m \in Mission : Closing(p, m)
  BY DEF Closing
<1> QED BY <1>1, <1>2, <1>3 DEF StepOK

\* One operation after another keeps the invariant and the books: leaving the guild's room,
LEMMA WalkOK ==
  ASSUME EconomyAssumption, Copies, NEW p \in Player, Walk(p)
  PROVE  StepOK
<1>1. atGuild' \subseteq Player
  BY DEF Walk, Copies
<1>2. /\ db' = db /\ screen' = screen /\ rank' = rank /\ hurt' = hurt /\ flags' = flags
      /\ earned' = earned /\ spent' = spent
  BY DEF Walk, ledgerVars
<1>3. flags' \subseteq {SlainFlag[e] : e \in Enemy}
  BY <1>2 DEF Copies
<1> QED BY <1>1, <1>2, <1>3, NothingOK

\* a blow of a fight,
LEMMA HurtOK ==
  ASSUME EconomyAssumption, Copies, NEW p \in Player, Hurt(p)
  PROVE  StepOK
<1>1. /\ db' = [db EXCEPT !.hurt = [db.hurt EXCEPT ![p] = TRUE]] /\ hurt' = [hurt EXCEPT ![p] = TRUE]
      /\ flags' = flags /\ screen' = screen /\ rank' = rank /\ atGuild' = atGuild
      /\ earned' = earned /\ spent' = spent
  BY DEF Hurt, ledgerVars, Copies, Rows
<1>2. [db.hurt EXCEPT ![p] = TRUE] \in [Player -> BOOLEAN]
  BY DEF Copies, Rows
<1>3. /\ db' \in Rows /\ db'.bag = db.bag /\ db'.mission = db.mission /\ db'.rank = db.rank
      /\ db'.hurt = [db.hurt EXCEPT ![p] = TRUE]
  BY <1>1, <1>2 DEF Copies, Rows
<1>4. \A q \in Player : Shown(db', q) = Shown(db, q)
  BY <1>3, ShownSame
<1>5. Copies'
  <2>1. Tracked(db')
    BY <1>3 DEF Copies, Tracked
  <2> QED BY <1>1, <1>3, <1>4, <2>1 DEF Copies
<1>6. Books
  BY <1>1, <1>3, <1>5, BooksClosed
<1>7. \A q \in Player, m \in Mission : Closing(q, m)
  BY <1>3 DEF Closing
<1> QED BY <1>5, <1>6, <1>7 DEF StepOK

\* One mission that is not closed is taken on or given up.
LEMMA JournalOK ==
  ASSUME EconomyAssumption, Copies, NEW p \in Player, NEW m \in Mission, NEW entry \in MissionRow,
         ~db.mission[p][m].done, ~entry.done, entry.progress = 0,
         db' = [db EXCEPT !.mission[p][m] = entry],
         screen' = [screen EXCEPT ![p].journal = Journal(db', p)],
         UNCHANGED <<flags, playerVars, ledgerVars>>
  PROVE  StepOK
<1>1. /\ flags' = flags /\ rank' = rank /\ hurt' = hurt /\ atGuild' = atGuild
      /\ earned' = earned /\ spent' = spent
  BY DEF playerVars, ledgerVars
<1> DEFINE new == [db.mission EXCEPT ![p] = [db.mission[p] EXCEPT ![m] = entry]]
<1>2. db.mission \in [Player -> [Mission -> MissionRow]] /\ db.mission[p] \in [Mission -> MissionRow]
  BY DEF Copies, Rows
<1>3. db' = [db EXCEPT !.mission = new] /\ new \in [Player -> [Mission -> MissionRow]]
  BY <1>2 DEF Copies, Rows
<1>4. /\ \A q \in Player, k \in Mission : new[q][k] = IF q = p /\ k = m THEN entry ELSE db.mission[q][k]
      /\ \A q \in Player : q # p => new[q] = db.mission[q]
  BY <1>2
<1> HIDE DEF new
<1>5. /\ db' \in Rows /\ db'.bag = db.bag /\ db'.mission = new /\ db'.rank = db.rank /\ db'.hurt = db.hurt
  BY <1>3 DEF Copies, Rows
<1>6. Tracked(db')
  <2> SUFFICES ASSUME NEW q \in Player, NEW k \in Mission
               PROVE  new[q][k].progress <= Count[k] /\ (new[q][k].done => new[q][k].taken)
    BY <1>5 DEF Tracked
  <2>1. CASE q = p /\ k = m
    <3>1. Count[k] \in Nat \ {0}
      BY DEF EconomyAssumption
    <3> QED BY <1>4, <2>1, <3>1
  <2>2. CASE ~(q = p /\ k = m)
    BY <1>4, <2>2 DEF Copies, Tracked
  <2> QED BY <2>1, <2>2
<1>7. screen' = [q \in Player |-> Shown(db', q)]
  <2>1. ASSUME NEW q \in Player PROVE screen'[q] = Shown(db', q)
    <3>1. CASE q = p
      <4>1. screen'[p] = [screen[p] EXCEPT !.journal = Journal(db', p)]
        BY DEF Copies
      <4>2. screen[p] = [bag |-> db.bag[p], journal |-> Journal(db, p), rank |-> db.rank[p]]
        BY ScreenIs
      <4> QED BY <1>5, <3>1, <4>1, <4>2 DEF Shown
    <3>2. CASE q # p
      <4>1. screen'[q] = Shown(db, q)
        BY <3>2 DEF Copies
      <4>2. db'.mission[q] = db.mission[q] /\ db'.bag[q] = db.bag[q] /\ db'.rank[q] = db.rank[q]
        BY <1>4, <1>5, <3>2
      <4>3. Shown(db', q) = Shown(db, q)
        BY <4>2, ShownSame
      <4> QED BY <4>1, <4>3
    <3> QED BY <3>1, <3>2
  <2>2. screen' = [q \in Player |-> screen'[q]]
    BY DEF Copies
  <2> QED BY <2>1, <2>2
<1>8. Copies'
  BY <1>1, <1>5, <1>6, <1>7 DEF Copies
<1>9. Books
  BY <1>1, <1>5, <1>8, BooksClosed
<1>10. ASSUME NEW q \in Player, NEW k \in Mission PROVE Closing(q, k)
  <2>1. CASE q = p /\ k = m
    BY <1>4, <1>5, <2>1 DEF Closing
  <2>2. CASE ~(q = p /\ k = m)
    BY <1>4, <1>5, <2>2 DEF Closing
  <2> QED BY <2>1, <2>2
<1> QED BY <1>8, <1>9, <1>10 DEF StepOK

\* taking a mission,
LEMMA AcceptOK ==
  ASSUME EconomyAssumption, Copies, NEW p \in Player, NEW m \in Mission, Accept(p, m)
  PROVE  StepOK
<1> DEFINE entry == [Untaken EXCEPT !.taken = TRUE]
<1>1. entry \in MissionRow /\ ~entry.done /\ entry.progress = 0
  BY DEF Untaken, MissionRow
<1>2. ~db.mission[p][m].done
  BY DEF Accept, Acceptable, Copies, Tracked
<1>3. /\ db' = [db EXCEPT !.mission[p][m] = entry] /\ screen' = [screen EXCEPT ![p].journal = Journal(db', p)]
      /\ UNCHANGED <<flags, playerVars, ledgerVars>>
  BY DEF Accept
<1> HIDE DEF entry
<1> QED BY <1>1, <1>2, <1>3, JournalOK

\* giving one up,
LEMMA AbandonOK ==
  ASSUME EconomyAssumption, Copies, NEW p \in Player, NEW m \in Mission, Abandon(p, m)
  PROVE  StepOK
<1>1. Untaken \in MissionRow /\ ~Untaken.done /\ Untaken.progress = 0
  BY DEF Untaken, MissionRow
<1>2. ~db.mission[p][m].done
  BY DEF Abandon
<1>3. /\ db' = [db EXCEPT !.mission[p][m] = Untaken] /\ screen' = [screen EXCEPT ![p].journal = Journal(db', p)]
      /\ UNCHANGED <<flags, playerVars, ledgerVars>>
  BY DEF Abandon
<1> QED BY <1>1, <1>2, <1>3, JournalOK

\* A page that is told of its bag shows the rows of e.
LEMMA BagShown ==
  ASSUME Copies, NEW e, NEW q \in Player, e.mission[q] = db.mission[q], e.rank[q] = db.rank[q]
  PROVE  [screen[q] EXCEPT !.bag = e.bag[q]] = Shown(e, q)
<1>1. screen[q] = [bag |-> db.bag[q], journal |-> Journal(db, q), rank |-> db.rank[q]]
  BY ScreenIs
<1>2. [screen[q] EXCEPT !.bag = e.bag[q]] = [bag |-> e.bag[q], journal |-> Journal(db, q), rank |-> db.rank[q]]
  BY <1>1
<1>3. Journal(e, q) = Journal(db, q)
  BY JournalSame
<1> QED BY <1>2, <1>3 DEF Shown

\* And one that is told nothing, when nothing of its own changed.
LEMMA SameShown ==
  ASSUME Copies, NEW e, NEW q \in Player,
         e.mission[q] = db.mission[q], e.rank[q] = db.rank[q], e.bag[q] = db.bag[q]
  PROVE  screen[q] = Shown(e, q)
<1>1. Shown(e, q) = Shown(db, q)
  BY ShownSame
<1> QED BY <1>1 DEF Copies

\* One of i leaves the bag of p.
LEMMA OneTaken ==
  ASSUME NEW d \in Rows, NEW p \in Player, NEW i \in Item, d.bag[p][i] > 0
  PROVE  LET e == Effect(d, Spend(p, i, 1))
         IN  /\ SameBut(e, d)
             /\ \A q \in Player, j \in Item :
                  e.bag[q][j] = IF q = p /\ j = i THEN d.bag[q][j] - 1 ELSE d.bag[q][j]
             /\ \A q \in Player : q # p => e.bag[q] = d.bag[q]
<1> DEFINE e == Effect(d, Spend(p, i, 1))
<1>1. Taken(e, d, p, i, 1)
  BY SpendIs
<1> HIDE DEF e
<1>2. d.bag \in [Player -> [Item -> Nat]] /\ d.bag[p] \in [Item -> Nat] /\ d.bag[p][i] \in Nat
  BY RowTypes
<1>3. (IF d.bag[p][i] > 1 THEN d.bag[p][i] - 1 ELSE 0) = d.bag[p][i] - 1
  BY <1>2
<1>4. e.bag = [d.bag EXCEPT ![p] = [d.bag[p] EXCEPT ![i] = d.bag[p][i] - 1]]
  BY <1>1, <1>3 DEF Taken
<1>5. SameBut(e, d)
  BY <1>1 DEF Taken
<1>6. \A q \in Player, j \in Item :
        e.bag[q][j] = IF q = p /\ j = i THEN d.bag[q][j] - 1 ELSE d.bag[q][j]
  BY <1>2, <1>4
<1>7. \A q \in Player : q # p => e.bag[q] = d.bag[q]
  BY <1>2, <1>4
<1> QED BY <1>5, <1>6, <1>7 DEF e

\* a potion, whichever of its two statements fails,
LEMMA DrinkOK ==
  ASSUME EconomyAssumption, Copies, NEW p \in Player, NEW i \in Item, Drink(p, i)
  PROVE  StepOK
<1>1. PICK failing \in Failure(<<1, 2>>), left \in BOOLEAN :
        /\ db' = Tx(db, <<Spend(p, i, 1), Heal(p, left)>>, failing)
        /\ IF Commits(db, <<Spend(p, i, 1), Heal(p, left)>>, failing)
           THEN /\ hurt' = [hurt EXCEPT ![p] = left]
                /\ screen' = [screen EXCEPT ![p].bag = db'.bag[p]]
                /\ spent' = [spent EXCEPT ![p][i] = @ + 1]
           ELSE UNCHANGED <<hurt, screen, spent>>
  BY DEF Drink
<1> DEFINE ss == <<Spend(p, i, 1), Heal(p, left)>>
<1>2. failing \in Nat
  BY DEF Failure
<1>3. /\ i \notin Trophy /\ db.bag[p][i] > 0
      /\ flags' = flags /\ rank' = rank /\ atGuild' = atGuild /\ earned' = earned
  BY DEF Drink
<1>4. flags' \subseteq {SlainFlag[e] : e \in Enemy} /\ atGuild' \subseteq Player
  BY <1>3 DEF Copies
<1>5. db' = IF Commits(db, ss, failing) THEN After(db, ss, Len(ss)) ELSE db
  BY <1>1, <1>2, TxIs
<1> DEFINE mid == Effect(db, Spend(p, i, 1))
<1>6. After(db, ss, Len(ss)) = Effect(mid, Heal(p, left))
  BY TwoAre
<1> HIDE DEF ss
<1>7. CASE ~Commits(db, ss, failing)
  <2>1. db' = db /\ hurt' = hurt /\ screen' = screen /\ spent' = spent
    BY <1>1, <1>5, <1>7 DEF ss
  <2> QED BY <1>3, <1>4, <2>1, NothingOK
<1>8. CASE Commits(db, ss, failing)
  <2>1. /\ db' = Effect(mid, Heal(p, left)) /\ hurt' = [hurt EXCEPT ![p] = left]
        /\ screen' = [screen EXCEPT ![p].bag = db'.bag[p]]
        /\ spent' = [spent EXCEPT ![p][i] = @ + 1]
    BY <1>1, <1>5, <1>6, <1>8 DEF ss
  <2>2. db \in Rows
    BY DEF Copies
  <2>3. /\ SameBut(mid, db)
        /\ \A q \in Player, j \in Item :
             mid.bag[q][j] = IF q = p /\ j = i THEN db.bag[q][j] - 1 ELSE db.bag[q][j]
        /\ \A q \in Player : q # p => mid.bag[q] = db.bag[q]
    BY <1>3, <2>2, OneTaken
  <2> HIDE DEF mid
  <2>4. /\ mid \in Rows /\ mid.mission = db.mission /\ mid.rank = db.rank /\ mid.hurt = db.hurt
    BY <2>3 DEF SameBut
  <2>5. /\ db' \in Rows /\ db'.bag = mid.bag /\ db'.mission = db.mission /\ db'.rank = db.rank
        /\ db'.hurt = [db.hurt EXCEPT ![p] = left]
    BY <2>1, <2>4, HealIs
  <2>6. ASSUME NEW q \in Player PROVE screen'[q] = Shown(db', q)
    <3>1. CASE q = p
      <4>1. screen'[q] = [screen[q] EXCEPT !.bag = db'.bag[q]]
        BY <2>1, <3>1 DEF Copies
      <4>2. [screen[q] EXCEPT !.bag = db'.bag[q]] = Shown(db', q)
        BY <2>5, BagShown
      <4> QED BY <4>1, <4>2
    <3>2. CASE q # p
      <4>1. screen'[q] = screen[q]
        BY <2>1, <3>2 DEF Copies
      <4>2. screen[q] = Shown(db', q)
        BY <2>3, <2>5, <3>2, SameShown
      <4> QED BY <4>1, <4>2
    <3> QED BY <3>1, <3>2
  <2>7. screen' = [q \in Player |-> Shown(db', q)]
    <3>1. screen' = [q \in Player |-> screen'[q]]
      BY <2>1 DEF Copies
    <3> QED BY <2>6, <3>1
  <2>8. Tracked(db')
    BY <2>5 DEF Copies, Tracked
  <2>9. /\ spent' \in Ledger
        /\ \A q \in Player, j \in Item : spent'[q][j] = IF q = p /\ j = i THEN spent[q][j] + 1 ELSE spent[q][j]
    BY <2>1 DEF Copies, Ledger
  <2>10. Copies'
    BY <1>3, <2>1, <2>5, <2>7, <2>8, <2>9 DEF Copies
  <2>11. ASSUME NEW q \in Player, NEW j \in Item PROVE Balanced(q, j)
    <3>1. db.bag[q][j] \in Nat /\ earned[q][j] \in Nat /\ spent[q][j] \in Nat
      BY DEF Copies, Rows, Ledger
    <3>2. /\ db'.bag[q][j] = IF q = p /\ j = i THEN db.bag[q][j] - 1 ELSE db.bag[q][j]
          /\ spent'[q][j] = IF q = p /\ j = i THEN spent[q][j] + 1 ELSE spent[q][j]
      BY <2>3, <2>5, <2>9
    <3> QED BY <1>3, <3>1, <3>2 DEF Balanced
  <2>12. ASSUME NEW q \in Player, NEW j \in Trophy PROVE Priced(q, j)
    <3>1. j \in Item /\ j # i
      BY <1>3 DEF EconomyAssumption
    <3> QED BY <1>3, <2>9, <3>1 DEF Priced
  <2>13. Books
    BY <2>10, <2>11, <2>12, BooksKept
  <2>14. \A q \in Player, m \in Mission : Closing(q, m)
    BY <2>5 DEF Closing
  <2> QED BY <2>10, <2>13, <2>14 DEF StepOK
<1> QED BY <1>7, <1>8

\* One item changes hands.
LEMMA SumsMove ==
  ASSUME IsFiniteSet(Player), NEW i \in Item, NEW b \in Ledger, NEW c \in Ledger,
         NEW p \in Player, NEW q \in Player, p # q,
         c[p][i] = b[p][i] - 1, c[q][i] = b[q][i] + 1, \A r \in Player \ {p, q} : c[r][i] = b[r][i]
  PROVE  SumOf(c, i) = SumOf(b, i)
<1> DEFINE order == SetToSeq(Player)
           col(l) == [k \in DOMAIN order |-> l[order[k]][i]]
<1>1. PICK n \in Nat :
        /\ n = Len(order) /\ DOMAIN order = 1..n /\ \A k \in 1..n : order[k] \in Player
        /\ \A j, k \in 1..n : order[j] = order[k] => j = k
        /\ \A r \in Player : \E k \in 1..n : order[k] = r
  <2>1. Lists(order, Player)
    BY Listed
  <2> HIDE DEF order
  <2> QED BY <2>1 DEF Lists
<1>2. \A l : SumOf(l, i) = SumTo(col(l), n)
  BY <1>1 DEF SumOf
<1> HIDE DEF order
<1>3. PICK j \in 1..n : order[j] = p
  BY <1>1
<1>4. PICK k \in 1..n : order[k] = q
  BY <1>1
<1> DEFINE v == col(b)  w == col(c)
<1>5. /\ \A l \in 1..n : v[l] = b[order[l]][i] /\ w[l] = c[order[l]][i]
      /\ \A l \in 1..n : order[l] \in Player
      /\ \A l \in (1..n) \ {j, k} : order[l] \in Player \ {p, q}
  BY <1>1, <1>3, <1>4
<1>6. SumOf(b, i) = SumTo(v, n) /\ SumOf(c, i) = SumTo(w, n)
  BY <1>2
<1> HIDE DEF v, w
<1>7. OneMoves(v, w, j, k, n)
  <2>1. \A r \in Player : b[r][i] \in Nat /\ c[r][i] \in Nat
    BY DEF Ledger
  <2>4. \A l \in 1..n : v[l] \in Nat /\ w[l] \in Nat
    BY <1>5, <2>1
  <2>2. w[j] = v[j] - 1 /\ w[k] = v[k] + 1
    BY <1>3, <1>4, <1>5
  <2>3. \A l \in (1..n) \ {j, k} : w[l] = v[l]
    BY <1>5
  <2> QED BY <2>2, <2>3, <2>4 DEF OneMoves
<1>8. j # k
  BY <1>3, <1>4
<1>9. SumTo(w, n) = SumTo(v, n)
  BY <1>7, <1>8, SumMoves
<1> QED BY <1>6, <1>9

\* a gift, which stays in the sum,
LEMMA GiveOK ==
  ASSUME EconomyAssumption, Copies, NEW p \in Player, NEW q \in Player, NEW i \in Item, Give(p, q, i)
  PROVE  StepOK
<1> DEFINE ss == <<Spend(p, i, 1), Add(q, i, 1)>>
<1>1. PICK failing \in Failure(<<1, 2>>) :
        /\ db' = Tx(db, ss, failing)
        /\ screen' = IF Commits(db, ss, failing)
                     THEN [screen EXCEPT ![p].bag = db'.bag[p], ![q].bag = db'.bag[q]]
                     ELSE screen
  BY DEF Give
<1>2. failing \in Nat
  BY DEF Failure
<1>3. /\ p # q /\ i \notin Trophy /\ db.bag[p][i] > 0
      /\ flags' = flags /\ rank' = rank /\ hurt' = hurt /\ atGuild' = atGuild
      /\ earned' = earned /\ spent' = spent
  BY DEF Give, Givable, playerVars, ledgerVars
<1>4. flags' \subseteq {SlainFlag[e] : e \in Enemy} /\ atGuild' \subseteq Player
  BY <1>3 DEF Copies
<1>5. db' = IF Commits(db, ss, failing) THEN After(db, ss, Len(ss)) ELSE db
  BY <1>1, <1>2, TxIs
<1> DEFINE mid == Effect(db, Spend(p, i, 1))
<1>6. After(db, ss, Len(ss)) = Effect(mid, Add(q, i, 1))
  BY TwoAre
<1> HIDE DEF ss
<1>7. CASE ~Commits(db, ss, failing)
  <2>1. db' = db /\ screen' = screen
    BY <1>1, <1>5, <1>7
  <2> QED BY <1>3, <1>4, <2>1, NothingOK
<1>8. CASE Commits(db, ss, failing)
  <2>1. /\ db' = Effect(mid, Add(q, i, 1))
        /\ screen' = [screen EXCEPT ![p].bag = db'.bag[p], ![q].bag = db'.bag[q]]
    BY <1>1, <1>5, <1>6, <1>8
  <2>2. db \in Rows
    BY DEF Copies
  <2>3. /\ SameBut(mid, db)
        /\ \A r \in Player, j \in Item :
             mid.bag[r][j] = IF r = p /\ j = i THEN db.bag[r][j] - 1 ELSE db.bag[r][j]
        /\ \A r \in Player : r # p => mid.bag[r] = db.bag[r]
    BY <1>3, <2>2, OneTaken
  <2> HIDE DEF mid
  <2>4. mid \in Rows /\ mid.mission = db.mission /\ mid.rank = db.rank /\ mid.hurt = db.hurt
    BY <2>3 DEF SameBut
  <2>5. /\ SameBut(db', mid)
        /\ db'.bag = [mid.bag EXCEPT ![q] = [mid.bag[q] EXCEPT ![i] = mid.bag[q][i] + 1]]
    <3> DEFINE end == Effect(mid, Add(q, i, 1))
    <3>1. Added(end, mid, q, i, 1)
      BY <2>4, AddIs
    <3>2. db' = end
      BY <2>1
    <3> HIDE DEF end
    <3> QED BY <3>1, <3>2 DEF Added
  <2>6. /\ db' \in Rows /\ db'.mission = db.mission /\ db'.rank = db.rank /\ db'.hurt = db.hurt
    BY <2>4, <2>5 DEF SameBut
  <2>7. mid.bag \in [Player -> [Item -> Nat]] /\ mid.bag[q] \in [Item -> Nat]
    BY <2>4, RowTypes
  <2>8. /\ \A r \in Player, j \in Item :
             db'.bag[r][j] = IF r = q /\ j = i THEN mid.bag[r][j] + 1 ELSE mid.bag[r][j]
        /\ \A r \in Player : r # q => db'.bag[r] = mid.bag[r]
    BY <2>5, <2>7
  <2>9. ASSUME NEW r \in Player PROVE screen'[r] = Shown(db', r)
    <3>1. CASE r \in {p, q}
      <4>1. screen'[r] = [screen[r] EXCEPT !.bag = db'.bag[r]]
        BY <1>3, <2>1, <3>1 DEF Copies
      <4>2. [screen[r] EXCEPT !.bag = db'.bag[r]] = Shown(db', r)
        BY <2>6, BagShown
      <4> QED BY <4>1, <4>2
    <3>2. CASE r \notin {p, q}
      <4>1. screen'[r] = screen[r]
        BY <2>1, <3>2 DEF Copies
      <4>2. db'.mission[r] = db.mission[r] /\ db'.rank[r] = db.rank[r] /\ db'.bag[r] = db.bag[r]
        BY <2>3, <2>6, <2>8, <3>2
      <4>3. screen[r] = Shown(db', r)
        BY <4>2, SameShown
      <4> QED BY <4>1, <4>3
    <3> QED BY <3>1, <3>2
  <2>10. screen' = [r \in Player |-> Shown(db', r)]
    <3>1. screen' = [r \in Player |-> screen'[r]]
      BY <2>1 DEF Copies
    <3> QED BY <2>9, <3>1
  <2>11. Tracked(db')
    BY <2>6 DEF Copies, Tracked
  <2>12. Copies'
    BY <1>3, <2>6, <2>10, <2>11 DEF Copies
  <2>13. db.bag \in Ledger /\ db'.bag \in Ledger
    BY <2>2, <2>6 DEF Rows, Ledger
  <2>14. \A r \in Player, j \in Item : j # i => db'.bag[r][j] = db.bag[r][j]
    BY <2>3, <2>8
  <2>15. ASSUME NEW j \in Item PROVE SumOf(db'.bag, j) = SumOf(db.bag, j)
    <3> DEFINE b == db.bag  c == db'.bag
    <3>1. b \in Ledger /\ c \in Ledger /\ IsFiniteSet(Player)
      BY <2>13 DEF EconomyAssumption
    <3>2. CASE j = i
      <4>1. c[p][j] = b[p][j] - 1 /\ c[q][j] = b[q][j] + 1 /\ \A r \in Player \ {p, q} : c[r][j] = b[r][j]
        BY <1>3, <2>3, <2>8, <3>2
      <4> HIDE DEF b, c
      <4>2. SumOf(c, j) = SumOf(b, j)
        BY <1>3, <3>1, <4>1, SumsMove
      <4> QED BY <4>2 DEF b, c
    <3>3. CASE j # i
      <4>1. \A r \in Player : c[r][j] = b[r][j]
        BY <2>14, <3>3
      <4>2. DOMAIN SetToSeq(Player) = 1..Len(SetToSeq(Player))
            /\ \A k \in DOMAIN SetToSeq(Player) : SetToSeq(Player)[k] \in Player
        BY <3>1, Listed DEF Lists
      <4> HIDE DEF b, c
      <4>3. [k \in DOMAIN SetToSeq(Player) |-> c[SetToSeq(Player)[k]][j]]
            = [k \in DOMAIN SetToSeq(Player) |-> b[SetToSeq(Player)[k]][j]]
        BY <4>1, <4>2
      <4>4. SumOf(c, j) = SumOf(b, j)
        BY <4>3 DEF SumOf
      <4> QED BY <4>4 DEF b, c
    <3> QED BY <3>2, <3>3
  <2>16. \A j \in Item : Conserved(j) => Conserved(j)'
    BY <1>3, <2>15 DEF Conserved
  <2>17. ASSUME NEW r \in Player, NEW j \in Trophy PROVE Balanced(r, j) /\ Priced(r, j)
    <3>1. j \in Item /\ j # i
      BY <1>3 DEF EconomyAssumption
    <3>2. db.bag[r][j] \in Nat /\ earned[r][j] \in Nat /\ spent[r][j] \in Nat
      BY <3>1 DEF Copies, Rows, Ledger
    <3>3. db'.bag[r][j] = db.bag[r][j]
      BY <2>14, <3>1
    <3> QED BY <1>3, <3>2, <3>3 DEF Balanced, Priced
  <2>18. \A r \in Player, m \in Mission : Closing(r, m)
    BY <2>6 DEF Closing
  <2> QED BY <2>12, <2>16, <2>17, <2>18 DEF StepOK, Books
<1> QED BY <1>7, <1>8

\* a reward,
LEMMA TurnInOK ==
  ASSUME EconomyAssumption, Copies, NEW p \in Player, NEW m \in Mission, TurnIn(p, m)
  PROVE  StepOK
<1> DEFINE ss == Payment(p, m)
           end == After(db, ss, Len(ss))
<1>1. PICK failing \in Failure(ss) :
        /\ db' = Tx(db, ss, failing)
        /\ IF Commits(db, ss, failing)
           THEN /\ screen' = [screen EXCEPT ![p].bag = db'.bag[p], ![p].journal = Journal(db', p)]
                /\ earned' = Received(p, Reward[m])
           ELSE UNCHANGED <<screen, earned>>
  BY DEF TurnIn
<1>2. Reward[m] \in Seq(Things)
  BY DEF EconomyAssumption
<1>3. failing \in Nat
  BY DEF Failure
<1>4. /\ db.mission[p][m].taken /\ ~db.mission[p][m].done
      /\ flags' = flags /\ rank' = rank /\ hurt' = hurt /\ atGuild' = atGuild /\ spent' = spent
  BY DEF TurnIn, playerVars
<1>5. flags' \subseteq {SlainFlag[e] : e \in Enemy} /\ atGuild' \subseteq Player
  BY <1>4 DEF Copies
<1>6. db' = IF Commits(db, ss, failing) THEN end ELSE db
  BY <1>1, <1>3, TxIs
<1>7. CASE ~Commits(db, ss, failing)
  <2>1. db' = db /\ screen' = screen /\ earned' = earned
    BY <1>1, <1>6, <1>7
  <2> QED BY <1>4, <1>5, <2>1, NothingOK
<1>8. CASE Commits(db, ss, failing)
  <2>1. db \in Rows
    BY DEF Copies
  <2>2. /\ end \in Rows /\ end.rank = db.rank /\ end.hurt = db.hurt
        /\ end.mission = [db.mission EXCEPT ![p] = [db.mission[p] EXCEPT ![m] =
                            [db.mission[p][m] EXCEPT !.done = TRUE]]]
        /\ end.bag = [db.bag EXCEPT ![p] = [i \in Item |-> db.bag[p][i] + Total(Reward[m], i)]]
    <3> HIDE DEF end
    <3>1. end = After(db, Payment(p, m), Len(Payment(p, m)))
      BY DEF end
    <3> QED BY <2>1, <3>1, PaymentIs
  <2> HIDE DEF end
  <2>3. /\ db' = end
        /\ screen' = [screen EXCEPT ![p].bag = db'.bag[p], ![p].journal = Journal(db', p)]
        /\ earned' = Received(p, Reward[m])
    BY <1>1, <1>6, <1>8
  <2> HIDE DEF ss
  <2>4. /\ db.mission \in [Player -> [Mission -> MissionRow]] /\ db.mission[p] \in [Mission -> MissionRow]
        /\ db.mission[p][m] \in MissionRow /\ db.bag \in [Player -> [Item -> Nat]]
    BY <2>1, RowTypes
  <2>5. /\ \A q \in Player, k \in Mission : ~(q = p /\ k = m) => db'.mission[q][k] = db.mission[q][k]
        /\ db'.mission[p][m] = [db.mission[p][m] EXCEPT !.done = TRUE]
        /\ \A q \in Player : q # p => db'.mission[q] = db.mission[q] /\ db'.bag[q] = db.bag[q]
    <3> DEFINE entry == [db.mission[p][m] EXCEPT !.done = TRUE]
    <3>1. db'.mission = [db.mission EXCEPT ![p] = [db.mission[p] EXCEPT ![m] = entry]]
      BY <2>2, <2>3
    <3>2. db'.bag = [db.bag EXCEPT ![p] = db'.bag[p]]
      BY <2>2, <2>3, <2>4
    <3> HIDE DEF entry
    <3>3. /\ \A q \in Player : q # p => db'.mission[q] = db.mission[q] /\ db'.bag[q] = db.bag[q]
          /\ \A k \in Mission : db'.mission[p][k] = IF k = m THEN entry ELSE db.mission[p][k]
      BY <2>4, <3>1, <3>2
    <3> QED BY <3>3 DEF entry
  <2>6. \A i \in Item : db'.bag[p][i] = db.bag[p][i] + Total(Reward[m], i)
    BY <2>2, <2>3, <2>4
  <2>7. /\ db' \in Rows /\ db'.rank = db.rank /\ db'.hurt = db.hurt
    BY <2>2, <2>3
  <2>8. ASSUME NEW q \in Player PROVE screen'[q] = Shown(db', q)
    <3>1. CASE q = p
      <4>1. screen'[p] = [screen[p] EXCEPT !.bag = db'.bag[p], !.journal = Journal(db', p)]
        BY <2>3 DEF Copies
      <4>2. screen[p] = [bag |-> db.bag[p], journal |-> Journal(db, p), rank |-> db.rank[p]]
        BY ScreenIs
      <4>3. screen'[p] = [bag |-> db'.bag[p], journal |-> Journal(db', p), rank |-> db.rank[p]]
        <5> DEFINE s == screen[p]  x == db'.bag[p]  y == Journal(db', p)
                   a == db.bag[p]  b == Journal(db, p)  c == db.rank[p]
        <5>1. s = [bag |-> a, journal |-> b, rank |-> c] /\ screen'[p] = [s EXCEPT !.bag = x, !.journal = y]
          BY <4>1, <4>2
        <5> HIDE DEF s, x, y, a, b, c
        <5>2. [s EXCEPT !.bag = x, !.journal = y] = [bag |-> x, journal |-> y, rank |-> c]
          BY <5>1, PaidShown
        <5> QED BY <5>1, <5>2 DEF x, y, c
      <4> QED BY <2>7, <3>1, <4>3 DEF Shown
    <3>2. CASE q # p
      <4>1. screen'[q] = screen[q]
        BY <2>3, <3>2 DEF Copies
      <4>2. db'.mission[q] = db.mission[q] /\ db'.rank[q] = db.rank[q] /\ db'.bag[q] = db.bag[q]
        BY <2>5, <2>7, <3>2
      <4>3. screen[q] = Shown(db', q)
        BY <4>2, SameShown
      <4> QED BY <4>1, <4>3
    <3> QED BY <3>1, <3>2
  <2>9. screen' = [q \in Player |-> Shown(db', q)]
    <3>1. screen' = [q \in Player |-> screen'[q]]
      BY <2>3 DEF Copies
    <3> QED BY <2>8, <3>1
  <2>10. Tracked(db')
    <3> SUFFICES ASSUME NEW q \in Player, NEW k \in Mission
                 PROVE  /\ db'.mission[q][k].progress <= Count[k]
                        /\ db'.mission[q][k].done => db'.mission[q][k].taken
      BY DEF Tracked
    <3>1. CASE q = p /\ k = m
      <4>1. /\ db'.mission[p][m].progress = db.mission[p][m].progress
            /\ db'.mission[p][m].taken = db.mission[p][m].taken
        BY <2>4, <2>5 DEF MissionRow
      <4> QED BY <1>4, <3>1, <4>1 DEF Copies, Tracked
    <3>2. CASE ~(q = p /\ k = m)
      BY <2>5, <3>2 DEF Copies, Tracked
    <3> QED BY <3>1, <3>2
  <2>11. \A i \in Item : Total(Reward[m], i) \in Nat
    BY <1>2, TotalNat
  <2>12. /\ earned' = [earned EXCEPT ![p] = [i \in Item |-> earned[p][i] + Total(Reward[m], i)]]
    BY <2>3 DEF Received, Copies, Ledger
  <2>13. /\ \A i \in Item : earned'[p][i] = earned[p][i] + Total(Reward[m], i)
         /\ \A q \in Player : q # p => earned'[q] = earned[q]
    BY <2>12 DEF Copies, Ledger
  <2>14. earned' \in Ledger
    <3>1. [i \in Item |-> earned[p][i] + Total(Reward[m], i)] \in [Item -> Nat]
      BY <2>11 DEF Copies, Ledger
    <3> QED BY <2>12, <3>1 DEF Copies, Ledger
  <2>15. Copies'
    BY <1>4, <1>5, <2>7, <2>9, <2>10, <2>14 DEF Copies
  <2>16. ASSUME NEW q \in Player, NEW i \in Item PROVE Balanced(q, i)
    <3>1. db.bag[q][i] \in Nat /\ earned[q][i] \in Nat /\ spent[q][i] \in Nat
      BY DEF Copies, Rows, Ledger
    <3>2. CASE q = p
      BY <1>4, <2>6, <2>11, <2>13, <3>1, <3>2 DEF Balanced
    <3>3. CASE q # p
      BY <1>4, <2>5, <2>13, <3>1, <3>3 DEF Balanced
    <3> QED BY <3>2, <3>3
  <2>17. \A q \in Player, i \in Trophy : Priced(q, i)
    BY <1>4 DEF Priced
  <2>18. Books
    BY <2>15, <2>16, <2>17, BooksKept
  <2>19. ASSUME NEW q \in Player, NEW k \in Mission PROVE Closing(q, k)
    <3>1. CASE q = p /\ k = m
      BY <1>4, <2>6, <3>1 DEF Closing
    <3>2. CASE ~(q = p /\ k = m)
      BY <2>5, <3>2 DEF Closing
    <3> QED BY <3>1, <3>2
  <2> QED BY <2>15, <2>18, <2>19 DEF StepOK
<1> QED BY <1>7, <1>8

\* a rank,
LEMMA PromoteOK ==
  ASSUME EconomyAssumption, Copies, NEW p \in Player, Promote(p)
  PROVE  StepOK
<1> DEFINE r == rank[p] + 1
           ss == Dues(p, r)
           end == After(db, ss, Len(ss))
<1>1. PICK failing \in Failure(ss) :
        /\ db' = Tx(db, ss, failing)
        /\ IF Commits(db, ss, failing)
           THEN /\ rank' = [rank EXCEPT ![p] = r]
                /\ screen' = [screen EXCEPT ![p].rank = r, ![p].bag = db'.bag[p]]
                /\ spent' = [spent EXCEPT ![p] = [i \in Item |-> @[i] + db.bag[p][i] - db'.bag[p][i]]]
           ELSE UNCHANGED <<rank, screen, spent>>
  BY DEF Promote
<1>2. /\ r \in Ranks /\ Affordable(p, r)
      /\ flags' = flags /\ hurt' = hurt /\ atGuild' = atGuild /\ earned' = earned
  BY DEF Promote
<1>3. flags' \subseteq {SlainFlag[e] : e \in Enemy} /\ atGuild' \subseteq Player
  BY <1>2 DEF Copies
<1>4. failing \in Nat
  BY DEF Failure
<1>5. db' = IF Commits(db, ss, failing) THEN end ELSE db
  BY <1>1, <1>4, TxIs
<1>6. CASE ~Commits(db, ss, failing)
  <2>1. db' = db /\ rank' = rank /\ screen' = screen /\ spent' = spent
    BY <1>1, <1>5, <1>6
  <2> QED BY <1>2, <1>3, <2>1, NothingOK
<1>7. CASE Commits(db, ss, failing)
  <2>1. db \in Rows /\ rank = db.rank
    BY DEF Copies
  <2>2. rank[p] \in Nat /\ r \in DOMAIN Cost /\ Cost[r] \in Seq(Things) /\ db.rank[p] < r
    <3>1. db.rank[p] \in Ranks
      BY <2>1, RowTypes
    <3>2. PICK n \in Nat : n = Len(Cost) /\ DOMAIN Cost = 1..n
      BY LenProperties DEF EconomyAssumption
    <3>3. rank[p] \in Nat /\ r \in 1..n
      BY <1>2, <2>1, <3>1, <3>2 DEF Ranks
    <3> QED BY <2>1, <3>2, <3>3, ElementOfSeq DEF EconomyAssumption
  <2> DEFINE list == Cost[r]
  <2>3. /\ end \in Rows /\ end.mission = db.mission /\ end.hurt = db.hurt
        /\ end.rank = [db.rank EXCEPT ![p] = r]
        /\ end.bag = [db.bag EXCEPT ![p] = end.bag[p]]
        /\ \A i \in Item : end.bag[p][i] <= db.bag[p][i]
        /\ Covered(db, p, r) => \A i \in Item : end.bag[p][i] = db.bag[p][i] - Total(list, i)
    <3> HIDE DEF r, end
    <3>1. end = After(db, Dues(p, r), Len(Dues(p, r)))
      BY DEF end
    <3> QED BY <1>2, <2>1, <2>2, <3>1, DuesAre
  <2> HIDE DEF end, ss
  <2>4. /\ db' = end /\ rank' = [rank EXCEPT ![p] = r]
        /\ screen' = [screen EXCEPT ![p].rank = r, ![p].bag = db'.bag[p]]
        /\ spent' = [spent EXCEPT ![p] = [i \in Item |-> spent[p][i] + db.bag[p][i] - db'.bag[p][i]]]
    BY <1>1, <1>5, <1>7
  <2>5. RanksAskOnce => Covered(db, p, r)
    BY <1>2, <2>2 DEF RanksAskOnce, Affordable, Covered
  <2>6. /\ db' \in Rows /\ db'.mission = db.mission /\ db'.hurt = db.hurt
        /\ db'.rank = [db.rank EXCEPT ![p] = r] /\ rank' = db'.rank
    BY <2>1, <2>3, <2>4
  <2>7. \A q \in Player : q # p => db'.bag[q] = db.bag[q] /\ db'.rank[q] = db.rank[q]
    <3>1. db'.bag = [db.bag EXCEPT ![p] = db'.bag[p]]
      BY <2>3, <2>4
    <3> QED BY <2>1, <2>6, <3>1, RowTypes
  <2> HIDE DEF r
  <2>8. ASSUME NEW q \in Player PROVE screen'[q] = Shown(db', q)
    <3>1. CASE q = p
      <4>1. screen'[p] = [screen[p] EXCEPT !.rank = r, !.bag = db'.bag[p]]
        BY <2>4 DEF Copies
      <4>2. screen[p] = [bag |-> db.bag[p], journal |-> Journal(db, p), rank |-> db.rank[p]]
        BY ScreenIs
      <4>3. Journal(db', p) = Journal(db, p)
        BY <2>6, JournalSame
      <4>4. db'.rank[p] = r
        BY <2>1, <2>6 DEF Rows
      <4>5. screen'[p] = [bag |-> db'.bag[p], journal |-> Journal(db, p), rank |-> r]
        <5> DEFINE s == screen[p]  x == db'.bag[p]  a == db.bag[p]  b == Journal(db, p)  c == db.rank[p]
        <5>1. s = [bag |-> a, journal |-> b, rank |-> c] /\ screen'[p] = [s EXCEPT !.rank = r, !.bag = x]
          BY <4>1, <4>2
        <5> HIDE DEF s, x, a, b, c
        <5>2. [s EXCEPT !.rank = r, !.bag = x] = [bag |-> x, journal |-> b, rank |-> r]
          BY <5>1, RankShown
        <5> QED BY <5>1, <5>2 DEF x, b
      <4> QED BY <3>1, <4>3, <4>4, <4>5 DEF Shown
    <3>2. CASE q # p
      <4>1. screen'[q] = screen[q]
        BY <2>4, <3>2 DEF Copies
      <4>2. db'.mission[q] = db.mission[q] /\ db'.rank[q] = db.rank[q] /\ db'.bag[q] = db.bag[q]
        BY <2>6, <2>7, <3>2
      <4>3. screen[q] = Shown(db', q)
        BY <4>2, SameShown
      <4> QED BY <4>1, <4>3
    <3> QED BY <3>1, <3>2
  <2>9. screen' = [q \in Player |-> Shown(db', q)]
    <3>1. screen' = [q \in Player |-> screen'[q]]
      BY <2>4 DEF Copies
    <3> QED BY <2>8, <3>1
  <2>10. Tracked(db')
    BY <2>6 DEF Copies, Tracked
  <2>11. \A i \in Item : db.bag[p][i] \in Nat /\ db'.bag[p][i] \in Nat /\ db'.bag[p][i] <= db.bag[p][i]
    BY <2>1, <2>3, <2>4, RowTypes
  <2>12. /\ \A i \in Item : spent'[p][i] = spent[p][i] + db.bag[p][i] - db'.bag[p][i]
         /\ \A q \in Player : q # p => spent'[q] = spent[q]
    BY <2>4 DEF Copies, Ledger
  <2>13. spent' \in Ledger
    <3>1. [i \in Item |-> spent[p][i] + db.bag[p][i] - db'.bag[p][i]] \in [Item -> Nat]
      BY <2>11 DEF Copies, Ledger
    <3> QED BY <2>4, <3>1 DEF Copies, Ledger
  <2>14. Copies'
    BY <1>2, <1>3, <2>6, <2>9, <2>10, <2>13 DEF Copies
  <2>15. ASSUME NEW q \in Player, NEW i \in Item PROVE Balanced(q, i)
    <3>1. db.bag[q][i] \in Nat /\ earned[q][i] \in Nat /\ spent[q][i] \in Nat
      BY DEF Copies, Rows, Ledger
    <3>2. CASE q = p
      BY <1>2, <2>11, <2>12, <3>1, <3>2 DEF Balanced
    <3>3. CASE q # p
      BY <1>2, <2>7, <2>12, <3>1, <3>3 DEF Balanced
    <3> QED BY <3>2, <3>3
  <2>16. ASSUME NEW q \in Player, NEW i \in Trophy PROVE Priced(q, i)
    <3>1. CASE q = p
      <4>1. rank'[p] = rank[p] + 1
        BY <2>1, <2>4 DEF r, Rows
      <4>2. ASSUME RanksAskOnce PROVE spent'[p][i] = spent[p][i] + Total(Cost[rank[p] + 1], i)
        <5>1. i \in Item
          BY DEF EconomyAssumption
        <5>2. db'.bag[p][i] = db.bag[p][i] - Total(list, i)
          BY <2>3, <2>4, <2>5, <4>2, <5>1
        <5>3. Total(list, i) \in Nat /\ db.bag[p][i] \in Nat /\ spent[p][i] \in Nat
          BY <2>2, <2>11, <5>1, TotalNat DEF Copies, Ledger
        <5>4. spent'[p][i] = spent[p][i] + Total(list, i)
          BY <2>12, <5>1, <5>2, <5>3
        <5> QED BY <5>4 DEF r
      <4> QED BY <3>1, <4>1, <4>2 DEF Priced
    <3>2. CASE q # p
      <4>1. rank'[q] = rank[q] /\ spent'[q] = spent[q]
        BY <2>1, <2>4, <2>12, <3>2, RowTypes
      <4> QED BY <4>1 DEF Priced
    <3> QED BY <3>1, <3>2
  <2>17. Books
    BY <2>14, <2>15, <2>16, BooksKept
  <2>18. \A q \in Player, m \in Mission : Closing(q, m)
    BY <2>6 DEF Closing
  <2> QED BY <2>14, <2>17, <2>18 DEF StepOK
<1> QED BY <1>6, <1>7

\* Drops go into bags: the statement always finds a row.
LEMMA AwardsSound ==
  ASSUME EconomyAssumption, NEW d, NEW lucky \in SUBSET Player, NEW en \in Enemy
  PROVE  Sound(d, Awards(lucky, en))
<1> DEFINE ss == Awards(lucky, en)
<1>1. \A k \in DOMAIN ss : ss[k] = Add(SetToSeq(lucky)[k], Drops[en].item, Drops[en].n)
  BY DEF Awards
<1> HIDE DEF ss
<1>2. \A a, k : k \in DOMAIN ss => Touches(a, ss[k])
  BY <1>1 DEF Touches, Add
<1>3. Sound(d, ss)
  BY <1>2 DEF Sound
<1> QED BY <1>3 DEF ss

\* The mission credit of a kill, for the pairs in credited.
LEMMA AdvancedIs ==
  ASSUME EconomyAssumption, NEW d \in Rows, Tracked(d), NEW credited, NEW e, e = Advanced(d, credited)
  PROVE  /\ e \in Rows /\ e.bag = d.bag /\ e.rank = d.rank /\ e.hurt = d.hurt /\ Tracked(e)
         /\ \A p \in Player, m \in Mission :
              /\ e.mission[p][m].done = d.mission[p][m].done
              /\ <<p, m>> \notin credited => e.mission[p][m] = d.mission[p][m]
         /\ \A p \in Player : (\A m \in Mission : <<p, m>> \notin credited) => e.mission[p] = d.mission[p]
<1> DEFINE more(p, m) == [d.mission[p][m] EXCEPT !.progress = IF @ < Count[m] THEN @ + 1 ELSE @]
           new == [p \in Player |-> [m \in Mission |->
                     IF <<p, m>> \in credited THEN more(p, m) ELSE d.mission[p][m]]]
<1>1. e = [d EXCEPT !.mission = new]
  BY DEF Advanced
<1>2. ASSUME NEW p \in Player, NEW m \in Mission
      PROVE  /\ more(p, m) \in MissionRow /\ more(p, m).done = d.mission[p][m].done
             /\ more(p, m).taken = d.mission[p][m].taken
             /\ more(p, m).progress <= Count[m]
  <2> DEFINE entry == d.mission[p][m]
  <2>1. entry \in MissionRow /\ entry.progress \in Nat
    BY RowTypes DEF MissionRow
  <2>2. Count[m] \in Nat /\ entry.progress <= Count[m]
    BY DEF EconomyAssumption, Tracked
  <2> DEFINE n == IF entry.progress < Count[m] THEN entry.progress + 1 ELSE entry.progress
  <2>3. n \in Nat /\ n <= Count[m]
    BY <2>1, <2>2
  <2>4. more(p, m) = [entry EXCEPT !.progress = n]
    BY <2>1
  <2> HIDE DEF entry, n
  <2>5. /\ [entry EXCEPT !.progress = n] \in MissionRow /\ [entry EXCEPT !.progress = n].done = entry.done
        /\ [entry EXCEPT !.progress = n].taken = entry.taken /\ [entry EXCEPT !.progress = n].progress = n
    BY <2>1, <2>3 DEF MissionRow
  <2> HIDE DEF more
  <2> QED BY <2>3, <2>4, <2>5 DEF entry
<1> HIDE DEF more
<1>3. new \in [Player -> [Mission -> MissionRow]]
  BY <1>2, RowTypes
<1>4. \A p \in Player, m \in Mission : new[p][m] = IF <<p, m>> \in credited THEN more(p, m) ELSE d.mission[p][m]
  OBVIOUS
<1> HIDE DEF new
<1>5. e \in Rows /\ e.bag = d.bag /\ e.rank = d.rank /\ e.hurt = d.hurt /\ e.mission = new
  BY <1>1, <1>3 DEF Rows
<1>6. ASSUME NEW p \in Player, NEW m \in Mission
      PROVE  /\ new[p][m].done = d.mission[p][m].done /\ new[p][m].taken = d.mission[p][m].taken
             /\ new[p][m].progress <= Count[m]
             /\ <<p, m>> \notin credited => new[p][m] = d.mission[p][m]
  BY <1>2, <1>4 DEF Tracked
<1>7. Tracked(e)
  <2> SUFFICES ASSUME NEW p \in Player, NEW m \in Mission
               PROVE  e.mission[p][m].progress <= Count[m] /\ (e.mission[p][m].done => e.mission[p][m].taken)
    BY DEF Tracked
  <2>1. /\ new[p][m].done = d.mission[p][m].done /\ new[p][m].taken = d.mission[p][m].taken
        /\ new[p][m].progress <= Count[m]
    BY <1>6
  <2>2. d.mission[p][m].done => d.mission[p][m].taken
    BY DEF Tracked
  <2> QED BY <1>5, <2>1, <2>2
<1>8. ASSUME NEW p \in Player, \A m \in Mission : <<p, m>> \notin credited
      PROVE  new[p] = d.mission[p]
  <2>1. new[p] \in [Mission -> MissionRow] /\ d.mission[p] \in [Mission -> MissionRow]
    BY <1>3, RowTypes
  <2>2. \A m \in Mission : new[p][m] = d.mission[p][m]
    BY <1>6, <1>8
  <2> QED BY <2>1, <2>2
<1> QED BY <1>5, <1>6, <1>7, <1>8

\* e is d with what en drops in the bags of got.
Dropped(e, d, got, en) ==
  /\ SameBut(e, d)
  /\ \A q \in Player, i \in Item :
       e.bag[q][i] = d.bag[q][i] + (IF q \in got /\ i = Drops[en].item THEN Drops[en].n ELSE 0)

\* What the transaction of the drops leaves: got is who has them.
LEMMA DropsAre ==
  ASSUME EconomyAssumption, NEW d \in Rows, NEW lucky \in SUBSET Player, NEW en \in Enemy,
         NEW awards, awards = (IF Drops[en] = NoDrop THEN <<>> ELSE Awards(lucky, en)),
         NEW failing \in Failure(awards),
         NEW got, got = (IF failing = 0 /\ Drops[en] # NoDrop THEN lucky ELSE {}),
         NEW e, e = Tx(d, awards, failing)
  PROVE  Dropped(e, d, got, en)
<1>1. failing \in Nat
  BY DEF Failure
<1>2. e = IF Commits(d, awards, failing) THEN After(d, awards, Len(awards)) ELSE d
  BY <1>1, TxIs
<1>3. ASSUME e = d, got = {} PROVE Dropped(e, d, got, en)
  <2>1. SameBut(e, d)
    BY <1>3 DEF SameBut
  <2>2. \A q \in Player, i \in Item : d.bag[q][i] \in Nat /\ q \notin got
    BY <1>3, RowTypes
  <2> QED BY <1>3, <2>1, <2>2 DEF Dropped
<1>4. CASE Drops[en] = NoDrop
  <2>1. awards = <<>> /\ Len(awards) = 0 /\ got = {}
    BY <1>4
  <2>2. After(d, awards, 0) = d
    BY AfterIs
  <2>3. e = d
    BY <1>2, <2>1, <2>2
  <2> QED BY <1>3, <2>1, <2>3
<1>5. CASE Drops[en] # NoDrop /\ failing # 0
  <2>1. ~Commits(d, awards, failing) /\ got = {}
    BY <1>5 DEF Commits
  <2>2. e = d
    BY <1>2, <2>1
  <2> QED BY <1>3, <2>1, <2>2
<1>6. CASE Drops[en] # NoDrop /\ failing = 0
  <2>1. awards = Awards(lucky, en) /\ got = lucky
    BY <1>6
  <2>2. Commits(d, awards, failing)
    BY <1>6, <2>1, AwardsSound DEF Commits
  <2>3. e = After(d, Awards(lucky, en), Len(Awards(lucky, en)))
    BY <1>2, <2>1, <2>2
  <2>4. /\ SameBut(e, d)
        /\ \A q \in Player, i \in Item :
             e.bag[q][i] = d.bag[q][i] + (IF q \in lucky /\ i = Drops[en].item THEN Drops[en].n ELSE 0)
    BY <1>6, <2>3, AwardsAre
  <2> QED BY <2>1, <2>4 DEF Dropped
<1> QED BY <1>4, <1>5, <1>6

\* and a kill: the drops, and the credit as far as it got.
LEMMA SlayOK ==
  ASSUME EconomyAssumption, Copies, NEW en \in Enemy, NEW paid \in SUBSET Player, Slay(en, paid)
  PROVE  StepOK
<1>1. PICK lucky \in SUBSET paid, credited \in SUBSET Due(paid, en) :
       LET awards == IF Drops[en] = NoDrop THEN <<>> ELSE Awards(lucky, en)
       IN  \E failing \in Failure(awards) :
             LET got == IF failing = 0 /\ Drops[en] # NoDrop THEN lucky ELSE {}
             IN  /\ db' = Advanced(Tx(db, awards, failing), credited)
                 /\ earned' = [p \in Player |-> [i \in Item |->
                      earned[p][i] + IF p \in got /\ i = Drops[en].item THEN Drops[en].n ELSE 0]]
                 /\ screen' = [p \in Player |->
                      IF credited # Due(paid, en) THEN Shown(db', p)
                      ELSE [screen[p] EXCEPT
                             !.bag = IF p \in got THEN db'.bag[p] ELSE @,
                             !.journal = IF \E m \in Mission : <<p, m>> \in credited
                                         THEN Journal(db', p) ELSE @]]
  BY DEF Slay
<1> DEFINE awards == IF Drops[en] = NoDrop THEN <<>> ELSE Awards(lucky, en)
<1>2. PICK failing \in Failure(awards) :
        LET got == IF failing = 0 /\ Drops[en] # NoDrop THEN lucky ELSE {}
        IN  /\ db' = Advanced(Tx(db, awards, failing), credited)
            /\ earned' = [p \in Player |-> [i \in Item |->
                 earned[p][i] + IF p \in got /\ i = Drops[en].item THEN Drops[en].n ELSE 0]]
            /\ screen' = [p \in Player |->
                 IF credited # Due(paid, en) THEN Shown(db', p)
                 ELSE [screen[p] EXCEPT
                        !.bag = IF p \in got THEN db'.bag[p] ELSE @,
                        !.journal = IF \E m \in Mission : <<p, m>> \in credited
                                    THEN Journal(db', p) ELSE @]]
  BY <1>1
<1> DEFINE got == IF failing = 0 /\ Drops[en] # NoDrop THEN lucky ELSE {}
           tx == Tx(db, awards, failing)
           gift(p, i) == IF p \in got /\ i = Drops[en].item THEN Drops[en].n ELSE 0
<1>3. /\ db' = Advanced(tx, credited)
      /\ earned' = [p \in Player |-> [i \in Item |-> earned[p][i] + gift(p, i)]]
      /\ \A p \in Player : screen'[p] =
           IF credited # Due(paid, en) THEN Shown(db', p)
           ELSE [screen[p] EXCEPT
                  !.bag = IF p \in got THEN db'.bag[p] ELSE screen[p].bag,
                  !.journal = IF \E m \in Mission : <<p, m>> \in credited
                              THEN Journal(db', p) ELSE screen[p].journal]
      /\ screen' = [p \in Player |-> screen'[p]]
  BY <1>2
<1>4. rank' = rank /\ hurt' = hurt /\ atGuild' = atGuild /\ spent' = spent
      /\ flags' \subseteq {SlainFlag[e] : e \in Enemy} /\ atGuild' \subseteq Player
  BY DEF Slay, playerVars, Copies
<1>5. db \in Rows /\ Tracked(db)
  BY DEF Copies
<1>6. SameBut(tx, db) /\ \A q \in Player, i \in Item : tx.bag[q][i] = db.bag[q][i] + gift(q, i)
  <2>1. lucky \in SUBSET Player /\ failing \in Failure(awards)
    OBVIOUS
  <2> HIDE DEF awards, got, tx, gift
  <2>2. awards = (IF Drops[en] = NoDrop THEN <<>> ELSE Awards(lucky, en))
    BY DEF awards
  <2>3. got = (IF failing = 0 /\ Drops[en] # NoDrop THEN lucky ELSE {})
    BY DEF got
  <2>4. tx = Tx(db, awards, failing)
    BY DEF tx
  <2>5. Dropped(tx, db, got, en)
    BY <1>5, <2>1, <2>2, <2>3, <2>4, DropsAre
  <2> QED BY <2>5 DEF Dropped, gift
<1>7. \A q \in Player, i \in Item : gift(q, i) \in Nat
  <2>1. Drops[en] \in Things \/ Drops[en] = NoDrop
    BY DEF EconomyAssumption
  <2>2. Drops[en] # NoDrop => Drops[en].n \in Nat
    BY <2>1 DEF Things
  <2> QED BY <2>2
<1>8. \A p, m : <<p, m>> \in credited => db.mission[p][m].taken /\ ~db.mission[p][m].done
  BY DEF Due, Credited
<1> HIDE DEF awards, tx
<1>9. Tracked(tx) /\ tx \in Rows /\ tx.mission = db.mission /\ tx.rank = db.rank /\ tx.hurt = db.hurt
  BY <1>5, <1>6 DEF Tracked, SameBut
<1>10. /\ db' \in Rows /\ db'.bag = tx.bag /\ db'.rank = tx.rank /\ db'.hurt = tx.hurt /\ Tracked(db')
       /\ \A p \in Player, m \in Mission :
            /\ db'.mission[p][m].done = tx.mission[p][m].done
            /\ <<p, m>> \notin credited => db'.mission[p][m] = tx.mission[p][m]
       /\ \A p \in Player : (\A m \in Mission : <<p, m>> \notin credited) => db'.mission[p] = tx.mission[p]
  <2> DEFINE e == Advanced(tx, credited)
  <2>1. /\ e \in Rows /\ e.bag = tx.bag /\ e.rank = tx.rank /\ e.hurt = tx.hurt /\ Tracked(e)
        /\ \A p \in Player, m \in Mission :
             /\ e.mission[p][m].done = tx.mission[p][m].done
             /\ <<p, m>> \notin credited => e.mission[p][m] = tx.mission[p][m]
        /\ \A p \in Player : (\A m \in Mission : <<p, m>> \notin credited) => e.mission[p] = tx.mission[p]
    BY <1>9, AdvancedIs
  <2>2. db' = e
    BY <1>3
  <2> HIDE DEF e
  <2> QED BY <2>1, <2>2
<1>11. \A q \in Player, i \in Item : db'.bag[q][i] = db.bag[q][i] + gift(q, i)
  BY <1>6, <1>10
<1>12. ASSUME NEW q \in Player PROVE screen'[q] = Shown(db', q)
  <2>1. CASE credited # Due(paid, en)
    BY <1>3, <2>1
  <2>2. CASE credited = Due(paid, en)
    <3> DEFINE x == IF q \in got THEN db'.bag[q] ELSE screen[q].bag
               y == IF \E m \in Mission : <<q, m>> \in credited THEN Journal(db', q) ELSE screen[q].journal
    <3>1. screen'[q] = [screen[q] EXCEPT !.bag = x, !.journal = y]
      BY <1>3, <2>2
    <3>2. screen[q] = [bag |-> db.bag[q], journal |-> Journal(db, q), rank |-> db.rank[q]]
      BY ScreenIs
    <3>3. x = db'.bag[q]
      <4>1. CASE q \in got
        BY <4>1
      <4>2. CASE q \notin got
        <5>1. \A i \in Item : db'.bag[q][i] = db.bag[q][i]
          <6> SUFFICES ASSUME NEW i \in Item PROVE db'.bag[q][i] = db.bag[q][i]
            OBVIOUS
          <6>1. gift(q, i) = 0 /\ db.bag[q][i] \in Nat
            BY <1>5, <4>2, RowTypes
          <6> QED BY <1>11, <6>1
        <5>2. db'.bag[q] \in [Item -> Nat] /\ db.bag[q] \in [Item -> Nat]
          BY <1>5, <1>10 DEF Rows
        <5>3. db'.bag[q] = db.bag[q]
          BY <5>1, <5>2
        <5>4. x = screen[q].bag /\ screen[q].bag = db.bag[q]
          BY <3>2, <4>2
        <5> QED BY <5>3, <5>4
      <4> QED BY <4>1, <4>2
    <3>4. y = Journal(db', q)
      <4>1. CASE \E m \in Mission : <<q, m>> \in credited
        BY <4>1
      <4>2. CASE \A m \in Mission : <<q, m>> \notin credited
        <5>1. db'.mission[q] = db.mission[q]
          BY <1>9, <1>10, <4>2
        <5>2. Journal(db', q) = Journal(db, q)
          BY <5>1, JournalSame
        <5>3. y = screen[q].journal
          BY <4>2
        <5>4. screen[q].journal = Journal(db, q)
          BY <3>2
        <5> QED BY <5>2, <5>3, <5>4
      <4> QED BY <4>1, <4>2
    <3> DEFINE s == screen[q]  a == db.bag[q]  b == Journal(db, q)  c == db.rank[q]
    <3>5. s = [bag |-> a, journal |-> b, rank |-> c] /\ screen'[q] = [s EXCEPT !.bag = x, !.journal = y]
      BY <3>1, <3>2
    <3>6. db'.rank[q] = c
      BY <1>9, <1>10
    <3> HIDE DEF s, x, y, a, b, c
    <3>7. [s EXCEPT !.bag = x, !.journal = y] = [bag |-> x, journal |-> y, rank |-> c]
      BY <3>5, PaidShown
    <3> QED BY <3>3, <3>4, <3>5, <3>6, <3>7 DEF Shown
  <2> QED BY <2>1, <2>2
<1> HIDE DEF got, gift
<1>13. screen' = [q \in Player |-> Shown(db', q)]
  BY <1>3, <1>12
<1>14. earned' \in Ledger /\ \A q \in Player, i \in Item : earned'[q][i] = earned[q][i] + gift(q, i)
  <2>1. \A q \in Player, i \in Item : earned[q][i] \in Nat
    BY DEF Copies, Ledger
  <2>2. \A q \in Player, i \in Item : earned'[q][i] = earned[q][i] + gift(q, i)
    BY <1>3
  <2>3. \A q \in Player, i \in Item : earned[q][i] + gift(q, i) \in Nat
    BY <1>7, <2>1
  <2> QED BY <1>3, <2>2, <2>3 DEF Ledger
<1>15. Copies'
  BY <1>4, <1>9, <1>10, <1>13, <1>14 DEF Copies
<1>16. ASSUME NEW q \in Player, NEW i \in Item PROVE Balanced(q, i)
  <2>1. db.bag[q][i] \in Nat /\ earned[q][i] \in Nat /\ spent[q][i] \in Nat
    BY DEF Copies, Rows, Ledger
  <2> QED BY <1>4, <1>7, <1>11, <1>14, <2>1 DEF Balanced
<1>17. \A q \in Player, i \in Trophy : Priced(q, i)
  BY <1>4 DEF Priced
<1>18. Books
  BY <1>15, <1>16, <1>17, BooksKept
<1>19. ASSUME NEW q \in Player, NEW m \in Mission PROVE Closing(q, m)
  <2>1. db'.mission[q][m].done = db.mission[q][m].done
    BY <1>9, <1>10
  <2>2. db.mission[q][m].done => db'.mission[q][m] = db.mission[q][m]
    <3>1. db.mission[q][m].done => <<q, m>> \notin credited
      BY <1>8
    <3> QED BY <1>9, <1>10, <3>1
  <2> QED BY <2>1, <2>2 DEF Closing
<1> QED BY <1>15, <1>18, <1>19 DEF StepOK

-----------------------------------------------------------------------------
(* Every step, and where it begins.                                        *)

\* Every step of the specification is one of these, or none.
LEMMA NextOK ==
  ASSUME EconomyAssumption, Copies, [Next]_vars
  PROVE  StepOK
<1>1. CASE UNCHANGED vars
  <2>1. /\ db' = db /\ screen' = screen /\ rank' = rank /\ hurt' = hurt /\ flags' = flags
        /\ atGuild' = atGuild /\ earned' = earned /\ spent' = spent
    BY <1>1 DEF vars, playerVars, ledgerVars
  <2>2. flags' \subseteq {SlainFlag[e] : e \in Enemy} /\ atGuild' \subseteq Player
    BY <2>1 DEF Copies
  <2> QED BY <2>1, <2>2, NothingOK
<1>2. ASSUME NEW p \in Player, Promote(p) \/ Hurt(p) \/ Walk(p) PROVE StepOK
  BY <1>2, PromoteOK, HurtOK, WalkOK
<1>3. ASSUME NEW p \in Player, NEW m \in Mission, Accept(p, m) \/ TurnIn(p, m) \/ Abandon(p, m) PROVE StepOK
  BY <1>3, AcceptOK, TurnInOK, AbandonOK
<1>4. ASSUME NEW p \in Player, NEW i \in Item, Drink(p, i) PROVE StepOK
  BY <1>4, DrinkOK
<1>5. ASSUME NEW p \in Player, NEW q \in Player, NEW i \in Item, Give(p, q, i) PROVE StepOK
  BY <1>5, GiveOK
<1>6. ASSUME NEW e \in Enemy, NEW paid \in SUBSET Player, Slay(e, paid) PROVE StepOK
  BY <1>6, SlayOK
<1> QED BY <1>1, <1>2, <1>3, <1>4, <1>5, <1>6 DEF Next

\* New players have nothing, and everyone knows it.
LEMMA InitCopies ==
  ASSUME EconomyAssumption, Init
  PROVE  Copies
<1>1. NoItems \in [Item -> Nat] /\ Untaken \in MissionRow
  BY DEF NoItems, Untaken, MissionRow
<1>2. /\ db.bag = [p \in Player |-> NoItems] /\ db.mission = [p \in Player |-> [m \in Mission |-> Untaken]]
      /\ db.rank = [p \in Player |-> 0] /\ db.hurt = [p \in Player |-> FALSE]
  BY DEF Init
<1>3. 0 \in Ranks
  <2>1. Len(Cost) \in Nat
    BY LenProperties DEF EconomyAssumption
  <2> QED BY <2>1 DEF Ranks
<1>4. db \in Rows
  BY <1>1, <1>2, <1>3 DEF Init, Rows
<1>5. Tracked(db)
  <2> SUFFICES ASSUME NEW p \in Player, NEW m \in Mission
               PROVE  /\ db.mission[p][m].progress <= Count[m]
                      /\ db.mission[p][m].done => db.mission[p][m].taken
    BY DEF Tracked
  <2>1. db.mission[p][m] = Untaken /\ Count[m] \in Nat
    BY <1>2 DEF EconomyAssumption
  <2> QED BY <2>1 DEF Untaken
<1>6. ASSUME NEW p \in Player PROVE screen[p] = Shown(db, p)
  <2>1. db.mission[p] = [m \in Mission |-> Untaken] /\ db.bag[p] = NoItems /\ db.rank[p] = 0
    BY <1>2
  <2>2. Journal(db, p) = db.mission[p]
    <3>1. \A m \in Mission : (IF db.mission[p][m].done THEN Untaken ELSE db.mission[p][m]) = Untaken
      BY <2>1
    <3> QED BY <2>1, <3>1 DEF Journal
  <2>3. screen[p] = [bag |-> NoItems, journal |-> db.mission[p], rank |-> 0]
    BY DEF Init
  <2> QED BY <2>1, <2>2, <2>3 DEF Shown
<1>7. screen = [p \in Player |-> Shown(db, p)]
  <2>1. screen = [p \in Player |-> screen[p]]
    BY DEF Init
  <2> QED BY <1>6, <2>1
<1>8. earned \in Ledger /\ spent \in Ledger
  BY <1>1 DEF Init, Ledger
<1>9. rank = db.rank /\ hurt = db.hurt /\ flags = {} /\ atGuild = Player
  BY DEF Init
<1> QED BY <1>4, <1>5, <1>7, <1>8, <1>9 DEF Copies

\* Nothing came in, nothing went out, and rank 0 is free.
LEMMA InitBooks ==
  ASSUME EconomyAssumption, Init
  PROVE  ItemsConserved /\ TrophiesStay /\ RankPaid
<1>1. /\ db.bag = [p \in Player |-> NoItems] /\ earned = [p \in Player |-> NoItems] /\ spent = earned
      /\ \A p \in Player : rank[p] = 0
  BY DEF Init
<1>2. \A p \in Player, i \in Item : db.bag[p][i] = 0 /\ earned[p][i] = 0 /\ spent[p][i] = 0
  BY <1>1 DEF NoItems
<1>3. ASSUME NEW i \in Item PROVE SumOf(earned, i) = 0
  <2> DEFINE order == SetToSeq(Player)
  <2>1. PICK n \in Nat : n = Len(order) /\ DOMAIN order = 1..n /\ \A k \in 1..n : order[k] \in Player
    <3>1. Lists(order, Player)
      BY Listed DEF EconomyAssumption
    <3> HIDE DEF order
    <3> QED BY <3>1 DEF Lists
  <2> DEFINE v == [k \in DOMAIN order |-> earned[order[k]][i]]
  <2>2. SumOf(earned, i) = SumTo(v, n)
    BY <2>1 DEF SumOf
  <2>3. \A k \in 1..n : v[k] = 0
    BY <1>2, <2>1
  <2> HIDE DEF v
  <2>4. SumTo(v, n) = 0
    BY <2>3, SumZero
  <2> QED BY <2>2, <2>4
<1>4. ItemsConserved
  <2>1. db.bag = earned
    BY <1>1
  <2> QED BY <1>1, <1>3, <2>1 DEF ItemsConserved
<1>5. TrophiesStay
  <2>1. Trophy \subseteq Item
    BY DEF EconomyAssumption
  <2> QED BY <1>2, <2>1 DEF TrophiesStay
<1>6. RankPaid
  <2> SUFFICES ASSUME NEW p \in Player, NEW i \in Trophy PROVE spent[p][i] = Price(rank[p], i)
    BY DEF RankPaid
  <2>1. Price(0, i) = 0
    BY SumIs DEF Price
  <2> QED BY <1>1, <1>2, <2>1 DEF EconomyAssumption
<1> QED BY <1>4, <1>5, <1>6

\* The price of a rank is that of the rank before and its own list.
LEMMA PriceNext ==
  ASSUME NEW r \in Nat, NEW i
  PROVE  Price(r + 1, i) = Price(r, i) + Total(Cost[r + 1], i)
<1> DEFINE u == [k \in 1..r |-> Total(Cost[k], i)]
           v == [k \in 1..(r + 1) |-> Total(Cost[k], i)]
<1>1. Price(r, i) = SumTo(u, r) /\ Price(r + 1, i) = SumTo(v, r + 1)
  BY DEF Price
<1>2. \A k \in 1..r : v[k] = u[k]
  OBVIOUS
<1>3. v[r + 1] = Total(Cost[r + 1], i)
  OBVIOUS
<1> HIDE DEF u, v
<1>4. SumTo(v, r + 1) = SumTo(v, r) + v[r + 1]
  BY SumIs
<1>5. SumTo(v, r) = SumTo(u, r)
  BY <1>2, SumSame
<1> QED BY <1>1, <1>3, <1>4, <1>5

\* What one step keeps is kept of the whole ledger.
LEMMA StepBooks ==
  ASSUME EconomyAssumption, Copies, StepOK
  PROVE  /\ ItemsConserved => ItemsConserved'
         /\ TrophiesStay => TrophiesStay'
         /\ RanksAskOnce /\ RankPaid => RankPaid'
<1>1. /\ \A i \in Item : Conserved(i) => Conserved(i)'
      /\ \A p \in Player, i \in Trophy : Balanced(p, i) /\ Priced(p, i)
  BY DEF StepOK, Books
<1>2. ItemsConserved => ItemsConserved'
  BY <1>1 DEF ItemsConserved, Conserved
<1>3. ASSUME NEW p \in Player, NEW i \in Trophy
      PROVE  /\ db.bag[p][i] \in Nat /\ earned[p][i] \in Nat /\ spent[p][i] \in Nat
             /\ earned'[p][i] \in Nat /\ spent'[p][i] \in Nat /\ rank[p] \in Nat
  <2>1. i \in Item
    BY DEF EconomyAssumption
  <2>2. /\ db.bag[p][i] \in Nat /\ earned[p][i] \in Nat /\ spent[p][i] \in Nat
        /\ earned'[p][i] \in Nat /\ spent'[p][i] \in Nat
    BY <2>1 DEF StepOK, Copies, Rows, Ledger
  <2>3. rank[p] \in Nat
    BY DEF Copies, Rows, Ranks
  <2> QED BY <2>2, <2>3
<1>4. ASSUME TrophiesStay PROVE TrophiesStay'
  <2> SUFFICES ASSUME NEW p \in Player, NEW i \in Trophy
               PROVE  db'.bag[p][i] = earned'[p][i] - spent'[p][i]
    BY DEF TrophiesStay
  <2>1. db.bag[p][i] = earned[p][i] - spent[p][i]
    BY <1>4 DEF TrophiesStay
  <2> QED BY <1>1, <1>3, <2>1 DEF Balanced
<1>5. ASSUME RanksAskOnce, RankPaid PROVE RankPaid'
  <2> SUFFICES ASSUME NEW p \in Player, NEW i \in Trophy PROVE spent'[p][i] = Price(rank'[p], i)
    BY DEF RankPaid
  <2>1. spent[p][i] = Price(rank[p], i)
    BY <1>5 DEF RankPaid
  <2>2. Price(rank[p] + 1, i) = Price(rank[p], i) + Total(Cost[rank[p] + 1], i)
    BY <1>3, PriceNext
  <2> QED BY <1>1, <1>5, <2>1, <2>2 DEF Priced
<1> QED BY <1>2, <1>4, <1>5

-----------------------------------------------------------------------------
(* Sessions and rows agree with the types, and with each other, in every   *)
(* reachable state; so do the pages: every handler that writes a row tells *)
(* the clients that show it (inventory.ts:129, missions.ts:255,            *)
(* guild.ts:64), and one whose transaction fails tells nobody.             *)
THEOREM CopiesHold ==
  ASSUME EconomyAssumption
  PROVE  Spec => []CopiesAreFresh
<1>1. Init => Copies
  BY InitCopies
<1>2. Copies /\ [Next]_vars => Copies'
  BY NextOK DEF StepOK
<1>3. Copies => CopiesAreFresh
  <2> SUFFICES ASSUME Copies PROVE CopiesAreFresh
    OBVIOUS
  <2>1. ASSUME NEW p \in Player, NEW m \in Mission PROVE MissionOK(db.mission[p][m], m)
    <3>1. db.mission[p][m] \in MissionRow /\ db.mission[p][m].progress <= Count[m] /\ Count[m] \in Nat
      BY RowTypes DEF Copies, Tracked, EconomyAssumption
    <3> QED BY <3>1 DEF MissionOK, MissionRow
  <2>2. /\ \A p \in Player, i \in Item : db.bag[p][i] \in Nat
        /\ rank \in [Player -> Ranks] /\ hurt \in [Player -> BOOLEAN]
        /\ flags \subseteq {SlainFlag[e] : e \in Enemy} /\ atGuild \subseteq Player
    BY DEF Copies, Rows
  <2>3. TypeOK
    BY <2>1, <2>2 DEF TypeOK
  <2>4. SessionMatchesRows
    BY DEF Copies, SessionMatchesRows
  <2>5. ScreensFresh
    BY ScreenIs DEF Copies, ScreensFresh
  <2> QED BY <2>3, <2>4, <2>5 DEF CopiesAreFresh
<1> QED BY <1>1, <1>2, <1>3, PTL DEF Spec

(* No step makes or loses an item: what all bags hold together is what was *)
(* dropped and paid less what was drunk and spent on ranks, whichever      *)
(* statements fail (inventory.ts:163, missions.ts:194, combat.ts:765).     *)
THEOREM ItemsHold ==
  ASSUME EconomyAssumption
  PROVE  Spec => []ItemsConserved
<1>1. Init => Copies /\ ItemsConserved
  BY InitCopies, InitBooks
<1>2. Copies /\ ItemsConserved /\ [Next]_vars => (Copies /\ ItemsConserved)'
  BY NextOK, StepBooks DEF StepOK
<1> QED BY <1>1, <1>2, PTL DEF Spec

(* Trophies stay with who won them and go only to ranks; each rank was     *)
(* paid for once and in full, provided that no rank names one item twice   *)
(* (guild.ts:47-64; content/balance.ts:190 does not check that).           *)
THEOREM TrophiesHold ==
  ASSUME EconomyAssumption, RanksAskOnce
  PROVE  Spec => []TrophiesBuyRanks
<1>1. Init => Copies /\ TrophiesStay /\ RankPaid
  BY InitCopies, InitBooks
<1>2. Copies /\ TrophiesStay /\ RankPaid /\ [Next]_vars => (Copies /\ TrophiesStay /\ RankPaid)'
  BY NextOK, StepBooks DEF StepOK
<1>3. TrophiesStay /\ RankPaid => TrophiesBuyRanks
  BY DEF TrophiesBuyRanks
<1> QED BY <1>1, <1>2, <1>3, PTL DEF Spec

(* A mission is paid for in the step that closes it and never changes      *)
(* after (queries.ts:364-388, missions.ts:190-202).                        *)
THEOREM PaymentsHold ==
  ASSUME EconomyAssumption
  PROVE  Spec => PaidOnce
<1>1. Init => Copies
  BY InitCopies
<1>2. Copies /\ [Next]_vars => Copies'
  BY NextOK DEF StepOK
<1>3. Copies /\ [Next]_vars =>
        [\A p \in Player, m \in Mission :
           ~db.mission[p][m].done /\ db'.mission[p][m].done =>
             \A i \in Item : db'.bag[p][i] = db.bag[p][i] + Total(Reward[m], i)]_vars
  BY NextOK DEF StepOK, Closing
<1>4. Copies /\ [Next]_vars =>
        [\A p \in Player, m \in Mission :
           db.mission[p][m].done => db'.mission[p][m] = db.mission[p][m]]_vars
  BY NextOK DEF StepOK, Closing
<1> QED BY <1>1, <1>2, <1>3, <1>4, PTL DEF Spec, PaidOnce, PaidWhenDone, DoneForGood
-----------------------------------------------------------------------------
(* The database file *)

\* A file as boots, visitors and restores leave it, whenever they die.
Intact(f) ==
  /\ f = [tables |-> f.tables, version |-> f.version, hash |-> f.hash, rooms |-> f.rooms,
          flag |-> f.flag, text |-> f.text, players |-> f.players]
  /\ f.version \in 0 .. SchemaVersion
  /\ IF f.version = 0 THEN f.tables \in {{}, {1}} ELSE f.tables = 1 .. f.version
  /\ f.flag \in {Keep!Off, "true", "false"} /\ f.players \subseteq Visitor
  /\ \A k \in DOMAIN f.text : f.text[k] \in {"fallback", "llm"}
  /\ \A room \in DOMAIN f.hash : room \in DOMAIN f.rooms /\ f.rooms[room] = f.hash[room]

Boots == [stage : {"off", "migrate", "stamp", "apply", "reap", "up", "refused"}, at : Nat]
\* Who is about to stamp the version has made the tables; who migrates started
\* from a version the file has reached.
BootOk(r, f, c) ==
  /\ r \in Boots
  /\ r.stage = "stamp" => f.tables # {}
  /\ r.stage = "apply" => r.at \in 1 .. c.schema /\ r.at <= f.version
BootsOk == pc \in [Keep!Proc -> Boots] /\ \A p \in Keep!Proc : BootOk(pc[p], file, code)

\* What restore has planned has its rooms; it fails over rooms of an old world.
ReportOk ==
  /\ rs = [result |-> rs.result, rows |-> rs.rows, hash |-> rs.hash, dry |-> rs.dry, force |-> rs.force,
           hits |-> rs.hits]
  /\ rs.result \in {"none", "planned", "done", "foretold", "mismatch", "failed", "refused", "killed"}
  /\ \A k \in DOMAIN rs.rows : rs.rows[k] \in {"fallback", "llm"}
  /\ rs.result = "planned" => {k.room : k \in DOMAIN rs.rows} \subseteq DOMAIN file.rooms
  /\ rs.result = "failed" => ~ (DOMAIN file.rooms \subseteq DOMAIN code.world)

\* A backup is only begun where there is none.
BackupOk ==
  /\ bk = [b \in Backup |-> bk[b]]
  /\ \A b \in Backup :
       /\ bk[b] = [stage |-> bk[b].stage, before |-> bk[b].before, raced |-> bk[b].raced]
       /\ bk[b].stage \in {"off", "counted", "copied", "done", "differs"} /\ bk[b].raced \in BOOLEAN
       /\ bk[b].stage = "counted" => file.tables # {} /\ (bk[b].raced \/ dest = Keep!NoFile)
       /\ bk[b].stage = "copied" => dest # Keep!NoFile
  /\ manifest # Keep!NoManifest => dest # Keep!NoFile

CodeOk == code \in [schema : {SchemaVersion - 1, SchemaVersion}, world : World]
KeepInv == Intact(file) /\ Intact(dest) /\ CodeOk /\ BootsOk /\ ReportOk /\ BackupOk

\* What every step but a deploy does to the file.
Grows ==
  /\ Intact(file')
  /\ file.tables \subseteq file'.tables /\ file.version <= file'.version
  /\ DOMAIN file.rooms \subseteq DOMAIN file'.rooms
  /\ \A k \in DOMAIN file.text : Keep!Paid(file.text, k) => Keep!Paid(file'.text, k)

LEMMA KeepConstants ==
  /\ SchemaVersion \in Nat /\ SchemaVersion > 1 /\ \A f \in Files : Keep!WellKept(f)
BY FilesAssumption DEF Keep!KeepingAssumption

LEMMA NoFileIsSound == Intact(Keep!NoFile)
<1>1. \A k \in DOMAIN <<>> : FALSE
  OBVIOUS
<1> QED
  BY <1>1, KeepConstants DEF Intact, Keep!NoFile, Keep!Off

LEMMA InitKeepInv == Keep!Init => KeepInv
<1> SUFFICES ASSUME Keep!Init PROVE KeepInv
  OBVIOUS
<1> USE DEF Keep!Init
<1>1. Intact(file)
  <2>1. Keep!WellKept(file)
    BY KeepConstants
  <2>2. file.version = 0 => file.tables = {}
    <3>1. file.tables = 1 .. file.version
      BY <2>1 DEF Keep!WellKept
    <3> QED
      BY <3>1
  <2>3. file.tables = 1 .. file.version
    BY <2>1 DEF Keep!WellKept
  <2>4. file = [tables |-> file.tables, version |-> file.version, hash |-> file.hash, rooms |-> file.rooms,
                flag |-> file.flag, text |-> file.text, players |-> file.players]
    BY <2>1, <2>3 DEF Keep!WellKept
  <2> QED
    BY <2>1, <2>2, <2>3, <2>4 DEF Keep!WellKept, Intact
<1>2. Intact(dest)
  BY NoFileIsSound
<1>3. CodeOk
  BY DEF CodeOk
<1>4. BootsOk
  BY DEF BootsOk, BootOk, Boots
<1>5. ReportOk
  BY DEF ReportOk, Keep!NoReport
<1>6. BackupOk
  BY DEF BackupOk, Keep!Idle
<1> QED
  BY <1>1, <1>2, <1>3, <1>4, <1>5, <1>6 DEF KeepInv

\* f and, where f says nothing, g.
LEMMA OverIs ==
  ASSUME NEW f, NEW g
  PROVE  /\ DOMAIN Keep!Over(f, g) = DOMAIN f \cup DOMAIN g
         /\ \A x \in DOMAIN f : Keep!Over(f, g)[x] = f[x]
         /\ \A x \in DOMAIN g : x \notin DOMAIN f => Keep!Over(f, g)[x] = g[x]
BY DEF Keep!Over

LEMMA SchemaType == ASSUME CodeOk PROVE code.schema \in 1 .. SchemaVersion /\ code.schema \in Nat /\ code.world \in World
BY KeepConstants DEF CodeOk

-----------------------------------------------------------------------------
(* The steps that write the file *)

\* A write of some fields of the file.
LEMMA TextWrite ==
  ASSUME KeepInv, NEW t, file' = [file EXCEPT !.text = t],
         \A k \in DOMAIN t : t[k] \in {"fallback", "llm"},
         \A k \in DOMAIN file.text : Keep!Paid(file.text, k) => Keep!Paid(t, k)
  PROVE  Grows
<1>1. Intact(file)
  BY DEF KeepInv
<1>2. /\ file' = [tables |-> file.tables, version |-> file.version, hash |-> file.hash, rooms |-> file.rooms,
                  flag |-> file.flag, text |-> t, players |-> file.players]
  BY <1>1 DEF Intact
<1> QED
  BY <1>1, <1>2 DEF Intact, Grows

LEMMA FlagWrite ==
  ASSUME KeepInv, NEW g \in {Keep!Off, "true", "false"}, NEW S \in SUBSET Visitor,
         file' = [file EXCEPT !.flag = g, !.players = S]
  PROVE  Grows
<1>1. Intact(file)
  BY DEF KeepInv
<1>2. /\ file' = [tables |-> file.tables, version |-> file.version, hash |-> file.hash, rooms |-> file.rooms,
                  flag |-> g, text |-> file.text, players |-> S]
  BY <1>1 DEF Intact
<1>3. /\ file'.tables = file.tables /\ file'.version = file.version /\ file'.hash = file.hash
      /\ file'.rooms = file.rooms /\ file'.text = file.text /\ file'.flag = g /\ file'.players = S
  BY <1>2
<1>4. Intact(file')
  BY <1>1, <1>2, <1>3 DEF Intact
<1> QED
  BY <1>1, <1>3, <1>4 DEF Intact, Grows

LEMMA Unwritten == ASSUME KeepInv, UNCHANGED file PROVE Grows
BY DEF KeepInv, Intact, Grows

\* A step of a process on the way up.
LEMMA BootMoves ==
  ASSUME KeepInv, Grows, UNCHANGED code, NEW p \in Keep!Proc, NEW r, BootOk(r, file', code'), pc' = [pc EXCEPT ![p] = r]
  PROVE  BootsOk'
<1>1. \A q \in Keep!Proc : pc[q] \in Boots /\ BootOk(pc[q], file, code)
  BY DEF KeepInv, BootsOk
<1>2. \A q \in Keep!Proc : pc'[q] = IF q = p THEN r ELSE pc[q]
  BY DEF KeepInv, BootsOk
<1>3. r \in Boots
  BY DEF BootOk
<1>4. ASSUME NEW q \in Keep!Proc PROVE BootOk(pc'[q], file', code')
  <2>1. CASE q = p
    BY <2>1, <1>2 DEF BootOk
  <2>2. CASE q # p
    <3>1. pc'[q] = pc[q] /\ BootOk(pc[q], file, code)
      BY <2>2, <1>1, <1>2
    <3>2. pc[q].stage = "apply" => pc[q].at <= file'.version
      <4>1. file.version \in Nat /\ file'.version \in Nat /\ file.version <= file'.version /\ pc[q].at \in Nat
        BY <1>1, KeepConstants DEF KeepInv, Grows, Intact, Boots
      <4> QED
        BY <3>1, <4>1 DEF BootOk
    <3> QED
      BY <3>1, <3>2 DEF BootOk, Grows
  <2> QED
    BY <2>1, <2>2
<1>5. pc' \in [Keep!Proc -> Boots]
  BY <1>3 DEF KeepInv, BootsOk
<1> QED
  BY <1>4, <1>5 DEF BootsOk

LEMMA GoIs ==
  ASSUME KeepInv, NEW p \in Keep!Proc, NEW stage, Keep!Go(p, stage)
  PROVE  pc' = [pc EXCEPT ![p] = [stage |-> stage, at |-> pc[p].at]] /\ pc[p].at \in Nat
<1>1. pc \in [Keep!Proc -> Boots] /\ pc[p] \in Boots
  BY DEF KeepInv, BootsOk
<1>2. [pc[p] EXCEPT !.stage = stage] = [stage |-> stage, at |-> pc[p].at]
  BY <1>1 DEF Boots
<1> QED
  BY <1>1, <1>2 DEF Keep!Go, Boots

\* A stage that asks nothing of the file.
LEMMA GoOn ==
  ASSUME KeepInv, Grows, UNCHANGED code, NEW p \in Keep!Proc,
         NEW stage \in {"off", "migrate", "reap", "up", "refused"}, Keep!Go(p, stage)
  PROVE  BootsOk'
<1> DEFINE r == [stage |-> stage, at |-> pc[p].at]
<1>1. pc' = [pc EXCEPT ![p] = r] /\ pc[p].at \in Nat
  BY GoIs
<1>2. BootOk(r, file', code')
  <2>1. pc[p] \in Boots
    BY DEF KeepInv, BootsOk
  <2> QED
    BY <1>1 DEF BootOk, Boots
<1> HIDE DEF r
<1> QED
  BY <1>1, <1>2, BootMoves

LEMMA BootKeeps ==
  ASSUME KeepInv, NEW p \in Keep!Proc, Keep!Boot(p) PROVE Grows /\ BootsOk'
<1>1. Intact(file) /\ CodeOk /\ pc[p] \in Boots /\ BootOk(pc[p], file, code) /\ UNCHANGED code
  BY DEF KeepInv, BootsOk, Keep!Boot
<1>2. file = [tables |-> file.tables, version |-> file.version, hash |-> file.hash, rooms |-> file.rooms,
              flag |-> file.flag, text |-> file.text, players |-> file.players]
  BY <1>1 DEF Intact
<1>3. file.version \in 0 .. SchemaVersion /\ SchemaVersion \in Nat /\ code.schema \in 1 .. SchemaVersion
  BY <1>1, KeepConstants, SchemaType DEF Intact
<1>4. CASE Keep!Create(p)
  <2>1. file.tables = {} /\ file' = [file EXCEPT !.tables = {1}]
    BY <1>4 DEF Keep!Create
  <2>2. file' = [tables |-> {1}, version |-> file.version, hash |-> file.hash, rooms |-> file.rooms,
                 flag |-> file.flag, text |-> file.text, players |-> file.players]
    BY <1>2, <2>1
  <2>3. file.version = 0
    <3>1. 1 \notin file.tables
      BY <2>1
    <3> QED
      BY <1>1, <1>3, <3>1 DEF Intact
  <2>4. Grows
    BY <1>1, <2>1, <2>2, <2>3 DEF Intact, Grows
  <2> DEFINE r == [stage |-> "stamp", at |-> pc[p].at]
  <2>5. pc' = [pc EXCEPT ![p] = r] /\ pc[p].at \in Nat
    BY <1>4, GoIs DEF Keep!Create
  <2>6. BootOk(r, file', code')
    BY <2>2, <2>5 DEF BootOk, Boots
  <2> HIDE DEF r
  <2> QED
    BY <1>1, <2>4, <2>5, <2>6, BootMoves
<1>5. CASE Keep!Stamp(p)
  <2>1. CASE file.version = 0
    <3>1. file' = [file EXCEPT !.version = 1] /\ Keep!Go(p, "migrate")
      BY <1>5, <2>1 DEF Keep!Stamp
    <3>2. file' = [tables |-> file.tables, version |-> 1, hash |-> file.hash, rooms |-> file.rooms,
                   flag |-> file.flag, text |-> file.text, players |-> file.players]
      BY <1>2, <3>1
    <3>3. file.tables = {1}
      BY <1>1, <1>5, <2>1 DEF Keep!Stamp, Keep!At, BootOk, Intact
    <3>4. {1} = 1 .. 1 /\ 1 \in 0 .. SchemaVersion
      BY <1>3
    <3>5. Intact(file')
      BY <1>1, <3>2, <3>3, <3>4 DEF Intact
    <3>6. Grows
      BY <2>1, <3>2, <3>5 DEF Grows
    <3> QED
      BY <1>1, <3>1, <3>6, GoOn
  <2>2. CASE file.version # 0
    <3>1. file' = file /\ Keep!Go(p, "refused")
      BY <1>5, <2>2 DEF Keep!Stamp
    <3> QED
      BY <1>1, <3>1, Unwritten, GoOn
  <2> QED
    BY <2>1, <2>2
<1>6. CASE Keep!Probe(p)
  <2> DEFINE r == [stage |-> IF file.version \in 1..code.schema THEN "apply" ELSE "refused", at |-> file.version]
  <2>1. file' = file /\ pc' = [pc EXCEPT ![p] = r]
    BY <1>6 DEF Keep!Probe
  <2>2. BootOk(r, file', code')
    BY <1>1, <1>3, <2>1 DEF BootOk, Boots
  <2> HIDE DEF r
  <2> QED
    BY <1>1, <2>1, <2>2, Unwritten, BootMoves
<1>7. CASE Keep!Migrate(p)
  <2>1. pc[p].stage = "apply" /\ pc[p].at < code.schema /\ pc[p].at \in 1 .. code.schema /\ pc[p].at <= file.version
    BY <1>1, <1>7 DEF Keep!Migrate, Keep!At, BootOk
  <2>2. file.tables = 1 .. file.version
    BY <1>1, <1>3, <2>1 DEF Intact
  <2>3. CASE pc[p].at + 1 \in file.tables
    <3>1. file' = file /\ Keep!Go(p, "refused")
      BY <1>7, <2>3 DEF Keep!Migrate
    <3> QED
      BY <1>1, <3>1, Unwritten, GoOn
  <2>4. CASE pc[p].at + 1 \notin file.tables
    <3> DEFINE v == pc[p].at + 1
               r == [stage |-> "apply", at |-> v]
    <3>1. pc[p].at = file.version
      BY <1>3, <2>1, <2>2, <2>4
    <3>2. file' = [file EXCEPT !.version = v, !.tables = file.tables \cup {v}]
      BY <1>2, <1>7, <2>4 DEF Keep!Migrate
    <3>3. file' = [tables |-> file.tables \cup {v}, version |-> v, hash |-> file.hash, rooms |-> file.rooms,
                   flag |-> file.flag, text |-> file.text, players |-> file.players]
      BY <1>2, <3>2
    <3>4. file.tables \cup {v} = 1 .. v /\ v \in 0 .. SchemaVersion /\ v # 0 /\ v \in 1 .. code.schema
      BY <1>3, <2>1, <2>2, <3>1
    <3>5. pc' = [pc EXCEPT ![p] = r]
      <4>1. [pc[p] EXCEPT !.at = v] = r
        BY <1>1, <2>1 DEF Boots
      <4>2. pc' = [pc EXCEPT ![p] = [pc[p] EXCEPT !.at = v]]
        BY <1>7, <2>4, <1>1 DEF Keep!Migrate, KeepInv, BootsOk, Boots
      <4> QED
        BY <4>1, <4>2
    <3> HIDE DEF v
    <3>6. Intact(file')
      BY <1>1, <3>3, <3>4 DEF Intact
    <3>7. file.version <= v
      BY <1>3, <3>1 DEF v
    <3>8. Grows
      BY <3>3, <3>6, <3>7 DEF Grows
    <3>9. BootOk(r, file', code')
      BY <1>1, <1>3, <3>3, <3>4 DEF BootOk, Boots
    <3> HIDE DEF r
    <3> QED
      BY <1>1, <3>5, <3>8, <3>9, BootMoves
  <2> QED
    BY <2>3, <2>4
<1>8. CASE Keep!Seed(p)
  <2> DEFINE w == code.world
             g == IF file.flag = Keep!Off THEN "false" ELSE file.flag
             h == IF file.hash = w THEN file.rooms ELSE Keep!Over(w, file.rooms)
  <2>1. file' = [file EXCEPT !.flag = g, !.rooms = h, !.hash = w]
    BY <1>2, <1>8 DEF Keep!Seed, Keep!Seeded
  <2>2. file' = [tables |-> file.tables, version |-> file.version, hash |-> w, rooms |-> h,
                 flag |-> g, text |-> file.text, players |-> file.players]
    BY <1>2, <2>1
  <2>3. DOMAIN file.rooms \subseteq DOMAIN h /\ \A room \in DOMAIN w : room \in DOMAIN h /\ h[room] = w[room]
    <3>1. CASE file.hash = w
      BY <1>1, <3>1 DEF Intact
    <3>2. CASE file.hash # w
      <4>1. h = Keep!Over(w, file.rooms)
        BY <3>2
      <4> HIDE DEF h, w
      <4> DEFINE o == file.rooms
      <4>2. h = Keep!Over(w, o)
        BY <4>1
      <4> HIDE DEF o
      <4>3. /\ DOMAIN Keep!Over(w, o) = DOMAIN w \cup DOMAIN o
            /\ \A x \in DOMAIN w : Keep!Over(w, o)[x] = w[x]
        BY OverIs
      <4>4. DOMAIN o \subseteq DOMAIN h /\ \A room \in DOMAIN w : room \in DOMAIN h /\ h[room] = w[room]
        BY <4>2, <4>3
      <4> QED
        BY <4>4 DEF o
    <3> QED
      BY <3>1, <3>2
  <2>4. g \in {Keep!Off, "true", "false"}
    BY <1>1 DEF Intact
  <2> HIDE DEF w, g, h
  <2>5. Intact(file')
    BY <1>1, <2>2, <2>3, <2>4 DEF Intact
  <2>6. Grows
    BY <1>3, <2>2, <2>3, <2>5 DEF Grows
  <2> QED
    BY <1>1, <1>8, <2>6, GoOn DEF Keep!Seed
<1>9. CASE Keep!Reap(p)
  <2>1. PICK S \in SUBSET file.players : file' = [file EXCEPT !.players = file.players \ S]
    BY <1>2, <1>9 DEF Keep!Reap
  <2>2. file' = [file EXCEPT !.flag = file.flag, !.players = file.players \ S]
    BY <1>2, <2>1
  <2>3. file.flag \in {Keep!Off, "true", "false"} /\ file.players \ S \in SUBSET Visitor
    BY <1>1 DEF Intact
  <2>4. Grows
    BY <2>2, <2>3, FlagWrite
  <2> QED
    BY <1>1, <1>9, <2>4, GoOn DEF Keep!Reap
<1> QED
  BY <1>4, <1>5, <1>6, <1>7, <1>8, <1>9 DEF Keep!Boot

-----------------------------------------------------------------------------
(* What stays while the file only grows *)

LEMMA BootsStay == ASSUME KeepInv, Grows, UNCHANGED <<pc, code>> PROVE BootsOk'
<1>1. ASSUME NEW p \in Keep!Proc PROVE BootOk(pc'[p], file', code')
  <2>1. BootOk(pc[p], file, code) /\ pc[p] \in Boots
    BY DEF KeepInv, BootsOk
  <2>2. pc[p].stage = "apply" => pc[p].at <= file'.version
    <3>1. file.version \in Nat /\ file'.version \in Nat /\ file.version <= file'.version /\ pc[p].at \in Nat
      BY <2>1, KeepConstants DEF KeepInv, Grows, Intact, Boots
    <3> QED
      BY <2>1, <3>1 DEF BootOk
  <2> QED
    BY <2>1, <2>2 DEF BootOk, Grows
<1> QED
  BY <1>1 DEF KeepInv, BootsOk

LEMMA ReportStays == ASSUME KeepInv, Grows, UNCHANGED <<rs, code>> PROVE ReportOk'
BY DEF KeepInv, Grows, ReportOk

LEMMA BackupStays == ASSUME KeepInv, Grows, UNCHANGED <<bk, dest, manifest>> PROVE BackupOk' /\ Intact(dest)'
<1>1. Intact(dest)' <=> Intact(dest)
  BY DEF Intact
<1> QED
  BY <1>1 DEF KeepInv, Grows, BackupOk

\* Texts put where there was none.
LEMMA TextsAdded ==
  ASSUME KeepInv, NEW g, \A k \in DOMAIN g : g[k] \in {"fallback", "llm"},
         file' = [file EXCEPT !.text = Keep!Over(file.text, g)]
  PROVE  Grows
<1> DEFINE o == file.text
           t == Keep!Over(o, g)
<1>1. \A k \in DOMAIN o : o[k] \in {"fallback", "llm"}
  BY DEF KeepInv, Intact
<1>2. file' = [file EXCEPT !.text = t]
  OBVIOUS
<1>3. (\A k \in DOMAIN file.text : Keep!Paid(file.text, k) => Keep!Paid(t, k)) <=> \A k \in DOMAIN o : Keep!Paid(o, k) => Keep!Paid(t, k)
  OBVIOUS
<1> HIDE DEF o
<1>4. /\ DOMAIN t = DOMAIN o \cup DOMAIN g
      /\ \A k \in DOMAIN o : t[k] = o[k]
      /\ \A k \in DOMAIN g : k \notin DOMAIN o => t[k] = g[k]
  BY OverIs
<1> HIDE DEF t
<1>5. \A k \in DOMAIN t : t[k] \in {"fallback", "llm"}
  BY <1>1, <1>4
<1>6. \A k \in DOMAIN o : Keep!Paid(o, k) => Keep!Paid(t, k)
  BY <1>4 DEF Keep!Paid
<1> QED
  BY <1>2, <1>3, <1>5, <1>6, TextWrite

-----------------------------------------------------------------------------
(* The steps *)

\* What a step keeps when it is not a deploy.
FileKept == Grows /\ KeepInv' /\ (dest' # dest => dest = Keep!NoFile \/ \E b \in Backup : Keep!Raced(b))

LEMMA LiveKeeps ==
  ASSUME KeepInv, Grows, UNCHANGED <<code, pc, dest, manifest, bk, rs>> PROVE FileKept
BY BootsStay, ReportStays, BackupStays DEF FileKept, KeepInv, Grows, CodeOk

LEMMA ServerKeeps ==
  ASSUME KeepInv, \/ Keep!Tell \/ Keep!Buy \/ Keep!Light \/ Keep!Join PROVE FileKept
<1>1. CASE Keep!Tell
  <2>1. PICK k : /\ UNCHANGED <<code, pc, dest, manifest, bk, rs>>
                 /\ file' = [file EXCEPT !.text = Keep!Over(file.text, [x \in {k} |-> "fallback"])]
    <3>1. file = [file EXCEPT !.text = file.text]
      BY DEF KeepInv, Intact
    <3> QED
      BY <1>1, <3>1 DEF Keep!Tell, Keep!Live, KeepInv, Intact
  <2> DEFINE g == [x \in {k} |-> "fallback"]
  <2>2. \A x \in DOMAIN g : g[x] \in {"fallback", "llm"}
    OBVIOUS
  <2> HIDE DEF g
  <2>3. Grows
    BY <2>1, <2>2, TextsAdded DEF g
  <2> QED
    BY <2>1, <2>3, LiveKeeps
<1>2. CASE Keep!Buy
  <2>1. PICK k \in DOMAIN file.text : /\ UNCHANGED <<code, pc, dest, manifest, bk, rs>> /\ file.text[k] = "fallback"
                                      /\ file' = [file EXCEPT !.text = [file.text EXCEPT ![k] = "llm"]]
    BY <1>2 DEF Keep!Buy, Keep!Live, KeepInv, Intact
  <2> DEFINE t == [file.text EXCEPT ![k] = "llm"]
  <2>2. \A x \in DOMAIN t : t[x] \in {"fallback", "llm"}
    BY DEF KeepInv, Intact
  <2>3. \A x \in DOMAIN file.text : Keep!Paid(file.text, x) => Keep!Paid(t, x)
    BY DEF Keep!Paid
  <2> HIDE DEF t
  <2>4. Grows
    BY <2>1, <2>2, <2>3, TextWrite DEF t
  <2> QED
    BY <2>1, <2>4, LiveKeeps
<1>3. CASE Keep!Light
  <2>1. UNCHANGED <<code, pc, dest, manifest, bk, rs>> /\ file' = [file EXCEPT !.flag = "true", !.players = file.players]
    BY <1>3 DEF Keep!Light, Keep!Live, KeepInv, Intact
  <2>2. file.players \in SUBSET Visitor
    BY DEF KeepInv, Intact
  <2> QED
    BY <2>1, <2>2, FlagWrite, LiveKeeps
<1>4. CASE Keep!Join
  <2>1. PICK p \in Visitor : UNCHANGED <<code, pc, dest, manifest, bk, rs>>
                             /\ file' = [file EXCEPT !.flag = file.flag, !.players = file.players \cup {p}]
    BY <1>4 DEF Keep!Join, Keep!Live, KeepInv, Intact
  <2>2. file.players \cup {p} \in SUBSET Visitor /\ file.flag \in {Keep!Off, "true", "false"}
    BY DEF KeepInv, Intact
  <2> QED
    BY <2>1, <2>2, FlagWrite, LiveKeeps
<1> QED
  BY <1>1, <1>2, <1>3, <1>4

LEMMA ProcessKeeps ==
  ASSUME KeepInv, \/ Keep!Start \/ (\E p \in Keep!Proc : Keep!Boot(p)) \/ Keep!StopServer PROVE FileKept
<1>1. UNCHANGED <<code, dest, manifest, bk, rs>>
  BY DEF Keep!Start, Keep!Boot, Keep!StopServer
<1>2. Grows /\ BootsOk'
  <2>1. CASE Keep!Start
    BY <2>1, Unwritten, GoOn DEF Keep!Start, Keep!OpenFile, Keep!Proc
  <2>2. CASE \E p \in Keep!Proc : Keep!Boot(p)
    BY <2>2, BootKeeps
  <2>3. CASE Keep!StopServer
    BY <2>3, Unwritten, GoOn DEF Keep!StopServer, Keep!Stop, Keep!Proc
  <2> QED
    BY <2>1, <2>2, <2>3
<1> QED
  BY <1>1, <1>2, ReportStays, BackupStays DEF FileKept, KeepInv, Grows, CodeOk

LEMMA BackupKeeps ==
  ASSUME KeepInv, NEW b \in Backup, \/ Keep!KillBackup(b) \/ Keep!CountBefore(b) \/ Keep!Copy(b) \/ Keep!Verify(b)
  PROVE  FileKept
<1>1. UNCHANGED <<file, code, pc, rs>>
  BY DEF Keep!KillBackup, Keep!CountBefore, Keep!Copy, Keep!Verify
<1>2. Grows
  BY <1>1, Unwritten
<1>3. Intact(dest) /\ Intact(file) /\ BackupOk /\ file' = file
  BY <1>1 DEF KeepInv
<1>4. bk[b] = [stage |-> bk[b].stage, before |-> bk[b].before, raced |-> bk[b].raced] /\ bk = [c \in Backup |-> bk[c]]
  BY <1>3 DEF BackupOk
\* A step of one run that does not touch the backup file.
<1>5. ASSUME NEW stage \in {"off", "counted", "done", "differs"}, NEW before, UNCHANGED dest,
             bk' = [bk EXCEPT ![b] = [stage |-> stage, before |-> before, raced |-> FALSE]],
             stage = "counted" => file.tables # {} /\ dest = Keep!NoFile,
             manifest' # manifest => dest # Keep!NoFile
      PROVE  BackupOk' /\ Intact(dest)' /\ dest' = dest
  <2> DEFINE r == [stage |-> stage, before |-> before, raced |-> FALSE]
  <2>1. \A c \in Backup : bk'[c] = IF c = b THEN r ELSE bk[c]
    BY <1>4, <1>5
  <2>2. bk' = [c \in Backup |-> bk'[c]]
    BY <1>4, <1>5
  <2>3. manifest' # Keep!NoManifest => dest' # Keep!NoFile
    BY <1>3, <1>5 DEF BackupOk
  <2>4. ASSUME NEW c \in Backup
        PROVE  /\ bk'[c] = [stage |-> bk'[c].stage, before |-> bk'[c].before, raced |-> bk'[c].raced]
               /\ bk'[c].stage \in {"off", "counted", "copied", "done", "differs"} /\ bk'[c].raced \in BOOLEAN
               /\ bk'[c].stage = "counted" => file'.tables # {} /\ (bk'[c].raced \/ dest' = Keep!NoFile)
               /\ bk'[c].stage = "copied" => dest' # Keep!NoFile
    <3>1. CASE c = b
      <4>1. bk'[c] = [stage |-> stage, before |-> before, raced |-> FALSE]
        BY <2>1, <3>1
      <4>2. bk'[c].stage = stage /\ bk'[c].raced = FALSE
        BY <4>1
      <4> QED
        BY <1>3, <1>5, <4>1, <4>2
    <3>2. CASE c # b
      BY <1>3, <1>5, <2>1, <3>2 DEF BackupOk
    <3> QED
      BY <3>1, <3>2
  <2> QED
    BY <1>3, <1>5, <2>2, <2>3, <2>4 DEF BackupOk, Intact
<1>6. BackupOk' /\ Intact(dest)' /\ (dest' # dest => dest = Keep!NoFile \/ Keep!Raced(b))
  <2>1. CASE Keep!KillBackup(b)
    BY <1>5, <2>1 DEF Keep!KillBackup, Keep!Idle
  <2>2. CASE Keep!CountBefore(b)
    <3>1. 1 \in 1 .. code.schema
      BY SchemaType DEF KeepInv
    <3>2. file.tables # {}
      BY <2>2, <3>1 DEF Keep!CountBefore
    <3> QED
      BY <1>5, <2>2, <3>2 DEF Keep!CountBefore
  <2>3. CASE Keep!Copy(b)
    <3>1. /\ dest' = file /\ bk[b].stage = "counted" /\ UNCHANGED manifest
          /\ bk' = [c \in Backup |-> IF c = b THEN [bk[c] EXCEPT !.stage = "copied"]
                                    ELSE [bk[c] EXCEPT !.raced = @ \/ bk[c].stage = "counted"]]
      BY <2>3 DEF Keep!Copy
    <3>2. file # Keep!NoFile /\ (bk[b].raced \/ dest = Keep!NoFile)
      BY <1>3, <3>1 DEF BackupOk, Keep!NoFile
    <3>3. bk'[b] = [stage |-> "copied", before |-> bk[b].before, raced |-> bk[b].raced]
      BY <1>4, <3>1
    <3>4. Intact(dest)'
      BY <1>3, <3>1 DEF Intact
    <3>5. ASSUME NEW c \in Backup, c # b
          PROVE  bk'[c] = [stage |-> bk[c].stage, before |-> bk[c].before, raced |-> bk[c].raced \/ bk[c].stage = "counted"]
      <4>1. bk[c] = [stage |-> bk[c].stage, before |-> bk[c].before, raced |-> bk[c].raced]
        BY <1>3 DEF BackupOk
      <4>2. bk'[c] = [bk[c] EXCEPT !.raced = bk[c].raced \/ bk[c].stage = "counted"]
        BY <1>4, <3>1, <3>5, <4>1
      <4> QED
        BY <4>1, <4>2
    <3>6. ASSUME NEW c \in Backup
          PROVE  /\ bk'[c] = [stage |-> bk'[c].stage, before |-> bk'[c].before, raced |-> bk'[c].raced]
                 /\ bk'[c].stage \in {"off", "counted", "copied", "done", "differs"} /\ bk'[c].raced \in BOOLEAN
                 /\ bk'[c].stage = "counted" => file'.tables # {} /\ (bk'[c].raced \/ dest' = Keep!NoFile)
                 /\ bk'[c].stage = "copied" => dest' # Keep!NoFile
      <4>1. CASE c = b
        BY <1>3, <3>1, <3>2, <3>3, <4>1 DEF BackupOk
      <4>2. CASE c # b
        <5>1. /\ bk'[c] = [stage |-> bk[c].stage, before |-> bk[c].before, raced |-> bk'[c].raced]
              /\ bk'[c].stage = bk[c].stage /\ bk'[c].raced = (bk[c].raced \/ bk[c].stage = "counted")
          <6> DEFINE x == bk[c].raced \/ bk[c].stage = "counted"
                     st == bk[c].stage
                     be == bk[c].before
          <6>1. bk'[c] = [stage |-> st, before |-> be, raced |-> x]
            BY <3>5, <4>2
          <6> HIDE DEF x, st, be
          <6>2. bk'[c] = [stage |-> st, before |-> be, raced |-> bk'[c].raced] /\ bk'[c].stage = st /\ bk'[c].raced = x
            BY <6>1
          <6> QED
            BY <6>2 DEF x, st, be
        <5>2. bk[c].raced \in BOOLEAN /\ bk[c].stage \in {"off", "counted", "copied", "done", "differs"}
          BY <1>3 DEF BackupOk
        <5>3. bk'[c].raced \in BOOLEAN /\ (bk'[c].stage = "counted" => file'.tables # {} /\ bk'[c].raced)
          BY <1>3, <5>1, <5>2 DEF BackupOk
        <5> QED
          BY <3>1, <3>2, <5>1, <5>2, <5>3
      <4> QED
        BY <4>1, <4>2
    <3>7. bk' = [c \in Backup |-> bk'[c]]
      BY <3>1
    <3>8. BackupOk'
      BY <3>1, <3>2, <3>6, <3>7 DEF BackupOk
    <3> QED
      BY <3>2, <3>3, <3>4, <3>8 DEF Keep!Raced
  <2>4. CASE Keep!Verify(b)
    <3>1. UNCHANGED dest /\ dest # Keep!NoFile
      BY <1>3, <2>4 DEF Keep!Verify, BackupOk
    <3>2. \/ bk' = [bk EXCEPT ![b] = [Keep!Idle EXCEPT !.stage = "done"]]
          \/ bk' = [bk EXCEPT ![b] = [Keep!Idle EXCEPT !.stage = "differs"]]
      BY <2>4 DEF Keep!Verify
    <3>3. PICK stage \in {"done", "differs"} :
            bk' = [bk EXCEPT ![b] = [stage |-> stage, before |-> Keep!NoManifest, raced |-> FALSE]]
      BY <3>2 DEF Keep!Idle
    <3> QED
      BY <1>5, <3>1, <3>3
  <2> QED
    BY <2>1, <2>2, <2>3, <2>4
<1> QED
  BY <1>1, <1>2, <1>6, BootsStay, ReportStays DEF FileKept, KeepInv, Grows, CodeOk

LEMMA RestoreKeeps ==
  ASSUME KeepInv, \/ Keep!KillRestore \/ Keep!Read \/ Keep!Plan \/ Keep!Write PROVE FileKept
<1>1. UNCHANGED <<code, dest, manifest, bk>>
  BY DEF Keep!KillRestore, Keep!Read, Keep!Plan, Keep!Write
<1>2. Intact(file) /\ Intact(dest) /\ ReportOk /\ CodeOk
  BY DEF KeepInv
<1>3. "restore" \in Keep!Proc
  BY DEF Keep!Proc
<1>4. Grows /\ BootsOk' /\ ReportOk'
  <2>1. CASE Keep!KillRestore
    <3>1. Grows /\ BootsOk'
      BY <1>1, <1>3, <2>1, Unwritten, GoOn DEF Keep!KillRestore, Keep!Stop
    <3>2. rs' = [rs EXCEPT !.result = rs'.result] /\ rs'.result \in {"refused", "killed"}
      BY <1>2, <2>1 DEF Keep!KillRestore, ReportOk
    <3> QED
      BY <1>2, <3>1, <3>2 DEF ReportOk
  <2>2. CASE Keep!Read
    <3>1. Grows /\ BootsOk'
      BY <1>1, <1>3, <2>2, Unwritten, GoOn DEF Keep!Read, Keep!OpenFile
    <3>2. PICK force, dry : rs' = [result |-> "none", rows |-> dest.text, hash |-> dest.hash, dry |-> dry, force |-> force, hits |-> 0]
      BY <2>2 DEF Keep!Read, Keep!NoReport
    <3> QED
      BY <1>2, <3>1, <3>2 DEF ReportOk, Intact
  <2>3. CASE Keep!Plan
    <3>1. Grows
      BY <2>3, Unwritten DEF Keep!Plan
    <3>2. file' = file
      BY <2>3 DEF Keep!Plan
    <3>3. ASSUME NEW result \in {"mismatch", "foretold"}, NEW hits, Keep!Close(result, hits)
          PROVE  BootsOk' /\ ReportOk'
      <4>1. rs' = [result |-> result, rows |-> rs.rows, hash |-> rs.hash, dry |-> rs.dry, force |-> rs.force, hits |-> hits]
        BY <1>2, <3>3 DEF Keep!Close, ReportOk
      <4>2. ReportOk'
        BY <1>2, <4>1 DEF ReportOk
      <4> QED
        BY <1>1, <1>3, <3>1, <3>3, <4>2, GoOn DEF Keep!Close
    <3>4. ASSUME ~ (DOMAIN file.rooms \subseteq DOMAIN code.world), Keep!Close("failed", 0)
          PROVE  BootsOk' /\ ReportOk'
      <4>1. rs' = [result |-> "failed", rows |-> rs.rows, hash |-> rs.hash, dry |-> rs.dry, force |-> rs.force, hits |-> 0]
        BY <1>2, <3>4 DEF Keep!Close, ReportOk
      <4>2. ReportOk'
        BY <1>1, <1>2, <3>2, <3>4, <4>1 DEF ReportOk
      <4> QED
        BY <1>1, <1>3, <3>1, <3>4, <4>2, GoOn DEF Keep!Close
    <3> DEFINE live == {k \in DOMAIN rs.rows : k.room \in DOMAIN file.rooms}
    <3>5. ASSUME rs' = [rs EXCEPT !.result = "planned", !.rows = [k \in live |-> rs.rows[k]]], UNCHANGED pc
          PROVE  BootsOk' /\ ReportOk'
      <4> DEFINE kept == [k \in live |-> rs.rows[k]]
      <4>1. rs' = [result |-> "planned", rows |-> kept, hash |-> rs.hash, dry |-> rs.dry, force |-> rs.force, hits |-> rs.hits]
        BY <1>2, <3>5 DEF ReportOk
      <4>2. /\ \A k \in DOMAIN kept : kept[k] \in {"fallback", "llm"}
            /\ {k.room : k \in DOMAIN kept} \subseteq DOMAIN file.rooms
        BY <1>2 DEF ReportOk
      <4> HIDE DEF kept
      <4>3. ReportOk'
        BY <3>2, <4>1, <4>2 DEF ReportOk
      <4> QED
        BY <1>1, <3>1, <3>5, <4>3, BootsStay
    <3> HIDE DEF live
    <3> QED
      BY <2>3, <3>1, <3>3, <3>4, <3>5 DEF Keep!Plan, live
  <2>4. CASE Keep!Write
    <3>1. rs.result = "planned" /\ {k.room : k \in DOMAIN rs.rows} \subseteq DOMAIN file.rooms
      BY <1>2, <2>4 DEF Keep!Write, ReportOk
    <3>2. PICK hits : file' = Keep!Written /\ Keep!Close("done", hits)
      BY <2>4, <3>1 DEF Keep!Write
    <3>3. file' = [file EXCEPT !.text = Keep!Over(file.text, rs.rows)]
      BY <1>2, <3>2 DEF Keep!Written, Intact
    <3>4. \A k \in DOMAIN rs.rows : rs.rows[k] \in {"fallback", "llm"}
      BY <1>2 DEF ReportOk
    <3>5. Grows
      BY <3>3, <3>4, TextsAdded
    <3>6. rs' = [result |-> "done", rows |-> rs.rows, hash |-> rs.hash, dry |-> rs.dry, force |-> rs.force, hits |-> hits]
      BY <1>2, <3>2 DEF Keep!Close, ReportOk
    <3>7. ReportOk'
      BY <1>2, <3>6 DEF ReportOk
    <3> QED
      BY <1>1, <1>3, <3>2, <3>5, <3>7, GoOn DEF Keep!Close
  <2> QED
    BY <2>1, <2>2, <2>3, <2>4
<1> QED
  BY <1>1, <1>4, BackupStays DEF FileKept, KeepInv, Grows, CodeOk

\* A deploy finds every process down, and loses the file only with a backup.
LEMMA DeployKeeps ==
  ASSUME KeepInv, Keep!Deploy
  PROVE  KeepInv' /\ UNCHANGED dest /\ (file' # Keep!NoFile => file' = file)
<1>1. PICK s \in {SchemaVersion - 1, SchemaVersion}, w \in World, lost \in BOOLEAN :
        /\ lost => \A b \in Backup : bk[b].stage # "counted"
        /\ code' = [schema |-> s, world |-> w] /\ file' = IF lost THEN Keep!NoFile ELSE file
  BY DEF Keep!Deploy
<1>2. rs' = Keep!NoReport /\ UNCHANGED <<pc, dest, manifest, bk>> /\ \A p \in Keep!Proc : pc[p].stage = "off"
  BY DEF Keep!Deploy, Keep!At
<1>3. Intact(file')
  BY <1>1, NoFileIsSound DEF KeepInv
<1>4. Intact(dest')
  BY <1>2 DEF KeepInv
<1>5. CodeOk'
  BY <1>1 DEF CodeOk
<1>6. BootsOk'
  BY <1>2 DEF KeepInv, BootsOk, BootOk
<1>7. ReportOk'
  <2>1. \A k \in DOMAIN <<>> : FALSE
    OBVIOUS
  <2> QED
    BY <1>2, <2>1 DEF ReportOk, Keep!NoReport
<1>8. BackupOk'
  BY <1>1, <1>2 DEF KeepInv, BackupOk
<1>9. Intact(file)' /\ Intact(dest)'
  BY <1>3, <1>4 DEF Intact
<1> QED
  BY <1>1, <1>2, <1>5, <1>6, <1>7, <1>8, <1>9 DEF KeepInv

\* The file over a step, whoever takes it.
LEMMA KeepStep ==
  ASSUME KeepInv, StoredNext \/ UNCHANGED <<vars, keepVars, jobVars, part>>
  PROVE  /\ KeepInv'
         /\ file' # Keep!NoFile =>
              \A k \in DOMAIN file.text : Keep!Paid(file.text, k) => Keep!Paid(file'.text, k)
         /\ manifest # Keep!NoManifest /\ dest' # dest => \E b \in Backup : Keep!Raced(b)
<1>1. CASE UNCHANGED keepVars
  <2>1. UNCHANGED <<file, dest, code, pc, rs, bk, manifest>>
    BY <1>1 DEF keepVars
  <2>2. Grows
    BY <2>1, Unwritten
  <2> QED
    BY <2>1, <2>2, BootsStay, ReportStays, BackupStays DEF KeepInv, Grows, CodeOk
<1>2. CASE Keep!Next
  <2>1. CASE FileKept
    BY <2>1 DEF FileKept, Grows, KeepInv, BackupOk
  <2>2. CASE Keep!Deploy
    BY <2>2, DeployKeeps
  <2>3. FileKept \/ Keep!Deploy
    BY <1>2, ServerKeeps, ProcessKeeps, BackupKeeps, RestoreKeeps DEF Keep!Next
  <2> QED
    BY <2>1, <2>2, <2>3
<1> QED
  BY <1>1, <1>2 DEF StoredNext

LEMMA KeepInvMeans == KeepInv => FilesAreWhole
<1> SUFFICES ASSUME KeepInv PROVE FilesAreWhole
  OBVIOUS
<1>1. Intact(file) /\ CodeOk /\ BootsOk /\ ReportOk /\ BackupOk
  BY DEF KeepInv
<1>2. Keep!TypeOK
  <2>1. file.tables \subseteq 1..SchemaVersion
    <3>1. CASE file.version = 0
      BY <1>1, <3>1, KeepConstants DEF Intact
    <3>2. CASE file.version # 0
      BY <1>1, <3>2, KeepConstants DEF Intact
    <3> QED
      BY <3>1, <3>2
  <2>2. \A p \in Keep!Proc : pc[p].stage \in {"off", "migrate", "stamp", "apply", "reap", "up", "refused"}
    BY <1>1 DEF BootsOk, Boots
  <2> QED
    BY <1>1, <2>1, <2>2 DEF Keep!TypeOK, Intact, CodeOk, ReportOk, BackupOk
<1>3. Keep!VersionHasItsTables
  BY <1>1 DEF Intact, Keep!VersionHasItsTables
<1>4. Keep!HashProvesRooms
  BY <1>1 DEF Intact, Keep!HashProvesRooms
<1>5. Keep!RestoreRuns
  BY <1>1 DEF ReportOk, Keep!RestoreRuns
<1> QED
  BY <1>2, <1>3, <1>4, <1>5 DEF FilesAreWhole

LEMMA KeepInvAlways == StoredSpec => []KeepInv
<1>1. StoredInit => KeepInv
  BY InitKeepInv DEF StoredInit
<1>2. KeepInv /\ [StoredNext]_<<vars, keepVars, jobVars, part>> => KeepInv'
  BY KeepStep
<1> QED
  BY <1>1, <1>2, PTL DEF StoredSpec

(* A file that says it is of a version has its tables and one that says it  *)
(* is of a world has its rooms, wherever a boot died and whoever booted     *)
(* beside it; while every room of the file is one of the world, what        *)
(* restore has planned can be written.                                      *)
THEOREM FilesAreAlwaysWhole == StoredSpec => []FilesAreWhole
BY KeepInvAlways, KeepInvMeans, PTL

LEMMA PaidStaysInTheFile == StoredSpec => Keep!PaidStays /\ Keep!VerifiedStays
<1>1. KeepInv /\ [StoredNext]_<<vars, keepVars, jobVars, part>> =>
        [file' # Keep!NoFile => \A k \in DOMAIN file.text : Keep!Paid(file.text, k) => Keep!Paid(file'.text, k)]_keepVars
  BY KeepStep
<1>2. KeepInv /\ [StoredNext]_<<vars, keepVars, jobVars, part>> =>
        [manifest # Keep!NoManifest /\ dest' # dest => \E b \in Backup : Keep!Raced(b)]_keepVars
  BY KeepStep
<1> QED
  BY <1>1, <1>2, KeepInvAlways, PTL DEF StoredSpec, Keep!PaidStays, Keep!VerifiedStays, Keep!vars, keepVars

-----------------------------------------------------------------------------
(* The first sentences: a run of the tool *)

Keys == Pre!Key
TextRows == [Keys -> {"none", "fallback", "llm", "authored"}]
Jobs ==
  [step : {"fill", "idle()"}, mode : {"llm", "authored"}, limit : Nat,
   queue : [maxPending : Nat \ {0}, concurrency : Nat \ {0}], flag : {"on", "off"}, next : Nat \ {0},
   pending : Seq(Keys), running : SUBSET Keys, queued : SUBSET Keys, done : Nat, failed : Nat, planned : Nat]

Lined(j) == {j.pending[i] : i \in 1 .. Len(j.pending)}
Waiting(j) == Lined(j) \cup j.running
Answered(j) == j.queued \ Waiting(j)
Bought(j, rows) == {k \in Answered(j) : Pre!Settled(rows[k])}
KeyAt(j, i) == Pre!KeyOf(Order[i], j.flag)
Seen(j) == {KeyAt(j, i) : i \in 1 .. j.next - 1}
\* What a whole run has pushed or will: what --dry-run has counted.
Owed(j, rows) ==
  j.queued \cup {k \in Keys : \E i \in j.next .. Len(Order) : k = KeyAt(j, i) /\ ~ Pre!Settled(rows[k])}

\* The queue: nothing waits twice, and neither list is longer than it may be.
QueueOk(j) ==
  /\ \A a, b \in 1 .. Len(j.pending) : j.pending[a] = j.pending[b] => a = b
  /\ Lined(j) \cap j.running = {} /\ Waiting(j) \subseteq j.queued
  /\ Cardinality(j.running) <= j.queue.concurrency /\ Len(j.pending) <= j.queue.maxPending

\* The places: the run goes through them in order, and the next has been pushed
\* by nobody yet.
PlacesOk(j, rows) ==
  /\ j.next <= Len(Order) + 1 /\ j.queued \subseteq Seen(j)
  /\ \A k \in Seen(j) : rows[k] # "none"
  /\ j.step = "idle()" => j.next = Len(Order) + 1 \/ j.limit # Pre!NoLimit

CountsOk(j, rows) ==
  /\ j.done + j.failed = Cardinality(Answered(j)) /\ j.done <= Cardinality(Bought(j, rows))
  /\ j.limit = Pre!NoLimit /\ Cardinality(Pre!Slot) <= j.queue.maxPending => j.planned = Cardinality(Owed(j, rows))

JobOk(j, rows) == j \in Jobs /\ QueueOk(j) /\ PlacesOk(j, rows) /\ CountsOk(j, rows)

\* What a run that has ended leaves, whatever is read and lit after it.
RunOk(j, rows, code0) ==
  /\ j.limit \in Nat /\ j.queued \in SUBSET Keys /\ j.flag \in {"on", "off"}
  /\ j.done + j.failed = Cardinality(j.queued)
  /\ j.done <= Cardinality({k \in j.queued : Pre!Settled(rows[k])})
  /\ j.limit = Pre!NoLimit /\ Cardinality(Pre!Slot) <= j.queue.maxPending => j.planned = Cardinality(j.queued)
  /\ j.limit = Pre!NoLimit /\ code0 = 0 => \A s \in Room : Pre!Settled(rows[Pre!KeyOf(s, j.flag)])

PreInv ==
  /\ row \in TextRows /\ flag \in {"on", "off"} /\ exit \in {-1, 0, 1}
  /\ job # Pre!Idle => JobOk(job, row)
  /\ job = Pre!Idle /\ ran # Pre!Idle => RunOk(ran, row, exit)

LEMMA PreCardinality == (\A S : Pre!Cardinality(S) = Cardinality(S)) /\ (\A S : Pre!IsFiniteSet(S) = IsFiniteSet(S))
<1>1. \A S : Pre!Cardinality(S) = Cardinality(S)
  BY DEF Pre!Cardinality, Cardinality
<1>2. \A S : Pre!IsFiniteSet(S) = IsFiniteSet(S)
  BY DEF Pre!IsFiniteSet, IsFiniteSet
<1> QED
  BY <1>1, <1>2

LEMMA PreConstants ==
  /\ Room \cap Line = {} /\ Pre!Slot = Room \cup Line /\ Sensitive \subseteq Pre!Slot /\ Bank \subseteq Keys
  /\ IsFiniteSet(Pre!Slot) /\ Order \in Seq(Pre!Slot) /\ Len(Order) \in Nat
  /\ \A i \in 1 .. Len(Order) : Order[i] \in Pre!Slot
  /\ \A s \in Pre!Slot : \E i \in 1 .. Len(Order) : s = Order[i]
  /\ \A i, j \in 1 .. Len(Order) : Order[i] = Order[j] => i = j
  /\ Queues \subseteq [maxPending : Nat \ {0}, concurrency : Nat \ {0}] /\ Limits \subseteq Nat
<1>1. Pre!PregenAssumption
  BY JobAssumption
<1>2. IsFiniteSet(Pre!Slot) /\ Order \in Seq(Pre!Slot) /\ DOMAIN Order = 1 .. Len(Order) /\ Len(Order) \in Nat
  BY <1>1, PreCardinality DEF Pre!PregenAssumption
<1>3. {Order[i] : i \in 1 .. Len(Order)} = Pre!Slot
  BY <1>1, <1>2 DEF Pre!PregenAssumption
<1> QED
  BY <1>1, <1>2, <1>3 DEF Pre!PregenAssumption, Pre!Slot, Keys

LEMMA KeysAreFinite == IsFiniteSet(Keys)
<1>1. IsFiniteSet(Pre!Value)
  <2>1. IsFiniteSet({"on"}) /\ IsFiniteSet({"on"} \cup {"off"}) /\ IsFiniteSet({"on"} \cup {"off"} \cup {"any"})
    BY FS_Singleton, FS_AddElement
  <2>2. Pre!Value = {"on"} \cup {"off"} \cup {"any"}
    BY DEF Pre!Value
  <2> QED
    BY <2>1, <2>2
<1>2. IsFiniteSet(Pre!Slot \X Pre!Value)
  BY <1>1, PreConstants, FS_Product
<1>3. Keys \in SUBSET (Pre!Slot \X Pre!Value)
  BY DEF Keys, Pre!Key
<1> QED
  BY <1>2, <1>3, FS_Subset

LEMMA KeyOfIs ==
  ASSUME NEW f \in {"on", "off"}
  PROVE  /\ \A s \in Pre!Slot : Pre!KeyOf(s, f) \in Keys /\ Pre!KeyOf(s, f)[1] = s
         /\ \A s, t \in Pre!Slot : Pre!KeyOf(s, f) = Pre!KeyOf(t, f) => s = t
<1>1. \A s \in Pre!Slot : Pre!KeyOf(s, f) \in Keys
  BY DEF Pre!KeyOf, Keys, Pre!Key, Pre!Value
<1>2. \A s \in Pre!Slot : Pre!KeyOf(s, f)[1] = s
  BY DEF Pre!KeyOf
<1> QED
  BY <1>1, <1>2

\* As many keys as places.
LEMMA KeysOfPlaces ==
  ASSUME NEW f \in {"on", "off"}, NEW S \in SUBSET Pre!Slot
  PROVE  Cardinality({Pre!KeyOf(s, f) : s \in S}) = Cardinality(S)
<1> DEFINE T == {Pre!KeyOf(s, f) : s \in S}
           g == [s \in S |-> Pre!KeyOf(s, f)]
<1>1. IsFiniteSet(S)
  BY PreConstants, FS_Subset
<1>2. g \in Injection(S, T)
  BY KeyOfIs DEF Injection, IsInjective
<1>3. g \in Surjection(S, T)
  BY DEF Surjection
<1>4. g \in Bijection(S, T)
  BY <1>2, <1>3 DEF Bijection
<1> HIDE DEF g, T
<1>5. ExistsBijection(S, T)
  BY <1>4 DEF ExistsBijection
<1> QED
  BY <1>1, <1>5, FS_Bijection DEF T

LEMMA Part == ASSUME NEW S \in SUBSET Keys PROVE IsFiniteSet(S) /\ Cardinality(S) \in Nat
BY KeysAreFinite, FS_Subset, FS_CardinalityType

LEMMA PartOfPart ==
  ASSUME NEW S \in SUBSET Keys, NEW T \in SUBSET S PROVE Cardinality(T) <= Cardinality(S) /\ Cardinality(T) \in Nat
BY Part, FS_Subset, FS_CardinalityType

\* The head of a sequence holds no more than its length, and as much if
\* nothing is in it twice.
LEMMA HeadOf ==
  ASSUME NEW s \in Seq(Keys), NEW n \in 0 .. Len(s)
  PROVE  /\ Cardinality({s[i] : i \in 1 .. n}) <= n
         /\ (\A a, b \in 1 .. Len(s) : s[a] = s[b] => a = b) => Cardinality({s[i] : i \in 1 .. n}) = n
<1> DEFINE T == {s[i] : i \in 1 .. n}
           g == [i \in 1 .. n |-> s[i]]
<1>1. n \in Nat /\ IsFiniteSet(1 .. n) /\ Cardinality(1 .. n) = n
  BY FS_Interval
<1>2. g \in Surjection(1 .. n, T)
  BY DEF Surjection
<1>3. Cardinality(T) <= n /\ IsFiniteSet(T) /\ Cardinality(T) \in Nat
  <2> HIDE DEF g, T
  <2> QED
    BY <1>1, <1>2, FS_Surjection, FS_CardinalityType
<1>4. ASSUME \A a, b \in 1 .. Len(s) : s[a] = s[b] => a = b
      PROVE  Cardinality(T) = n
  <2>1. g \in Injection(1 .. n, T)
    BY <1>4 DEF Injection, IsInjective
  <2> HIDE DEF g, T
  <2>2. Cardinality(1 .. n) <= Cardinality(T)
    BY <1>3, <2>1, FS_Injection
  <2> QED
    BY <1>1, <1>3, <2>2
<1> QED
  BY <1>3, <1>4

-----------------------------------------------------------------------------
(* pump: the head of the line goes to the free workers *)

LEMMA PumpKeeps ==
  ASSUME NEW j \in Jobs, QueueOk(j)
  PROVE  /\ Pre!Pumped(j) \in Jobs /\ QueueOk(Pre!Pumped(j)) /\ Waiting(Pre!Pumped(j)) = Waiting(j)
         /\ \A p \in {Pre!Pumped(j)} :
              /\ p.step = j.step /\ p.mode = j.mode /\ p.limit = j.limit /\ p.queue = j.queue /\ p.flag = j.flag
              /\ p.next = j.next /\ p.queued = j.queued /\ p.done = j.done /\ p.failed = j.failed
              /\ p.planned = j.planned
<1> DEFINE s == j.pending
           free == j.queue.concurrency - Cardinality(j.running)
           n == IF Len(s) < free THEN Len(s) ELSE free
           go == {s[i] : i \in 1 .. n}
           t == SubSeq(s, n + 1, Len(s))
           p == Pre!Pumped(j)
<1>1. s \in Seq(Keys) /\ Len(s) \in Nat /\ j.running \in SUBSET Keys
      /\ j.queue.concurrency \in Nat /\ Cardinality(j.running) \in Nat
  BY Part DEF Jobs
<1>2. n \in 0 .. Len(s) /\ n <= free
  BY <1>1 DEF QueueOk
<1>3. p = [j EXCEPT !.running = j.running \cup go, !.pending = t]
  BY PreCardinality DEF Pre!Pumped, Jobs
<1>4. n \in Nat /\ n <= Len(s) /\ free = j.queue.concurrency - Cardinality(j.running)
  BY <1>1, <1>2
<1>5. \A i \in 1 .. Len(s) : s[i] \in Keys
  BY <1>1
<1>6. go \in SUBSET Keys /\ Cardinality(go) <= n
  BY <1>1, <1>2, <1>4, <1>5, HeadOf
<1> HIDE DEF n
<1>7. t \in Seq(Keys) /\ Len(t) = Len(s) - n /\ \A i \in 1 .. Len(t) : t[i] = s[i + n]
  <2>1. n + 1 \in Int /\ Len(s) \in Int /\ \A i \in n + 1 .. Len(s) : s[i] \in Keys
    BY <1>1, <1>4, <1>5
  <2>2. /\ t \in Seq(Keys) /\ Len(t) = IF n + 1 <= Len(s) THEN Len(s) - (n + 1) + 1 ELSE 0
        /\ \A i \in 1 .. Len(s) - (n + 1) + 1 : t[i] = s[n + 1 + i - 1]
    BY <2>1, SubSeqProperties
  <2> HIDE DEF t, s
  <2>3. Len(t) = Len(s) - n
    BY <1>1, <1>4, <2>2
  <2>4. ASSUME NEW i \in 1 .. Len(t) PROVE t[i] = s[i + n]
    <3>1. i \in 1 .. Len(s) - (n + 1) + 1 /\ n + 1 + i - 1 = i + n
      BY <1>1, <1>4, <2>3
    <3> QED
      BY <2>2, <3>1
  <2> QED
    BY <2>2, <2>3, <2>4
<1>8. Len(t) \in Nat
  BY <1>7
<1> HIDE DEF t, go
<1>9. /\ p.pending = t /\ p.running = j.running \cup go
      /\ p.step = j.step /\ p.mode = j.mode /\ p.limit = j.limit /\ p.queue = j.queue /\ p.flag = j.flag
      /\ p.next = j.next /\ p.queued = j.queued /\ p.done = j.done /\ p.failed = j.failed
      /\ p.planned = j.planned
  BY <1>3 DEF Jobs
<1>10. p \in Jobs
  BY <1>1, <1>3, <1>6, <1>7 DEF Jobs
<1> HIDE DEF p, s
<1>11. Lined(j) = {s[i] : i \in 1 .. Len(s)} /\ Lined(p) = {t[i] : i \in 1 .. Len(t)}
  BY <1>9 DEF Lined, s
<1>12. Lined(j) = go \cup Lined(p)
  <2>1. ASSUME NEW i \in 1 .. Len(s) PROVE s[i] \in go \cup Lined(p)
    <3>1. CASE i <= n
      BY <3>1, <1>4 DEF go
    <3>2. CASE i > n
      <4>1. i - n \in 1 .. Len(t) /\ i - n + n = i
        BY <1>1, <1>4, <1>7, <3>2
      <4>2. t[i - n] = s[i]
        BY <1>7, <4>1
      <4> QED
        BY <1>11, <4>1, <4>2
    <3> QED
      BY <1>1, <1>4, <3>1, <3>2
  <2>2. go \subseteq Lined(j)
    BY <1>1, <1>4, <1>11 DEF go
  <2>3. ASSUME NEW i \in 1 .. Len(t) PROVE t[i] \in Lined(j)
    <3>1. i + n \in 1 .. Len(s)
      BY <1>1, <1>4, <1>7
    <3> QED
      BY <1>7, <1>11, <3>1
  <2> QED
    BY <1>11, <2>1, <2>2, <2>3
<1>13. Waiting(p) = Waiting(j)
  BY <1>9, <1>12 DEF Waiting
<1>14. QueueOk(p)
  <2>1. \A a, b \in 1 .. Len(s) : s[a] = s[b] => a = b
    BY DEF QueueOk, s
  <2>2. ASSUME NEW a \in 1 .. Len(t), NEW b \in 1 .. Len(t), t[a] = t[b] PROVE a = b
    <3>1. a + n \in 1 .. Len(s) /\ b + n \in 1 .. Len(s) /\ s[a + n] = s[b + n]
      BY <1>1, <1>4, <1>7, <2>2
    <3>2. a + n = b + n
      BY <2>1, <3>1
    <3> QED
      BY <1>4, <3>2
  <2>3. ASSUME NEW a \in 1 .. Len(t), NEW i \in 1 .. n PROVE t[a] # s[i]
    <3>1. a + n \in 1 .. Len(s) /\ i \in 1 .. Len(s) /\ a + n # i /\ t[a] = s[a + n]
      BY <1>1, <1>4, <1>7
    <3> QED
      BY <2>1, <3>1
  <2>4. Lined(p) \cap (j.running \cup go) = {}
    <3>1. Lined(p) \cap go = {}
      BY <1>11, <2>3 DEF go
    <3> QED
      BY <1>12, <3>1 DEF QueueOk
  <2>5. Cardinality(j.running \cup go) <= j.queue.concurrency
    <3>1. IsFiniteSet(j.running) /\ IsFiniteSet(go) /\ Cardinality(go) \in Nat /\ Cardinality(j.running \cap go) \in Nat
      BY <1>1, <1>6, Part
    <3>2. Cardinality(j.running \cup go) = Cardinality(j.running) + Cardinality(go) - Cardinality(j.running \cap go)
      BY <3>1, FS_Union
    <3> QED
      BY <1>1, <1>2, <1>4, <1>6, <3>1, <3>2
  <2>6. Len(t) <= j.queue.maxPending
    <3>1. j.queue.maxPending \in Nat /\ Len(s) <= j.queue.maxPending
      BY DEF QueueOk, Jobs, s
    <3> QED
      BY <1>1, <1>4, <1>7, <3>1
  <2>7. Waiting(p) \subseteq p.queued
    BY <1>9, <1>13 DEF QueueOk
  <2> QED
    BY <1>9, <2>2, <2>4, <2>5, <2>6, <2>7 DEF QueueOk
<1>15. Pre!Pumped(j) = p
  BY DEF p
<1> HIDE DEF free
<1> QED
  BY <1>9, <1>10, <1>13, <1>14, <1>15

LEMMA PumpedJob ==
  ASSUME NEW rows, NEW j, JobOk(j, rows) PROVE JobOk(Pre!Pumped(j), rows)
<1> DEFINE p == Pre!Pumped(j)
<1>1. /\ p \in Jobs /\ QueueOk(p) /\ Waiting(p) = Waiting(j)
      /\ p.step = j.step /\ p.limit = j.limit /\ p.queue = j.queue /\ p.flag = j.flag
      /\ p.next = j.next /\ p.queued = j.queued /\ p.done = j.done /\ p.failed = j.failed /\ p.planned = j.planned
  BY PumpKeeps DEF JobOk
<1> HIDE DEF p
<1>2. Answered(p) = Answered(j)
  BY <1>1 DEF Answered
<1>3. \A i : KeyAt(p, i) = KeyAt(j, i)
  BY <1>1 DEF KeyAt
<1>4. Seen(p) = Seen(j) /\ Owed(p, rows) = Owed(j, rows)
  BY <1>1, <1>3 DEF Seen, Owed
<1>5. PlacesOk(p, rows)
  BY <1>1, <1>4 DEF JobOk, PlacesOk
<1>6. CountsOk(p, rows)
  BY <1>1, <1>2, <1>4 DEF JobOk, CountsOk, Bought
<1> QED
  BY <1>1, <1>5, <1>6 DEF JobOk, p

\* A row that appears is a fallback; none goes.
Quiet(rows, new) ==
  \A k \in Keys : /\ rows[k] # "none" => new[k] # "none"
                  /\ Pre!Settled(new[k]) <=> Pre!Settled(rows[k])

LEMMA SeenAreKeys ==
  ASSUME NEW j \in Jobs, j.next <= Len(Order) + 1
  PROVE  /\ Seen(j) \subseteq Keys /\ j.next \in 1 .. Len(Order) + 1
         /\ \A i \in 1 .. Len(Order) : KeyAt(j, i) \in Keys
         /\ \A i, h \in 1 .. Len(Order) : KeyAt(j, i) = KeyAt(j, h) => i = h
<1>1. j.next \in Nat \ {0} /\ j.flag \in {"on", "off"}
  BY DEF Jobs
<1>2. \A i \in 1 .. Len(Order) : KeyAt(j, i) \in Keys
  BY <1>1, PreConstants, KeyOfIs DEF KeyAt
<1>3. \A i, h \in 1 .. Len(Order) : KeyAt(j, i) = KeyAt(j, h) => i = h
  BY <1>1, PreConstants, KeyOfIs DEF KeyAt
<1>4. \A i \in 1 .. j.next - 1 : i \in 1 .. Len(Order)
  BY <1>1, PreConstants
<1>5. Seen(j) \subseteq Keys
  BY <1>2, <1>4 DEF Seen
<1>6. j.next \in 1 .. Len(Order) + 1
  BY <1>1, PreConstants
<1> QED
  BY <1>2, <1>3, <1>5, <1>6

LEMMA QuietJob ==
  ASSUME NEW rows, NEW new, Quiet(rows, new), NEW j, JobOk(j, rows) PROVE JobOk(j, new)
<1>1. Seen(j) \subseteq Keys
  BY SeenAreKeys DEF JobOk, PlacesOk
<1>2. Bought(j, new) = Bought(j, rows)
  BY DEF Bought, Answered, Quiet, JobOk, Jobs
<1>3. Owed(j, new) = Owed(j, rows)
  BY DEF Owed, Quiet
<1>4. PlacesOk(j, new)
  BY <1>1 DEF PlacesOk, Quiet, JobOk
<1> QED
  BY <1>2, <1>3, <1>4 DEF JobOk, CountsOk

LEMMA QuietRun ==
  ASSUME NEW rows, NEW new, Quiet(rows, new), NEW c, NEW j, RunOk(j, rows, c) PROVE RunOk(j, new, c)
<1>1. {k \in j.queued : Pre!Settled(new[k])} = {k \in j.queued : Pre!Settled(rows[k])}
  BY DEF RunOk, Quiet
<1>2. \A s \in Room : Pre!KeyOf(s, j.flag) \in Keys
  BY KeyOfIs, PreConstants DEF RunOk
<1> QED
  BY <1>1, <1>2 DEF RunOk, Quiet

-----------------------------------------------------------------------------
(* fill: one place more *)

LEMMA NextPlace ==
  ASSUME NEW rows, NEW j, JobOk(j, rows), j.next <= Len(Order)
  PROVE  /\ KeyAt(j, j.next) \in Keys /\ KeyAt(j, j.next) \notin j.queued
         /\ Cardinality(j.queued) < Cardinality(Pre!Slot) /\ Len(j.pending) <= Cardinality(j.queued)
         /\ Cardinality(Pre!Slot) \in Nat
<1> DEFINE k == KeyAt(j, j.next)
           all == {Pre!KeyOf(s, j.flag) : s \in Pre!Slot}
<1>1. j \in Jobs /\ j.next \in 1 .. Len(Order) /\ j.flag \in {"on", "off"} /\ j.queued \in SUBSET Keys
  BY PreConstants DEF JobOk, Jobs
<1>2. k \in Keys
  BY <1>1, SeenAreKeys, PreConstants
<1>3. k \notin j.queued
  <2>1. \A i \in 1 .. j.next - 1 : i \in 1 .. Len(Order) /\ i # j.next
    BY <1>1, PreConstants
  <2>2. \A i \in 1 .. j.next - 1 : KeyAt(j, i) # k
    BY <1>1, <2>1, SeenAreKeys, PreConstants
  <2> QED
    BY <2>2 DEF JobOk, PlacesOk, Seen
<1>4. all \in SUBSET Keys /\ Cardinality(all) = Cardinality(Pre!Slot)
  BY <1>1, KeyOfIs, KeysOfPlaces
<1>5. k \in all
  BY <1>1, PreConstants DEF KeyAt
<1>6. j.queued \subseteq all
  <2>1. \A i \in 1 .. j.next - 1 : i \in 1 .. Len(Order)
    BY <1>1, PreConstants
  <2>2. Seen(j) \subseteq all
    BY <2>1, PreConstants DEF Seen, KeyAt
  <2> QED
    BY <2>2 DEF JobOk, PlacesOk
<1> HIDE DEF all, k
<1>7. Cardinality(j.queued \cup {k}) <= Cardinality(all) /\ Cardinality(all) \in Nat
  BY <1>4, <1>5, <1>6, Part, PartOfPart
<1>8. Cardinality(j.queued \cup {k}) = Cardinality(j.queued) + 1 /\ Cardinality(j.queued) \in Nat
  BY <1>1, <1>3, Part, FS_AddElement
<1>9. Len(j.pending) <= Cardinality(j.queued)
  <2>1. j.pending \in Seq(Keys) /\ Len(j.pending) \in 0 .. Len(j.pending)
    BY <1>1 DEF Jobs
  <2>2. Cardinality(Lined(j)) = Len(j.pending)
    BY <2>1, HeadOf DEF JobOk, QueueOk, Lined
  <2>3. Lined(j) \in SUBSET j.queued
    BY DEF JobOk, QueueOk, Waiting
  <2> QED
    BY <1>1, <2>2, <2>3, PartOfPart
<1> QED
  BY <1>2, <1>3, <1>4, <1>7, <1>8, <1>9 DEF k

\* The place needs no text, or the queue does not take it.
LEMMA PassKeeps ==
  ASSUME NEW rows, NEW j, JobOk(j, rows), j.next <= Len(Order), j.step = "fill", rows[KeyAt(j, j.next)] # "none",
         Pre!Settled(rows[KeyAt(j, j.next)]) \/ Len(j.pending) >= j.queue.maxPending
  PROVE  JobOk([j EXCEPT !.next = @ + 1], rows)
<1> DEFINE next == j.next + 1
           p == [j EXCEPT !.next = next]
<1>1. j \in Jobs /\ j.next \in Nat \ {0} /\ Len(Order) \in Nat /\ next \in Nat \ {0} /\ next = j.next + 1
  BY PreConstants DEF JobOk, Jobs
<1> HIDE DEF next
<1>2. /\ p \in Jobs /\ p.next = next
      /\ p.step = j.step /\ p.limit = j.limit /\ p.queue = j.queue /\ p.flag = j.flag /\ p.pending = j.pending
      /\ p.running = j.running /\ p.queued = j.queued /\ p.done = j.done /\ p.failed = j.failed
      /\ p.planned = j.planned
  BY <1>1 DEF Jobs
<1>3. [j EXCEPT !.next = @ + 1] = p
  BY <1>1 DEF Jobs, next
<1> HIDE DEF p
<1>4. Lined(p) = Lined(j) /\ Waiting(p) = Waiting(j) /\ Answered(p) = Answered(j)
  BY <1>2 DEF Lined, Waiting, Answered
<1>5. \A i : KeyAt(p, i) = KeyAt(j, i)
  BY <1>2 DEF KeyAt
<1>6. Seen(p) = Seen(j) \cup {KeyAt(j, j.next)}
  <2>1. 1 .. p.next - 1 = (1 .. j.next - 1) \cup {j.next}
    BY <1>1, <1>2
  <2> QED
    BY <1>5, <2>1 DEF Seen
<1>7. QueueOk(p)
  BY <1>2, <1>4 DEF QueueOk, JobOk
<1>8. PlacesOk(p, rows)
  BY <1>1, <1>2, <1>6 DEF PlacesOk, JobOk
<1>9. CountsOk(p, rows)
  <2>1. Bought(p, rows) = Bought(j, rows)
    BY <1>4 DEF Bought
  <2>2. ASSUME Cardinality(Pre!Slot) <= j.queue.maxPending PROVE Owed(p, rows) = Owed(j, rows)
    <3>1. Len(j.pending) < j.queue.maxPending
      <4>1. Len(j.pending) \in Nat /\ j.queue.maxPending \in Nat /\ Cardinality(j.queued) \in Nat
        BY <1>1, Part DEF Jobs
      <4> QED
        BY <2>2, <4>1, NextPlace
    <3>2. Pre!Settled(rows[KeyAt(j, j.next)])
      <4>1. Len(j.pending) \in Nat /\ j.queue.maxPending \in Nat
        BY <1>1 DEF Jobs
      <4> QED
        BY <3>1, <4>1
    <3>3. j.next .. Len(Order) = {j.next} \cup (p.next .. Len(Order))
      BY <1>1, <1>2
    <3> QED
      BY <1>2, <1>5, <3>2, <3>3 DEF Owed
  <2> QED
    BY <1>2, <1>4, <2>1, <2>2 DEF CountsOk, JobOk
<1> QED
  BY <1>2, <1>3, <1>7, <1>8, <1>9 DEF JobOk

\* The place is pushed.
LEMMA PushKeeps ==
  ASSUME NEW rows, NEW j, JobOk(j, rows), j.next <= Len(Order), j.step = "fill",
         NEW k, k = KeyAt(j, j.next), rows[k] = "fallback", Len(j.pending) < j.queue.maxPending
  PROVE  JobOk([j EXCEPT !.next = @ + 1, !.pending = Append(@, k), !.queued = @ \cup {k}], rows)
<1> DEFINE line == Append(j.pending, k)
           next == j.next + 1
           taken == j.queued \cup {k}
           p == [j EXCEPT !.next = next, !.pending = line, !.queued = taken]
<1>1. /\ j \in Jobs /\ j.next \in Nat \ {0} /\ Len(Order) \in Nat /\ next \in Nat \ {0} /\ next = j.next + 1
      /\ j.pending \in Seq(Keys) /\ Len(j.pending) \in Nat /\ j.queued \in SUBSET Keys
  BY PreConstants DEF JobOk, Jobs
<1>2. k \in Keys /\ k \notin j.queued
  BY NextPlace
<1>3. /\ line \in Seq(Keys) /\ Len(line) = Len(j.pending) + 1
      /\ \A i \in 1 .. Len(j.pending) : line[i] = j.pending[i]
      /\ line[Len(j.pending) + 1] = k
  BY <1>1, <1>2, AppendProperties
<1>4. [j EXCEPT !.next = @ + 1, !.pending = Append(@, k), !.queued = @ \cup {k}] = p
  BY <1>1 DEF Jobs
<1>12. taken \in SUBSET Keys /\ taken = j.queued \cup {k}
  BY <1>1, <1>2
<1> HIDE DEF line, next, taken
<1>5. /\ p \in Jobs /\ p.next = j.next + 1
      /\ p.step = j.step /\ p.limit = j.limit /\ p.queue = j.queue /\ p.flag = j.flag /\ p.pending = line
      /\ p.running = j.running /\ p.queued = j.queued \cup {k} /\ p.done = j.done /\ p.failed = j.failed
      /\ p.planned = j.planned
  <2>1. p \in Jobs
    BY <1>1, <1>3, <1>12 DEF Jobs
  <2>2. /\ p.next = next /\ p.step = j.step /\ p.limit = j.limit /\ p.queue = j.queue /\ p.flag = j.flag
        /\ p.pending = line /\ p.running = j.running /\ p.queued = taken /\ p.done = j.done
        /\ p.failed = j.failed /\ p.planned = j.planned
    BY <1>1 DEF Jobs
  <2> QED
    BY <1>1, <1>12, <2>1, <2>2
<1> HIDE DEF p
<1>6. Lined(p) = Lined(j) \cup {k}
  <2>1. 1 .. Len(line) = (1 .. Len(j.pending)) \cup {Len(j.pending) + 1}
    BY <1>1, <1>3
  <2> QED
    BY <1>3, <1>5, <2>1 DEF Lined
<1>7. Waiting(p) = Waiting(j) \cup {k} /\ Answered(p) = Answered(j)
  <2>1. Waiting(p) = Waiting(j) \cup {k}
    BY <1>5, <1>6 DEF Waiting
  <2> QED
    BY <1>2, <1>5, <2>1 DEF Answered
<1>8. \A i : KeyAt(p, i) = KeyAt(j, i)
  BY <1>5 DEF KeyAt
<1>9. Seen(p) = Seen(j) \cup {k}
  <2>1. 1 .. p.next - 1 = (1 .. j.next - 1) \cup {j.next}
    BY <1>1, <1>5
  <2> QED
    BY <1>8, <2>1 DEF Seen
<1>10. QueueOk(p)
  <2>1. Lined(j) \subseteq j.queued /\ j.running \subseteq j.queued
    BY DEF JobOk, QueueOk, Waiting
  <2>2. \A a \in 1 .. Len(j.pending) : j.pending[a] \in Lined(j)
    BY DEF Lined
  <2>3. \A a \in 1 .. Len(line) : a \in 1 .. Len(j.pending) \/ a = Len(j.pending) + 1
    BY <1>1, <1>3
  <2>4. \A a, b \in 1 .. Len(line) : line[a] = line[b] => a = b
    BY <1>2, <1>3, <2>1, <2>2, <2>3 DEF JobOk, QueueOk
  <2>5. Lined(p) \cap p.running = {} /\ Waiting(p) \subseteq p.queued
    BY <1>2, <1>5, <1>6, <1>7, <2>1 DEF JobOk, QueueOk
  <2>6. Len(line) <= j.queue.maxPending
    BY <1>1, <1>3 DEF Jobs
  <2> QED
    BY <1>5, <2>4, <2>5, <2>6 DEF JobOk, QueueOk
<1>11. PlacesOk(p, rows)
  BY <1>1, <1>5, <1>9 DEF PlacesOk, JobOk
<1>13. CountsOk(p, rows)
  <2>1. Bought(p, rows) = Bought(j, rows)
    BY <1>7 DEF Bought
  <2>2. Owed(p, rows) = Owed(j, rows)
    <3>1. j.next .. Len(Order) = {j.next} \cup (p.next .. Len(Order))
      BY <1>1, <1>5
    <3>2. ~ Pre!Settled(rows[k])
      BY DEF Pre!Settled
    <3> QED
      BY <1>2, <1>5, <1>8, <3>1, <3>2 DEF Owed
  <2> QED
    BY <1>5, <1>7, <2>1, <2>2 DEF CountsOk, JobOk
<1> QED
  BY <1>4, <1>5, <1>10, <1>11, <1>13 DEF JobOk

-----------------------------------------------------------------------------
(* work: the answer of a worker ends its key *)

LEMMA WorkKeeps ==
  ASSUME NEW rows, NEW j, JobOk(j, rows), NEW k \in j.running, NEW new,
         \A x \in Keys : x # k => new[x] = rows[x],
         new[k] = rows[k] \/ Pre!Settled(new[k]),
         NEW d \in Nat, NEW f \in Nat,
         \/ d = j.done + 1 /\ f = j.failed /\ Pre!Settled(new[k])
         \/ d = j.done /\ f = j.failed + 1
  PROVE  JobOk([j EXCEPT !.running = j.running \ {k}, !.done = d, !.failed = f], new)
<1> DEFINE rest == j.running \ {k}
           p == [j EXCEPT !.running = rest, !.done = d, !.failed = f]
<1>1. /\ j \in Jobs /\ rest \in SUBSET Keys /\ rest = j.running \ {k} /\ k \in Keys /\ j.queued \in SUBSET Keys
      /\ j.running \in SUBSET Keys /\ j.done \in Nat /\ j.failed \in Nat
  BY DEF JobOk, Jobs
<1> HIDE DEF rest
<1>2. p \in Jobs
  BY <1>1 DEF Jobs
<1>3. /\ p.next = j.next /\ p.step = j.step /\ p.limit = j.limit /\ p.queue = j.queue /\ p.flag = j.flag
      /\ p.pending = j.pending /\ p.running = rest /\ p.queued = j.queued /\ p.done = d /\ p.failed = f
      /\ p.planned = j.planned
  BY <1>1 DEF Jobs
<1>4. [j EXCEPT !.running = j.running \ {k}, !.done = d, !.failed = f] = p
  BY <1>1
<1> HIDE DEF p
<1>5. k \in j.queued /\ k \notin Lined(j) /\ Lined(p) = Lined(j)
  BY <1>3 DEF JobOk, QueueOk, Waiting, Lined
<1>6. Answered(p) = Answered(j) \cup {k} /\ k \notin Answered(j)
  BY <1>1, <1>3, <1>5 DEF Answered, Waiting
<1>7. QueueOk(p)
  <2>1. Cardinality(rest) <= Cardinality(j.running) /\ Cardinality(rest) \in Nat /\ Cardinality(j.running) \in Nat
    BY <1>1, Part, PartOfPart
  <2>2. j.queue.concurrency \in Nat
    BY <1>1 DEF Jobs
  <2>3. Cardinality(rest) <= j.queue.concurrency
    BY <2>1, <2>2 DEF JobOk, QueueOk
  <2> QED
    BY <1>1, <1>3, <1>5, <2>3 DEF JobOk, QueueOk, Waiting
<1>8. \A i : KeyAt(p, i) = KeyAt(j, i)
  BY <1>3 DEF KeyAt
<1>9. PlacesOk(p, new)
  <2>1. Seen(p) = Seen(j)
    BY <1>3, <1>8 DEF Seen
  <2>2. Seen(j) \subseteq Keys
    BY SeenAreKeys DEF JobOk, PlacesOk
  <2>3. \A x \in Seen(j) : new[x] # "none"
    BY <2>2 DEF JobOk, PlacesOk, Pre!Settled
  <2> QED
    BY <1>3, <2>1, <2>3 DEF JobOk, PlacesOk
<1>10. CountsOk(p, new)
  <2>1. Answered(j) \in SUBSET Keys
    BY <1>1 DEF Answered
  <2>2. Cardinality(Answered(p)) = Cardinality(Answered(j)) + 1 /\ Cardinality(Answered(j)) \in Nat
    BY <1>6, <2>1, Part, FS_AddElement
  <2>3. Bought(j, rows) \in SUBSET Keys
    BY <2>1 DEF Bought
  <2>4. Bought(j, rows) \subseteq Bought(p, new) /\ k \notin Bought(j, rows) /\ (Pre!Settled(new[k]) => k \in Bought(p, new))
    BY <1>6, <2>1 DEF Bought
  <2>5. Bought(p, new) \in SUBSET Keys
    BY <1>1, <1>6, <2>1 DEF Bought
  <2>6. d <= Cardinality(Bought(p, new))
    <3>1. j.done <= Cardinality(Bought(j, rows)) /\ Cardinality(Bought(j, rows)) \in Nat /\ Cardinality(Bought(p, new)) \in Nat
      BY <2>3, <2>5, Part DEF JobOk, CountsOk
    <3>2. CASE d = j.done
      BY <1>1, <2>4, <2>5, <3>1, <3>2, PartOfPart
    <3>3. CASE d = j.done + 1 /\ Pre!Settled(new[k])
      <4>1. Bought(j, rows) \cup {k} \in SUBSET Bought(p, new)
        BY <2>4, <3>3
      <4>2. Cardinality(Bought(j, rows) \cup {k}) = Cardinality(Bought(j, rows)) + 1
        BY <2>3, <2>4, Part, FS_AddElement
      <4>3. Cardinality(Bought(j, rows) \cup {k}) <= Cardinality(Bought(p, new))
        BY <2>5, <4>1, PartOfPart
      <4> QED
        BY <1>1, <3>1, <3>3, <4>2, <4>3
    <3> QED
      BY <3>2, <3>3
  <2>7. Owed(p, new) = Owed(j, rows)
    BY <1>3, <1>5, <1>8 DEF Owed
  <2>8. d + f = Cardinality(Answered(p))
    BY <1>1, <2>2 DEF JobOk, CountsOk
  <2> QED
    BY <1>3, <2>6, <2>7, <2>8 DEF JobOk, CountsOk
<1> QED
  BY <1>2, <1>4, <1>7, <1>9, <1>10 DEF JobOk

-----------------------------------------------------------------------------
(* The steps *)

\* What a step does to a settled text.
Treasured == \A k \in Keys : Pre!Settled(row[k]) => row'[k] = row[k] \/ (row[k] = "llm" /\ \E b \in Bank : b[1] = k[1])
JobKept == PreInv' /\ Treasured

LEMMA JobsAreNotIdle == Pre!Idle \notin Jobs
BY DEF Pre!Idle, Jobs

\* A run before its first place.
LEMMA StartedJob ==
  ASSUME NEW rows \in TextRows, NEW f \in {"on", "off"}, NEW mode \in {"llm", "authored"}, NEW limit \in Limits,
         NEW queue \in Queues, NEW p,
         p = [step |-> "fill", mode |-> mode, limit |-> limit, queue |-> queue, flag |-> f, next |-> 1,
              pending |-> <<>>, running |-> {}, queued |-> {}, done |-> 0, failed |-> 0,
              planned |-> Pre!Cardinality(Pre!Planned(rows, f))]
  PROVE  JobOk(p, rows)
<1> DEFINE n == Pre!Cardinality(Pre!Planned(rows, f))
<1>1. Pre!Planned(rows, f) \in SUBSET Pre!Slot
  BY DEF Pre!Planned
<1>2. n = Cardinality(Pre!Planned(rows, f)) /\ n \in Nat
  BY <1>1, PreCardinality, PreConstants, FS_Subset, FS_CardinalityType
<1>3. limit \in Nat /\ queue \in [maxPending : Nat \ {0}, concurrency : Nat \ {0}]
  BY PreConstants
<1>4. /\ p.step = "fill" /\ p.queue = queue /\ p.flag = f /\ p.next = 1 /\ p.pending = <<>> /\ p.running = {}
      /\ p.queued = {} /\ p.done = 0 /\ p.failed = 0 /\ p.planned = n
  OBVIOUS
<1> HIDE DEF n
<1>5. p \in Jobs
  <2>1. p = [step |-> "fill", mode |-> mode, limit |-> limit, queue |-> queue, flag |-> f, next |-> 1,
             pending |-> <<>>, running |-> {}, queued |-> {}, done |-> 0, failed |-> 0, planned |-> n]
    BY DEF n
  <2>2. <<>> \in Seq(Keys) /\ 1 \in Nat \ {0}
    OBVIOUS
  <2> QED
    BY <1>2, <1>3, <2>1, <2>2 DEF Jobs
<1>6. Len(p.pending) = 0 /\ 1 .. Len(p.pending) = {} /\ 1 .. p.next - 1 = {}
  BY <1>4
<1>7. Lined(p) = {} /\ Seen(p) = {}
  BY <1>6 DEF Lined, Seen
<1>8. Waiting(p) = {} /\ Answered(p) = {} /\ Bought(p, rows) = {}
  BY <1>4, <1>7 DEF Waiting, Answered, Bought
<1>9. QueueOk(p)
  <2>1. Cardinality(p.running) = 0
    BY <1>4, FS_EmptySet
  <2>2. p.queue.concurrency \in Nat /\ p.queue.maxPending \in Nat
    BY <1>3, <1>4
  <2>3. \A a, b \in 1 .. Len(p.pending) : p.pending[a] = p.pending[b] => a = b
    BY <1>6
  <2>4. Lined(p) \cap p.running = {} /\ Waiting(p) \subseteq p.queued
    BY <1>7, <1>8
  <2>5. Cardinality(p.running) <= p.queue.concurrency /\ Len(p.pending) <= p.queue.maxPending
    BY <1>6, <2>1, <2>2
  <2> QED
    BY <2>3, <2>4, <2>5 DEF QueueOk
<1>10. PlacesOk(p, rows)
  <2>1. p.next <= Len(Order) + 1
    BY <1>4, PreConstants
  <2> QED
    BY <1>4, <1>7, <2>1 DEF PlacesOk
<1>11. Cardinality(Owed(p, rows)) = n
  <2>1. Owed(p, rows) = {k \in Keys : \E i \in 1 .. Len(Order) : k = Pre!KeyOf(Order[i], f) /\ ~ Pre!Settled(rows[k])}
    BY <1>4 DEF Owed, KeyAt
  <2>2. ASSUME NEW k \in Owed(p, rows) PROVE k \in {Pre!KeyOf(s, f) : s \in Pre!Planned(rows, f)}
    <3>1. PICK i \in 1 .. Len(Order) : k = Pre!KeyOf(Order[i], f) /\ ~ Pre!Settled(rows[k])
      BY <2>1, <2>2
    <3> QED
      BY <3>1, PreConstants DEF Pre!Planned
  <2>3. ASSUME NEW s \in Pre!Planned(rows, f) PROVE Pre!KeyOf(s, f) \in Owed(p, rows)
    <3>1. s \in Pre!Slot /\ ~ Pre!Settled(rows[Pre!KeyOf(s, f)]) /\ Pre!KeyOf(s, f) \in Keys
      BY KeyOfIs DEF Pre!Planned
    <3>2. PICK i \in 1 .. Len(Order) : s = Order[i]
      BY <3>1, PreConstants
    <3> QED
      BY <2>1, <3>1, <3>2
  <2>4. Owed(p, rows) = {Pre!KeyOf(s, f) : s \in Pre!Planned(rows, f)}
    BY <2>2, <2>3
  <2> QED
    BY <1>1, <1>2, <2>4, KeysOfPlaces
<1>12. CountsOk(p, rows)
  <2>1. p.done + p.failed = Cardinality(Answered(p)) /\ p.done <= Cardinality(Bought(p, rows))
    <3>1. Cardinality(Answered(p)) = 0 /\ Cardinality(Bought(p, rows)) = 0
      BY <1>8, FS_EmptySet
    <3>2. p.done = 0 /\ p.failed = 0
      BY <1>4
    <3> QED
      BY <3>1, <3>2
  <2> QED
    BY <1>4, <1>11, <2>1 DEF CountsOk
<1> QED
  BY <1>5, <1>9, <1>10, <1>12 DEF JobOk

LEMMA StartKeeps ==
  ASSUME PreInv, NEW mode \in {"llm", "authored"}, NEW limit \in Limits, NEW redo \in BOOLEAN, NEW queue \in Queues,
         Pre!Start(mode, limit, redo, queue)
  PROVE  JobKept
<1> USE DEF Pre!Start
<1>1. row \in TextRows /\ flag \in {"on", "off"}
  BY DEF PreInv
<1>2. row' \in TextRows /\ Treasured
  <2>1. CASE redo
    <3>1. row' = [k \in Keys |-> IF (\E b \in Bank : b[1] = k[1]) /\ row[k] # "authored" THEN "none" ELSE row[k]]
      BY <2>1 DEF Pre!DropStaleAuthoredSlots, Keys
    <3> QED
      BY <1>1, <3>1 DEF TextRows, Treasured, Pre!Settled
  <2>2. CASE ~ redo
    BY <1>1, <2>2 DEF Treasured
  <2> QED
    BY <2>1, <2>2
<1>3. JobOk(job', row')
  BY <1>1, <1>2, StartedJob
<1>4. job' # Pre!Idle
  BY <1>3, JobsAreNotIdle DEF JobOk
<1>5. flag' \in {"on", "off"} /\ exit' \in {-1, 0, 1}
  BY DEF PreInv
<1> QED
  BY <1>2, <1>3, <1>4, <1>5 DEF PreInv, JobKept

LEMMA FillKeeps == ASSUME PreInv, Pre!Fill PROVE JobKept
<1> USE DEF Pre!Fill
<1> DEFINE k == KeyAt(job, job.next)
<1>1. /\ row \in TextRows /\ JobOk(job, row) /\ job # Pre!Idle /\ job.step = "fill" /\ job.next <= Len(Order)
      /\ UNCHANGED <<flag, exit>>
  BY DEF PreInv, Pre!Filling
<1>2. k \in Keys /\ job \in Jobs
  BY <1>1, NextPlace DEF JobOk
<1>3. /\ row' = IF row[k] = "none" THEN [row EXCEPT ![k] = "fallback"] ELSE row
      /\ job' = IF row'[k] = "fallback" THEN Pre!Pushed([job EXCEPT !.next = @ + 1], k) ELSE [job EXCEPT !.next = @ + 1]
  BY DEF KeyAt
<1> HIDE DEF k
<1>4. row' \in TextRows /\ Quiet(row, row') /\ row'[k] # "none" /\ Treasured
  BY <1>1, <1>2, <1>3 DEF TextRows, Quiet, Pre!Settled, Treasured
<1>5. JobOk(job, row')
  BY <1>1, <1>4, QuietJob
<1>6. JobOk(job', row')
  <2> DEFINE passed == [job EXCEPT !.next = @ + 1]
             pushed == [job EXCEPT !.next = @ + 1, !.pending = Append(@, k), !.queued = @ \cup {k}]
  <2>1. Len(job.pending) \in Nat /\ job.queue.maxPending \in Nat
    BY <1>2 DEF Jobs
  <2>2. CASE row'[k] # "fallback"
    <3>1. Pre!Settled(row'[k])
      BY <1>2, <1>4, <2>2 DEF TextRows, Pre!Settled
    <3>2. job' = passed
      BY <1>3, <2>2
    <3> QED
      BY <1>1, <1>4, <1>5, <3>1, <3>2, PassKeeps DEF k
  <2>3. CASE row'[k] = "fallback" /\ Len(job.pending) >= job.queue.maxPending
    <3>1. passed.pending = job.pending /\ passed.queue = job.queue
      BY <1>2 DEF Jobs
    <3>2. job' = passed
      BY <1>3, <2>3, <3>1 DEF Pre!Pushed
    <3> QED
      BY <1>1, <1>4, <1>5, <2>3, <3>2, PassKeeps DEF k
  <2>4. CASE row'[k] = "fallback" /\ Len(job.pending) < job.queue.maxPending
    <3>1. passed.pending = job.pending /\ passed.queue = job.queue
      BY <1>2 DEF Jobs
    <3>2. [passed EXCEPT !.pending = Append(@, k), !.queued = @ \cup {k}] = pushed
      BY <1>2 DEF Jobs
    <3>3. job' = Pre!Pumped(pushed)
      BY <1>3, <2>1, <2>4, <3>1, <3>2 DEF Pre!Pushed
    <3>4. JobOk(pushed, row')
      BY <1>1, <1>5, <2>4, PushKeeps DEF k
    <3> HIDE DEF pushed
    <3> QED
      BY <3>3, <3>4, PumpedJob
  <2> QED
    BY <2>1, <2>2, <2>3, <2>4
<1>7. job' # Pre!Idle
  BY <1>6, JobsAreNotIdle DEF JobOk
<1> QED
  BY <1>1, <1>4, <1>6, <1>7 DEF PreInv, JobKept

LEMMA FilledKeeps == ASSUME PreInv, Pre!Filled PROVE JobKept
<1> USE DEF Pre!Filled
<1>1. JobOk(job, row) /\ job \in Jobs /\ UNCHANGED <<row, flag, exit>>
  BY DEF PreInv, Pre!Filling, JobOk
<1>2. job' = [job EXCEPT !.step = "idle()"] /\ (job.next > Len(Order) \/ job.limit # Pre!NoLimit)
  BY DEF Pre!HasRoom
<1>3. /\ job' \in Jobs /\ job'.next = job.next /\ job'.limit = job.limit /\ job'.queue = job.queue
      /\ job'.flag = job.flag /\ job'.pending = job.pending /\ job'.running = job.running /\ job'.queued = job.queued
      /\ job'.done = job.done /\ job'.failed = job.failed /\ job'.planned = job.planned
  BY <1>1, <1>2 DEF Jobs
<1> DEFINE p == job'
           j == job
           rows == row
<1>4. p \in Jobs /\ JobOk(j, rows)
  BY <1>1, <1>3
<1>5. /\ p.next = j.next /\ p.limit = j.limit /\ p.queue = j.queue
      /\ p.flag = j.flag /\ p.pending = j.pending /\ p.running = j.running /\ p.queued = j.queued
      /\ p.done = j.done /\ p.failed = j.failed /\ p.planned = j.planned
  BY <1>3
<1>6. j.next > Len(Order) \/ j.limit # Pre!NoLimit
  BY <1>2
<1> HIDE DEF p, j, rows
<1>7. \A i : KeyAt(p, i) = KeyAt(j, i)
  BY <1>5 DEF KeyAt
<1>8. /\ Lined(p) = Lined(j) /\ Waiting(p) = Waiting(j) /\ Answered(p) = Answered(j) /\ Seen(p) = Seen(j)
      /\ Bought(p, rows) = Bought(j, rows) /\ Owed(p, rows) = Owed(j, rows)
  BY <1>5, <1>7 DEF Lined, Waiting, Answered, Seen, Bought, Owed
<1>9. QueueOk(p)
  BY <1>4, <1>5, <1>8 DEF JobOk, QueueOk
<1>10. PlacesOk(p, rows)
  <2>1. j.next \in Nat /\ Len(Order) \in Nat /\ j.next <= Len(Order) + 1
    BY <1>4, PreConstants DEF JobOk, Jobs, PlacesOk
  <2>2. p.next = Len(Order) + 1 \/ p.limit # Pre!NoLimit
    BY <1>5, <1>6, <2>1
  <2> QED
    BY <1>4, <1>5, <1>8, <2>2 DEF JobOk, PlacesOk
<1>11. CountsOk(p, rows)
  BY <1>4, <1>5, <1>8 DEF JobOk, CountsOk
<1>12. JobOk(job', row') /\ job' # Pre!Idle
  BY <1>1, <1>4, <1>9, <1>10, <1>11, JobsAreNotIdle DEF JobOk, p, rows
<1> QED
  BY <1>1, <1>12 DEF PreInv, JobKept, Treasured

LEMMA WorkStepKeeps == ASSUME PreInv, NEW k \in Keys, Pre!Work(k) PROVE JobKept
<1> DEFINE done(d, f) == [job EXCEPT !.running = job.running \ {k}, !.done = d, !.failed = f]
<1>1. row \in TextRows /\ JobOk(job, row) /\ job \in Jobs /\ k \in job.running /\ UNCHANGED <<flag, exit>>
  BY DEF PreInv, Pre!Work, JobOk
<1>2. /\ job.done \in Nat /\ job.failed \in Nat /\ job.done + 1 \in Nat /\ job.failed + 1 \in Nat
      /\ [[job EXCEPT !.running = @ \ {k}] EXCEPT !.done = @ + 1] = done(job.done + 1, job.failed)
      /\ [[job EXCEPT !.running = @ \ {k}] EXCEPT !.failed = @ + 1] = done(job.done, job.failed + 1)
  <2>1. /\ job.done \in Nat /\ job.failed \in Nat /\ job.done + 1 \in Nat /\ job.failed + 1 \in Nat
    BY <1>1 DEF Jobs
  <2> DEFINE j == [job EXCEPT !.running = job.running \ {k}]
  <2>2. j.done = job.done /\ j.failed = job.failed
    BY <1>1 DEF Jobs
  <2>3. [j EXCEPT !.done = job.done + 1] = done(job.done + 1, job.failed)
    BY <1>1 DEF Jobs
  <2>4. [j EXCEPT !.failed = job.failed + 1] = done(job.done, job.failed + 1)
    BY <1>1 DEF Jobs
  <2> QED
    BY <2>1, <2>2, <2>3, <2>4
<1>3. \/ /\ row[k] # "fallback" /\ UNCHANGED row
         /\ job' = Pre!Pumped(done(job.done + 1, job.failed))
      \/ /\ row[k] = "fallback" /\ UNCHANGED row
         /\ job' = Pre!Pumped(done(job.done, job.failed + 1))
      \/ /\ row[k] = "fallback" /\ (\E source \in {"llm", "authored"} : row' = [row EXCEPT ![k] = source])
         /\ job' = Pre!Pumped(done(job.done + 1, job.failed))
  BY <1>2 DEF Pre!Work, Pre!Rendered
<1>4. row[k] # "none"
  BY <1>1 DEF JobOk, PlacesOk, QueueOk, Waiting
<1>5. row' \in TextRows /\ (\A x \in Keys : x # k => row'[x] = row[x]) /\ Treasured
  BY <1>1, <1>3 DEF TextRows, Treasured, Pre!Settled
<1>6. row'[k] = row[k] \/ Pre!Settled(row'[k])
  BY <1>1, <1>3 DEF TextRows, Pre!Settled
<1>7. \/ job' = Pre!Pumped(done(job.done + 1, job.failed)) /\ Pre!Settled(row'[k])
      \/ job' = Pre!Pumped(done(job.done, job.failed + 1))
  BY <1>1, <1>3, <1>4 DEF TextRows, Pre!Settled
<1>8. JobOk(job', row')
  <2>1. CASE job' = Pre!Pumped(done(job.done + 1, job.failed)) /\ Pre!Settled(row'[k])
    <3>1. JobOk(done(job.done + 1, job.failed), row')
      BY <1>1, <1>2, <1>5, <1>6, <2>1, WorkKeeps
    <3> HIDE DEF done
    <3> QED
      BY <2>1, <3>1, PumpedJob
  <2>2. CASE job' = Pre!Pumped(done(job.done, job.failed + 1))
    <3>1. JobOk(done(job.done, job.failed + 1), row')
      <4> DEFINE d == job.done
                 f == job.failed + 1
      <4>1. d \in Nat /\ f \in Nat /\ d = job.done /\ f = job.failed + 1
        BY <1>2
      <4> HIDE DEF d, f
      <4>2. JobOk(done(d, f), row')
        BY <1>1, <1>5, <1>6, <4>1, WorkKeeps
      <4> QED
        BY <4>2 DEF d, f
    <3> HIDE DEF done
    <3> QED
      BY <2>2, <3>1, PumpedJob
  <2> QED
    BY <1>7, <2>1, <2>2
<1>9. job' # Pre!Idle
  BY <1>8, JobsAreNotIdle DEF JobOk
<1> QED
  BY <1>1, <1>5, <1>8, <1>9 DEF PreInv, JobKept

LEMMA FinishKeeps == ASSUME PreInv, Pre!Finish PROVE JobKept
<1> USE DEF Pre!Finish
<1>1. /\ row \in TextRows /\ JobOk(job, row) /\ job \in Jobs /\ UNCHANGED <<row, flag>> /\ job' = Pre!Idle /\ ran' = job
      /\ job.pending = <<>> /\ job.running = {} /\ job.step = "idle()" /\ exit' = Pre!Code(job)
  BY DEF PreInv, JobOk
<1>2. Answered(job) = job.queued
  BY <1>1 DEF Answered, Waiting, Lined
<1>3. job.limit = Pre!NoLimit => job.next = Len(Order) + 1
  BY <1>1 DEF JobOk, PlacesOk
<1>4. job.limit = Pre!NoLimit => Owed(job, row) = job.queued
  BY <1>3, PreConstants DEF Owed
<1>5. ASSUME job.limit = Pre!NoLimit, exit' = 0, NEW s \in Room PROVE Pre!Settled(row[Pre!KeyOf(s, job.flag)])
  <2> DEFINE left == {k \in Pre!Key : k[1] \in Room /\ row[k] = "fallback"}
             k == Pre!KeyOf(s, job.flag)
  <2>1. left \in SUBSET Keys
    BY DEF Keys
  <2>2. IsFiniteSet(left) /\ Cardinality(left) \in Nat
    BY <2>1, Part
  <2>3. Pre!Leftover = Cardinality(left)
    BY PreCardinality DEF Pre!Leftover
  <2>4. ~ (Pre!Leftover > 0)
    BY <1>1, <1>5 DEF Pre!Code
  <2> HIDE DEF left
  <2>5. left = {}
    BY <2>2, <2>3, <2>4, FS_EmptySet
  <2>6. k \in Keys /\ k[1] = s /\ s \in Pre!Slot
    BY <1>1, KeyOfIs, PreConstants DEF Jobs
  <2>7. row[k] # "fallback"
    BY <2>5, <2>6 DEF left, Keys
  <2>8. k \in Seen(job)
    <3>1. PICK i \in 1 .. Len(Order) : s = Order[i]
      BY <2>6, PreConstants
    <3>2. i \in 1 .. job.next - 1
      BY <1>3, <1>5, PreConstants
    <3> QED
      BY <3>1, <3>2 DEF Seen, KeyAt
  <2>9. row[k] # "none"
    BY <1>1, <2>8 DEF JobOk, PlacesOk
  <2> QED
    BY <1>1, <2>6, <2>7, <2>9 DEF TextRows, Pre!Settled
<1>6. RunOk(job, row, exit')
  <2>1. job.limit \in Nat /\ job.queued \in SUBSET Keys /\ job.flag \in {"on", "off"}
    BY <1>1 DEF Jobs
  <2> QED
    BY <1>1, <1>2, <1>4, <1>5, <2>1 DEF RunOk, JobOk, CountsOk, Bought
<1>7. exit' \in {-1, 0, 1}
  BY <1>1 DEF Pre!Code
<1>8. RunOk(ran', row', exit')
  BY <1>1, <1>6
<1> QED
  BY <1>1, <1>7, <1>8 DEF PreInv, JobKept, Treasured

LEMMA KillKeeps == ASSUME PreInv, Pre!Kill PROVE JobKept
BY DEF PreInv, JobKept, Treasured, Pre!Kill

LEMMA ServerBesideKeeps == ASSUME PreInv, Pre!Flip \/ \E s \in Pre!Slot : Pre!Visit(s) PROVE JobKept
<1>1. UNCHANGED <<job, ran, exit>> /\ flag' \in {"on", "off"}
  BY DEF Pre!Flip, Pre!Visit, PreInv
<1>2. row' \in TextRows /\ Quiet(row, row') /\ Treasured
  <2>1. CASE Pre!Flip
    BY <2>1 DEF Pre!Flip, PreInv, Quiet, Treasured
  <2>2. CASE \E s \in Pre!Slot : Pre!Visit(s)
    <3>1. PICK k \in Keys : row[k] = "none" /\ row' = [row EXCEPT ![k] = "fallback"]
      BY <2>2, KeyOfIs DEF Pre!Visit, PreInv
    <3> QED
      BY <3>1 DEF PreInv, TextRows, Quiet, Treasured, Pre!Settled
  <2> QED
    BY <2>1, <2>2
<1>3. job # Pre!Idle => JobOk(job, row')
  BY <1>2, QuietJob DEF PreInv
<1>4. job = Pre!Idle /\ ran # Pre!Idle => RunOk(ran, row', exit)
  BY <1>2, QuietRun DEF PreInv
<1> QED
  BY <1>1, <1>2, <1>3, <1>4 DEF PreInv, JobKept

\* The tool over a step, whoever takes it.
LEMMA PreStep ==
  ASSUME PreInv, StoredNext \/ UNCHANGED <<vars, keepVars, jobVars, part>> PROVE JobKept
<1>1. CASE UNCHANGED jobVars
  BY <1>1 DEF jobVars, PreInv, JobKept, Treasured
<1>2. CASE Pre!Next
  BY <1>2, StartKeeps, FillKeeps, FilledKeeps, WorkStepKeeps, FinishKeeps, KillKeeps, ServerBesideKeeps DEF Pre!Next, Keys
<1> QED
  BY <1>1, <1>2 DEF StoredNext

LEMMA InitPreInv == Pre!Init => PreInv
<1> SUFFICES ASSUME Pre!Init PROVE PreInv
  OBVIOUS
<1> QED
  BY DEF Pre!Init, PreInv, TextRows, Keys

LEMMA PreInvMeans == PreInv => RunsDoWhatTheySay
<1> SUFFICES ASSUME PreInv PROVE RunsDoWhatTheySay
  OBVIOUS
<1>1. Pre!TypeOK
  <2>1. job # Pre!Idle => /\ job.running \subseteq job.queued /\ Cardinality(job.running) <= job.queue.concurrency
                          /\ Len(job.pending) <= job.queue.maxPending
    BY DEF PreInv, JobOk, QueueOk, Waiting
  <2> QED
    BY <2>1, PreCardinality DEF PreInv, TextRows, Keys, Pre!TypeOK
<1>2. Pre!DoneIsSettled
  BY PreCardinality DEF PreInv, RunOk, Pre!DoneIsSettled, Pre!Ended
<1>3. Pre!PlanIsWork
  BY PreCardinality DEF PreInv, RunOk, Pre!PlanIsWork, Pre!Ended, Pre!Whole
<1>4. Pre!RoomsAreDone
  BY DEF PreInv, RunOk, Pre!RoomsAreDone, Pre!Ended, Pre!Whole
<1> QED
  BY <1>1, <1>2, <1>3, <1>4 DEF RunsDoWhatTheySay

LEMMA PreInvAlways == StoredSpec => []PreInv
<1>1. StoredInit => PreInv
  BY InitPreInv DEF StoredInit
<1>2. PreInv /\ [StoredNext]_<<vars, keepVars, jobVars, part>> => PreInv'
  BY PreStep DEF JobKept
<1> QED
  BY <1>1, <1>2, PTL DEF StoredSpec

(* A run of the tool that ends has done what it says and what its plan said, *)
(* and one that exits with 0 has left no room to the fallback: whatever the  *)
(* order of the answers, the visits beside it and the size of its queue.     *)
THEOREM RunsAlwaysDoWhatTheySay == StoredSpec => []RunsDoWhatTheySay
BY PreInvAlways, PreInvMeans, PTL

LEMMA SettledTextStays == StoredSpec => Pre!SettledStays
<1>1. PreInv /\ [StoredNext]_<<vars, keepVars, jobVars, part>> => [Pre!SettledStep]_jobVars
  BY PreStep DEF JobKept, Treasured, Pre!SettledStep, Keys
<1> QED
  BY <1>1, PreInvAlways, PTL DEF StoredSpec, Pre!SettledStays, Pre!vars, jobVars

(* A text of the model is paid for once: no boot, backup, restore, world or  *)
(* run of the tool writes over it, but --redo for a place with a sentence    *)
(* written by hand; nor is a backup that was verified written over.          *)
THEOREM PaidWorkAlwaysStays == StoredSpec => PaidWorkStays
BY PaidStaysInTheFile, SettledTextStays DEF PaidWorkStays
=============================================================================
