---------------------------- MODULE PlayersProofs ----------------------------
(***************************************************************************)
(* Theorems about who comes in: Accounts, for every set of devices and     *)
(* names and every number of scrypt slots and device tokens, and Gate, for *)
(* every set of sockets, addresses and characters and every limit.         *)
(*                                                                         *)
(* Accounts: two arguments that do not meet.  The slots: a job keeps the   *)
(* number of the attempt that made it, so no two jobs are equal, and the   *)
(* line in front of the slots is never longer than it must be (Slotted); a *)
(* device that waits has one job that will answer it (Answers).  The rows: *)
(* a name without a secret has no character, which is what makes the       *)
(* insert of the name the only step that can give an account its first     *)
(* character, and a token of an owned row is one that no device holds      *)
(* (Rows).                                                                 *)
(*                                                                         *)
(* Gate: what an address remembers of its births holds every one of the    *)
(* window that ends now (BirthsKept), so a birth is counted before it is   *)
(* made; a session's yells are paid for by the time up to its last action  *)
(* (YellsKept).                                                            *)
(***************************************************************************)
EXTENDS Players, FiniteSetTheorems, SequenceTheorems, TLAPS

Secret == {"none", "stale", "strong"}
JobSet == [what : {"hash", "verify", "rehash"}, id : Nat, dev : Device, name : Name,
           time : Nat, secret : Secret, bearer : Nat]

\* The slots r and the line w before them.
Slotted(r, w) ==
  /\ r \subseteq JobSet /\ IsFiniteSet(r)
  /\ w \in Seq(JobSet)
  /\ \A i, j \in DOMAIN w : w[i] = w[j] => i = j
  /\ \A i \in DOMAIN w : w[i] \notin r
  /\ Cardinality(r) <= Slots
  /\ w # <<>> => Cardinality(r) = Slots

Jobs == running \cup ToSet(waiting)
Answering(j) == j.what # "rehash"

\* Every device that waits has one job that will answer it.
Answers ==
  /\ attempts \in Nat
  /\ waits \subseteq Device
  /\ \A j \in Jobs : j.id < attempts
  /\ \A j, k \in Jobs : j.id = k.id => j = k
  /\ \A j \in Jobs : Answering(j) => j.dev \in waits
  /\ \A j, k \in Jobs : Answering(j) /\ Answering(k) /\ j.dev = k.dev => j = k
  /\ \A d \in waits : \E j \in Jobs : Answering(j) /\ j.dev = d

-----------------------------------------------------------------------------
(* The slots of secret.ts.                                                 *)

\* withSlot: a job takes a free slot or stands at the end of the line.
LEMMA EnterSlots ==
  ASSUME NEW r, NEW w, Slotted(r, w), NEW job \in JobSet, job \notin r, job \notin ToSet(w)
  PROVE  LET s == Enter(job, r, w)
         IN  Slotted(s.running, s.waiting)
             /\ s.running \cup ToSet(s.waiting) = r \cup ToSet(w) \cup {job}
<1>1. Slots \in Nat /\ Cardinality(r) \in Nat
  BY AccountsAssumption, FS_CardinalityType DEF Slotted
<1>2. CASE Cardinality(r) >= Slots
  <2> DEFINE v == Append(w, job)
  <2>1. /\ v \in Seq(JobSet) /\ v # <<>>
        /\ DOMAIN v = 1..(Len(w) + 1) /\ DOMAIN w = 1..Len(w) /\ Len(w) \in Nat
        /\ \A i \in 1..Len(w) : v[i] = w[i]
        /\ v[Len(w) + 1] = job
    BY AppendProperties, LenProperties DEF Slotted
  <2>2. Enter(job, r, w) = [running |-> r, waiting |-> v]
    BY <1>2 DEF Enter
  <2> HIDE DEF v
  <2>3. Slotted(r, v)
    BY <1>1, <1>2, <2>1 DEF Slotted, ToSet
  <2>4. ToSet(v) = ToSet(w) \cup {job}
    BY <2>1 DEF ToSet
  <2> QED BY <2>2, <2>3, <2>4
<1>3. CASE ~(Cardinality(r) >= Slots)
  <2>1. Enter(job, r, w) = [running |-> r \cup {job}, waiting |-> w]
    BY <1>3 DEF Enter
  <2>2. w = <<>>
    BY <1>1, <1>3 DEF Slotted
  <2>3. IsFiniteSet(r \cup {job}) /\ Cardinality(r \cup {job}) = Cardinality(r) + 1
    BY FS_AddElement DEF Slotted
  <2>4. Slotted(r \cup {job}, w)
    BY <1>1, <1>3, <2>2, <2>3 DEF Slotted
  <2> QED BY <2>1, <2>2, <2>4 DEF ToSet
<1> QED BY <1>2, <1>3

\* A job that ends passes its slot to the first in line.
LEMMA LeaveSlots ==
  ASSUME Slotted(running, waiting), NEW job \in running
  PROVE  LET s == Leave(job)
         IN  Slotted(s.running, s.waiting)
             /\ s.running \cup ToSet(s.waiting) = Jobs \ {job}
<1>1. /\ Slots \in Nat /\ Cardinality(running) \in Nat
      /\ IsFiniteSet(running \ {job})
      /\ Cardinality(running \ {job}) = Cardinality(running) - 1
  BY AccountsAssumption, FS_CardinalityType, FS_RemoveElement DEF Slotted
<1>2. CASE waiting = <<>>
  <2>1. Leave(job) = [running |-> running \ {job}, waiting |-> <<>>]
    BY <1>2 DEF Leave
  <2>2. Slotted(running \ {job}, <<>>)
    BY <1>1, <1>2 DEF Slotted
  <2> QED BY <1>2, <2>1, <2>2 DEF Jobs, ToSet
<1>3. CASE waiting # <<>>
  <2> DEFINE h == Head(waiting)
             v == Tail(waiting)
             r == (running \ {job}) \cup {h}
  <2>1. Leave(job) = [running |-> r, waiting |-> v]
    BY <1>3 DEF Leave
  <2>2. /\ Len(waiting) \in Nat \ {0} /\ DOMAIN waiting = 1..Len(waiting)
        /\ h = waiting[1] /\ h \in JobSet
        /\ v \in Seq(JobSet) /\ DOMAIN v = 1..(Len(waiting) - 1)
        /\ \A i \in 1..(Len(waiting) - 1) : v[i] = waiting[i + 1]
    BY <1>3, HeadTailProperties, EmptySeq, LenProperties DEF Slotted
  <2> HIDE DEF v, h
  <2>3. h \notin running /\ h # job
    BY <2>2 DEF Slotted
  <2>4. IsFiniteSet(r) /\ Cardinality(r) = Cardinality(running)
    BY <1>1, <2>3, FS_AddElement
  <2>5. \A i \in DOMAIN v : v[i] \notin r
    BY <2>2 DEF Slotted
  <2>6. Slotted(r, v)
    <3>1. r \subseteq JobSet
      BY <2>2 DEF Slotted
    <3>2. \A i, j \in DOMAIN v : v[i] = v[j] => i = j
      <4> SUFFICES ASSUME NEW i \in 1..(Len(waiting) - 1), NEW j \in 1..(Len(waiting) - 1), v[i] = v[j]
                   PROVE  i = j
        BY <2>2
      <4>1. waiting[i + 1] = waiting[j + 1] /\ i + 1 \in DOMAIN waiting /\ j + 1 \in DOMAIN waiting
        BY <2>2
      <4>2. i + 1 = j + 1
        BY <4>1 DEF Slotted
      <4> QED BY <4>2
    <3>3. Cardinality(r) = Slots
      BY <1>3, <2>4 DEF Slotted
    <3> HIDE DEF r
    <3> QED BY <1>1, <2>2, <2>4, <2>5, <3>1, <3>2, <3>3 DEF Slotted
  <2>7. ToSet(waiting) = ToSet(v) \cup {h}
    <3>1. \A i \in 1..Len(waiting) : i = 1 \/ (i - 1 \in 1..(Len(waiting) - 1) /\ waiting[i] = v[i - 1])
      BY <2>2
    <3>2. \A i \in 1..(Len(waiting) - 1) : i + 1 \in 1..Len(waiting)
      BY <2>2
    <3> QED BY <2>2, <3>1, <3>2, SMTT(30) DEF ToSet
  <2>8. job \notin ToSet(waiting)
    BY DEF Slotted, ToSet
  <2>9. r \cup ToSet(v) = Jobs \ {job}
    BY <2>3, <2>7, <2>8 DEF Jobs
  <2> QED BY <2>1, <2>6, <2>9
<1> QED BY <1>2, <1>3

LEMMA JobType ==
  ASSUME Slotted(running, waiting), NEW j \in Jobs
  PROVE  j \in JobSet
<1>1. CASE j \in running
  BY <1>1 DEF Slotted
<1>2. CASE j \in ToSet(waiting)
  BY <1>2, LenProperties, ElementOfSeq DEF Slotted, ToSet
<1> QED BY <1>1, <1>2 DEF Jobs

LEMMA BeginSlots ==
  ASSUME Slotted(running, waiting), NEW job \in JobSet, job \notin Jobs, Begin(job)
  PROVE  Slotted(running, waiting)' /\ Jobs' = Jobs \cup {job}
BY EnterSlots DEF Begin, Jobs

LEMMA EndSlots ==
  ASSUME Slotted(running, waiting), NEW job \in running, End(job)
  PROVE  Slotted(running, waiting)' /\ Jobs' = Jobs \ {job}
BY LeaveSlots DEF End, Jobs

LEMMA EndThenSlots ==
  ASSUME Slotted(running, waiting), NEW job \in running,
         NEW next \in JobSet, next \notin Jobs, EndThen(job, next)
  PROVE  Slotted(running, waiting)' /\ Jobs' = (Jobs \ {job}) \cup {next}
<1> DEFINE s == Leave(job)
           t == Enter(next, s.running, s.waiting)
<1>1. Slotted(s.running, s.waiting) /\ s.running \cup ToSet(s.waiting) = Jobs \ {job}
  BY LeaveSlots
<1>2. Slotted(t.running, t.waiting)
      /\ t.running \cup ToSet(t.waiting) = s.running \cup ToSet(s.waiting) \cup {next}
  <2> HIDE DEF s
  <2>1. next \notin s.running /\ next \notin ToSet(s.waiting)
    BY <1>1
  <2> QED BY <1>1, <2>1, EnterSlots
<1>3. running' = t.running /\ waiting' = t.waiting
  BY DEF EndThen
<1> HIDE DEF s, t
<1> QED BY <1>1, <1>2, <1>3 DEF Jobs

-----------------------------------------------------------------------------
(* Answers.                                                                *)

\* An attempt puts one new job in the slots or the line.
LEMMA BeginAnswers ==
  ASSUME Slotted(running, waiting), Answers, NEW d \in Device, Attempt(d),
         NEW job \in JobSet, job.id = attempts, job.dev = d, Answering(job),
         waits' = waits \cup {d}, Begin(job)
  PROVE  Slotted(running, waiting)' /\ Answers'
<1>1. job \notin Jobs
  BY DEF Answers
<1>2. Slotted(running, waiting)' /\ Jobs' = Jobs \cup {job}
  BY <1>1, BeginSlots
<1>3. attempts' = attempts + 1 /\ d \notin waits
  BY DEF Attempt
<1>4. attempts' \in Nat /\ attempts < attempts'
  BY <1>3 DEF Answers
<1>5. \A j \in Jobs : j.id \in Int
  BY JobType DEF JobSet
<1>6. Answers'
  <2>1. \A j \in Jobs' : j.id < attempts'
    BY <1>2, <1>3, <1>5 DEF Answers
  <2>2. \A j, k \in Jobs' : j.id = k.id => j = k
    BY <1>2, <1>5 DEF Answers
  <2>3. /\ \A j \in Jobs' : Answering(j) => j.dev \in waits'
        /\ \A j, k \in Jobs' : Answering(j) /\ Answering(k) /\ j.dev = k.dev => j = k
    BY <1>2, <1>3 DEF Answers
  <2>4. \A e \in waits' : \E j \in Jobs' : Answering(j) /\ j.dev = e
    BY <1>2 DEF Answers
  <2> QED BY <1>4, <2>1, <2>2, <2>3, <2>4 DEF Answers
<1> QED BY <1>2, <1>6

\* The job a device waits for ends with its answer, and with that only.
LEMMA EndAnswers ==
  ASSUME Slotted(running, waiting), Answers, NEW job \in running, Answering(job),
         Done(job), End(job)
  PROVE  Slotted(running, waiting)' /\ Answers'
<1>1. Slotted(running, waiting)' /\ Jobs' = Jobs \ {job}
  BY EndSlots
<1>2. waits' = waits \ {job.dev} /\ attempts' = attempts /\ job \in Jobs
  BY DEF Done, Jobs
<1> QED BY <1>1, <1>2 DEF Answers

\* A successful login with a secret of old parameters goes on as a rehash.
LEMMA EndThenAnswers ==
  ASSUME Slotted(running, waiting), Answers, NEW job \in running, job.what = "verify",
         Done(job), EndThen(job, [job EXCEPT !.what = "rehash"])
  PROVE  Slotted(running, waiting)' /\ Answers'
<1> DEFINE next == [job EXCEPT !.what = "rehash"]
<1>1. job \in JobSet /\ job \in Jobs
  BY DEF Slotted, Jobs
<1>2. next \in JobSet /\ next.id = job.id /\ ~Answering(next) /\ next.dev = job.dev /\ next # job
  BY <1>1 DEF JobSet, Answering
<1> HIDE DEF next
<1>3. next \notin Jobs
  BY <1>1, <1>2 DEF Answers
<1>4. Slotted(running, waiting)' /\ Jobs' = (Jobs \ {job}) \cup {next}
  BY <1>2, <1>3, EndThenSlots DEF next
<1>5. waits' = waits \ {job.dev} /\ attempts' = attempts
  BY DEF Done
<1>6. Answers'
  <2>1. \A j \in Jobs' : j.id < attempts'
    BY <1>1, <1>2, <1>4, <1>5 DEF Answers
  <2>2. \A j, k \in Jobs' : j.id = k.id => j = k
    BY <1>1, <1>2, <1>4 DEF Answers
  <2>3. \A j \in Jobs' : Answering(j) => j \in Jobs /\ j # job
    BY <1>2, <1>4
  <2>4. Answering(job)
    BY DEF Answering
  <2>5. /\ \A j \in Jobs' : Answering(j) => j.dev \in waits'
        /\ \A j, k \in Jobs' : Answering(j) /\ Answering(k) /\ j.dev = k.dev => j = k
    BY <1>1, <1>5, <2>3, <2>4 DEF Answers
  <2>6. \A e \in waits' : \E j \in Jobs' : Answering(j) /\ j.dev = e
    BY <1>4, <1>5 DEF Answers
  <2> QED BY <1>5, <2>1, <2>2, <2>5, <2>6 DEF Answers
<1> QED BY <1>4, <1>6

\* A rehash ends, one way or the other: nobody waits for it.
LEMMA RehashAnswers ==
  ASSUME Slotted(running, waiting), Answers, NEW job \in running, ~Answering(job), End(job),
         UNCHANGED <<waits, attempts>>
  PROVE  Slotted(running, waiting)' /\ Answers'
<1>1. Slotted(running, waiting)' /\ Jobs' = Jobs \ {job}
  BY EndSlots
<1> QED BY <1>1 DEF Answers

-----------------------------------------------------------------------------
(* The device tokens.                                                      *)

TokenSet(n, last) == [tok : 1..last, char : 1..n, used : Nat]
TokensOf(ts, c) == {r \in ts : r.char = c}

\* A table of tokens, when there are n characters and `last` tokens were made.
TokensOK(ts, n, last) ==
  /\ ts \subseteq TokenSet(n, last)
  /\ IsFiniteSet(ts)
  /\ \A c \in 1..n : Cardinality(TokensOf(ts, c)) <= MaxDevices

LEMMA TokensOfFinite ==
  ASSUME NEW ts, NEW c, IsFiniteSet(ts)
  PROVE  IsFiniteSet(TokensOf(ts, c)) /\ Cardinality(TokensOf(ts, c)) \in Nat
<1>1. TokensOf(ts, c) \in SUBSET ts
  BY DEF TokensOf
<1> QED BY <1>1, FS_Subset, FS_CardinalityType

\* New characters have no tokens, and new numbers change no table.
LEMMA TokensGrow ==
  ASSUME NEW n \in Nat, NEW m \in Nat, n <= m, NEW last \in Nat, NEW next \in Nat, last <= next,
         NEW ts, TokensOK(ts, n, last)
  PROVE  TokensOK(ts, m, next)
<1>1. ts \subseteq TokenSet(m, next)
  BY DEF TokensOK, TokenSet
<1>2. ASSUME NEW c \in 1..m PROVE Cardinality(TokensOf(ts, c)) <= MaxDevices
  <2>1. CASE c \in 1..n
    BY <2>1 DEF TokensOK
  <2>2. CASE c \notin 1..n
    <3>1. TokensOf(ts, c) = {}
      BY <2>2 DEF TokensOK, TokenSet, TokensOf
    <3> QED BY <3>1, FS_EmptySet, AccountsAssumption
  <2> QED BY <2>1, <2>2
<1> QED BY <1>1, <1>2 DEF TokensOK

\* Noting a use gives nobody another token: two rows may become one, no more.
LEMMA TouchedOK ==
  ASSUME NEW n \in Nat, NEW last \in Nat, NEW ts, TokensOK(ts, n, last), NEW tok, clock \in Nat
  PROVE  TokensOK(Touched(ts, tok), n, last)
<1> DEFINE touch(r) == IF r.tok = tok THEN [r EXCEPT !.used = clock] ELSE r
           us == Touched(ts, tok)
<1>1. us = {touch(r) : r \in ts}
  BY DEF Touched
<1>2. ASSUME NEW r \in ts PROVE touch(r) \in TokenSet(n, last) /\ touch(r).char = r.char
  BY DEF TokensOK, TokenSet
<1> HIDE DEF touch, us
<1>3. IsFiniteSet(us)
  <2> DEFINE f == [r \in ts |-> touch(r)]
  <2>1. f \in Surjection(ts, us)
    BY <1>1 DEF Surjection
  <2> QED BY <2>1, FS_Surjection DEF TokensOK
<1>4. ASSUME NEW c \in 1..n PROVE Cardinality(TokensOf(us, c)) <= MaxDevices
  <2> DEFINE A == TokensOf(ts, c)
             f == [r \in A |-> touch(r)]
  <2>1. f \in Surjection(A, TokensOf(us, c))
    BY <1>1, <1>2 DEF Surjection, TokensOf
  <2>2. IsFiniteSet(A) /\ Cardinality(A) \in Nat /\ Cardinality(A) <= MaxDevices
    BY TokensOfFinite DEF TokensOK
  <2>3. Cardinality(TokensOf(us, c)) <= Cardinality(A)
    BY <2>1, <2>2, FS_Surjection
  <2>4. Cardinality(TokensOf(us, c)) \in Nat /\ MaxDevices \in Nat
    BY <1>3, TokensOfFinite, AccountsAssumption
  <2> QED BY <2>2, <2>3, <2>4
<1>5. us \subseteq TokenSet(n, last)
  BY <1>1, <1>2
<1> QED BY <1>3, <1>4, <1>5 DEF TokensOK, us

LEMMA LeastIsThere ==
  ASSUME NEW S, S \subseteq Nat, S # {}
  PROVE  \E c \in S : \A d \in S : c <= d
<1>1. PICK c \in S : \A d \in S : <<d, c>> \notin OpToRel(<, Nat)
  BY NatLessThanWellFounded, WFMin
<1>2. ASSUME NEW d \in S PROVE c <= d
  <2>1. <<d, c>> \in Nat \X Nat
    OBVIOUS
  <2>2. ~(d < c)
    BY <1>1, <2>1 DEF OpToRel
  <2> QED BY <2>2
<1> QED BY <1>2

\* Of the tokens of a character the last in the order is a row all others precede.
LEMMA LastInOrder ==
  ASSUME NEW n \in Nat, NEW last \in Nat, NEW K, K \subseteq TokenSet(n, last), K # {},
         NEW c, \A r \in K : r.char = c
  PROVE  \E o \in K : \A r \in K : r # o => Newer(r, o)
<1>1. \A r \in K : r.used \in Nat /\ r.tok \in Nat
  BY DEF TokenSet
<1>2. PICK u \in {r.used : r \in K} : \A v \in {r.used : r \in K} : u <= v
  <2>1. {r.used : r \in K} \subseteq Nat /\ {r.used : r \in K} # {}
    BY <1>1
  <2> QED BY <2>1, LeastIsThere
<1> DEFINE L == {r \in K : r.used = u}
<1>3. PICK t \in {r.tok : r \in L} : \A v \in {r.tok : r \in L} : t <= v
  <2>1. {r.tok : r \in L} \subseteq Nat /\ {r.tok : r \in L} # {}
    BY <1>1, <1>2
  <2> QED BY <2>1, LeastIsThere
<1>4. PICK o \in L : o.tok = t
  BY <1>3
<1>5. ASSUME NEW r \in K, r # o PROVE Newer(r, o)
  <2>1. o.used = u /\ o.tok = t /\ u <= r.used /\ {u, t, r.used, r.tok} \subseteq Nat
    BY <1>1, <1>2, <1>4
  <2>2. CASE r.used = u
    <3>1. t <= r.tok
      BY <1>3, <2>2
    <3>2. r.tok # t
      BY <1>4, <1>5, <2>1, <2>2 DEF TokenSet
    <3> QED BY <2>1, <2>2, <3>1, <3>2 DEF Newer
  <2>3. CASE r.used # u
    BY <2>1, <2>3 DEF Newer
  <2> QED BY <2>2, <2>3
<1> QED BY <1>4, <1>5

\* issueDeviceToken: a character keeps MaxDevices tokens, the others keep theirs.
\* Were there more, the last of them would have MaxDevices others before it.
LEMMA IssuedOK ==
  ASSUME NEW n \in Nat, NEW last \in Nat, NEW ts, TokensOK(ts, n, last),
         NEW c \in 1..n, NEW tok \in 1..last, NEW time \in Nat
  PROVE  TokensOK(Issued(ts, c, tok, time), n, last)
<1> DEFINE new == [tok |-> tok, char |-> c, used |-> time]
           all == ts \cup {new}
           before(r) == {s \in all : s.char = c /\ Newer(s, r)}
           us == {r \in all : r.char # c \/ Cardinality(before(r)) < MaxDevices}
           keep == TokensOf(us, c)
<1>1. all \subseteq TokenSet(n, last) /\ IsFiniteSet(all)
  <2>1. new \in TokenSet(n, last)
    BY DEF TokenSet
  <2> QED BY <2>1, FS_AddElement DEF TokensOK
<1>2. us = Issued(ts, c, tok, time)
  BY DEF Issued, Kept
<1>3. us \subseteq all /\ IsFiniteSet(us) /\ IsFiniteSet(keep) /\ Cardinality(keep) \in Nat
  <2>1. us \in SUBSET all
    OBVIOUS
  <2> QED BY <2>1, <1>1, FS_Subset, TokensOfFinite
<1>4. \A d \in 1..n : d # c => TokensOf(us, d) = TokensOf(ts, d)
  BY DEF TokensOf
<1>5. \A r \in keep : r \in all /\ r.char = c /\ Cardinality(before(r)) < MaxDevices
  BY DEF TokensOf
<1>6. \A r \in all : IsFiniteSet(before(r)) /\ Cardinality(before(r)) \in Nat
  <2> TAKE r \in all
  <2>1. before(r) \in SUBSET all
    OBVIOUS
  <2> QED BY <1>1, <2>1, FS_Subset, FS_CardinalityType
<1>7. \A o \in keep, r \in keep : Newer(r, o) => r \in before(o)
  BY <1>5
<1> HIDE DEF all, us, keep, before
<1>8. Cardinality(keep) <= MaxDevices
  <2>1. MaxDevices \in Nat
    BY AccountsAssumption
  <2>2. CASE keep = {}
    BY <2>1, <2>2, FS_EmptySet
  <2>3. CASE keep # {}
    <3>1. keep \subseteq TokenSet(n, last) /\ \A r \in keep : r.char = c
      BY <1>1, <1>5
    <3>2. PICK o \in keep : \A r \in keep : r # o => Newer(r, o)
      BY <2>3, <3>1, LastInOrder
    <3>3. keep \ {o} \in SUBSET before(o)
      BY <1>7, <3>2
    <3>4. Cardinality(keep \ {o}) = Cardinality(keep) - 1
      BY <1>3, <3>2, FS_RemoveElement
    <3>5. Cardinality(keep \ {o}) <= Cardinality(before(o))
      BY <1>5, <1>6, <3>2, <3>3, FS_Subset
    <3> QED BY <1>3, <1>5, <1>6, <2>1, <3>2, <3>4, <3>5
  <2> QED BY <2>2, <2>3
<1>9. us \subseteq TokenSet(n, last)
  BY <1>1, <1>3
<1>10. \A d \in 1..n : Cardinality(TokensOf(us, d)) <= MaxDevices
  BY <1>4, <1>8 DEF TokensOK, keep
<1>11. TokensOK(us, n, last)
  BY <1>3, <1>9, <1>10 DEF TokensOK
<1> QED BY <1>2, <1>11

-----------------------------------------------------------------------------
(* The rows: accounts, characters, and what the devices hold.              *)

Owner == Name \cup {NoOwner}
RowSet == [owner : Owner, anon : Nat]
Owned(c) == character[c].owner # NoOwner

\* Accounts have secrets before they have characters, and one each.
People ==
  /\ secret \in [Name -> Secret]
  /\ character \in Seq(RowSet)
  /\ \A c \in DOMAIN character : Owned(c) => secret[character[c].owner] # "none"
  /\ \A c, e \in DOMAIN character :
       Owned(c) /\ character[c].owner = character[e].owner => c = e

\* Tokens are numbered as they are made; an owned row's is in nobody's hands.
Holdings ==
  /\ issued \in Nat
  /\ held \in [Device -> Nat]
  /\ \A d \in Device : held[d] <= issued
  /\ \A c \in DOMAIN character : character[c].anon <= issued
  /\ \A c \in DOMAIN character, d \in Device :
       Owned(c) /\ character[c].anon # NoToken => held[d] # character[c].anon

Ledger == TokensOK(tokens, Len(character), issued)

\* A name is registered only while it has no secret.
Founded ==
  /\ founded \in [Name -> Nat]
  /\ \A n \in Name : founded[n] <= 1
  /\ \A n \in Name : secret[n] = "none" => founded[n] = 0

Rows == clock \in Nat /\ People /\ Holdings /\ Ledger /\ Founded

IInv == Slotted(running, waiting) /\ Answers /\ Rows

LEMMA OldestExists ==
  ASSUME NEW cs, cs \subseteq Nat, cs # {}
  PROVE  Oldest(cs) \in cs
BY LeastIsThere DEF Oldest

\* Nobody's secret is taken away.
SecretsStay ==
  /\ secret' \in [Name -> Secret]
  /\ \A n \in Name : secret[n] # "none" => secret'[n] # "none"

LEMMA RowTypes ==
  ASSUME People
  PROVE  /\ Len(character) \in Nat /\ DOMAIN character = 1..Len(character)
         /\ \A c \in DOMAIN character : character[c] \in RowSet
         /\ \A c \in DOMAIN character : character[c].owner \in Owner /\ character[c].anon \in Nat
<1>1. Len(character) \in Nat /\ DOMAIN character = 1..Len(character)
  BY LenProperties DEF People
<1>2. \A c \in DOMAIN character : character[c] \in RowSet
  BY <1>1, ElementOfSeq DEF People
<1> QED BY <1>1, <1>2 DEF RowSet

LEMMA PeopleStay ==
  ASSUME People, SecretsStay, UNCHANGED character
  PROVE  People'
<1>1. \A c \in DOMAIN character : character[c].owner \in Owner
  BY RowTypes
<1>2. \A c \in DOMAIN character : Owned(c)' <=> Owned(c)
  BY DEF Owned
<1>3. \A c \in DOMAIN character : Owned(c) => secret'[character[c].owner] # "none"
  BY <1>1 DEF People, SecretsStay, Owned, Owner
<1> QED BY <1>2, <1>3 DEF People, SecretsStay

\* An insert, with or without its owner, of an account that has no character.
LEMMA PeopleGrow ==
  ASSUME People, SecretsStay, NEW o \in Owner, NEW a \in Nat,
         o # NoOwner => secret'[o] # "none" /\ CharactersOf(o) = {},
         character' = Append(character, [owner |-> o, anon |-> a])
  PROVE  People'
<1> DEFINE new == [owner |-> o, anon |-> a]
<1>1. new \in RowSet
  BY DEF RowSet
<1>2. /\ Len(character) \in Nat /\ DOMAIN character = 1..Len(character)
      /\ character' \in Seq(RowSet)
      /\ DOMAIN character' = 1..(Len(character) + 1)
      /\ \A c \in 1..Len(character) : character'[c] = character[c]
      /\ character'[Len(character) + 1] = new
  BY <1>1, AppendProperties, LenProperties DEF People
<1>3. /\ \A c \in DOMAIN character : character[c].owner \in Owner
      /\ o # NoOwner => \A c \in DOMAIN character : character[c].owner # o
  BY RowTypes DEF CharactersOf
<1>4. \A c \in DOMAIN character' : Owned(c)' => secret'[character'[c].owner] # "none"
  BY <1>2, <1>3 DEF People, Owned, SecretsStay, Owner
<1>5. \A c, e \in DOMAIN character' :
        Owned(c)' /\ character'[c].owner = character'[e].owner => c = e
  BY <1>2, <1>3 DEF People, Owned
<1> QED BY <1>2, <1>4, <1>5 DEF People, SecretsStay

\* Binding a character without an owner to an account that has none.
LEMMA PeopleClaim ==
  ASSUME People, SecretsStay, NEW n \in Name, secret'[n] # "none", CharactersOf(n) = {},
         NEW c \in DOMAIN character, character' = Buried(c, n)
  PROVE  People' /\ Len(character') = Len(character)
<1>1. [owner |-> n, anon |-> NoToken] \in RowSet
  BY DEF RowSet, Owner, NoToken
<1>2. /\ character' \in Seq(RowSet) /\ Len(character') = Len(character)
      /\ DOMAIN character' = DOMAIN character
      /\ character'[c] = [owner |-> n, anon |-> NoToken]
      /\ \A e \in DOMAIN character : e # c => character'[e] = character[e]
  BY <1>1, ExceptSeq, LenProperties DEF People, Buried
<1>3. \A e \in DOMAIN character : character[e].owner \in Owner /\ character[e].owner # n
  BY RowTypes DEF CharactersOf
<1>4. \A e \in DOMAIN character' : Owned(e)' => secret'[character'[e].owner] # "none"
  BY <1>2, <1>3 DEF People, Owned, SecretsStay, Owner
<1>5. \A b, e \in DOMAIN character' :
        Owned(b)' /\ character'[b].owner = character'[e].owner => b = e
  BY <1>2, <1>3, SMTT(30) DEF People, Owned
<1> QED BY <1>2, <1>4, <1>5 DEF People, SecretsStay

LEMMA FoundedStay ==
  ASSUME Founded, SecretsStay, UNCHANGED founded
  PROVE  Founded'
BY DEF Founded, SecretsStay

\* A row that is still what it was, as far as its token goes.
Settled(c) ==
  /\ c \in DOMAIN character /\ Owned(c)
  /\ character'[c].anon = character[c].anon

\* A token is in a hand, or in an owned row, before the next one is made.
LEMMA HoldingsStep ==
  ASSUME Holdings, issued' \in Nat, issued <= issued',
         held' = held \/ \E d \in Device, tok \in Nat :
           issued < tok /\ tok <= issued' /\ held' = Saved(d, tok),
         \A c \in DOMAIN character' : character'[c].anon \in Nat /\ character'[c].anon <= issued',
         \A c \in DOMAIN character' : Owned(c)' /\ character'[c].anon # NoToken =>
           Settled(c) \/ (held' = held /\ issued < character'[c].anon)
  PROVE  Holdings'
<1>1. held' \in [Device -> Nat]
  BY DEF Holdings, Saved
<1>2. \A d \in Device : held'[d] = held[d] \/ (issued < held'[d] /\ held'[d] <= issued')
  BY DEF Holdings, Saved
<1>3. \A d \in Device : held[d] \in Nat /\ held[d] <= issued
  BY DEF Holdings
<1>4. \A d \in Device : held'[d] <= issued'
  <2> TAKE d \in Device
  <2> QED BY <1>2, <1>3 DEF Holdings
<1>5. ASSUME NEW c \in DOMAIN character', NEW d \in Device,
             Owned(c)', character'[c].anon # NoToken
      PROVE  held'[d] # character'[c].anon
  <2>1. CASE Settled(c)
    <3>1. held[d] # character[c].anon /\ character[c].anon <= issued /\ character[c].anon \in Nat
      BY <1>5, <2>1 DEF Settled, Holdings
    <3>2. character'[c].anon = character[c].anon
      BY <2>1 DEF Settled
    <3> QED BY <1>2, <3>1, <3>2 DEF Holdings
  <2>2. CASE held' = held /\ issued < character'[c].anon
    BY <1>3, <2>2 DEF Holdings
  <2> QED BY <1>5, <2>1, <2>2
<1> QED BY <1>1, <1>4, <1>5 DEF Holdings

\* issueDeviceToken for a character that exists, and the welcome.
LEMMA IssuedRows ==
  ASSUME Rows, NEW job \in JobSet, NEW c \in 1..Len(character), NEW there \in BOOLEAN,
         Len(character') = Len(character),
         IssueAndGreet(job, c, there), Handed(job.dev, issued + 1, there)
  PROVE  /\ Ledger'
         /\ issued' = issued + 1
         /\ held' = held \/ held' = Saved(job.dev, issued + 1)
<1>1. Len(character) \in Nat /\ issued \in Nat /\ issued' = issued + 1 /\ issued + 1 \in 1..issued'
  BY RowTypes DEF Rows, Holdings, IssueAndGreet
<1>2. TokensOK(tokens, Len(character), issued')
  BY <1>1, TokensGrow DEF Rows, Ledger
<1> DEFINE ts == Issued(tokens, c, issued + 1, job.time)
<1>3. tokens' = IF there THEN Touched(ts, job.bearer) ELSE ts
  BY DEF IssueAndGreet
<1>4. TokensOK(ts, Len(character), issued')
  <2>1. job.time \in Nat
    BY DEF JobSet
  <2> QED BY <1>1, <1>2, <2>1, IssuedOK
<1> HIDE DEF ts
<1>5. TokensOK(tokens', Len(character), issued')
  BY <1>1, <1>3, <1>4, TouchedOK DEF Rows
<1> QED BY <1>1, <1>5 DEF Ledger, Handed

\* The insert of a character for an account that has none, whichever of its
\* statements fails.
LEMMA OwnRows ==
  ASSUME Rows, NEW job \in JobSet, SecretsStay, secret'[job.name] # "none",
         CharactersOf(job.name) = {}, UNCHANGED clock, NewOwnCharacter(job)
  PROVE  People' /\ Holdings' /\ Ledger'
<1>1. /\ Len(character) \in Nat /\ issued \in Nat
      /\ job.name \in Name /\ job.name # NoOwner /\ job.dev \in Device
  BY RowTypes, AccountsAssumption DEF Rows, Holdings, JobSet
<1> DEFINE ts == Touched(tokens, job.bearer)
<1>2. TokensOK(ts, Len(character), issued)
  BY <1>1, TouchedOK DEF Rows, Ledger
<1> HIDE DEF ts
<1>3. CASE UNCHANGED <<character, held, issued, dead>> /\ tokens' = ts
  <2>1. People'
    BY <1>3, PeopleStay DEF Rows
  <2>2. Holdings'
    BY <1>3 DEF Rows, Holdings, Owned
  <2> QED BY <1>2, <1>3, <2>1, <2>2 DEF Ledger
<1>4. ASSUME NEW failing \in 0..4, failing # 1,
             issued' = issued + 2,
             character' = Append(character,
                 [owner |-> IF failing = 2 THEN NoOwner ELSE job.name,
                  anon |-> IF failing \in {2, 3} THEN issued + 1 ELSE NoToken]),
             IF failing = 0
               THEN /\ tokens' = Issued(ts, Len(character'), issued + 2, clock)
                    /\ Handed(job.dev, issued + 2, TRUE)
               ELSE tokens' = ts /\ UNCHANGED <<held, dead>>
      PROVE  People' /\ Holdings' /\ Ledger'
  <2> DEFINE o == IF failing = 2 THEN NoOwner ELSE job.name
             a == IF failing \in {2, 3} THEN issued + 1 ELSE NoToken
             last == Len(character) + 1
  <2>1. o \in Owner /\ a \in Nat /\ a <= issued + 2 /\ (a = NoToken \/ issued < a)
    BY <1>1 DEF Owner, NoToken
  <2>2. o # NoOwner => secret'[o] # "none" /\ CharactersOf(o) = {}
    OBVIOUS
  <2>3. failing = 0 => a = NoToken
    OBVIOUS
  <2>4. character' = Append(character, [owner |-> o, anon |-> a])
    BY <1>4
  <2> HIDE DEF o, a
  <2>5. People'
    BY <2>1, <2>2, <2>4, PeopleGrow DEF Rows
  <2>6. /\ DOMAIN character = 1..Len(character) /\ DOMAIN character' = 1..last
        /\ Len(character') = last
        /\ \A c \in DOMAIN character : character'[c] = character[c]
        /\ character'[last] = [owner |-> o, anon |-> a]
    <3>1. [owner |-> o, anon |-> a] \in RowSet
      BY <2>1 DEF RowSet
    <3> QED BY <2>4, <3>1, AppendProperties, RowTypes DEF Rows, People
  <2>7. Holdings'
    <3>1. held' = held \/ (failing = 0 /\ held' = Saved(job.dev, issued + 2))
      BY <1>4 DEF Handed
    <3>2. \A c \in DOMAIN character' : character'[c].anon \in Nat /\ character'[c].anon <= issued'
      <4> TAKE c \in DOMAIN character'
      <4>1. CASE c \in DOMAIN character
        BY <1>1, <1>4, <2>6, <4>1, RowTypes DEF Rows, Holdings
      <4>2. CASE c = last
        BY <1>4, <2>1, <2>6, <4>2
      <4> QED BY <1>1, <2>6, <4>1, <4>2
    <3>3. ASSUME NEW c \in DOMAIN character', Owned(c)', character'[c].anon # NoToken
          PROVE  Settled(c) \/ (held' = held /\ issued < character'[c].anon)
      <4>1. CASE c \in DOMAIN character
        BY <2>6, <3>3, <4>1 DEF Settled, Owned
      <4>2. CASE c = last
        BY <2>1, <2>3, <2>6, <3>1, <3>3, <4>2
      <4> QED BY <1>1, <2>6, <4>1, <4>2
    <3>4. issued' \in Nat /\ issued <= issued' /\ issued < issued + 2 /\ issued + 2 \in Nat
      BY <1>1, <1>4
    <3> QED BY <1>1, <1>4, <3>1, <3>2, <3>3, <3>4, HoldingsStep DEF Rows
  <2>8. Ledger'
    <3>1. TokensOK(ts, last, issued') /\ issued' \in Nat /\ last \in 1..last /\ issued + 2 \in 1..issued'
      BY <1>1, <1>2, <1>4, TokensGrow
    <3>2. CASE failing = 0
      <4>1. tokens' = Issued(ts, last, issued + 2, clock)
        BY <1>4, <2>6, <3>2
      <4> QED BY <1>1, <2>6, <3>1, <4>1, IssuedOK DEF Rows, Ledger
    <3>3. CASE failing # 0
      BY <1>4, <2>6, <3>1, <3>3 DEF Ledger
    <3> QED BY <3>2, <3>3
  <2> QED BY <2>5, <2>7, <2>8
<1>5. PICK mayCreate \in BOOLEAN, failing \in 0..4 :
        IF ~mayCreate \/ failing = 1
        THEN tokens' = ts /\ UNCHANGED <<character, held, issued, dead>>
        ELSE /\ issued' = issued + 2
             /\ character' = Append(character,
                  [owner |-> IF failing = 2 THEN NoOwner ELSE job.name,
                   anon |-> IF failing \in {2, 3} THEN issued + 1 ELSE NoToken])
             /\ IF failing = 0
                THEN /\ tokens' = Issued(ts, Len(character'), issued + 2, clock)
                     /\ Handed(job.dev, issued + 2, TRUE)
                ELSE tokens' = ts /\ UNCHANGED <<held, dead>>
  BY DEF NewOwnCharacter, ts
<1>6. CASE ~mayCreate \/ failing = 1
  BY <1>3, <1>5, <1>6
<1>7. CASE ~(~mayCreate \/ failing = 1)
  BY <1>4, <1>5, <1>7
<1> QED BY <1>6, <1>7

\* Most steps leave the rows alone.
LEMMA RowsSame ==
  ASSUME Rows, UNCHANGED <<rows, held, issued, founded>>, clock' \in Nat
  PROVE  Rows'
<1>1. SecretsStay
  BY DEF Rows, People, SecretsStay, rows
<1>2. People' /\ Founded'
  BY <1>1, PeopleStay, FoundedStay DEF Rows, rows
<1>3. Holdings' /\ Ledger'
  BY DEF Rows, rows, Holdings, Ledger, Owned
<1> QED BY <1>2, <1>3 DEF Rows

\* An attempt that is answered at once.
LEMMA AtOnce ==
  ASSUME Slotted(running, waiting), Answers, NEW d \in Device, Attempt(d),
         UNCHANGED <<waits, slots>>
  PROVE  Slotted(running, waiting)' /\ Answers'
<1>1. \A j \in Jobs : j.id \in Nat
  BY JobType DEF JobSet
<1>2. Jobs' = Jobs /\ waits' = waits /\ attempts' = attempts + 1
  BY DEF Jobs, slots, Attempt
<1>3. \A j \in Jobs' : j.id < attempts'
  BY <1>1, <1>2 DEF Answers
<1>4. Answers'
  BY <1>2, <1>3 DEF Answers
<1> QED BY <1>4 DEF slots

LEMMA NewJob ==
  ASSUME IInv, NEW d \in Device, NEW n \in Name, NEW what \in {"hash", "verify"}
  PROVE  LET job == Job(what, d, n)
         IN  job \in JobSet /\ job.id = attempts /\ job.dev = d /\ Answering(job)
<1>1. attempts \in Nat /\ clock \in Nat /\ secret[n] \in Secret /\ held[d] \in Nat
  BY DEF IInv, Answers, Rows, People, Holdings
<1> QED BY <1>1 DEF Job, JobSet, Answering

LEMMA RegisterStep ==
  ASSUME IInv, NEW d \in Device, NEW n \in Name, Register(d, n)
  PROVE  IInv'
<1>1. Rows'
  BY RowsSame DEF IInv, Register, Rows
<1>2. Slotted(running, waiting)' /\ Answers'
  <2>1. CASE secret[n] # "none"
    BY <2>1, AtOnce DEF IInv, Register
  <2>2. CASE secret[n] = "none"
    BY <2>2, NewJob, BeginAnswers DEF IInv, Register
  <2> QED BY <2>1, <2>2
<1> QED BY <1>1, <1>2 DEF IInv

LEMMA LoginStep ==
  ASSUME IInv, NEW d \in Device, NEW n \in Name, Login(d, n)
  PROVE  IInv'
<1>1. Rows'
  BY RowsSame DEF IInv, Login, Rows
<1>2. Slotted(running, waiting)' /\ Answers'
  BY NewJob, BeginAnswers DEF IInv, Login
<1> QED BY <1>1, <1>2 DEF IInv

LEMMA RefusedStep ==
  ASSUME IInv, NEW job \in running, Refused(job)
  PROVE  IInv'
<1>1. Rows'
  BY RowsSame DEF IInv, Refused, Done, Rows
<1>2. Slotted(running, waiting)' /\ Answers'
  BY EndAnswers DEF IInv, Refused, Answering
<1> QED BY <1>1, <1>2 DEF IInv

\* The name had no secret when it was inserted, so it had no character.
LEMMA RegisteredStep ==
  ASSUME IInv, NEW job \in running, NEW there \in BOOLEAN, Registered(job, there)
  PROVE  IInv'
<1> DEFINE n == job.name
<1>1. job \in JobSet /\ n \in Name /\ n # NoOwner /\ job.dev \in Device
  BY AccountsAssumption DEF IInv, Slotted, JobSet
<1>2. Slotted(running, waiting)' /\ Answers'
  BY EndAnswers DEF IInv, Registered, Answering
<1>3. Rows /\ clock' = clock /\ clock \in Nat
  BY DEF IInv, Registered, Done, Rows
<1>4. secret[n] = "none" /\ secret' = [secret EXCEPT ![n] = "strong"]
  BY DEF Registered, Taken
<1>5. SecretsStay /\ secret'[n] # "none"
  BY <1>1, <1>3, <1>4 DEF Rows, People, SecretsStay, Secret
<1>6. CharactersOf(n) = {}
  BY <1>1, <1>3, <1>4 DEF Rows, People, CharactersOf, Owned
<1>7. Founded'
  <2>1. founded' = [founded EXCEPT ![n] = @ + 1] /\ founded[n] = 0
    BY <1>1, <1>3, <1>4 DEF Registered, Rows, Founded
  <2> QED BY <1>1, <1>3, <1>5, <2>1 DEF Rows, Founded, SecretsStay
<1>8. CASE Claimable(job.bearer) # {}
  <2> DEFINE c == Oldest(Claimable(job.bearer))
  <2>1. Len(character) \in Nat /\ DOMAIN character = 1..Len(character)
    BY <1>3, RowTypes DEF Rows
  <2>2. Claimable(job.bearer) \subseteq DOMAIN character /\ DOMAIN character \subseteq Nat
    BY <2>1 DEF Claimable, ByAnon
  <2>3. c \in DOMAIN character
    BY <1>8, <2>2, OldestExists
  <2>4. /\ character' = Buried(c, n)
        /\ IssueAndGreet(job, c, there) /\ Handed(job.dev, issued + 1, there)
    BY <1>8 DEF Registered
  <2> HIDE DEF c
  <2>5. People' /\ Len(character') = Len(character)
    BY <1>1, <1>3, <1>5, <1>6, <2>3, <2>4, PeopleClaim DEF Rows
  <2>6. /\ Ledger' /\ issued' = issued + 1
        /\ held' = held \/ held' = Saved(job.dev, issued + 1)
    BY <1>1, <1>3, <2>1, <2>3, <2>4, <2>5, IssuedRows
  <2>7. Holdings'
    <3>1. issued \in Nat /\ issued' \in Nat /\ issued <= issued' /\ issued < issued + 1 /\ issued + 1 \in Nat
      BY <1>3, <2>6 DEF Rows, Holdings
    <3>2. /\ DOMAIN character' = DOMAIN character
          /\ character'[c] = [owner |-> n, anon |-> NoToken]
          /\ \A e \in DOMAIN character : e # c => character'[e] = character[e]
      BY <2>3, <2>4 DEF Buried
    <3>3. \A e \in DOMAIN character' : character'[e].anon \in Nat /\ character'[e].anon <= issued'
      <4> TAKE e \in DOMAIN character'
      <4>1. character[e].anon \in Nat /\ character[e].anon <= issued
        BY <1>3, <3>2, RowTypes DEF Rows, Holdings
      <4> QED BY <2>6, <3>1, <3>2, <4>1 DEF NoToken
    <3>4. \A e \in DOMAIN character' : Owned(e)' /\ character'[e].anon # NoToken => Settled(e)
      BY <3>2 DEF Settled, Owned
    <3> QED BY <1>1, <1>3, <2>6, <3>1, <3>3, <3>4, HoldingsStep DEF Rows
  <2> QED BY <1>2, <1>3, <1>7, <2>5, <2>6, <2>7 DEF IInv, Rows
<1>9. CASE Claimable(job.bearer) = {} /\ there
  <2>1. NewOwnCharacter(job)
    BY <1>9 DEF Registered
  <2>2. People' /\ Holdings' /\ Ledger'
    BY <1>1, <1>3, <1>5, <1>6, <2>1, OwnRows
  <2> QED BY <1>2, <1>3, <1>7, <2>2 DEF IInv, Rows
<1>10. CASE Claimable(job.bearer) = {} /\ ~there
  <2>1. UNCHANGED <<character, tokens, held, issued>>
    BY <1>10 DEF Registered
  <2>2. People'
    BY <1>3, <1>5, <2>1, PeopleStay DEF Rows
  <2>3. Holdings' /\ Ledger'
    BY <1>3, <2>1 DEF Rows, Holdings, Ledger, Owned
  <2> QED BY <1>2, <1>3, <1>7, <2>2, <2>3 DEF IInv, Rows
<1> QED BY <1>8, <1>9, <1>10

\* A login writes a secret back, never its absence, and inserts a character
\* only for an account it finds without one.
LEMMA LoggedInStep ==
  ASSUME IInv, NEW job \in running, NEW there \in BOOLEAN, LoggedIn(job, there)
  PROVE  IInv'
<1> DEFINE n == job.name
<1>1. job \in JobSet /\ n \in Name /\ job.dev \in Device /\ job.secret \in Secret
  BY DEF IInv, Slotted, JobSet
<1>2. Slotted(running, waiting)' /\ Answers'
  <2>1. CASE Stale(job)
    BY <2>1, EndThenAnswers DEF IInv, LoggedIn
  <2>2. CASE ~Stale(job)
    BY <2>2, EndAnswers DEF IInv, LoggedIn, Answering
  <2> QED BY <2>1, <2>2
<1>3. Rows /\ clock' = clock /\ clock \in Nat
  BY DEF IInv, LoggedIn, Done, Rows
<1>4. SecretsStay /\ secret'[n] # "none"
  BY <1>1, <1>3 DEF LoggedIn, Rows, People, SecretsStay
<1>5. Founded'
  BY <1>3, <1>4, FoundedStay DEF LoggedIn, Rows
<1>6. CASE CharactersOf(n) # {}
  <2> DEFINE c == Oldest(CharactersOf(n))
  <2>1. Len(character) \in Nat /\ DOMAIN character = 1..Len(character)
    BY <1>3, RowTypes DEF Rows
  <2>2. CharactersOf(n) \subseteq DOMAIN character /\ DOMAIN character \subseteq Nat
    BY <2>1 DEF CharactersOf
  <2>3. c \in DOMAIN character
    BY <1>6, <2>2, OldestExists
  <2>4. /\ character' = character
        /\ IssueAndGreet(job, c, there) /\ Handed(job.dev, issued + 1, there)
    BY <1>6 DEF LoggedIn
  <2> HIDE DEF c
  <2>5. People'
    BY <1>3, <1>4, <2>4, PeopleStay DEF Rows
  <2>6. /\ Ledger' /\ issued' = issued + 1
        /\ held' = held \/ held' = Saved(job.dev, issued + 1)
    BY <1>1, <1>3, <2>1, <2>3, <2>4, IssuedRows
  <2>7. Holdings'
    <3>1. issued \in Nat /\ issued' \in Nat /\ issued <= issued' /\ issued < issued + 1 /\ issued + 1 \in Nat
      BY <1>3, <2>6 DEF Rows, Holdings
    <3>2. \A e \in DOMAIN character' : character'[e].anon \in Nat /\ character'[e].anon <= issued'
      <4> TAKE e \in DOMAIN character'
      <4>1. character[e].anon \in Nat /\ character[e].anon <= issued
        BY <1>3, <2>4, RowTypes DEF Rows, Holdings
      <4> QED BY <2>4, <2>6, <3>1, <4>1
    <3>3. \A e \in DOMAIN character' : Owned(e)' => Settled(e)
      BY <2>4 DEF Settled, Owned
    <3> QED BY <1>1, <1>3, <2>6, <3>1, <3>2, <3>3, HoldingsStep DEF Rows
  <2> QED BY <1>2, <1>3, <1>5, <2>5, <2>6, <2>7 DEF IInv, Rows
<1>7. CASE CharactersOf(n) = {} /\ there
  <2>1. NewOwnCharacter(job)
    BY <1>7 DEF LoggedIn
  <2>2. People' /\ Holdings' /\ Ledger'
    BY <1>1, <1>3, <1>4, <1>7, <2>1, OwnRows
  <2> QED BY <1>2, <1>3, <1>5, <2>2 DEF IInv, Rows
<1>8. CASE CharactersOf(n) = {} /\ ~there
  <2>1. UNCHANGED <<character, tokens, held, issued>>
    BY <1>8 DEF LoggedIn
  <2>2. People'
    BY <1>3, <1>4, <2>1, PeopleStay DEF Rows
  <2>3. Holdings' /\ Ledger'
    BY <1>3, <2>1 DEF Rows, Holdings, Ledger, Owned
  <2> QED BY <1>2, <1>3, <1>5, <2>2, <2>3 DEF IInv, Rows
<1> QED BY <1>6, <1>7, <1>8

LEMMA RehashedStep ==
  ASSUME IInv, NEW job \in running, Rehashed(job) \/ RehashFails(job)
  PROVE  IInv'
<1>1. job \in JobSet /\ job.name \in Name
  BY DEF IInv, Slotted, JobSet
<1>2. ~Answering(job) /\ End(job) /\ UNCHANGED <<waits, attempts>>
  BY DEF Rehashed, RehashFails, Answering
<1>3. Slotted(running, waiting)' /\ Answers'
  BY <1>2, RehashAnswers DEF IInv
<1>4. Rows /\ UNCHANGED <<clock, character, tokens, held, issued, founded>> /\ clock \in Nat
  BY DEF IInv, Rehashed, RehashFails, Rows, rows
<1>5. SecretsStay
  <2>1. CASE Rehashed(job)
    BY <1>1, <1>4, <2>1 DEF Rehashed, Rows, People, SecretsStay, Secret
  <2>2. CASE RehashFails(job)
    BY <1>4, <2>2 DEF RehashFails, rows, Rows, People, SecretsStay
  <2> QED BY <2>1, <2>2
<1>6. People' /\ Founded'
  BY <1>4, <1>5, PeopleStay, FoundedStay DEF Rows
<1>7. Holdings' /\ Ledger'
  BY <1>4 DEF Rows, Holdings, Ledger, Owned
<1> QED BY <1>3, <1>4, <1>6, <1>7 DEF IInv, Rows

\* A hello without an account.
LEMMA HelloStep ==
  ASSUME IInv, NEW d \in Device, Hello(d)
  PROVE  IInv'
<1>1. Slotted(running, waiting)' /\ Answers'
  BY AtOnce DEF IInv, Hello
<1>2. /\ Rows /\ UNCHANGED <<secret, clock, founded>> /\ clock \in Nat
      /\ Len(character) \in Nat /\ DOMAIN character = 1..Len(character) /\ issued \in Nat
  BY RowTypes DEF IInv, Hello, Rows, Holdings
<1>3. SecretsStay
  BY <1>2 DEF Rows, People, SecretsStay
<1>4. Founded'
  BY <1>2, <1>3, FoundedStay DEF Rows
<1>5. tokens' = Touched(tokens, held[d]) /\ TokensOK(tokens', Len(character), issued)
  BY <1>2, TouchedOK DEF Hello, Rows, Ledger
<1>6. CASE UNCHANGED <<character, held, issued, dead>>
  <2>1. People'
    BY <1>2, <1>3, <1>6, PeopleStay DEF Rows
  <2>2. Holdings' /\ Ledger'
    BY <1>2, <1>5, <1>6 DEF Rows, Holdings, Ledger, Owned
  <2> QED BY <1>1, <1>2, <1>4, <2>1, <2>2 DEF IInv, Rows
<1>7. CASE /\ issued' = issued + 1
           /\ character' = Append(character, [owner |-> NoOwner, anon |-> issued + 1])
           /\ Handed(d, issued + 1, TRUE)
  <2> DEFINE last == Len(character) + 1
  <2>1. People'
    BY <1>2, <1>3, <1>7, PeopleGrow DEF Rows, Owner
  <2>2. /\ DOMAIN character' = 1..last /\ Len(character') = last
        /\ \A c \in DOMAIN character : character'[c] = character[c]
        /\ character'[last] = [owner |-> NoOwner, anon |-> issued + 1]
    <3>1. [owner |-> NoOwner, anon |-> issued + 1] \in RowSet
      BY <1>2 DEF RowSet, Owner
    <3> QED BY <1>2, <1>7, <3>1, AppendProperties DEF Rows, People
  <2>3. /\ held' = Saved(d, issued + 1)
        /\ issued' \in Nat /\ issued <= issued' /\ issued < issued + 1 /\ issued + 1 \in Nat
        /\ issued + 1 <= issued'
    BY <1>2, <1>7 DEF Handed
  <2>4. \A c \in DOMAIN character' : character'[c].anon \in Nat /\ character'[c].anon <= issued'
    <3> TAKE c \in DOMAIN character'
    <3>1. CASE c \in DOMAIN character
      BY <1>2, <1>7, <2>2, <3>1, RowTypes DEF Rows, Holdings
    <3>2. CASE c = last
      BY <1>2, <1>7, <2>2, <3>2
    <3> QED BY <1>2, <2>2, <3>1, <3>2
  <2>5. \A c \in DOMAIN character' : Owned(c)' => Settled(c)
    BY <1>2, <2>2 DEF Settled, Owned
  <2>6. Holdings'
    BY <1>2, <2>3, <2>4, <2>5, HoldingsStep DEF Rows
  <2>7. Ledger'
    BY <1>2, <1>5, <1>7, <2>2, <2>3, TokensGrow DEF Ledger
  <2> QED BY <1>1, <1>2, <1>4, <2>1, <2>6, <2>7 DEF IInv, Rows
<1> QED BY <1>6, <1>7 DEF Hello

LEMMA TickStep ==
  ASSUME IInv, Tick
  PROVE  IInv'
<1>1. Rows'
  BY RowsSame DEF IInv, Tick, Rows
<1>2. Slotted(running, waiting)' /\ Answers'
  BY DEF IInv, Tick, slots, Answers, Jobs
<1> QED BY <1>1, <1>2 DEF IInv

\* The rows the process starts with: one for each account of an older build.
LEMMA FirstRows ==
  ASSUME Init
  PROVE  Rows
<1> DEFINE S == {[owner |-> n, anon |-> NoToken] : n \in Old}
<1>1. IsFiniteSet(S) /\ S \subseteq RowSet
  <2> DEFINE f == [n \in Old |-> [owner |-> n, anon |-> NoToken]]
  <2>1. f \in Surjection(Old, S)
    BY DEF Surjection
  <2>2. IsFiniteSet(S)
    BY <2>1, FS_Surjection, AccountsAssumption
  <2>3. S \subseteq RowSet
    BY AccountsAssumption DEF RowSet, Owner, NoToken
  <2> QED BY <2>2, <2>3
<1>2. \A r \in S : r.owner \in Old /\ r.anon = NoToken
  OBVIOUS
<1>3. \A r, q \in S : r.owner = q.owner => r = q
  OBVIOUS
<1>4. character = SetToSeq(S)
  BY DEF Init
<1> HIDE DEF S
<1>5. /\ Cardinality(S) \in Nat
      /\ character \in [1..Cardinality(S) -> S]
      /\ \A a, b \in 1..Cardinality(S) : character[a] = character[b] => a = b
  <2>1. Cardinality(S) \in Nat /\ ExistsBijection(1..Cardinality(S), S)
    BY <1>1, FS_CardinalityType
  <2>2. \E f \in [1..Cardinality(S) -> S] : IsInjective(f)
    BY <2>1 DEF ExistsBijection, Bijection, Injection, IsInjective
  <2>3. character \in [1..Cardinality(S) -> S] /\ IsInjective(character)
    BY <1>4, <2>2 DEF SetToSeq
  <2> QED BY <2>1, <2>3 DEF IsInjective
<1>6. /\ character \in Seq(RowSet)
      /\ Len(character) \in Nat
      /\ \A c \in DOMAIN character : character[c] \in S
  BY <1>1, <1>5, LenProperties
<1>7. People
  <2>1. secret \in [Name -> Secret] /\ \A n \in Old : secret[n] # "none"
    BY AccountsAssumption DEF Init, Secret
  <2>2. \A c \in DOMAIN character : Owned(c) => secret[character[c].owner] # "none"
    BY <1>2, <1>6, <2>1
  <2>3. \A c, e \in DOMAIN character : character[c].owner = character[e].owner => c = e
    BY <1>3, <1>5, <1>6
  <2> QED BY <1>6, <2>1, <2>2, <2>3 DEF People
<1>8. Holdings
  BY <1>2, <1>6 DEF Init, Holdings, NoToken
<1>9. Ledger
  <2>1. \A c : TokensOf(tokens, c) = {}
    BY DEF Init, TokensOf
  <2>2. IsFiniteSet(tokens) /\ tokens = {}
    BY FS_EmptySet DEF Init
  <2>3. MaxDevices \in Nat
    BY AccountsAssumption
  <2>4. \A c : Cardinality(TokensOf(tokens, c)) <= MaxDevices
    BY <2>1, <2>3, FS_EmptySet
  <2> QED BY <2>2, <2>4 DEF Ledger, TokensOK
<1>10. clock \in Nat /\ Founded
  BY DEF Init, Founded
<1> QED BY <1>7, <1>8, <1>9, <1>10 DEF Rows

LEMMA InitIInv == Init => IInv
<1> SUFFICES ASSUME Init PROVE IInv
  OBVIOUS
<1>1. Slotted(running, waiting)
  BY FS_EmptySet, AccountsAssumption, EmptySeq DEF Init, Slotted
<1>2. Answers
  BY DEF Init, Answers, Jobs, ToSet
<1> QED BY <1>1, <1>2, FirstRows DEF IInv

LEMMA NextIInv == IInv /\ [Next]_vars => IInv'
<1> SUFFICES ASSUME IInv, [Next]_vars PROVE IInv'
  OBVIOUS
<1>1. ASSUME NEW d \in Device, NEW n \in Name, Register(d, n) \/ Login(d, n) PROVE IInv'
  BY <1>1, RegisterStep, LoginStep
<1>2. ASSUME NEW d \in Device, Hello(d) PROVE IInv'
  BY <1>2, HelloStep
<1>3. ASSUME NEW job \in running, Refused(job) \/ Rehashed(job) \/ RehashFails(job) PROVE IInv'
  BY <1>3, RefusedStep, RehashedStep
<1>4. ASSUME NEW job \in running, NEW there \in BOOLEAN, Registered(job, there) \/ LoggedIn(job, there)
      PROVE  IInv'
  BY <1>4, RegisteredStep, LoggedInStep
<1>5. CASE Tick
  BY <1>5, TickStep
<1>6. CASE UNCHANGED vars
  <2>1. UNCHANGED <<rows, held, waits, slots, clock, issued, attempts, founded>>
    BY <1>6 DEF vars
  <2>2. Rows'
    BY <2>1, RowsSame DEF IInv, Rows
  <2>3. Slotted(running, waiting)' /\ Answers'
    BY <2>1 DEF IInv, slots, Answers, Jobs
  <2> QED BY <2>2, <2>3 DEF IInv
<1> QED BY <1>1, <1>2, <1>3, <1>4, <1>5, <1>6 DEF Next

\* Slots, answers and rows stay in order from the first hello on
\* (secret.ts:39, accounts.ts:91-182, handlers.ts:271).
THEOREM AccountsInvariant == Spec => []IInv
<1>1. Init => IInv
  BY InitIInv
<1>2. IInv /\ [Next]_vars => IInv'
  BY NextIInv
<1> QED BY <1>1, <1>2, PTL DEF Spec

-----------------------------------------------------------------------------
LEMMA IInvImpliesOwned == IInv => AccountsAreOwned
<1> SUFFICES ASSUME IInv PROVE AccountsAreOwned
  OBVIOUS
<1>1. /\ Len(character) \in Nat /\ DOMAIN character = 1..Len(character)
      /\ \A c \in DOMAIN character : character[c].owner \in Owner /\ character[c].anon \in Nat
      /\ issued \in Nat
  BY RowTypes DEF IInv, Rows, Holdings
<1>2. TypeOK
  <2>1. held \in [Device -> 0..issued]
    BY DEF IInv, Rows, Holdings
  <2>2. \A c \in DOMAIN character : character[c].owner \in Name \cup {NoOwner} /\ character[c].anon \in 0..issued
    BY <1>1 DEF IInv, Rows, Holdings, Owner
  <2>3. \A r \in tokens : r.char \in DOMAIN character /\ r.tok \in 1..issued
    BY <1>1 DEF IInv, Rows, Ledger, TokensOK, TokenSet
  <2>4. \A c \in DOMAIN character : Cardinality({r \in tokens : r.char = c}) <= MaxDevices
    BY <1>1 DEF IInv, Rows, Ledger, TokensOK, TokensOf
  <2>5. secret \in [Name -> {"none", "stale", "strong"}]
    BY DEF IInv, Rows, People, Secret
  <2> QED BY <2>1, <2>2, <2>3, <2>4, <2>5 DEF TypeOK
<1>3. RegisteredOnce
  BY DEF IInv, Rows, Founded, RegisteredOnce
<1>4. OneCharacterEach
  <2> SUFFICES ASSUME NEW n \in Name
               PROVE  Cardinality({c \in DOMAIN character : character[c].owner = n}) <= 1
    BY DEF OneCharacterEach
  <2> DEFINE S == {c \in DOMAIN character : character[c].owner = n}
  <2>1. \A c, e \in S : c = e
    <3>1. n # NoOwner
      BY AccountsAssumption
    <3> QED BY <3>1 DEF IInv, Rows, People, Owned
  <2>2. CASE S = {}
    BY <2>2, FS_EmptySet
  <2>3. ASSUME NEW c \in S PROVE Cardinality(S) <= 1
    <3>1. S = {c}
      BY <2>1
    <3> QED BY <3>1, FS_Singleton
  <2> QED BY <2>2, <2>3
<1>5. OldTokensAreDead
  <2> SUFFICES ASSUME NEW d \in Device, NEW c \in ByAnon(held[d])
               PROVE  character[c].owner = NoOwner
    BY DEF OldTokensAreDead
  <2>1. c \in DOMAIN character /\ held[d] # NoToken /\ character[c].anon = held[d]
    BY DEF ByAnon
  <2> QED BY <2>1 DEF IInv, Rows, Holdings, Owned
<1> QED BY <1>2, <1>3, <1>4, <1>5 DEF AccountsAreOwned

LEMMA IInvImpliesAnswered == IInv => WaitsAreAnswered
<1> SUFFICES ASSUME IInv PROVE WaitsAreAnswered
  OBVIOUS
<1>1. SlotsAreUsed
  BY DEF IInv, Slotted, SlotsAreUsed
<1>2. OneAnswerEach
  <2> SUFFICES ASSUME NEW d \in waits
               PROVE  Cardinality({j \in running \cup ToSet(waiting) : j.dev = d /\ j.what # "rehash"}) = 1
    BY DEF OneAnswerEach
  <2> DEFINE S == {j \in running \cup ToSet(waiting) : j.dev = d /\ j.what # "rehash"}
  <2>1. PICK j \in Jobs : Answering(j) /\ j.dev = d
    BY DEF IInv, Answers
  <2>2. j \in S
    BY <2>1 DEF Jobs, Answering
  <2>3. \A k \in S : k = j
    BY <2>1 DEF IInv, Answers, Jobs, Answering
  <2>4. S = {j}
    BY <2>2, <2>3
  <2> HIDE DEF S
  <2>5. Cardinality(S) = 1
    BY <2>4, FS_Singleton
  <2> QED BY <2>5 DEF S
<1> QED BY <1>1, <1>2 DEF WaitsAreAnswered

\* One winner per name, one character per account, at most MaxDevices device
\* tokens, and no anonymous token that opens an account's character
\* (accounts.ts:91-182, handlers.ts:271).
THEOREM AccountsStayOwned == Spec => []AccountsAreOwned
BY AccountsInvariant, IInvImpliesOwned, PTL

\* The slots are full before anybody waits, and who waits has one job that
\* answers it (secret.ts:39).
THEOREM EveryWaitHasItsAnswer == Spec => []WaitsAreAnswered
BY AccountsInvariant, IInvImpliesAnswered, PTL

\* A character that belongs to an account belongs to it for good: a claim
\* takes only what is nobody's (accounts.ts:120-145).
LEMMA BoundStep ==
  ASSUME IInv, [Next]_vars
  PROVE  [\A c \in DOMAIN character :
            character[c].owner # NoOwner => character'[c].owner = character[c].owner]_vars
<1> DEFINE Bound == \A c \in DOMAIN character :
                      character[c].owner # NoOwner => character'[c].owner = character[c].owner
<1>1. /\ DOMAIN character = 1..Len(character) /\ Len(character) \in Nat
      /\ character \in Seq(RowSet) /\ issued \in Nat
  BY RowTypes DEF IInv, Rows, People, Holdings
<1>2. ASSUME UNCHANGED character PROVE Bound
  BY <1>2
<1>3. ASSUME NEW o \in Owner, NEW a \in Nat, character' = Append(character, [owner |-> o, anon |-> a])
      PROVE  Bound
  <2>1. [owner |-> o, anon |-> a] \in RowSet
    BY DEF RowSet
  <2> QED BY <1>1, <1>3, <2>1, AppendProperties
<1>4. ASSUME NEW job \in running, NewOwnCharacter(job) PROVE Bound
  <2>1. job.name \in Owner
    BY DEF IInv, Slotted, JobSet, Owner
  <2>2. PICK mayCreate \in BOOLEAN, failing \in 0..4 :
          \/ UNCHANGED character
          \/ character' = Append(character,
                 [owner |-> IF failing = 2 THEN NoOwner ELSE job.name,
                  anon |-> IF failing \in {2, 3} THEN issued + 1 ELSE NoToken])
    BY <1>4 DEF NewOwnCharacter
  <2> DEFINE o == IF failing = 2 THEN NoOwner ELSE job.name
             a == IF failing \in {2, 3} THEN issued + 1 ELSE NoToken
  <2>3. o \in Owner /\ a \in Nat
    BY <1>1, <2>1 DEF Owner, NoToken
  <2> HIDE DEF o, a
  <2>4. UNCHANGED character \/ character' = Append(character, [owner |-> o, anon |-> a])
    BY <2>2 DEF o, a
  <2> QED BY <1>2, <1>3, <2>3, <2>4
<1>5. ASSUME NEW job \in running, NEW there \in BOOLEAN, Registered(job, there) PROVE Bound
  <2>1. CASE Claimable(job.bearer) # {}
    <3> DEFINE c == Oldest(Claimable(job.bearer))
    <3>1. c \in Claimable(job.bearer)
      <4>1. Claimable(job.bearer) \subseteq Nat
        BY <1>1 DEF Claimable, ByAnon
      <4> QED BY <2>1, <4>1, OldestExists
    <3>2. character' = Buried(c, job.name)
      BY <1>5, <2>1 DEF Registered
    <3> HIDE DEF c
    <3> QED BY <3>1, <3>2 DEF Buried, Claimable
  <2>2. CASE Claimable(job.bearer) = {}
    BY <1>2, <1>4, <1>5, <2>2 DEF Registered
  <2> QED BY <2>1, <2>2
<1>6. ASSUME NEW job \in running, NEW there \in BOOLEAN, LoggedIn(job, there) PROVE Bound
  BY <1>2, <1>4, <1>6 DEF LoggedIn
<1>7. ASSUME NEW d \in Device, Hello(d) PROVE Bound
  <2>1. UNCHANGED character
        \/ character' = Append(character, [owner |-> NoOwner, anon |-> issued + 1])
    BY <1>7 DEF Hello
  <2> QED BY <1>1, <1>2, <1>3, <2>1 DEF Owner
<1>8. ASSUME NEW d \in Device, NEW n \in Name, Register(d, n) \/ Login(d, n) PROVE Bound
  BY <1>2, <1>8 DEF Register, Login, rows
<1>9. ASSUME NEW job \in running, Refused(job) \/ Rehashed(job) \/ RehashFails(job) PROVE Bound
  BY <1>2, <1>9 DEF Refused, Rehashed, RehashFails, rows
<1>10. ASSUME Tick PROVE Bound
  BY <1>2, <1>10 DEF Tick, rows
<1> HIDE DEF Bound
<1>11. ASSUME Next PROVE Bound
  <2>1. CASE \E d \in Device, n \in Name : Register(d, n) \/ Login(d, n)
    BY <1>8, <2>1
  <2>2. CASE \E d \in Device : Hello(d)
    BY <1>7, <2>2
  <2>3. CASE \E job \in running : Refused(job) \/ Rehashed(job) \/ RehashFails(job)
    BY <1>9, <2>3
  <2>4. CASE \E job \in running, there \in BOOLEAN : Registered(job, there) \/ LoggedIn(job, there)
    BY <1>5, <1>6, <2>4
  <2> QED BY <1>10, <1>11, <2>1, <2>2, <2>3, <2>4 DEF Next
<1>12. Bound \/ UNCHANGED vars
  BY <1>11
<1> QED BY <1>12 DEF Bound

\* A character that belongs to an account never changes hands.
THEOREM CharactersAreBoundForGood == Spec => BoundForGood
BY AccountsInvariant, BoundStep, PTL DEF Spec, BoundForGood
-----------------------------------------------------------------------------
(* The door (Gate).                                                        *)

Births == [char : Char \cup Conn, at : Nat]
SessionSet ==
  [sock : Conn \cup {"linger"}, pong : 0..2, at : Nat, last : SUBSET {"yell"},
   actions : 0..Door!Full("actions"), resync : 0..Door!Full("resync"), yell : 0..Door!Full("yell")]

DoorTypes ==
  /\ doorClock \in Nat /\ jumps \in Nat
  /\ state \in [Conn -> {"free", "open", "dying", "closed"}]
  /\ frames \in [Conn -> 0..Door!Full("frames")] /\ seenAt \in [Conn -> Nat]
  /\ bound \in [Conn -> Char \cup {Door!None}]
  /\ socketsPerIp \in [Address -> Nat]
  /\ known \subseteq Char
  /\ newCharsPerIp \in [Address -> SUBSET Births] /\ made \in [Address -> SUBSET Births]
  /\ sess \in [Char -> {Door!NoSession} \cup SessionSet]
  /\ asked \in [Conn -> Nat] /\ acked \in [Conn -> Nat]
  /\ yelled \in [Char -> Nat] /\ passed \in [Char -> Nat]

\* Who has a session has a row, and who has no row has never yelled.
Rowed == \A p \in Char : p \notin known => sess[p] = Door!NoSession /\ yelled[p] = 0

\* What was born in the window that ends now is remembered.
InWindow(bs, t) == {b \in bs : b.at > t - NewCharWindow /\ b.at <= t}
BirthsKept ==
  /\ \A ip \in Address : IsFiniteSet(made[ip]) /\ IsFiniteSet(newCharsPerIp[ip])
  /\ jumps = 0 => \A ip \in Address :
       /\ \A b \in made[ip] : b.at <= doorClock
                              /\ (b.at > doorClock - NewCharWindow => b \in newCharsPerIp[ip])
       /\ \A t \in Nat : Cardinality(InWindow(made[ip], t)) <= NewCharsPerIp

\* A session was refilled for the time up to its last action, and not beyond.
YellsKept ==
  jumps = 0 => \A p \in Char : sess[p] # Door!NoSession =>
    /\ sess[p].at <= doorClock /\ doorClock - sess[p].at <= passed[p]
    /\ sess[p].yell + yelled[p] * Per["yell"]
         <= Door!Full("yell") + (passed[p] - (doorClock - sess[p].at)) * Cap["yell"]

DoorInv == DoorTypes /\ Door!SocketsAreCounted /\ Rowed /\ BirthsKept /\ YellsKept /\ Door!OneAckEach

LEMMA DoorCardinality == \A S : Door!Cardinality(S) = Cardinality(S)
  BY DEF Door!Cardinality, Cardinality

LEMMA DoorConstants ==
  /\ IsFiniteSet(Conn) /\ Door!None \notin Conn /\ "linger" \notin Conn /\ Door!None \notin Char
  /\ From \in [Conn -> Address]
  /\ MaxPerIp \in Nat /\ MaxSockets \in Nat /\ NewCharsPerIp \in Nat /\ NewCharWindow \in Nat
  /\ Cap \in [Door!Bucket -> Nat \ {0}] /\ Per \in [Door!Bucket -> Nat \ {0}]
<1>1. \A S : Door!IsFiniteSet(S) = IsFiniteSet(S)
  BY DEF Door!IsFiniteSet, IsFiniteSet
<1> QED BY <1>1, DoorAssumption DEF Door!GateAssumption

LEMMA Products == \A a, b \in Nat : a * b \in Nat
  OBVIOUS

LEMMA FullType == \A b \in Door!Bucket : Door!Full(b) \in Nat /\ Cap[b] \in Nat \ {0} /\ Per[b] \in Nat \ {0}
  BY DoorConstants, Products DEF Door!Full

LEMMA RefilledType ==
  ASSUME NEW b \in Door!Bucket, NEW k \in 0..Door!Full(b), NEW dt \in Int
  PROVE  /\ Door!Refilled(b, k, dt) \in 0..Door!Full(b)
         /\ dt \in Nat => Door!Refilled(b, k, dt) <= k + dt * Cap[b]
<1>1. Door!Most(0, dt) \in Nat /\ (dt \in Nat => Door!Most(0, dt) = dt)
  BY DEF Door!Most
<1>2. Door!Most(0, dt) * Cap[b] \in Nat
  BY <1>1, FullType, Products
<1> QED BY <1>1, <1>2, FullType DEF Door!Refilled, Door!Least

LEMMA NoSessionIsNone == Door!NoSession \notin SessionSet
  BY DoorConstants DEF Door!NoSession, SessionSet

LEMMA NewSessionType ==
  ASSUME DoorTypes, NEW c \in Conn
  PROVE  /\ Door!NewSession(c) \in SessionSet
         /\ Door!NewSession(c).at = doorClock /\ Door!NewSession(c).yell = Door!Full("yell")
  BY FullType DEF Door!NewSession, SessionSet, DoorTypes, Door!Bucket

(* The answer to an action: one ack, buckets in range, a yell for a token. *)
LEMMA AnswerType ==
  ASSUME DoorTypes, NEW s \in SessionSet, NEW kind \in {"say", "yell", "resync"},
         NEW text \in {"refused", "fine"}
  PROVE  LET out == Door!HandleAction(s, kind, text)
             r == Door!Refilled("yell", s.yell, doorClock - s.at)
         IN  /\ out.acks = 1 /\ out.sess \in SessionSet /\ out.sess.at = doorClock
             /\ \/ out.sess.last = {} /\ out.sess.yell = r
                \/ out.sess.last = {"yell"} /\ out.sess.yell = r - Per["yell"]
<1> DEFINE a == Door!Refilled("actions", s.actions, doorClock - s.at)
           q == Door!Refilled("resync", s.resync, doorClock - s.at)
           r == Door!Refilled("yell", s.yell, doorClock - s.at)
           f == Door!Refill(s)
           paid == [f EXCEPT !.actions = @ - Per["actions"]]
<1>0. {"actions", "resync", "yell"} \subseteq Door!Bucket
  BY DEF Door!Bucket
<1>1. doorClock - s.at \in Int /\ doorClock \in Nat
  BY DEF DoorTypes, SessionSet
<1>2. a \in 0..Door!Full("actions") /\ q \in 0..Door!Full("resync") /\ r \in 0..Door!Full("yell")
  BY <1>0, <1>1, RefilledType DEF SessionSet
<1>3. Per["actions"] \in Nat \ {0} /\ Per["resync"] \in Nat \ {0} /\ Per["yell"] \in Nat \ {0}
      /\ Door!Full("actions") \in Nat /\ Door!Full("resync") \in Nat /\ Door!Full("yell") \in Nat
  BY <1>0, FullType
<1> HIDE DEF a, q, r
<1>4. f = [s EXCEPT !.at = doorClock, !.last = {}, !.actions = a, !.resync = q, !.yell = r]
  BY DEF Door!Refill, a, q, r, SessionSet
<1>5. f \in SessionSet /\ f.at = doorClock /\ f.last = {} /\ f.yell = r /\ f.actions = a /\ f.resync = q
  BY <1>1, <1>2, <1>4 DEF SessionSet
<1>6. CASE a < Per["actions"]
  <2>1. Door!HandleAction(s, kind, text) = [sess |-> f, acks |-> 1]
    BY <1>5, <1>6 DEF Door!HandleAction, Door!Out
  <2> QED BY <1>5, <2>1 DEF r
<1>7. CASE ~ (a < Per["actions"])
  <2>1. paid \in SessionSet /\ paid.at = doorClock /\ paid.last = {} /\ paid.yell = r /\ paid.resync = q
    BY <1>2, <1>3, <1>5, <1>7 DEF SessionSet
  <2>2. Door!HandleAction(s, kind, text) =
          CASE kind = "yell" -> Door!Yell(paid, text)
            [] kind = "resync" -> Door!Resync(paid)
            [] OTHER -> Door!Say(paid, text)
    BY <1>5, <1>7 DEF Door!HandleAction
  <2> HIDE DEF paid, f
  <2>3. CASE kind = "say"
    <3>1. Door!HandleAction(s, kind, text) = [sess |-> paid, acks |-> 1]
      BY <2>2, <2>3 DEF Door!Say, Door!Out
    <3> QED BY <2>1, <3>1 DEF r
  <2>4. CASE kind = "resync"
    <3>1. Door!HandleAction(s, kind, text) = Door!Resync(paid)
      BY <2>2, <2>4
    <3>2. CASE q < Per["resync"]
      <4>1. Door!Resync(paid) = [sess |-> paid, acks |-> 1]
        BY <2>1, <3>2 DEF Door!Resync, Door!Out
      <4> QED BY <2>1, <3>1, <4>1 DEF r
    <3>3. CASE ~ (q < Per["resync"])
      <4> DEFINE o == [paid EXCEPT !.resync = @ - Per["resync"]]
      <4>1. Door!Resync(paid) = [sess |-> o, acks |-> 1]
        BY <2>1, <3>3 DEF Door!Resync, Door!Out
      <4>2. o \in SessionSet /\ o.at = doorClock /\ o.last = {} /\ o.yell = r
        BY <1>2, <1>3, <2>1, <3>3 DEF SessionSet
      <4> HIDE DEF o
      <4> QED BY <3>1, <4>1, <4>2 DEF r
    <3> QED BY <3>2, <3>3
  <2>5. CASE kind = "yell"
    <3>1. Door!HandleAction(s, kind, text) = Door!Yell(paid, text)
      BY <2>2, <2>5
    <3>2. CASE text # "fine" \/ r < Per["yell"]
      <4>1. Door!Yell(paid, text) = [sess |-> paid, acks |-> 1]
        BY <2>1, <3>2 DEF Door!Yell, Door!Out
      <4> QED BY <2>1, <3>1, <4>1 DEF r
    <3>3. CASE ~ (text # "fine" \/ r < Per["yell"])
      <4> DEFINE o == [paid EXCEPT !.yell = @ - Per["yell"], !.last = {"yell"}]
      <4>1. Door!Yell(paid, text) = [sess |-> o, acks |-> 1]
        BY <2>1, <3>3 DEF Door!Yell, Door!Out
      <4>0. r - Per["yell"] \in 0..Door!Full("yell")
        BY <1>2, <1>3, <3>3
      <4>2. o \in SessionSet /\ o.at = doorClock /\ o.last = {"yell"} /\ o.yell = r - Per["yell"]
        BY <2>1, <4>0 DEF SessionSet
      <4> HIDE DEF o
      <4> QED BY <3>1, <4>1, <4>2 DEF r
    <3> QED BY <3>2, <3>3
  <2> QED BY <2>3, <2>4, <2>5
<1> QED BY <1>6, <1>7

LEMMA DoorInitOK == Door!Init => DoorInv
<1> SUFFICES ASSUME Door!Init PROVE DoorInv
  OBVIOUS
<1>1. DoorTypes
  <2>1. Door!Full("frames") \in Nat
    BY FullType DEF Door!Bucket
  <2> QED BY <2>1 DEF Door!Init, DoorTypes
<1>2. Door!SocketsAreCounted
  <2>1. \A ip \in Address : {c \in Door!Sockets(state) : From[c] = ip} = {}
    BY DEF Door!Init, Door!Sockets
  <2> QED BY <2>1, DoorCardinality, FS_EmptySet DEF Door!SocketsAreCounted, Door!Init
<1>3. Rowed /\ YellsKept /\ Door!OneAckEach
  BY DEF Door!Init, Rowed, YellsKept, Door!OneAckEach
<1>4. BirthsKept
  <2>1. IsFiniteSet({}) /\ Cardinality({}) = 0
    BY FS_EmptySet
  <2>2. \A ip \in Address : made[ip] = {} /\ newCharsPerIp[ip] = {}
    BY DEF Door!Init
  <2>3. \A ip \in Address, t \in Nat : InWindow(made[ip], t) = {}
    BY <2>2 DEF InWindow
  <2>4. ASSUME NEW ip \in Address, NEW t \in Nat
        PROVE  Cardinality(InWindow(made[ip], t)) <= NewCharsPerIp
    <3>1. Cardinality(InWindow(made[ip], t)) = 0
      BY <2>1, <2>3, Zenon
    <3> QED BY <3>1, DoorConstants
  <2> HIDE DEF InWindow
  <2> QED BY <2>1, <2>2, <2>4 DEF BirthsKept
<1> QED BY <1>1, <1>2, <1>3, <1>4 DEF DoorInv

(* What a step that leaves a part alone leaves true of it. *)
LEMMA SocketsSame ==
  ASSUME Door!SocketsAreCounted, UNCHANGED socketsPerIp,
         \A c \in Conn : state'[c] \in {"open", "dying"} <=> state[c] \in {"open", "dying"}
  PROVE  Door!SocketsAreCounted'
<1>1. Door!Sockets(state') = Door!Sockets(state)
  BY DEF Door!Sockets
<1> QED BY <1>1 DEF Door!SocketsAreCounted

LEMMA BirthsSame ==
  ASSUME BirthsKept, UNCHANGED <<doorClock, jumps, newCharsPerIp, made>>
  PROVE  BirthsKept'
  BY DEF BirthsKept, InWindow

LEMMA YellsSame ==
  ASSUME YellsKept, UNCHANGED <<doorClock, jumps, yelled, passed>>,
         \A p \in Char : sess'[p] # Door!NoSession =>
           sess[p] # Door!NoSession /\ sess'[p].at = sess[p].at /\ sess'[p].yell = sess[p].yell
  PROVE  YellsKept'
  BY DEF YellsKept, Door!Full

(* An inbound frame is charged and leaves the rest alone. *)
LEMMA ChargeOK ==
  ASSUME DoorTypes, NEW c \in Conn, Door!Charge(c)
  PROVE  frames' \in [Conn -> 0..Door!Full("frames")] /\ seenAt' \in [Conn -> Nat]
<1>0. "frames" \in Door!Bucket
  BY DEF Door!Bucket
<1>1. doorClock - seenAt[c] \in Int /\ doorClock \in Nat /\ frames[c] \in 0..Door!Full("frames")
  BY DEF DoorTypes
<1>2. Door!Left(c) \in 0..Door!Full("frames")
  BY <1>0, <1>1, RefilledType DEF Door!Left
<1>3. Per["frames"] \in Nat \ {0} /\ Door!Full("frames") \in Nat
  BY <1>0, FullType
<1> QED BY <1>1, <1>2, <1>3 DEF Door!Charge, DoorTypes

LEMMA ConnectOK ==
  ASSUME DoorInv, NEW c \in Conn, Door!Connect(c)
  PROVE  DoorInv'
<1> USE DEF DoorInv
<1> DEFINE ip == From[c]
<1>1. PICK s1 \in {"open", "dying"} : state' = [state EXCEPT ![c] = s1]
  BY DEF Door!Connect
<1>2. /\ state[c] = "free" /\ socketsPerIp' = [socketsPerIp EXCEPT ![ip] = socketsPerIp[ip] + 1]
      /\ frames' = [frames EXCEPT ![c] = Door!Full("frames")] /\ seenAt' = [seenAt EXCEPT ![c] = doorClock]
      /\ UNCHANGED <<doorClock, jumps, bound, known, newCharsPerIp, made, sess, asked, acked, yelled, passed>>
  BY DEF Door!Connect, Door!times, Door!births, Door!history
<1>3. ip \in Address /\ Door!Full("frames") \in Nat
  BY DoorConstants, FullType DEF Door!Bucket
<1>4. DoorTypes'
  BY <1>1, <1>2, <1>3 DEF DoorTypes
<1>5. Door!SocketsAreCounted'
  <2> SUFFICES ASSUME NEW i \in Address
      PROVE  socketsPerIp'[i] = Cardinality({d \in Door!Sockets(state') : From[d] = i})
    BY DoorCardinality DEF Door!SocketsAreCounted
  <2> DEFINE S == {d \in Door!Sockets(state) : From[d] = i}
  <2>1. socketsPerIp[i] = Cardinality(S)
    BY DoorCardinality DEF Door!SocketsAreCounted
  <2>2. S \subseteq Conn /\ c \notin S
    BY <1>2 DEF Door!Sockets
  <2>3. IsFiniteSet(S)
    BY <2>2, DoorConstants, FS_Subset
  <2>4. CASE i = ip
    <3>1. {d \in Door!Sockets(state') : From[d] = i} = S \cup {c}
      BY <1>1, <2>4 DEF Door!Sockets, DoorTypes
    <3>2. Cardinality(S \cup {c}) = Cardinality(S) + 1
      BY <2>2, <2>3, FS_AddElement
    <3> QED BY <1>2, <2>1, <2>4, <3>1, <3>2 DEF DoorTypes
  <2>5. CASE i # ip
    <3>1. {d \in Door!Sockets(state') : From[d] = i} = S
      BY <1>1, <1>2, <2>5 DEF Door!Sockets, DoorTypes
    <3> QED BY <1>2, <2>1, <2>5, <3>1 DEF DoorTypes
  <2> QED BY <2>4, <2>5
<1>6. Rowed' /\ Door!OneAckEach'
  BY <1>2 DEF Rowed, Door!OneAckEach
<1>7. BirthsKept' /\ YellsKept'
  BY <1>2, BirthsSame, YellsSame
<1> QED BY <1>4, <1>5, <1>6, <1>7

LEMMA CloseEventOK ==
  ASSUME DoorInv, NEW c \in Conn, Door!CloseEvent(c)
  PROVE  DoorInv'
<1> USE DEF DoorInv
<1> DEFINE ip == From[c]
<1>1. /\ state[c] \in {"open", "dying"} /\ state' = [state EXCEPT ![c] = "closed"]
      /\ socketsPerIp' = [socketsPerIp EXCEPT ![ip] = Door!Most(0, @ - 1)]
      /\ UNCHANGED <<doorClock, jumps, frames, seenAt, bound, known, newCharsPerIp, made, asked, acked, yelled, passed>>
  BY DEF Door!CloseEvent, Door!times, Door!births, Door!history
<1>2. ip \in Address
  BY DoorConstants
<1>3. sess' \in [Char -> {Door!NoSession} \cup SessionSet]
      /\ \A p \in Char : \/ sess'[p] = sess[p]
                         \/ sess[p] \in SessionSet /\ sess'[p] = [sess[p] EXCEPT !.sock = "linger"]
  <2>1. CASE Door!IsCurrent(c)
    <3> DEFINE q == bound[c]
    <3>1. q \in Char /\ sess[q].sock = c
      BY <2>1 DEF Door!IsCurrent, DoorTypes
    <3>2. sess[q] \in SessionSet
      BY <3>1, DoorConstants DEF DoorTypes, Door!NoSession
    <3>3. [sess[q] EXCEPT !.sock = "linger"] \in SessionSet
      BY <3>2 DEF SessionSet
    <3>4. sess' = [sess EXCEPT ![q] = [sess[q] EXCEPT !.sock = "linger"]]
      BY <2>1 DEF Door!CloseEvent
    <3> QED BY <3>1, <3>2, <3>3, <3>4 DEF DoorTypes
  <2>2. CASE ~ Door!IsCurrent(c)
    <3>1. sess' = sess
      BY <2>2 DEF Door!CloseEvent
    <3> QED BY <3>1 DEF DoorTypes
  <2> QED BY <2>1, <2>2
<1>4. DoorTypes'
  <2>0. \A n \in Nat : Door!Most(0, n - 1) \in Nat
    BY DEF Door!Most
  <2>1. socketsPerIp' \in [Address -> Nat]
    BY <1>1, <2>0 DEF DoorTypes
  <2> QED BY <1>1, <1>3, <2>1 DEF DoorTypes
<1>5. Door!SocketsAreCounted'
  <2> SUFFICES ASSUME NEW i \in Address
      PROVE  socketsPerIp'[i] = Cardinality({d \in Door!Sockets(state') : From[d] = i})
    BY DoorCardinality DEF Door!SocketsAreCounted
  <2> DEFINE S == {d \in Door!Sockets(state) : From[d] = i}
  <2>1. socketsPerIp[i] = Cardinality(S)
    BY DoorCardinality DEF Door!SocketsAreCounted
  <2>2. S \subseteq Conn
    BY DEF Door!Sockets
  <2>3. IsFiniteSet(S) /\ Cardinality(S) \in Nat
    BY <2>2, DoorConstants, FS_Subset, FS_CardinalityType
  <2>4. CASE i = ip
    <3>1. {d \in Door!Sockets(state') : From[d] = i} = S \ {c} /\ c \in S
      BY <1>1, <2>4 DEF Door!Sockets, DoorTypes
    <3>2. Cardinality(S \ {c}) = Cardinality(S) - 1 /\ Cardinality(S \ {c}) \in Nat
      BY <2>3, <3>1, FS_RemoveElement, FS_CardinalityType
    <3>3. socketsPerIp'[i] = Door!Most(0, Cardinality(S) - 1)
      BY <1>1, <2>1, <2>4 DEF DoorTypes
    <3>4. Door!Most(0, Cardinality(S) - 1) = Cardinality(S \ {c})
      BY <2>3, <3>2 DEF Door!Most
    <3> QED BY <3>1, <3>3, <3>4
  <2>5. CASE i # ip
    <3>1. {d \in Door!Sockets(state') : From[d] = i} = S
      BY <1>1, <2>5 DEF Door!Sockets, DoorTypes
    <3> QED BY <1>1, <2>1, <2>5, <3>1 DEF DoorTypes
  <2> QED BY <2>4, <2>5
<1>6. Rowed' /\ Door!OneAckEach'
  BY <1>1, <1>3, NoSessionIsNone DEF Rowed, Door!OneAckEach
<1>7. YellsKept'
  <2>1. \A p \in Char : sess'[p] # Door!NoSession =>
           sess[p] # Door!NoSession /\ sess'[p].at = sess[p].at /\ sess'[p].yell = sess[p].yell
    BY <1>3, NoSessionIsNone DEF SessionSet
  <2> QED BY <1>1, <2>1, YellsSame
<1>8. BirthsKept'
  BY <1>1, BirthsSame
<1> QED BY <1>4, <1>5, <1>6, <1>7, <1>8

LEMMA FloodingOK ==
  ASSUME DoorInv, NEW c \in Conn, Door!Flooding(c)
  PROVE  DoorInv'
<1> USE DEF DoorInv
<1>1. /\ state[c] = "open" /\ state' = [state EXCEPT ![c] = "dying"] /\ Door!Charge(c)
      /\ UNCHANGED <<doorClock, jumps, bound, socketsPerIp, known, newCharsPerIp, made, sess, asked, acked, yelled, passed>>
  BY DEF Door!Flooding, Door!Frame, Door!times, Door!births, Door!history
<1>2. DoorTypes'
  BY <1>1, ChargeOK DEF DoorTypes
<1>3. Door!SocketsAreCounted'
  BY <1>1, SocketsSame DEF DoorTypes
<1>4. Rowed' /\ Door!OneAckEach'
  BY <1>1 DEF Rowed, Door!OneAckEach
<1>5. BirthsKept' /\ YellsKept'
  BY <1>1, BirthsSame, YellsSame
<1> QED BY <1>2, <1>3, <1>4, <1>5

(* A character is born: what the window holds was counted before. *)
LEMMA HelloNewOK ==
  ASSUME DoorInv, NEW c \in Conn, Door!HelloNew(c)
  PROVE  DoorInv'
<1> USE DEF DoorInv
<1> DEFINE ip == From[c]
           hits == Door!LiveHits(ip)
<1>1. /\ state[c] = "open" /\ Door!Charge(c) /\ UNCHANGED <<doorClock, jumps, socketsPerIp>>
  BY DEF Door!HelloNew, Door!Charged, Door!Frame, Door!times
<1>2. frames' \in [Conn -> 0..Door!Full("frames")] /\ seenAt' \in [Conn -> Nat]
  BY <1>1, ChargeOK
<1>3. /\ ip \in Address /\ hits \subseteq newCharsPerIp[ip] /\ hits \subseteq Births
      /\ made[ip] \subseteq Births /\ IsFiniteSet(made[ip]) /\ IsFiniteSet(newCharsPerIp[ip]) /\ IsFiniteSet(hits)
  <2>1. hits \in SUBSET newCharsPerIp[ip]
    BY DEF Door!LiveHits
  <2> QED BY <2>1, DoorConstants, FS_Subset DEF DoorTypes, BirthsKept
<1>4. \A b \in newCharsPerIp[ip] : b.at > doorClock - NewCharWindow => b \in hits
  BY <1>3, DoorConstants DEF Door!LiveHits, DoorTypes, Births
<1> HIDE DEF hits
<1>5. CASE ~ Door!MayCreate(ip)
  <2>1. /\ state' = [state EXCEPT ![c] = "dying"] /\ newCharsPerIp' = [newCharsPerIp EXCEPT ![ip] = hits]
        /\ UNCHANGED <<bound, known, made, sess, asked, acked, yelled, passed>>
    BY <1>5 DEF Door!HelloNew, Door!Close, Door!history, hits
  <2>2. DoorTypes'
    BY <1>1, <1>2, <1>3, <2>1 DEF DoorTypes
  <2>3. Door!SocketsAreCounted'
    BY <1>1, <2>1, SocketsSame DEF DoorTypes
  <2>4. Rowed' /\ Door!OneAckEach'
    BY <2>1 DEF Rowed, Door!OneAckEach
  <2>5. BirthsKept'
    BY <1>1, <1>3, <1>4, <2>1 DEF BirthsKept, DoorTypes, InWindow
  <2>6. YellsKept'
    BY <1>1, <2>1, YellsSame
  <2> QED BY <2>2, <2>3, <2>4, <2>5, <2>6
<1>6. CASE /\ state' = [state EXCEPT ![c] = "dying"]
           /\ newCharsPerIp' = [newCharsPerIp EXCEPT ![ip] = hits \cup {Door!Birth(c)}]
           /\ UNCHANGED <<bound, known, made, sess, asked, acked, yelled, passed>>
  <2>1. Door!Birth(c) \in Births
    BY DEF Door!Birth, Births, DoorTypes
  <2>2. newCharsPerIp' \in [Address -> SUBSET Births] /\ state' \in [Conn -> {"free", "open", "dying", "closed"}]
    BY <1>3, <1>6, <2>1 DEF DoorTypes
  <2>3. DoorTypes'
    BY <1>1, <1>2, <1>6, <2>2 DEF DoorTypes
  <2>4. Door!SocketsAreCounted'
    BY <1>1, <1>6, SocketsSame DEF DoorTypes
  <2>5. Rowed' /\ Door!OneAckEach'
    BY <1>6 DEF Rowed, Door!OneAckEach
  <2>6. IsFiniteSet(hits \cup {Door!Birth(c)})
    BY <1>3, FS_AddElement
  <2>7. BirthsKept'
    BY <1>1, <1>3, <1>4, <1>6, <2>6 DEF BirthsKept, DoorTypes, InWindow
  <2>8. YellsKept'
    BY <1>1, <1>6, YellsSame
  <2> QED BY <2>3, <2>4, <2>5, <2>7, <2>8
<1>7. ASSUME Door!MayCreate(ip), NEW p \in Char \ known,
             /\ known' = known \cup {p}
             /\ newCharsPerIp' = [newCharsPerIp EXCEPT ![ip] = hits \cup {Door!Birth(p)}]
             /\ made' = [made EXCEPT ![ip] = @ \cup {Door!Birth(p)}]
             /\ sess' = [sess EXCEPT ![p] = Door!NewSession(c)]
             /\ bound' = [bound EXCEPT ![c] = p] /\ passed' = [passed EXCEPT ![p] = 0]
             /\ UNCHANGED <<state, asked, acked, yelled>>
      PROVE  DoorInv'
  <2> DEFINE new == Door!Birth(p)
  <2>2. new \in Births /\ new.at = doorClock
    BY DEF Door!Birth, Births, DoorTypes
  <2>3. /\ Door!NewSession(c) \in SessionSet /\ Door!NewSession(c).at = doorClock
        /\ Door!NewSession(c).yell = Door!Full("yell") /\ Door!NewSession(c) # Door!NoSession
    BY NewSessionType, NoSessionIsNone
  <2> HIDE DEF new
  <2>4. DoorTypes'
    <3>1. newCharsPerIp' \in [Address -> SUBSET Births] /\ made' \in [Address -> SUBSET Births]
      BY <1>3, <1>7, <2>2 DEF DoorTypes, new
    <3>2. sess' \in [Char -> {Door!NoSession} \cup SessionSet] /\ bound' \in [Conn -> Char \cup {Door!None}]
      BY <1>7, <2>3 DEF DoorTypes
    <3> QED BY <1>1, <1>2, <1>7, <3>1, <3>2 DEF DoorTypes
  <2>5. Door!SocketsAreCounted'
    BY <1>1, <1>7, SocketsSame
  <2>6. Rowed' /\ Door!OneAckEach'
    BY <1>7 DEF Rowed, Door!OneAckEach, DoorTypes
  <2>7. BirthsKept'
    <3>1. made'[ip] = made[ip] \cup {new} /\ newCharsPerIp'[ip] = hits \cup {new}
      BY <1>3, <1>7 DEF DoorTypes, new
    <3>2. \A i \in Address \ {ip} : made'[i] = made[i] /\ newCharsPerIp'[i] = newCharsPerIp[i]
      BY <1>7 DEF DoorTypes
    <3>3. \A i \in Address : IsFiniteSet(made'[i]) /\ IsFiniteSet(newCharsPerIp'[i])
      <4>1. IsFiniteSet(made[ip] \cup {new})
        BY <1>3, FS_AddElement
      <4>2. IsFiniteSet(hits \cup {new})
        BY <1>3, FS_AddElement
      <4> QED BY <1>3, <3>1, <3>2, <4>1, <4>2 DEF BirthsKept
    <3>4. ASSUME jumps = 0, NEW i \in Address
          PROVE  /\ \A b \in made'[i] : b.at <= doorClock
                                        /\ (b.at > doorClock - NewCharWindow => b \in newCharsPerIp'[i])
                 /\ \A t \in Nat : Cardinality(InWindow(made'[i], t)) <= NewCharsPerIp
      <4>1. CASE i # ip
        BY <3>2, <3>4, <4>1 DEF BirthsKept
      <4>2. CASE i = ip
        <5>1. \A b \in made[ip] : b.at <= doorClock /\ (b.at > doorClock - NewCharWindow => b \in hits)
          BY <1>3, <1>4, <3>4 DEF BirthsKept
        <5>2. \A b \in made'[ip] : b.at <= doorClock /\ (b.at > doorClock - NewCharWindow => b \in newCharsPerIp'[ip])
          BY <2>2, <3>1, <5>1 DEF DoorTypes
        <5>3. ASSUME NEW t \in Nat
              PROVE  Cardinality(InWindow(made'[ip], t)) <= NewCharsPerIp
          <6>1. CASE t < doorClock
            <7>1. InWindow(made'[ip], t) = InWindow(made[ip], t)
              BY <2>2, <3>1, <6>1 DEF InWindow, DoorTypes
            <7> QED BY <1>3, <3>4, <7>1 DEF BirthsKept
          <6>2. CASE ~ (t < doorClock)
            <7>1. InWindow(made'[ip], t) \subseteq hits \cup {new}
              <8> SUFFICES ASSUME NEW b \in made[ip], b.at > t - NewCharWindow PROVE b \in hits
                BY <3>1 DEF InWindow
              <8>1. b.at \in Nat /\ doorClock \in Nat /\ NewCharWindow \in Nat
                BY <1>3, DoorConstants DEF Births, DoorTypes
              <8> QED BY <5>1, <6>2, <8>1
            <7>2. IsFiniteSet(hits) /\ Cardinality(hits) \in Nat
              BY <1>3, FS_Subset, FS_CardinalityType
            <7>3. Cardinality(hits) < NewCharsPerIp
              BY <1>7, DoorCardinality DEF Door!MayCreate, hits
            <7>4. IsFiniteSet(hits \cup {new}) /\ Cardinality(hits \cup {new}) <= Cardinality(hits) + 1
                  /\ Cardinality(hits \cup {new}) \in Nat
              <8>1. IsFiniteSet(hits \cup {new})
                    /\ Cardinality(hits \cup {new}) = IF new \in hits THEN Cardinality(hits) ELSE Cardinality(hits) + 1
                BY <7>2, FS_AddElement
              <8> QED BY <7>2, <8>1
            <7>5. Cardinality(InWindow(made'[ip], t)) <= Cardinality(hits \cup {new})
                  /\ Cardinality(InWindow(made'[ip], t)) \in Nat
              BY <7>1, <7>4, FS_Subset, FS_CardinalityType
            <7> QED BY <7>2, <7>3, <7>4, <7>5, DoorConstants
          <6> QED BY <6>1, <6>2
        <5> QED BY <4>2, <5>2, <5>3
      <4> QED BY <4>1, <4>2
    <3> QED BY <1>1, <3>3, <3>4 DEF BirthsKept
  <2>8. YellsKept'
    <3> SUFFICES ASSUME jumps = 0, NEW q \in Char, sess'[q] # Door!NoSession
        PROVE  /\ sess'[q].at <= doorClock /\ doorClock - sess'[q].at <= passed'[q]
               /\ sess'[q].yell + yelled[q] * Per["yell"]
                    <= Door!Full("yell") + (passed'[q] - (doorClock - sess'[q].at)) * Cap["yell"]
      BY <1>1, <1>7 DEF YellsKept, Door!Full
    <3>1. CASE q = p
      <4>1. yelled[q] = 0 /\ passed'[q] = 0 /\ sess'[q] = Door!NewSession(c)
        BY <1>7, <3>1 DEF Rowed, DoorTypes
      <4>2. doorClock \in Nat /\ Per["yell"] \in Nat /\ Cap["yell"] \in Nat /\ Door!Full("yell") \in Nat
        BY FullType DEF DoorTypes, Door!Bucket
      <4> QED BY <2>3, <4>1, <4>2
    <3>2. CASE q # p
      <4>1. passed'[q] = passed[q] /\ sess'[q] = sess[q]
        BY <1>7, <3>2 DEF DoorTypes
      <4> QED BY <4>1 DEF YellsKept
    <3> QED BY <3>1, <3>2
  <2> QED BY <2>4, <2>5, <2>6, <2>7, <2>8
<1> QED BY <1>5, <1>6, <1>7 DEF Door!HelloNew, Door!Close, Door!history, hits

LEMMA HelloKnownOK ==
  ASSUME DoorInv, NEW c \in Conn, NEW p \in Char, Door!HelloKnown(c, p)
  PROVE  DoorInv'
<1> USE DEF DoorInv
<1> DEFINE s == sess[p]
<1>1. /\ p \in known /\ Door!Charge(c)
      /\ sess' = [sess EXCEPT ![p] = IF s = Door!NoSession THEN Door!NewSession(c) ELSE Door!Adopted(s, c)]
      /\ state' = IF s.sock \in Conn /\ state[s.sock] = "open"
                  THEN [state EXCEPT ![s.sock] = "dying"] ELSE state
      /\ yelled' = IF s = Door!NoSession THEN [yelled EXCEPT ![p] = 0] ELSE yelled
      /\ passed' = IF s = Door!NoSession THEN [passed EXCEPT ![p] = 0] ELSE passed
      /\ bound' = [bound EXCEPT ![c] = p]
      /\ UNCHANGED <<doorClock, jumps, socketsPerIp, known, newCharsPerIp, made, asked, acked>>
  BY DEF Door!HelloKnown, Door!Charged, Door!times, Door!births
<1>2. frames' \in [Conn -> 0..Door!Full("frames")] /\ seenAt' \in [Conn -> Nat]
  BY <1>1, ChargeOK
<1>3. /\ Door!NewSession(c) \in SessionSet /\ Door!NewSession(c).at = doorClock
      /\ Door!NewSession(c).yell = Door!Full("yell") /\ Door!NewSession(c) # Door!NoSession
  BY NewSessionType, NoSessionIsNone
<1>4. s # Door!NoSession =>
        /\ s \in SessionSet /\ Door!Adopted(s, c) \in SessionSet
        /\ Door!Adopted(s, c).at = s.at /\ Door!Adopted(s, c).yell = s.yell
  <2> SUFFICES ASSUME s # Door!NoSession
      PROVE  /\ s \in SessionSet /\ Door!Adopted(s, c) \in SessionSet
             /\ Door!Adopted(s, c).at = s.at /\ Door!Adopted(s, c).yell = s.yell
    OBVIOUS
  <2>1. s \in SessionSet
    BY DEF DoorTypes
  <2> HIDE DEF s
  <2>2. Door!Adopted(s, c) = [s EXCEPT !.sock = c, !.pong = 0, !.last = {}]
    BY DEF Door!Adopted
  <2>3. Door!Adopted(s, c) = [sock |-> c, pong |-> 0, at |-> s.at, last |-> {}, actions |-> s.actions,
                             resync |-> s.resync, yell |-> s.yell]
    BY <2>1, <2>2 DEF SessionSet
  <2>4. /\ s.at \in Nat /\ s.actions \in 0..Door!Full("actions")
        /\ s.resync \in 0..Door!Full("resync") /\ s.yell \in 0..Door!Full("yell")
    BY <2>1 DEF SessionSet
  <2>5. 0 \in 0..2 /\ c \in Conn \cup {"linger"} /\ {} \in SUBSET {"yell"}
    OBVIOUS
  <2> QED BY <2>1, <2>3, <2>4, <2>5 DEF SessionSet
<1>5. \A d \in Conn : state'[d] = state[d] \/ (state[d] = "open" /\ state'[d] = "dying")
  BY <1>1 DEF DoorTypes
<1>6. DoorTypes'
  <2>1. sess' \in [Char -> {Door!NoSession} \cup SessionSet]
    BY <1>1, <1>3, <1>4 DEF DoorTypes
  <2>2. state' \in [Conn -> {"free", "open", "dying", "closed"}]
    BY <1>1 DEF DoorTypes
  <2>3. yelled' \in [Char -> Nat] /\ passed' \in [Char -> Nat] /\ bound' \in [Conn -> Char \cup {Door!None}]
    BY <1>1 DEF DoorTypes
  <2> QED BY <1>1, <1>2, <2>1, <2>2, <2>3 DEF DoorTypes
<1>7. Door!SocketsAreCounted'
  <2>1. \A d \in Conn : state'[d] \in {"open", "dying"} <=> state[d] \in {"open", "dying"}
    BY <1>5
  <2> QED BY <1>1, <2>1, SocketsSame
<1>8. Rowed' /\ Door!OneAckEach'
  BY <1>1 DEF Rowed, Door!OneAckEach, DoorTypes
<1>9. BirthsKept'
  BY <1>1, BirthsSame
<1>10. YellsKept'
  <2> SUFFICES ASSUME jumps = 0, NEW q \in Char, sess'[q] # Door!NoSession
      PROVE  /\ sess'[q].at <= doorClock /\ doorClock - sess'[q].at <= passed'[q]
             /\ sess'[q].yell + yelled'[q] * Per["yell"]
                  <= Door!Full("yell") + (passed'[q] - (doorClock - sess'[q].at)) * Cap["yell"]
    BY <1>1 DEF YellsKept, Door!Full
  <2>1. CASE q = p /\ s = Door!NoSession
    <3>1. yelled'[q] = 0 /\ passed'[q] = 0 /\ sess'[q] = Door!NewSession(c)
      BY <1>1, <2>1 DEF DoorTypes
    <3>2. doorClock \in Nat /\ Per["yell"] \in Nat /\ Cap["yell"] \in Nat /\ Door!Full("yell") \in Nat
      BY FullType DEF DoorTypes, Door!Bucket
    <3> QED BY <1>3, <3>1, <3>2
  <2>2. CASE q = p /\ s # Door!NoSession
    <3>1. yelled'[q] = yelled[q] /\ passed'[q] = passed[q] /\ sess'[q] = Door!Adopted(s, c)
      BY <1>1, <2>2 DEF DoorTypes
    <3>2. sess'[q].at = sess[q].at /\ sess'[q].yell = sess[q].yell
      BY <1>4, <2>2, <3>1
    <3> HIDE DEF s
    <3>3. sess[q] # Door!NoSession
      BY <2>2 DEF s
    <3> QED BY <3>1, <3>2, <3>3 DEF YellsKept
  <2>3. CASE q # p
    <3>1. passed'[q] = passed[q] /\ yelled'[q] = yelled[q] /\ sess'[q] = sess[q]
      BY <1>1, <2>3 DEF DoorTypes
    <3> QED BY <3>1 DEF YellsKept
  <2> QED BY <2>1, <2>2, <2>3
<1> QED BY <1>6, <1>7, <1>8, <1>9, <1>10

LEMMA PongOK ==
  ASSUME DoorInv, NEW c \in Conn, Door!Pong(c)
  PROVE  DoorInv'
<1> USE DEF DoorInv
<1> DEFINE p == bound[c]
<1>1. /\ Door!Charge(c) /\ Door!IsCurrent(c) /\ sess' = [sess EXCEPT ![p].pong = 0]
      /\ UNCHANGED <<doorClock, jumps, state, bound, socketsPerIp, known, newCharsPerIp, made, asked, acked, yelled, passed>>
  BY DEF Door!Pong, Door!Charged, Door!times, Door!births
<1>2. p \in Char /\ sess[p] \in SessionSet
  BY <1>1, DoorConstants DEF Door!IsCurrent, DoorTypes, Door!NoSession
<1> DEFINE s1 == [sess[p] EXCEPT !.pong = 0]
<1>3. s1 \in SessionSet /\ s1.at = sess[p].at /\ s1.yell = sess[p].yell
  BY <1>2 DEF SessionSet
<1>4. sess' = [sess EXCEPT ![p] = s1]
  BY <1>1
<1> HIDE DEF s1
<1>5. DoorTypes'
  <2>1. sess' \in [Char -> {Door!NoSession} \cup SessionSet]
    BY <1>2, <1>3, <1>4 DEF DoorTypes
  <2> QED BY <1>1, <2>1, ChargeOK DEF DoorTypes
<1>6. Door!SocketsAreCounted'
  BY <1>1, SocketsSame
<1>7. Rowed' /\ Door!OneAckEach'
  BY <1>1, <1>2, <1>4, NoSessionIsNone DEF Rowed, Door!OneAckEach, DoorTypes
<1>8. BirthsKept'
  BY <1>1, BirthsSame
<1>9. YellsKept'
  <2>1. \A q \in Char : sess'[q] # Door!NoSession =>
          sess[q] # Door!NoSession /\ sess'[q].at = sess[q].at /\ sess'[q].yell = sess[q].yell
    BY <1>2, <1>3, <1>4, NoSessionIsNone DEF DoorTypes
  <2> QED BY <1>1, <2>1, YellsSame
<1> QED BY <1>5, <1>6, <1>7, <1>8, <1>9

(* An action refills first: what it may spend is what the time has paid. *)
LEMMA ActionOK ==
  ASSUME DoorInv, NEW c \in Conn, NEW kind \in {"say", "yell", "resync"}, NEW text \in {"refused", "fine"},
         Door!Action(c, kind, text)
  PROVE  DoorInv'
<1> USE DEF DoorInv
<1> DEFINE p == bound[c]
           out == Door!HandleAction(sess[p], kind, text)
           r == Door!Refilled("yell", sess[p].yell, doorClock - sess[p].at)
<1>1. /\ Door!Charge(c) /\ Door!IsCurrent(c) /\ sess' = [sess EXCEPT ![p] = out.sess]
      /\ acked' = [acked EXCEPT ![c] = @ + out.acks]
      /\ yelled' = [yelled EXCEPT ![p] = @ + Cardinality(out.sess.last)]
      /\ asked' = [asked EXCEPT ![c] = @ + 1]
      /\ UNCHANGED <<doorClock, jumps, state, bound, socketsPerIp, known, newCharsPerIp, made, passed>>
  BY DoorCardinality DEF Door!Action, Door!Charged, Door!times, Door!births
<1>2. p \in Char /\ sess[p] \in SessionSet /\ p \in known
  BY <1>1, DoorConstants DEF Door!IsCurrent, DoorTypes, Door!NoSession, Rowed
<1>3. /\ out.acks = 1 /\ out.sess \in SessionSet /\ out.sess.at = doorClock
      /\ \/ out.sess.last = {} /\ out.sess.yell = r
         \/ out.sess.last = {"yell"} /\ out.sess.yell = r - Per["yell"]
  BY <1>2, AnswerType
<1> HIDE DEF out
<1>4. \E n \in {0, 1} : Cardinality(out.sess.last) = n /\ out.sess.yell = r - n * Per["yell"]
  <2>1. Cardinality({}) = 0 /\ Cardinality({"yell"}) = 1
    BY FS_EmptySet, FS_Singleton
  <2>2. Per["yell"] \in Nat /\ r \in Int
    <3>1. "yell" \in Door!Bucket /\ doorClock - sess[p].at \in Int /\ sess[p].yell \in 0..Door!Full("yell")
      BY <1>2 DEF Door!Bucket, DoorTypes, SessionSet
    <3>2. r \in 0..Door!Full("yell")
      BY <3>1, RefilledType
    <3> HIDE DEF r
    <3> QED BY <3>1, <3>2, FullType
  <2> HIDE DEF r
  <2>3. CASE out.sess.last = {} /\ out.sess.yell = r
    BY <2>1, <2>2, <2>3
  <2>4. CASE out.sess.last = {"yell"} /\ out.sess.yell = r - Per["yell"]
    BY <2>1, <2>2, <2>4
  <2> QED BY <1>3, <2>3, <2>4
<1>5. PICK n \in {0, 1} : Cardinality(out.sess.last) = n /\ out.sess.yell = r - n * Per["yell"]
  BY <1>4
<1>6. yelled' = [yelled EXCEPT ![p] = @ + n] /\ acked' = [acked EXCEPT ![c] = @ + 1]
  BY <1>1, <1>3, <1>5
<1>7. DoorTypes'
  <2>1. sess' \in [Char -> {Door!NoSession} \cup SessionSet]
    BY <1>1, <1>2, <1>3 DEF DoorTypes
  <2>2. yelled' \in [Char -> Nat] /\ acked' \in [Conn -> Nat] /\ asked' \in [Conn -> Nat]
    <3>1. yelled[p] + n \in Nat /\ acked[c] + 1 \in Nat /\ asked[c] + 1 \in Nat
      BY <1>2 DEF DoorTypes
    <3>2. yelled' = [yelled EXCEPT ![p] = yelled[p] + n] /\ acked' = [acked EXCEPT ![c] = acked[c] + 1]
          /\ asked' = [asked EXCEPT ![c] = asked[c] + 1]
      BY <1>1, <1>6
    <3> QED BY <3>1, <3>2 DEF DoorTypes
  <2> QED BY <1>1, <2>1, <2>2, ChargeOK DEF DoorTypes
<1>8. Door!SocketsAreCounted'
  BY <1>1, SocketsSame
<1>9. Rowed' /\ Door!OneAckEach'
  <2>1. Rowed'
    BY <1>1, <1>2, <1>6 DEF Rowed, DoorTypes
  <2>2. Door!OneAckEach'
    BY <1>1, <1>6 DEF Door!OneAckEach, DoorTypes
  <2> QED BY <2>1, <2>2
<1>10. BirthsKept'
  BY <1>1, BirthsSame
<1>11. YellsKept'
  <2> SUFFICES ASSUME jumps = 0, NEW q \in Char, sess'[q] # Door!NoSession
      PROVE  /\ sess'[q].at <= doorClock /\ doorClock - sess'[q].at <= passed[q]
             /\ sess'[q].yell + yelled'[q] * Per["yell"]
                  <= Door!Full("yell") + (passed[q] - (doorClock - sess'[q].at)) * Cap["yell"]
    BY <1>1 DEF YellsKept, Door!Full
  <2>1. CASE q = p
    <3> DEFINE dt == doorClock - sess[p].at
               Y == sess[p].yell
               F == Door!Full("yell")
               C == Cap["yell"]
               P == Per["yell"]
               K == passed[p]
               N == yelled[p]
    <3>1. sess'[q] = out.sess /\ yelled'[q] = N + n
      BY <1>1, <1>2, <1>6, <2>1 DEF DoorTypes
    <3>2. F \in Nat /\ C \in Nat /\ P \in Nat /\ K \in Nat /\ N \in Nat /\ doorClock \in Nat
      BY <1>2, FullType DEF DoorTypes, Door!Bucket
    <3>3. dt \in Nat /\ Y \in 0..F
      BY <1>2, NoSessionIsNone DEF YellsKept, SessionSet, DoorTypes
    <3>4. dt <= K /\ Y + N * P <= F + (K - dt) * C
      BY <1>2, NoSessionIsNone DEF YellsKept
    <3>5. r \in 0..F /\ r <= Y + dt * C
      <4>1. "yell" \in Door!Bucket /\ dt \in Int
        BY <3>3 DEF Door!Bucket
      <4> QED BY <3>3, <4>1, RefilledType
    <3> HIDE DEF dt, Y, F, C, P, K, N, r
    <3>6. (r - n * P) + (N + n) * P = r + N * P
      BY <3>2, <3>5
    <3>7. (K - dt) * C + dt * C = K * C
      BY <3>2, <3>3
    <3>8. N * P \in Int /\ (K - dt) * C \in Int /\ dt * C \in Int /\ K * C \in Int
      BY <3>2, <3>3
    <3>9. r + N * P <= F + K * C
      BY <3>2, <3>3, <3>4, <3>5, <3>7, <3>8
    <3>10. out.sess.yell + (N + n) * P <= F + (K - 0) * C
      <4>1. out.sess.yell = r - n * P
        BY <1>5 DEF P
      <4> QED BY <3>2, <3>6, <3>9, <4>1
    <3>11. doorClock - out.sess.at = 0 /\ out.sess.at <= doorClock /\ 0 <= K
      BY <1>3, <3>2
    <3>12. /\ out.sess.at <= doorClock /\ doorClock - out.sess.at <= K
           /\ out.sess.yell + (N + n) * P <= F + (K - (doorClock - out.sess.at)) * C
      BY <3>10, <3>11
    <3> QED BY <2>1, <3>1, <3>12 DEF F, C, P, K
  <2>2. CASE q # p
    <3>1. yelled'[q] = yelled[q] /\ sess'[q] = sess[q]
      BY <1>1, <1>6, <2>2 DEF DoorTypes
    <3> QED BY <3>1 DEF YellsKept
  <2> QED BY <2>1, <2>2
<1> QED BY <1>7, <1>8, <1>9, <1>10, <1>11

LEMMA GraceEndsOK ==
  ASSUME DoorInv, NEW p \in Char, Door!GraceEnds(p)
  PROVE  DoorInv'
<1> USE DEF DoorInv
<1>1. /\ sess' = [sess EXCEPT ![p] = Door!NoSession]
      /\ UNCHANGED <<doorClock, jumps, state, frames, seenAt, bound, socketsPerIp, known, newCharsPerIp, made, asked, acked, yelled, passed>>
  BY DEF Door!GraceEnds, Door!times, Door!door, Door!births, Door!history
<1>2. DoorTypes'
  BY <1>1 DEF DoorTypes
<1>3. Door!SocketsAreCounted'
  BY <1>1, SocketsSame
<1>4. Rowed' /\ Door!OneAckEach'
  BY <1>1 DEF Rowed, Door!OneAckEach, DoorTypes
<1>5. BirthsKept'
  BY <1>1, BirthsSame
<1>6. YellsKept'
  <2>1. \A q \in Char : sess'[q] # Door!NoSession => q # p /\ sess'[q] = sess[q]
    BY <1>1 DEF DoorTypes
  <2> QED BY <1>1, <2>1, YellsSame
<1> QED BY <1>2, <1>3, <1>4, <1>5, <1>6

(* The heartbeat forgets only what no window that can still come holds. *)
LEMMA BeatOK == ASSUME DoorInv, Door!Beat PROVE DoorInv'
<1> USE DEF DoorInv
<1> DEFINE cut == {p \in Char : sess[p].sock \in Conn /\ sess[p].pong >= 2}
           closed == {sess[p].sock : p \in cut}
<1>1. /\ state' = [c \in Conn |-> IF c \in closed /\ state[c] = "open" THEN "dying" ELSE state[c]]
      /\ sess' = [p \in Char |-> IF sess[p].sock \in Conn /\ p \notin cut
                                 THEN [sess[p] EXCEPT !.pong = @ + 1] ELSE sess[p]]
      /\ newCharsPerIp' = [ip \in Address |-> {b \in newCharsPerIp[ip] : b.at >= doorClock - NewCharWindow}]
      /\ UNCHANGED <<doorClock, jumps, frames, seenAt, bound, socketsPerIp, known, made, asked, acked, yelled, passed>>
  BY DEF Door!Beat, Door!times
<1>2. ASSUME NEW p \in Char
      PROVE  \/ sess'[p] = sess[p]
             \/ /\ sess[p] \in SessionSet /\ sess'[p] \in SessionSet
                /\ sess'[p].at = sess[p].at /\ sess'[p].yell = sess[p].yell
  <2>1. CASE sess[p].sock \in Conn /\ p \notin cut
    <3>1. sess[p] \in SessionSet
      BY <2>1, DoorConstants DEF DoorTypes, Door!NoSession
    <3>2. sess[p].pong \in 0..1
      BY <2>1, <3>1 DEF SessionSet
    <3> DEFINE s1 == [sess[p] EXCEPT !.pong = @ + 1]
    <3>3. s1 \in SessionSet /\ s1.at = sess[p].at /\ s1.yell = sess[p].yell
      BY <3>1, <3>2 DEF SessionSet
    <3>4. sess'[p] = s1
      BY <1>1, <2>1
    <3> QED BY <3>1, <3>3, <3>4
  <2>2. CASE ~ (sess[p].sock \in Conn /\ p \notin cut)
    BY <1>1, <2>2
  <2> QED BY <2>1, <2>2
<1> HIDE DEF closed, cut
<1>3. DoorTypes'
  <2>1. sess' \in [Char -> {Door!NoSession} \cup SessionSet]
    <3>1. \A p \in Char : sess'[p] \in {Door!NoSession} \cup SessionSet
      BY <1>2 DEF DoorTypes
    <3>2. DOMAIN sess' = Char /\ sess' = [p \in Char |-> sess'[p]]
      BY <1>1
    <3> QED BY <3>1, <3>2
  <2>2. state' \in [Conn -> {"free", "open", "dying", "closed"}] /\ newCharsPerIp' \in [Address -> SUBSET Births]
    BY <1>1 DEF DoorTypes
  <2> QED BY <1>1, <2>1, <2>2 DEF DoorTypes
<1>4. Door!SocketsAreCounted'
  <2>1. \A c \in Conn : state'[c] \in {"open", "dying"} <=> state[c] \in {"open", "dying"}
    BY <1>1
  <2> QED BY <1>1, <2>1, SocketsSame
<1>5. Rowed' /\ Door!OneAckEach'
  BY <1>1, <1>2, NoSessionIsNone DEF Rowed, Door!OneAckEach
<1>6. BirthsKept'
  <2>1. \A ip \in Address : newCharsPerIp'[ip] \subseteq newCharsPerIp[ip]
    BY <1>1
  <2>2. \A ip \in Address : \A b \in newCharsPerIp[ip] : b.at > doorClock - NewCharWindow => b \in newCharsPerIp'[ip]
    BY <1>1, DoorConstants DEF DoorTypes, Births
  <2>3. \A ip \in Address : IsFiniteSet(newCharsPerIp'[ip])
    <3> TAKE ip \in Address
    <3>1. IsFiniteSet(newCharsPerIp[ip]) /\ newCharsPerIp'[ip] \in SUBSET newCharsPerIp[ip]
      BY <2>1 DEF BirthsKept
    <3> QED BY <3>1, FS_Subset
  <2> QED BY <1>1, <2>1, <2>2, <2>3 DEF BirthsKept, InWindow
<1>7. YellsKept'
  <2>1. \A p \in Char : sess'[p] # Door!NoSession =>
          sess[p] # Door!NoSession /\ sess'[p].at = sess[p].at /\ sess'[p].yell = sess[p].yell
    BY <1>2, NoSessionIsNone
  <2> QED BY <1>1, <2>1, YellsSame
<1> QED BY <1>3, <1>4, <1>5, <1>6, <1>7

LEMMA DoorTickOK == ASSUME DoorInv, Door!Tick PROVE DoorInv'
<1> USE DEF DoorInv
<1>1. /\ doorClock' = doorClock + 1 /\ passed' = [p \in Char |-> passed[p] + 1]
      /\ UNCHANGED <<jumps, state, frames, seenAt, bound, socketsPerIp, known, newCharsPerIp, made, sess, asked, acked, yelled>>
  BY DEF Door!Tick, Door!door, Door!births
<1>2. DoorTypes'
  BY <1>1 DEF DoorTypes
<1>3. Door!SocketsAreCounted'
  BY <1>1, SocketsSame
<1>4. Rowed' /\ Door!OneAckEach'
  BY <1>1 DEF Rowed, Door!OneAckEach
<1>5. BirthsKept'
  <2> SUFFICES ASSUME jumps = 0, NEW ip \in Address, NEW b \in made[ip]
      PROVE  b.at <= doorClock + 1 /\ (b.at > (doorClock + 1) - NewCharWindow => b \in newCharsPerIp[ip])
    <3>1. doorClock' = doorClock + 1 /\ UNCHANGED <<jumps, newCharsPerIp, made>>
      BY <1>1
    <3>2. \A ip \in Address : IsFiniteSet(made'[ip]) /\ IsFiniteSet(newCharsPerIp'[ip])
      BY <3>1 DEF BirthsKept
    <3>3. jumps = 0 => \A ip \in Address, t \in Nat : Cardinality(InWindow(made[ip], t)) <= NewCharsPerIp
      BY DEF BirthsKept
    <3>4. \A ip \in Address, t \in Nat : InWindow(made'[ip], t) = InWindow(made[ip], t)
      BY <3>1
    <3>5. ASSUME jumps = 0, NEW ip \in Address,
                 \A b \in made[ip] : b.at <= doorClock + 1 /\ (b.at > (doorClock + 1) - NewCharWindow => b \in newCharsPerIp[ip])
          PROVE  /\ \A b \in made'[ip] : b.at <= doorClock' /\ (b.at > doorClock' - NewCharWindow => b \in newCharsPerIp'[ip])
                 /\ \A t \in Nat : Cardinality(InWindow(made'[ip], t)) <= NewCharsPerIp
      <4>1. \A b \in made'[ip] : b.at <= doorClock' /\ (b.at > doorClock' - NewCharWindow => b \in newCharsPerIp'[ip])
        BY <3>1, <3>5
      <4>2. ASSUME NEW t \in Nat PROVE Cardinality(InWindow(made'[ip], t)) <= NewCharsPerIp
        <5>1. Cardinality(InWindow(made[ip], t)) <= NewCharsPerIp
          BY <3>3, <3>5
        <5>2. InWindow(made'[ip], t) = InWindow(made[ip], t)
          BY <3>4
        <5> QED BY <5>1, <5>2
      <4> QED BY <4>1, <4>2
    <3> HIDE DEF InWindow
    <3> QED BY <3>1, <3>2, <3>5 DEF BirthsKept
  <2>1. b.at \in Nat /\ doorClock \in Nat /\ NewCharWindow \in Nat
    BY DoorConstants DEF DoorTypes, Births
  <2> QED BY <2>1 DEF BirthsKept
<1>6. YellsKept'
  <2> SUFFICES ASSUME jumps = 0, NEW p \in Char, sess[p] # Door!NoSession
      PROVE  /\ sess[p].at <= doorClock + 1 /\ (doorClock + 1) - sess[p].at <= passed[p] + 1
             /\ sess[p].yell + yelled[p] * Per["yell"]
                  <= Door!Full("yell") + ((passed[p] + 1) - ((doorClock + 1) - sess[p].at)) * Cap["yell"]
    BY <1>1 DEF YellsKept, Door!Full
  <2>1. sess[p].at \in Nat /\ doorClock \in Nat /\ passed[p] \in Nat
    BY DEF DoorTypes, SessionSet
  <2>2. (passed[p] + 1) - ((doorClock + 1) - sess[p].at) = passed[p] - (doorClock - sess[p].at)
    BY <2>1
  <2> QED BY <2>1, <2>2 DEF YellsKept
<1> QED BY <1>2, <1>3, <1>4, <1>5, <1>6

LEMMA JumpBackOK == ASSUME DoorInv, Door!JumpBack PROVE DoorInv'
<1> USE DEF DoorInv
<1>1. /\ jumps' = jumps + 1 /\ doorClock' \in 0 .. doorClock - 1
      /\ UNCHANGED <<state, frames, seenAt, bound, socketsPerIp, known, newCharsPerIp, made, sess, asked, acked, yelled, passed>>
  BY DEF Door!JumpBack, Door!door, Door!births, Door!history
<1>2. DoorTypes' /\ jumps' # 0
  BY <1>1 DEF DoorTypes
<1>3. Door!SocketsAreCounted'
  BY <1>1, SocketsSame
<1>4. Rowed' /\ Door!OneAckEach' /\ BirthsKept' /\ YellsKept'
  BY <1>1, <1>2 DEF Rowed, Door!OneAckEach, BirthsKept, YellsKept
<1> QED BY <1>2, <1>3, <1>4

LEMMA DoorStutters ==
  ASSUME DoorInv, UNCHANGED <<doorClock, jumps, state, frames, seenAt, bound, socketsPerIp,
                              newCharsPerIp, known, sess, asked, acked, yelled, passed, made>>
  PROVE  DoorInv'
  BY SocketsSame, BirthsSame, YellsSame DEF DoorInv, DoorTypes, Rowed, Door!OneAckEach

LEMMA DoorNextOK == ASSUME DoorInv, Door!Next PROVE DoorInv'
<1>1. CASE \E c \in Conn : \/ Door!Connect(c) \/ Door!CloseEvent(c) \/ Door!Flooding(c)
                          \/ Door!HelloNew(c) \/ Door!Pong(c) \/ Door!FallSilent(c)
  <2> SUFFICES ASSUME NEW c \in Conn, \/ Door!Connect(c) \/ Door!CloseEvent(c) \/ Door!Flooding(c)
                                      \/ Door!HelloNew(c) \/ Door!Pong(c) \/ Door!FallSilent(c)
      PROVE  DoorInv'
    BY <1>1
  <2>1. CASE Door!FallSilent(c)
    BY <2>1, DoorStutters DEF Door!FallSilent, Door!times, Door!door, Door!births, Door!history
  <2> QED BY <2>1, ConnectOK, CloseEventOK, FloodingOK, HelloNewOK, PongOK
<1>2. CASE \E c \in Conn, p \in Char : Door!HelloKnown(c, p)
  BY <1>2, HelloKnownOK
<1>3. CASE \E c \in Conn, kind \in {"say", "yell", "resync"}, text \in {"refused", "fine"} :
             Door!Action(c, kind, text)
  BY <1>3, ActionOK
<1>4. CASE \E p \in Char : Door!GraceEnds(p)
  BY <1>4, GraceEndsOK
<1>5. CASE Door!Beat \/ Door!Tick \/ Door!JumpBack
  BY <1>5, BeatOK, DoorTickOK, JumpBackOK
<1> QED BY <1>1, <1>2, <1>3, <1>4, <1>5 DEF Door!Next

LEMMA DoorCounts == DoorInv => DoorKeepsCount
<1> SUFFICES ASSUME DoorInv PROVE DoorKeepsCount
  OBVIOUS
<1>1. Door!TypeOK
  BY DEF Door!TypeOK, DoorInv, DoorTypes, SessionSet
<1>2. Door!NewCharsAreBounded
  <2> SUFFICES ASSUME NEW ip \in Address, NEW t \in 0 .. DoorClock, jumps = 0
      PROVE  Cardinality({b \in made[ip] : b.at > t - NewCharWindow /\ b.at <= t}) <= NewCharsPerIp
    BY DoorCardinality DEF Door!NewCharsAreBounded
  <2>1. t \in Nat
    OBVIOUS
  <2> QED BY <2>1 DEF DoorInv, BirthsKept, InWindow
<1>3. Door!YellsArePaid
  <2> SUFFICES ASSUME NEW p \in Char, sess[p] # Door!NoSession, jumps = 0
      PROVE  sess[p].yell + yelled[p] * Per["yell"] <= Door!Full("yell") + passed[p] * Cap["yell"]
    BY DEF Door!YellsArePaid
  <2> DEFINE dt == doorClock - sess[p].at
             K == passed[p]
             C == Cap["yell"]
             F == Door!Full("yell")
             L == sess[p].yell + yelled[p] * Per["yell"]
  <2>1. dt \in Nat /\ K \in Nat /\ L <= F + (K - dt) * C
    BY DEF DoorInv, YellsKept, DoorTypes, SessionSet
  <2>2. C \in Nat /\ F \in Nat /\ L \in Int
    <3>1. Per["yell"] \in Nat /\ C \in Nat /\ F \in Nat
      BY FullType DEF Door!Bucket
    <3>2. yelled[p] \in Nat /\ sess[p].yell \in Int
      BY DEF DoorInv, DoorTypes, SessionSet
    <3> QED BY <3>1, <3>2
  <2> HIDE DEF dt, K, C, F, L
  <2>3. (K - dt) * C + dt * C = K * C /\ dt * C \in Nat /\ K * C \in Nat /\ (K - dt) * C \in Int
    BY <2>1, <2>2, Products
  <2>4. L <= F + K * C
    BY <2>1, <2>2, <2>3
  <2> QED BY <2>4 DEF L, F, K, C
<1> QED BY <1>1, <1>2, <1>3 DEF DoorKeepsCount, DoorInv

(* The door's counts for any sockets, addresses, characters, limits,       *)
(* buckets and jumps of the clock: sockets until their close event, births *)
(* per window whatever the heartbeat sweeps, yells against the time that   *)
(* has passed, one ack for every action (server.ts:196-222,                *)
(* handlers.ts:385-400).                                                   *)
THEOREM DoorAlwaysKeepsCount == PlayersSpec => []DoorKeepsCount
<1>1. PlayersInit => DoorInv
  BY DoorInitOK DEF PlayersInit
<1>2. DoorInv /\ [PlayersNext]_<<vars, doorVars, part>> => DoorInv'
  <2>1. CASE UNCHANGED doorVars
    BY <2>1, DoorStutters DEF doorVars
  <2> QED BY <2>1, DoorNextOK DEF PlayersNext
<1>3. DoorInv => DoorKeepsCount
  BY DoorCounts
<1> QED BY <1>1, <1>2, <1>3, PTL DEF PlayersSpec
=============================================================================
