-------------------------------- MODULE Pregen --------------------------------
(* Writing the world's first sentences before anybody reads them             *)
(* (tools/pregen.ts, narration/authored.ts), on the server's own queue, while *)
(* the server may be running on the same database: the run is started again   *)
(* until it says that nothing is left.  Upgrade has the queue in detail; here *)
(* a key is pushed once and the worker's answer ends it.                      *)
EXTENDS Integers, FiniteSets, Sequences

CONSTANTS
  Room, Line,       \* rooms; open topics of NPCs
  Order,            \* all of them, rooms first: the order of the run
  Sensitive,        \* those whose text depends on the flag
  Bank,             \* keys with a sentence in content/authored
  Queues,           \* the queues it may run with: [maxPending, concurrency]
  Limits,           \* the values of --limit tried; NoLimit is none
  MaxFlips, MaxRuns \* bounds: changes of the flag, runs of the tool

Slot == Room \cup Line
NoLimit == 0
Value == {"on", "off", "any"}
Key == {k \in Slot \X Value : (k[2] = "any") <=> (k[1] \notin Sensitive)}
PregenAssumption ==
  /\ Room \cap Line = {} /\ Sensitive \subseteq Slot /\ Bank \subseteq Key
  /\ IsFiniteSet(Slot) /\ Order \in Seq(Slot) /\ {Order[i] : i \in DOMAIN Order} = Slot
  /\ \A i, j \in DOMAIN Order : Order[i] = Order[j] => i = j
  /\ Queues \subseteq [maxPending : Nat \ {0}, concurrency : Nat \ {0}]
  /\ {MaxFlips, MaxRuns} \subseteq Nat /\ Limits \subseteq Nat

Idle == [step |-> "idle"]
VARIABLES
  row,      \* row[k] : "none", "fallback", or the source of a settled text
  flag,     \* world_flags
  job,      \* the run under way, or Idle
  exit,     \* the exit code of the last run, -1 when it was killed or none was yet
  ran,      \* history: the last run's record
  flips, runs
vars == <<row, flag, job, exit, ran, flips, runs>>

KeyOf(s, f) == <<s, IF s \in Sensitive THEN f ELSE "any">>
Settled(r) == r \in {"llm", "authored"}
Leftover == Cardinality({k \in Key : k[1] \in Room /\ row[k] = "fallback"})

\* What --dry-run counts: the places of now without a settled text.
Planned(rows, f) == {s \in Slot : ~ Settled(rows[KeyOf(s, f)])}

\* --redo: of a place with a sentence written by hand every other text goes,
\* in every state of the flags.
DropStaleAuthoredSlots(rows) ==
  [k \in Key |-> IF (\E b \in Bank : b[1] = k[1]) /\ rows[k] # "authored" THEN "none" ELSE rows[k]]
-----------------------------------------------------------------------------
(* A run *)

Start(mode, limit, redo, queue) ==
  /\ job = Idle /\ runs < MaxRuns /\ runs' = runs + 1
  /\ redo => mode = "authored"
  /\ row' = IF redo THEN DropStaleAuthoredSlots(row) ELSE row
  /\ job' = [step |-> "fill", mode |-> mode, limit |-> limit, queue |-> queue, flag |-> flag, next |-> 1,
             pending |-> <<>>, running |-> {}, queued |-> {}, done |-> 0, failed |-> 0,
             planned |-> Cardinality(Planned(row', flag))]
  /\ UNCHANGED <<flag, exit, ran, flips>>

HasRoom == job.limit = NoLimit \/ Cardinality(job.queued) < job.limit
Pumped(j) ==
  LET free == j.queue.concurrency - Cardinality(j.running)
      n == IF Len(j.pending) < free THEN Len(j.pending) ELSE free
  IN [j EXCEPT !.running = @ \cup {j.pending[i] : i \in 1 .. n}, !.pending = SubSeq(@, n + 1, Len(@))]
\* A full queue takes nothing, silently.
Pushed(j, k) ==
  IF Len(j.pending) >= j.queue.maxPending THEN j
  ELSE Pumped([j EXCEPT !.pending = Append(@, k), !.queued = @ \cup {k}])

Filling == job # Idle /\ job.step = "fill"
\* Mutant: the upgrade is pushed before its row is there.
FillUnawaited ==
  /\ Filling /\ job.next <= Len(Order) /\ HasRoom
  /\ LET k == KeyOf(Order[job.next], job.flag)
     IN /\ job' = Pushed([job EXCEPT !.next = @ + 1], k)
        /\ row' = row
  /\ UNCHANGED <<flag, exit, ran, flips, runs>>
\* The next place: its fallback row is written and waited for, and only then
\* its upgrade is pushed; a queue that is full refuses it.
Fill ==
  /\ Filling /\ job.next <= Len(Order) /\ HasRoom
  /\ LET k == KeyOf(Order[job.next], job.flag)
         rows == IF row[k] = "none" THEN [row EXCEPT ![k] = "fallback"] ELSE row
         j == [job EXCEPT !.next = @ + 1]
     IN /\ row' = rows
        /\ job' = IF rows[k] = "fallback" THEN Pushed(j, k) ELSE j
  /\ UNCHANGED <<flag, exit, ran, flips, runs>>
Filled ==
  /\ Filling /\ (job.next > Len(Order) \/ ~ HasRoom)
  /\ job' = [job EXCEPT !.step = "idle()"]
  /\ UNCHANGED <<row, flag, exit, ran, flips, runs>>

\* The renderer of the run: the model, which may fail, or what is written by
\* hand for exactly these flags; the fallback it hands on is a failure.
Rendered(k) ==
  IF job.mode = "authored" THEN {IF k \in Bank THEN "authored" ELSE "fallback"}
  ELSE {"llm", "fallback"}
Work(k) ==
  /\ job # Idle /\ k \in job.running
  /\ LET j == [job EXCEPT !.running = @ \ {k}]
     IN IF row[k] # "fallback"    \* settled by someone else, or not there
        THEN job' = Pumped([j EXCEPT !.done = @ + 1]) /\ UNCHANGED row
        ELSE \E source \in Rendered(k) :
               IF source = "fallback" THEN job' = Pumped([j EXCEPT !.failed = @ + 1]) /\ UNCHANGED row
               ELSE row' = [row EXCEPT ![k] = source] /\ job' = Pumped([j EXCEPT !.done = @ + 1])
  /\ UNCHANGED <<flag, exit, ran, flips, runs>>

\* A trial run fails when something failed; a whole run also when a fallback is
\* left in room_text.
Code(j) == IF j.failed > 0 \/ (j.limit = NoLimit /\ Leftover > 0) THEN 1 ELSE 0
Finish ==
  /\ job # Idle /\ job.step = "idle()" /\ job.pending = <<>> /\ job.running = {}
  /\ exit' = Code(job) /\ ran' = job /\ job' = Idle
  /\ UNCHANGED <<row, flag, flips, runs>>
Kill ==
  /\ job # Idle /\ job' = Idle /\ exit' = -1 /\ ran' = Idle
  /\ UNCHANGED <<row, flag, flips, runs>>
-----------------------------------------------------------------------------
(* The server on the same database *)

\* A first reader; the server that runs beside the tool has no model.
Visit(s) ==
  /\ row[KeyOf(s, flag)] = "none"
  /\ row' = [row EXCEPT ![KeyOf(s, flag)] = "fallback"]
  /\ UNCHANGED <<flag, job, exit, ran, flips, runs>>
Flip ==
  /\ flips < MaxFlips /\ flips' = flips + 1
  /\ flag' = IF flag = "on" THEN "off" ELSE "on"
  /\ UNCHANGED <<row, job, exit, ran, runs>>

Init ==
  /\ row = [k \in Key |-> "none"] /\ flag = "off"
  /\ job = Idle /\ exit = -1 /\ ran = Idle /\ flips = 0 /\ runs = 0
Next ==
  \/ \E mode \in {"llm", "authored"}, limit \in Limits, redo \in BOOLEAN, queue \in Queues :
       Start(mode, limit, redo, queue)
  \/ Fill \/ Filled \/ (\E k \in Key : Work(k)) \/ Finish \/ Kill
  \/ (\E s \in Slot : Visit(s)) \/ Flip
Spec == Init /\ [][Next]_vars
-----------------------------------------------------------------------------
(* Properties *)

Ended == ran # Idle /\ job = Idle
Whole == Ended /\ ran.limit = NoLimit

TypeOK ==
  /\ row \in [Key -> {"none", "fallback", "llm", "authored"}] /\ exit \in {-1, 0, 1}
  /\ job # Idle => /\ job.running \subseteq job.queued /\ Cardinality(job.running) <= job.queue.concurrency
                   /\ Len(job.pending) <= job.queue.maxPending

\* pregen.ts:15: safe to run any number of times: a settled sentence stays,
\* except for places with one written by hand, which --redo clears
\* (pregen.ts:265: texts of other places are paid for).
SettledStep ==
  \A k \in Key : Settled(row[k]) =>
    row'[k] = row[k] \/ (row[k] = "llm" /\ \E b \in Bank : b[1] = k[1])
SettledStays == [][SettledStep]_vars

\* pregen.ts:11: a run that ends has not just laid out fallbacks: what it says
\* is done is settled, and the rest of what it pushed has failed.
DoneIsSettled ==
  Ended => /\ ran.done + ran.failed = Cardinality(ran.queued)
           /\ ran.done <= Cardinality({k \in ran.queued : Settled(row[k])})

\* test/deploy.ts:924: the plan of --dry-run is what a whole run pushes, when
\* the queue has room for all of it.
PlanIsWork ==
  Whole /\ Cardinality(Slot) <= ran.queue.maxPending => ran.planned = Cardinality(ran.queued)

\* pregen.ts:385: a whole run that exits with 0 has left no room, in the flags
\* it was started with, to the fallback.
RoomsAreDone == Whole /\ exit = 0 => \A s \in Room : Settled(row[KeyOf(s, ran.flag)])

\* The same of everything it writes, lines of NPCs included.
ExitZeroMeansDone == Whole /\ exit = 0 => \A s \in Slot : Settled(row[KeyOf(s, ran.flag)])

\* pregen.ts:388: what is left is what the next run retries.
LeftoversAreRetried ==
  Whole /\ exit = 1 /\ flag = ran.flag =>
    \A k \in Key : row[k] = "fallback" /\ k[1] \in Room => k = KeyOf(k[1], flag)
=============================================================================
