------------------------------ MODULE Upgrade ------------------------------
(* The sentences of the world: room descriptions and NPC lines, each keyed *)
(* by what it describes and by the values of the flags it is sensitive to. *)
(* A first reader gets a deterministic fallback at once (roomText.ts,      *)
(* npcText.ts); a queue of background jobs asks the renderer for the final *)
(* sentence (upgrade.ts, queue.ts), and the lines already on the readers'  *)
(* pages are replaced.  A world flag that changes (events.ts) changes the  *)
(* keys.  One flag and one place are modelled.  A step is what the event   *)
(* loop runs without waiting: the microtasks that follow belong to it.     *)
EXTENDS Naturals, FiniteSets, SequencesExt

CONSTANTS
  Session,        \* players
  Target,         \* what can be described: the room and the topics of its NPC
  RoomTarget,     \* the one that is the room itself
  Sensitive,      \* the targets that declare the flag in sensitive_flags
  Locked,         \* the topics that open when the flag is on
  Concurrency, MaxPending, MaxAttempts, MaxWatchers,
  MaxEpochs,      \* bound: connections of a session
  MaxLines,       \* bound: lines on a page
  OtherProcess    \* the keys whose rows another process also settles

ASSUME UpgradeAssumption ==
  /\ IsFiniteSet(Session) /\ IsFiniteSet(Target)
  /\ RoomTarget \in Target /\ Sensitive \subseteq Target
  /\ Locked \subseteq Target \ {RoomTarget}
  /\ Concurrency \in Nat \ {0} /\ MaxPending \in Nat \ {0}
  /\ MaxAttempts \in Nat \ {0} /\ MaxWatchers \in Nat \ {0}
  /\ MaxEpochs \in Nat \ {0} /\ MaxLines \in Nat \ {0}
  /\ OtherProcess \subseteq Target \X {"on", "off", "any"}

VARIABLES
  phase,      \* "up", "stopping" (upgrades stopped) or "down" (database closed)
  flagRow,    \* world_flags: what the database holds
  flag,       \* World.flags: what the process holds
  row,        \* room_text and npc_lines, by key
  filling,    \* the services' inflight maps: a first rendering under way
  chain,      \* Session.chain: room descriptions asked for and not begun
  queued, running, attempts, cooling,   \* queue.ts
  targets, watchers,                    \* upgrade.ts
  at,         \* at[s] : whether s stands in the place
  epoch,      \* Session.connId
  page        \* page[s] : the lines on the client's screen

textVars == <<row, filling>>
queueVars == <<queued, running, attempts, cooling>>
watchVars == <<targets, watchers>>
readerVars == <<chain, at, epoch, page>>
vars == <<phase, flagRow, flag, textVars, queueVars, watchVars, readerVars>>

Value == {"on", "off", "any"}
Key == {k \in Target \X Value : (k[2] = "any") <=> (k[1] \notin Sensitive)}
None == [source |-> "none"]
Idle == "idle"

(* World.projectFlags and stateHash: only the declared flags count. *)
Projected(t, f) == IF t \notin Sensitive THEN "any" ELSE IF f THEN "on" ELSE "off"
KeyOf(t) == <<t, Projected(t, flag)>>
Settled(r) == r.source = "final"

(* The row of a fallback or final sentence rendered from the flags v. *)
Row(v, pre, source) == [text |-> v, pre |-> pre, source |-> source]

GivenUp(k) == attempts[k] = MaxAttempts
Active(k) == k \in ToSet(queued) \/ running[k] # Idle
Line(id, k, r) == [id |-> id, key |-> k, text |-> r.text, source |-> r.source]
-----------------------------------------------------------------------------
(* The queue, as a record so that several keys can be pushed in one step.  *)
Queue == [queued |-> queued, running |-> running, cooling |-> cooling,
          targets |-> targets, published |-> {}]

Running(q) == {k \in Key : q.running[k] # Idle}

(* How many keys pump takes off the queue: a key whose row is already      *)
(* settled is published at once and leaves its slot.                       *)
Unsettled(q, rows, n) == Cardinality({i \in 1..n : ~Settled(rows[q.queued[i]])})
Taken(q, rows) ==
  LET free == Concurrency - Cardinality(Running(q))
  IN  Max({0} \cup {n \in 1..Len(q.queued) : Unsettled(q, rows, n - 1) < free})

Pump(q, rows) ==
  LET took == {q.queued[i] : i \in 1..Taken(q, rows)}
      jobs == {k \in took \cap q.targets : rows[k].source = "fallback"}
  IN  [q EXCEPT !.queued = SubSeq(@, Taken(q, rows) + 1, Len(@)),
                !.running = [k \in Key |-> IF k \in jobs THEN rows[k].pre ELSE @[k]],
                !.published = @ \cup {k \in took \cap q.targets : Settled(rows[k])}]

(* queue.push: whether it accepts k, and what it does then. *)
Accepts(q, k) ==
  /\ phase = "up" /\ ~GivenUp(k) /\ k \notin q.cooling
  /\ k \notin ToSet(q.queued) /\ q.running[k] = Idle /\ Len(q.queued) < MaxPending

Push(q, k, rows) ==
  LET named == [q EXCEPT !.targets = @ \cup {k}]
  IN  IF Accepts(q, k) THEN Pump([named EXCEPT !.queued = Append(@, k)], rows)
      ELSE IF k \in ToSet(q.queued) \/ q.running[k] # Idle THEN named
      ELSE [q EXCEPT !.targets = @ \ {k}]

\* One after another.
Pushed(q, keys, rows) ==
  LET after[n \in 0..Len(keys)] == IF n = 0 THEN q ELSE Push(after[n - 1], keys[n], rows)
  IN  after[Len(keys)]

(* publish: everyone still on the page of the line sees the settled text.  *)
Watching(seen, k, s, id) == [s |-> s, epoch |-> epoch[s], id |-> id] \in ToSet(seen[k])
Shown(l, s, keys, rows, seen) ==
  IF \E k \in keys : Watching(seen, k, s, l.id)
  THEN LET k == CHOOSE k \in keys : Watching(seen, k, s, l.id) IN Line(l.id, k, rows[k])
  ELSE l
Replaced(pg, keys, rows, seen) ==
  [s \in Session |-> {Shown(l, s, keys, rows, seen) : l \in pg[s]}]

Forgotten(seen, keys) == [k \in Key |-> IF k \in keys THEN <<>> ELSE seen[k]]

(* The queue record becomes the state; what it published is forgotten. *)
Commit(q, rows, seen, pg) ==
  /\ queued' = q.queued /\ running' = q.running /\ cooling' = q.cooling
  /\ targets' = q.targets \ q.published
  /\ watchers' = Forgotten(seen, q.published)
  /\ page' = Replaced(pg, q.published, rows, seen)
-----------------------------------------------------------------------------
(* Delivery: the line goes to the log, and while it is a fallback the page *)
(* watches it, if the queue works on the key and the list is not full.     *)
NewId(s) == <<epoch[s], Cardinality(page[s]) + 1>>
Delivered(readers, k, r) ==
  [s \in Session |-> page[s] \cup IF s \in readers THEN {Line(NewId(s), k, r)} ELSE {}]

Watcher(s) == [s |-> s, epoch |-> epoch[s], id |-> NewId(s)]
Watched(readers, k, seen) ==
  LET more == SetToSeq({Watcher(s) : s \in readers})
      room == MaxWatchers - Len(seen[k])
  IN  [seen EXCEPT ![k] = @ \o SubSeq(more, 1, IF Len(more) < room THEN Len(more) ELSE room)]

Deliver(readers, k, rows) ==
  LET r == rows[k]
      q == IF r.source = "fallback" /\ readers # {} THEN Push(Queue, k, rows) ELSE Queue
      waits == r.source = "fallback" /\ (k \in ToSet(q.queued) \/ q.running[k] # Idle)
  IN  Commit(q, rows, IF waits THEN Watched(readers, k, watchers) ELSE watchers,
             Delivered(readers, k, r))

(* A reader asks a text service for a target: the row is read, or a first  *)
(* rendering begins, or the one under way is joined.                       *)
Reader(s) == [s |-> s, epoch |-> epoch[s]]
Ask(s, t) ==
  LET k == KeyOf(t)
  IN  \/ /\ row[k] # None
         /\ Deliver(IF at[s] THEN {s} ELSE {}, k, row)
         /\ UNCHANGED <<textVars, attempts>>
      \/ /\ row[k] = None
         /\ filling' = [filling EXCEPT ![k] =
              IF filling[k] = None
              THEN [source |-> "fill", pre |-> Projected(t, flag),
                    readers |-> {Reader(s)}, enqueue |-> FALSE]
              ELSE [filling[k] EXCEPT !.readers = @ \cup {Reader(s)}]]
         /\ UNCHANGED <<row, queueVars, watchVars, page>>

Reading(s, t) == \E k \in Key : k[1] = t /\ filling[k] # None /\ Reader(s) \in filling[k].readers
Readable(s) == epoch[s] > 0 /\ phase = "up" /\ Cardinality(page[s]) < MaxLines

(* doMove and doLook: the description is asked for on the session's chain. *)
Enter(s) ==
  /\ epoch[s] > 0 /\ phase = "up" /\ Len(chain[s]) = 0
  /\ at' = [at EXCEPT ![s] = TRUE]
  /\ chain' = [chain EXCEPT ![s] = Append(@, epoch[s])]
  /\ UNCHANGED <<phase, flagRow, flag, textVars, queueVars, watchVars, epoch, page>>

(* enqueueRoomText: the next link of the chain, when the last one ended. *)
Describe(s) ==
  /\ chain[s] # <<>> /\ Readable(s) /\ ~Reading(s, RoomTarget)
  /\ chain' = [chain EXCEPT ![s] = Tail(@)]
  /\ IF Head(chain[s]) = epoch[s] THEN Ask(s, RoomTarget)
     ELSE UNCHANGED <<textVars, queueVars, watchVars, page>>
  /\ UNCHANGED <<phase, flagRow, flag, at, epoch>>

(* dialogue.talk and ask: the NPC stands here and the topic is open. *)
Open(t, f) == t \notin Locked \/ f
AskTopic(s, t) ==
  /\ Readable(s) /\ at[s] /\ Open(t, flag) /\ ~Reading(s, t)
  /\ Ask(s, t)
  /\ UNCHANGED <<phase, flagRow, flag, chain, at, epoch>>

Walk(s) ==
  /\ epoch[s] > 0 /\ phase = "up" /\ at[s]
  /\ at' = [at EXCEPT ![s] = FALSE]
  /\ UNCHANGED <<phase, flagRow, flag, textVars, queueVars, watchVars, chain, epoch, page>>

(* A reload or a takeover: a new epoch, and an empty log. *)
Reload(s) ==
  /\ phase = "up" /\ epoch[s] < MaxEpochs
  /\ epoch' = [epoch EXCEPT ![s] = @ + 1]
  /\ page' = [page EXCEPT ![s] = {}]
  /\ UNCHANGED <<phase, flagRow, flag, textVars, queueVars, watchVars, chain, at>>
-----------------------------------------------------------------------------
\* Mutant: the check after the await is missing.
PresentAnywhere(k) ==
  {s \in Session : /\ Reader(s) \in filling[k].readers /\ epoch[s] > 0
                   /\ Cardinality(page[s]) < MaxLines}

(* load, after the rendering: insert if absent, read again, and hand the   *)
(* row to those who wait and are still there on the same connection.       *)
Present(k) ==
  {s \in Session : /\ Reader(s) \in filling[k].readers /\ epoch[s] > 0
                   /\ at[s] /\ Cardinality(page[s]) < MaxLines}
\* Mutant: the row of another process is overwritten (INSERT OR REPLACE).
FillSettlesOver(k) ==
  /\ filling[k] # None
  /\ filling' = [filling EXCEPT ![k] = None]
  /\ row' = [row EXCEPT ![k] = Row(filling[k].pre, filling[k].pre, "fallback")]
  /\ Deliver(Present(k), k, row')
  /\ UNCHANGED <<attempts, phase, flagRow, flag, chain, at, epoch>>

FillSettles(k) ==
  LET rows == IF row[k] = None
              THEN [row EXCEPT ![k] = Row(filling[k].pre, filling[k].pre, "fallback")]
              ELSE row
      push == filling[k].enqueue /\ (Present(k) = {} \/ Settled(rows[k]))
  IN  /\ filling[k] # None
      /\ filling' = [filling EXCEPT ![k] = None]
      /\ IF phase = "down"
         THEN UNCHANGED <<row, queueVars, watchVars, page>>
         ELSE /\ row' = rows
              /\ IF push THEN Commit(Push(Queue, k, rows), rows, watchers,
                                     Delivered(Present(k), k, rows[k]))
                 ELSE Deliver(Present(k), k, rows)
              /\ UNCHANGED attempts
      /\ UNCHANGED <<phase, flagRow, flag, chain, at, epoch>>

(* pregenerate: what setFlag does for one target that the flag touches.    *)
Pregenerated == {t \in Sensitive : Open(t, flag')}
SetFlag ==
  LET key(t) == <<t, Projected(t, flag')>>
      fill == {key(t) : t \in {u \in Pregenerated : row[key(u)] = None}}
      push == {key(t) : t \in {u \in Pregenerated : row[key(u)].source = "fallback"}}
      q == Pushed(Queue, SetToSeq(push), row)
  IN  /\ phase = "up"
      /\ flag' = ~flag /\ flagRow' = flag'
      /\ filling' = [k \in Key |->
           IF k \notin fill THEN filling[k]
           ELSE IF filling[k] = None
           THEN [source |-> "fill", pre |-> k[2], readers |-> {}, enqueue |-> TRUE]
           ELSE [filling[k] EXCEPT !.enqueue = TRUE]]
      /\ Commit(q, row, watchers, page)
      /\ UNCHANGED <<phase, row, attempts, chain, at, epoch>>

(* The statement fails: setFlag throws, and the flag stays as it was. *)
SetFlagFails == /\ phase = "up" /\ UNCHANGED vars

(* upgrade, after the rendering: a final sentence is written over the      *)
(* fallback, whatever the row holds then is published; a fallback counts   *)
(* as a failure.  The flags are those of the row, not of the world.        *)
Ended(k) == [Queue EXCEPT !.running[k] = Idle]
\* Mutant: rendered from the flags of the world of now.
JobSucceedsNow(k) ==
  LET rows == IF Settled(row[k]) THEN row
              ELSE [row EXCEPT ![k] = Row(Projected(k[1], flag), @.pre, "final")]
      q == [Ended(k) EXCEPT !.published = {k}]
  IN  /\ running[k] # Idle /\ phase = "up"
      /\ row' = rows
      /\ attempts' = [attempts EXCEPT ![k] = 0]
      /\ Commit(Pump(q, rows), rows, watchers, page)
      /\ UNCHANGED <<phase, flagRow, flag, filling, chain, at, epoch>>

JobSucceeds(k) ==
  LET rows == IF Settled(row[k]) THEN row
              ELSE [row EXCEPT ![k] = Row(running[k], @.pre, "final")]
      q == [Ended(k) EXCEPT !.published = {k}]
  IN  /\ running[k] # Idle /\ phase = "up"
      /\ row' = rows
      /\ attempts' = [attempts EXCEPT ![k] = 0]
      /\ Commit(Pump(q, rows), rows, watchers, page)
      /\ UNCHANGED <<phase, flagRow, flag, filling, chain, at, epoch>>

\* Mutant: the end of a failed job does not start the next one.
JobFailsQuiet(k) ==
  /\ running[k] # Idle /\ phase = "up"
  /\ attempts' = [attempts EXCEPT ![k] = @ + 1]
  /\ Commit(Ended(k), row, watchers, page)
  /\ UNCHANGED <<phase, flagRow, flag, textVars, chain, at, epoch>>

JobFails(k) ==
  /\ running[k] # Idle /\ phase = "up"
  /\ attempts' = [attempts EXCEPT ![k] = @ + 1]
  /\ Commit(Pump([Ended(k) EXCEPT !.cooling =
                    IF attempts[k] + 1 < MaxAttempts THEN @ \cup {k} ELSE @], row),
            row, watchers, page)
  /\ UNCHANGED <<phase, flagRow, flag, textVars, chain, at, epoch>>

(* A job that ends after the stop touches nothing. *)
JobDropped(k) ==
  /\ running[k] # Idle /\ phase # "up"
  /\ running' = [running EXCEPT ![k] = Idle]
  /\ UNCHANGED <<phase, flagRow, flag, textVars, queued, attempts, cooling, watchVars, readerVars>>

JobEnds(k) == JobSucceeds(k) \/ JobFails(k) \/ JobDropped(k)

CooldownEnds(k) ==
  /\ k \in cooling /\ cooling' = cooling \ {k}
  /\ UNCHANGED <<phase, flagRow, flag, textVars, queued, running, attempts, watchVars, readerVars>>

(* tools/pregen writes rows of the same database from its own process. *)
Elsewhere(k) ==
  /\ k \in OtherProcess /\ phase = "up" /\ ~Settled(row[k])
  /\ row' = [row EXCEPT ![k] = Row(k[2], k[2], "final")]
  /\ UNCHANGED <<phase, flagRow, flag, filling, queueVars, watchVars, readerVars>>
-----------------------------------------------------------------------------
(* close: the queue stops first, the database is closed last. *)
Stop ==
  /\ phase = "up" /\ phase' = "stopping"
  /\ queued' = <<>> /\ targets' = {} /\ watchers' = [k \in Key |-> <<>>]
  /\ UNCHANGED <<flagRow, flag, textVars, running, attempts, cooling, readerVars>>

CloseDatabase ==
  /\ phase = "stopping" /\ phase' = "down"
  /\ UNCHANGED <<flagRow, flag, textVars, queueVars, watchVars, readerVars>>

(* A start, after a stop or a crash: memory is empty, flags are loaded.    *)
Fresh ==
  /\ filling' = [k \in Key |-> None] /\ queued' = <<>>
  /\ running' = [k \in Key |-> Idle] /\ attempts' = [k \in Key |-> 0]
  /\ cooling' = {} /\ targets' = {} /\ watchers' = [k \in Key |-> <<>>]
  /\ chain' = [s \in Session |-> <<>>] /\ at' = [s \in Session |-> FALSE]
  /\ epoch' = [s \in Session |-> 0] /\ page' = [s \in Session |-> {}]
Boot ==
  /\ \E k \in Key : row[k] # None
  /\ phase' = "up" /\ flag' = flagRow /\ Fresh /\ UNCHANGED <<flagRow, row>>

Init ==
  /\ phase = "up" /\ flag = FALSE /\ flagRow = FALSE
  /\ row = [k \in Key |-> None] /\ filling = [k \in Key |-> None]
  /\ queued = <<>> /\ running = [k \in Key |-> Idle] /\ attempts = [k \in Key |-> 0]
  /\ cooling = {} /\ targets = {} /\ watchers = [k \in Key |-> <<>>]
  /\ chain = [s \in Session |-> <<>>] /\ at = [s \in Session |-> FALSE]
  /\ epoch = [s \in Session |-> 0] /\ page = [s \in Session |-> {}]

Next ==
  \/ SetFlag \/ SetFlagFails \/ Stop \/ CloseDatabase \/ Boot
  \/ \E s \in Session : Enter(s) \/ Describe(s) \/ Walk(s) \/ Reload(s)
  \/ \E s \in Session, t \in Target \ {RoomTarget} : AskTopic(s, t)
  \/ \E k \in Key : FillSettles(k) \/ JobEnds(k) \/ CooldownEnds(k) \/ Elsewhere(k)

Spec == Init /\ [][Next]_vars

(* The event loop runs what is ready; a rendering ends (narration/llm.ts   *)
(* bounds a call by a timeout), and so does a cooldown.                    *)
Fairness == \A k \in Key : WF_vars(FillSettles(k)) /\ WF_vars(JobEnds(k)) /\ WF_vars(CooldownEnds(k))
LiveSpec == Spec /\ Fairness
-----------------------------------------------------------------------------
Source == {"none", "fallback", "final"}
LineOK(l) == l.key \in Key /\ l.source \in Source \ {"none"} /\ l.text \in Value

(* The variables hold values of their types. *)
TypeOK ==
  /\ phase \in {"up", "stopping", "down"} /\ flag \in BOOLEAN /\ flagRow \in BOOLEAN
  /\ \A k \in Key : row[k] = None \/ row[k] \in [text : Value, pre : Value, source : Source]
  /\ \A k \in Key : filling[k] # None => filling[k].pre \in Value
  /\ queued \in Seq(Key) /\ running \in [Key -> Value \cup {Idle}]
  /\ attempts \in [Key -> 0..MaxAttempts] /\ cooling \subseteq Key /\ targets \subseteq Key
  /\ \A k \in Key : Len(watchers[k]) <= MaxWatchers
  /\ \A s \in Session : epoch[s] \in 0..MaxEpochs /\ \A l \in page[s] : LineOK(l)

(* A stored sentence was rendered from the flag values its key stands for, *)
(* however the flag moved while a renderer ran (roomText.ts:60-66,         *)
(* upgrade.ts:125-139).                                                    *)
TextMatchesKey == \A k \in Key : row[k] # None => row[k].text = k[2] /\ row[k].pre = k[2]

(* The flags of the process are those of the database, so that a restart   *)
(* finds the world as the players left it (events.ts:92-96).               *)
FlagsStored == flag = flagRow

(* The queue never idles while keys wait: every end of a job, and every    *)
(* push, starts what there is room for (queue.ts:59-90).                   *)
NoSlotIdle == phase = "up" /\ queued # <<>> => Cardinality(Running(Queue)) = Concurrency

(* What the queue works on can be upgraded: a key whose target was         *)
(* forgotten would end as done without having been rendered                *)
(* (upgrade.ts:104-107).                                                   *)
TargetsKnown == phase = "up" => \A k \in Key : Active(k) => k \in targets

(* Nobody waits for a replacement that was already made: once a row is     *)
(* final its watchers are gone, if no other process writes such rows       *)
(* (upgrade.ts:229-244).                                                   *)
NoWatcherLeft == \A k \in Key \ OtherProcess : Settled(row[k]) => watchers[k] = <<>>

(* A stored sentence is of the state of the flags its key stands for, and  *)
(* nobody waits for a replacement that was made (roomText.ts, upgrade.ts). *)
TextsAreTrue == TypeOK /\ TextMatchesKey /\ NoWatcherLeft

(* The queue never idles while keys wait, knows what each of its keys is   *)
(* for, and works for flags that are stored (queue.ts, events.ts).         *)
QueueWorks == FlagsStored /\ NoSlotIdle /\ TargetsKnown

(* On a page, a line stays the sentence of the state it was written in;    *)
(* only a fallback gives way, to the final sentence of the same state      *)
(* (events.ts:130-133, upgrade.ts:229-244).                                *)
LinesImprove ==
  \A s \in Session : epoch'[s] = epoch[s] /\ epoch[s] > 0 =>
    \A l \in page[s] : l \in page'[s] \/ [l EXCEPT !.source = "final"] \in page'[s]

(* A description is not printed on the page of a player who has walked on  *)
(* while it was rendered (handlers.ts:119-125, dialogue.ts:71-73).         *)
LinesComeInPlace ==
  \A s \in Session : Cardinality(page'[s]) > Cardinality(page[s]) => at[s]

(* A line on a page is printed where it belongs and then only gives way to *)
(* the final sentence of the same state (handlers.ts, upgrade.ts).         *)
LinesKeepTheirPlace == [][LinesImprove /\ LinesComeInPlace]_vars

(* A sentence is written once and replaced at most once (roomText.ts:72,   *)
(* upgrade.ts:157-176, tools/pregen.ts).                                   *)
RowSources == INSTANCE Canon WITH state <- [k \in Key |-> row[k].source]
WrittenOnce == RowSources!Spec

(* Once the database is closed no job and no rendering writes a row        *)
(* (upgrade.ts:149-150, index.ts:352-386).                                 *)
ClosedIsClosed == [][phase = "down" => row' = row]_vars

(* A key that is queued does not wait for ever: whatever becomes of the    *)
(* jobs before it, its own turn comes (queue.ts:59-90).                    *)
TurnComes == \A k \in Key : (k \in ToSet(queued)) ~> (k \notin ToSet(queued))

(* "No list of watchers builds up that waits for a replacement that never  *)
(* comes" (upgrade.ts:263-264): refuted, a key that was given up keeps     *)
(* them.                                                                   *)
NoHopelessWatchers == \A k \in Key : GivenUp(k) => watchers[k] = <<>>

(* "Silently sends the replacement to every session that received the      *)
(* line" (upgrade.ts:228): refuted, the list may be full of connections    *)
(* that no longer exist, and the reader who is there is turned away.       *)
EveryReaderReplaced ==
  \A s \in Session : \A l \in page[s] : Settled(row[l.key]) => l.source = "final"
=============================================================================
