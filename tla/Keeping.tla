------------------------------ MODULE Keeping ------------------------------
(* The database file and who works on it: the server, whose boot migrates,  *)
(* seeds and reaps; tools/backup.ts, which copies the file of a server that *)
(* may be running; tools/restore.ts, which boots a server of its own to put *)
(* the texts of a backup back.  Every statement or transaction of theirs is *)
(* a step: these are processes, and any of them may die between two.        *)
EXTENDS Integers, FiniteSets, Sequences

CONSTANTS
  World,          \* what content/world/ may hold: [room -> [seed, decl]]
  SchemaVersion,  \* the last migration of the newest code
  Player,
  Force, DryRun,  \* the flags restore may be given
  Files,          \* the files there may be to begin with, NoFile among them
  Backup,         \* runs of tools/backup.ts for one destination at a time
  MaxStarts       \* bound: boots of either process

VARIABLES
  db,       \* the file: [tables, version, hash, rooms, flag, text, players]
  code,     \* what is deployed: [schema, world]
  pc,       \* [Proc -> stage of its boot]
  seen,     \* [Proc -> the flag as its World loaded it]
  dest,     \* the backup file, a db or NoFile
  manifest, \* its .json: [hash, counts] or NoManifest
  bk,       \* [Backup -> a runBackup: stage, before, and raced (history): its
            \* destination has come to be since it looked]
  starts,   \* boots so far
  rs        \* runRestore: [result, rows, hash, dry, force, hits]
vars == <<db, code, pc, seen, dest, manifest, bk, starts, rs>>

Proc == {"server", "restore"}
Off == "null"       \* how a flag with no row is hashed
NoFile == [tables |-> {}, version |-> 0, hash |-> << >>, rooms |-> << >>, flag |-> Off, text |-> << >>, players |-> {}]
NoManifest == [hash |-> << >>, counts |-> << >>]
Idle == [stage |-> "off", before |-> NoManifest, raced |-> FALSE]
NoReport == [result |-> "none", rows |-> << >>, hash |-> << >>, dry |-> FALSE, force |-> FALSE, hits |-> 0]

\* stateHash: the seed, the declaration and the flag if the room declares it.
Key(w, room, flag) ==
  [room |-> room, seed |-> w[room].seed, decl |-> w[room].decl, value |-> IF w[room].decl THEN flag ELSE Off]
Slots(w, flag) == {Key(w, room, flag) : room \in DOMAIN w}
Paid(text, k) == k \in DOMAIN text /\ text[k] # "fallback"
Hits(text, w, flag) == Cardinality({k \in Slots(w, flag) : Paid(text, k)})

\* A file as earlier boots have left it.
WellKept(f) ==
  /\ f = [tables |-> 1 .. f.version, version |-> f.version, hash |-> f.hash, rooms |-> f.rooms,
          flag |-> f.flag, text |-> f.text, players |-> f.players]
  /\ f.version \in 0 .. SchemaVersion /\ f.flag \in {Off, "true", "false"} /\ f.players \subseteq Player
  /\ \A k \in DOMAIN f.text : f.text[k] \in {"fallback", "llm"}
  /\ \A room \in DOMAIN f.hash : room \in DOMAIN f.rooms /\ f.rooms[room] = f.hash[room]

KeepingAssumption ==
  /\ SchemaVersion \in Nat /\ SchemaVersion > 1 /\ Force \subseteq BOOLEAN /\ DryRun \subseteq BOOLEAN
  /\ \A f \in Files : WellKept(f)

\* f and, where f says nothing, g.
Over(f, g) == [x \in DOMAIN f \cup DOMAIN g |-> IF x \in DOMAIN f THEN f[x] ELSE g[x]]
-----------------------------------------------------------------------------
(* boot: the data is read before the file is opened; migrate, seed, reap.   *)
Go(p, stage) == pc' = [pc EXCEPT ![p].stage = stage]
At(p, stage) == pc[p].stage = stage

OpenFile(p) == starts < MaxStarts /\ starts' = starts + 1 /\ Go(p, "migrate") /\ UNCHANGED db

\* migrate: schema.sql makes the tables of version 1 and the next statement
\* says so; meta is the first of the tables and tells a new file from an old.
Create(p) ==
  At(p, "migrate") /\ db.tables = {} /\ db' = [db EXCEPT !.tables = {1}] /\ Go(p, "stamp")

\* Mutant: the new file is said to be of the code's own version at once.
StampNewest(p) == At(p, "stamp") /\ db' = [db EXCEPT !.version = code.schema] /\ Go(p, "migrate")

\* The insert meets the key if another process got there first.
Stamp(p) ==
  /\ At(p, "stamp")
  /\ IF db.version = 0 THEN db' = [db EXCEPT !.version = 1] /\ Go(p, "migrate")
     ELSE UNCHANGED db /\ Go(p, "refused")

\* The version found is where the loop starts; there is no migration to version 1.
Probe(p) ==
  /\ At(p, "migrate") /\ db.tables # {} /\ UNCHANGED db
  /\ pc' = [pc EXCEPT ![p] = [stage |-> IF db.version \in 1..code.schema THEN "apply" ELSE "refused", at |-> db.version]]

\* One migration is one transaction, and fails where its tables are there already.
Migrate(p) ==
  /\ At(p, "apply") /\ pc[p].at < code.schema
  /\ IF pc[p].at + 1 \in db.tables THEN UNCHANGED db /\ Go(p, "refused")
     ELSE /\ db' = [db EXCEPT !.version = pc[p].at + 1, !.tables = @ \cup {pc[p].at + 1}]
          /\ pc' = [pc EXCEPT ![p].at = @ + 1]

\* seed: the flags always, the rooms when the hash is not the world's, in one
\* transaction.  Rooms the world no longer has keep their rows.
Seeded(w) ==
  [db EXCEPT !.flag = IF @ = Off THEN "false" ELSE @,
             !.rooms = IF db.hash = w THEN @ ELSE Over(w, @), !.hash = w]
Seed(p) ==
  /\ At(p, "apply") /\ pc[p].at = code.schema
  /\ db' = Seeded(code.world) /\ Go(p, "reap")

\* reapStalePlayers: those not seen for a month, whoever they are; then the
\* flags are loaded.
Reap(p) ==
  /\ At(p, "reap") /\ \E S \in SUBSET db.players : db' = [db EXCEPT !.players = @ \ S]
  /\ seen' = [seen EXCEPT ![p] = db.flag] /\ Go(p, "up")

Boot(p) ==
  /\ \/ (Create(p) \/ Stamp(p) \/ Probe(p) \/ Migrate(p) \/ Seed(p)) /\ UNCHANGED seen
     \/ Reap(p)
  /\ UNCHANGED <<starts, code, dest, manifest, bk, rs>>
-----------------------------------------------------------------------------
Start == At("server", "off") /\ OpenFile("server") /\ UNCHANGED <<code, seen, dest, manifest, bk, rs>>

Live(d) == /\ At("server", "up") /\ db' = d /\ UNCHANGED <<starts, code, pc, dest, manifest, bk, rs>>

\* A visitor is told of a room: a row if there is none yet.
Tell ==
  \E k \in Slots(code.world, seen["server"]) :
    k \notin DOMAIN db.text /\ Live([db EXCEPT !.text = Over(@, [x \in {k} |-> "fallback"])]) /\ UNCHANGED seen
\* The model's text takes the place of a fallback, and of nothing else.
Buy ==
  \E k \in DOMAIN db.text :
    db.text[k] = "fallback" /\ Live([db EXCEPT !.text[k] = "llm"]) /\ UNCHANGED seen
Light ==
  /\ db.flag = "false" /\ Live([db EXCEPT !.flag = "true"]) /\ seen' = [seen EXCEPT !["server"] = "true"]
Join == \E p \in Player \ db.players : Live([db EXCEPT !.players = @ \cup {p}]) /\ UNCHANGED seen

\* The end of a process, in order or not.
Stop(p) == ~At(p, "off") /\ Go(p, "off")
StopServer == Stop("server") /\ UNCHANGED <<starts, db, code, seen, dest, manifest, bk, rs>>
KillRestore ==
  /\ Stop("restore") /\ rs.result \in {"none", "planned"}
  /\ rs' = [rs EXCEPT !.result = IF At("restore", "refused") THEN "refused" ELSE "killed"]
  /\ UNCHANGED <<starts, db, code, seen, dest, manifest, bk>>
KillBackup(b) ==
  /\ bk[b].stage \in {"counted", "copied"} /\ bk' = [bk EXCEPT ![b] = Idle]
  /\ UNCHANGED <<starts, db, code, pc, seen, dest, manifest, rs>>

\* Other code or another world, and it may be that the volume was lost.
Deploy ==
  /\ \A p \in Proc : At(p, "off")
  /\ \E s \in {SchemaVersion - 1, SchemaVersion}, w \in World, lost \in BOOLEAN :
       /\ w = code.world \/ s = SchemaVersion
       /\ lost => dest # NoFile /\ \A b \in Backup : bk[b].stage # "counted"
       /\ code' = [schema |-> s, world |-> w] /\ db' = IF lost THEN NoFile ELSE db
       /\ code' # code \/ db' # db
  /\ rs' = NoReport /\ UNCHANGED <<starts, pc, seen, dest, manifest, bk>>
-----------------------------------------------------------------------------
(* tools/backup.ts: runBackup.  The statements of makeQueries need all the   *)
(* tables; the counts, a few statements, are taken as one.                  *)
CountOf(d) ==
  [hash |-> d.hash,
   counts |-> <<Cardinality(DOMAIN d.rooms), Cardinality({k \in DOMAIN d.text : Paid(d.text, k)}),
                Cardinality({k \in DOMAIN d.text : ~Paid(d.text, k)}), d.flag = Off, Cardinality(d.players)>>]

\* Here alone does it look whether the destination is there.
CountBefore(b) ==
  /\ bk[b].stage \notin {"counted", "copied"} /\ dest = NoFile /\ 1..code.schema \subseteq db.tables
  /\ bk' = [bk EXCEPT ![b] = [stage |-> "counted", before |-> CountOf(db), raced |-> FALSE]]
  /\ UNCHANGED <<starts, db, code, pc, seen, dest, manifest, rs>>

\* db.backup: the pages of one state of the file, over what may be there by now.
Copy(b) ==
  /\ bk[b].stage = "counted" /\ dest' = db
  /\ bk' = [c \in Backup |-> IF c = b THEN [bk[c] EXCEPT !.stage = "copied"]
                            ELSE [bk[c] EXCEPT !.raced = @ \/ bk[c].stage = "counted"]]
  /\ UNCHANGED <<starts, db, code, pc, seen, manifest, rs>>

\* The copy is counted again; the manifest has its counts and the first hash.
Verify(b) ==
  /\ bk[b].stage = "copied"
  /\ IF CountOf(dest).counts = bk[b].before.counts
     THEN /\ bk' = [bk EXCEPT ![b] = [Idle EXCEPT !.stage = "done"]]
          /\ manifest' = [hash |-> bk[b].before.hash, counts |-> CountOf(dest).counts]
     ELSE bk' = [bk EXCEPT ![b] = [Idle EXCEPT !.stage = "differs"]] /\ UNCHANGED manifest
  /\ UNCHANGED <<starts, db, code, pc, seen, dest, rs>>
-----------------------------------------------------------------------------
(* tools/restore.ts: runRestore.                                            *)
Read ==
  /\ At("restore", "off") /\ dest # NoFile
  /\ \E force \in Force, dry \in DryRun :
       rs' = [NoReport EXCEPT !.rows = dest.text, !.hash = dest.hash, !.force = force, !.dry = dry]
  /\ OpenFile("restore") /\ UNCHANGED <<code, seen, dest, manifest, bk>>

Close(result, hits) == Go("restore", "off") /\ rs' = [rs EXCEPT !.result = result, !.hits = hits]

\* The hashes must be the same; then what has no room is left out and the slots
\* are worked out, of all rooms the file has; rooms unknown to the world throw.
Plan ==
  /\ At("restore", "up") /\ rs.result = "none"
  /\ LET same == rs.hash = db.hash
         live == {k \in DOMAIN rs.rows : k.room \in DOMAIN db.rooms}
     IN  IF ~same /\ ~rs.force THEN Close("mismatch", 0)
         ELSE IF ~(DOMAIN db.rooms \subseteq DOMAIN code.world) THEN Close("failed", 0)
         ELSE IF rs.dry THEN Close("foretold", Cardinality({k \in Slots(code.world, seen["restore"]) : k \in live}))
         ELSE rs' = [rs EXCEPT !.result = "planned", !.rows = [k \in live |-> rs.rows[k]]] /\ UNCHANGED pc
  /\ UNCHANGED <<starts, db, code, seen, dest, manifest, bk>>

\* Mutant: ON CONFLICT DO UPDATE.
WrittenOver == [db EXCEPT !.text = Over(rs.rows, @)]

\* ON CONFLICT DO NOTHING.
Written == [db EXCEPT !.text = Over(@, rs.rows)]
Write ==
  /\ At("restore", "up") /\ rs.result = "planned"
  /\ IF {k.room : k \in DOMAIN rs.rows} \subseteq DOMAIN db.rooms
     THEN db' = Written /\ Close("done", Hits(db'.text, code.world, seen["restore"]))
     ELSE UNCHANGED db /\ Close("failed", 0)
  /\ UNCHANGED <<starts, code, seen, dest, manifest, bk>>
-----------------------------------------------------------------------------
Init ==
  /\ db \in Files /\ code \in [schema : {SchemaVersion}, world : World]
  /\ pc = [p \in Proc |-> [stage |-> "off", at |-> 0]]
  /\ seen = [p \in Proc |-> Off] /\ dest = NoFile /\ manifest = NoManifest /\ bk = [b \in Backup |-> Idle] /\ starts = 0 /\ rs = NoReport

Next ==
  \/ Start \/ (\E p \in Proc : Boot(p)) \/ Tell \/ Buy \/ Light \/ Join \/ StopServer \/ KillRestore
  \/ (\E b \in Backup : KillBackup(b) \/ CountBefore(b) \/ Copy(b) \/ Verify(b)) \/ Deploy \/ Read \/ Plan \/ Write
Spec == Init /\ [][Next]_vars
-----------------------------------------------------------------------------
TypeOK ==
  /\ db.tables \subseteq 1..SchemaVersion /\ db.version \in 0..SchemaVersion /\ db.flag \in {Off, "true", "false"}
  /\ code \in [schema : {SchemaVersion - 1, SchemaVersion}, world : World]
  /\ \A k \in DOMAIN db.text : db.text[k] \in {"fallback", "llm"}
  /\ db.players \subseteq Player
  /\ \A p \in Proc : pc[p].stage \in {"off", "migrate", "stamp", "apply", "reap", "up", "refused"}
  /\ \A b \in Backup : bk[b].stage \in {"off", "counted", "copied", "done", "differs"}
  /\ rs.result \in {"none", "planned", "done", "foretold", "mismatch", "failed", "refused", "killed"}

(* A file that says it is of a version has the tables of all versions up to *)
(* it, whenever a boot died, and whichever processes boot on it at once.    *)
VersionHasItsTables == db.version > 0 => db.tables = 1..db.version

(* content_hash is the proof that the rooms are those of the world: a room  *)
(* is never looked up by a seed the file does not have.                     *)
HashProvesRooms == db.hash # << >> => \A room \in DOMAIN db.hash : room \in DOMAIN db.rooms /\ db.rooms[room] = db.hash[room]

(* A text of the model, once paid for, stays while the file does, whatever  *)
(* is restored over it and whatever world is deployed.                      *)
PaidStays == [][db' # NoFile => \A k \in DOMAIN db.text : Paid(db.text, k) => Paid(db'.text, k)]_vars

(* A backup that was verified is never written over, but by a run that had  *)
(* looked for the file before it was there (backup.ts:93, 103).             *)
Raced(b) == bk[b].raced /\ bk'[b].stage = "copied"
VerifiedStays == [][manifest # NoManifest /\ dest' # dest => \E b \in Backup : Raced(b)]_vars

(* backup.ts:94: it does not write over what is there.                      *)
NeverOverwrites == [][dest # NoFile => dest' = dest]_vars

(* tools/restore.ts: orphans are left out so that one of them cannot take   *)
(* the rest down with it.  As long as every room of the file is a room of   *)
(* the world, what has been planned can be written.                         *)
RestoreRuns == DOMAIN db.rooms \subseteq DOMAIN code.world => rs.result # "failed"

(* The same of a file that has rooms of an older world.                     *)
RestoreAlwaysRuns == rs.result # "failed"

(* tools/backup.ts: the hash in the manifest is of the copy it lies beside. *)
ManifestNamesItsWorld == manifest # NoManifest => manifest.hash = dest.hash

(* tools/backup.ts: a consistent copy is made beside a live server.         *)
BackupBesideLiveServer == \A b \in Backup : bk[b].stage # "differs"

(* tools/restore.ts: what the model was paid for is brought back.           *)
PaidTextComesBack ==
  rs.result = "done" =>
    \A k \in DOMAIN rs.rows : Paid(rs.rows, k) => Paid(db.text, k)

(* README: --dry-run tells the hits a restore would have.                   *)
DryRunForetells ==
  [][rs'.result = "foretold" /\ rs.result = "none" =>
       LET put == [k \in {x \in DOMAIN rs.rows : x.room \in DOMAIN db.rooms} |-> rs.rows[k]]
       IN  rs'.hits = Hits(Over(db.text, put), code.world, seen["restore"])]_vars

(* db/migrate.ts: a new file is told from a broken one; only a file of newer *)
(* code is refused.                                                         *)
RefusedOnlyByNewer == \A p \in Proc : At(p, "refused") => db.version > code.schema
=============================================================================
