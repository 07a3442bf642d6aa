# Verification of oldrpg

TLA+ models of the game in `src/` (its server, the client that mirrors the server's
state, and the operator's tools that work on the same files), TLC configurations that
check them, and TLAPS proofs about fifteen of them. Line references are to the repository.

    tlc -config MCSessions.cfg MCSessions       # one run of the table in section 4
    tlapm SessionsProofs.tla                    # the proofs

## 1. The system

The server is one Node process with one SQLite database (`better-sqlite3`,
synchronous). WebSocket frames, close events and timers are callbacks that run to
completion, so a callback is atomic unless it awaits. What makes the program hard is
therefore not threads: it is the *order* of callbacks, the few awaits, timers that
outlive their reason, state kept twice (table, session, index, client), writes that fail
half way, and tools that are other processes on the same files.

| part | state | operations | interacts with |
|---|---|---|---|
| connections (`net/server.ts`) | `Conn`, `socketsPerIp`, `newCharsPerIp`, token buckets | connection, hello, action, resync, pong, close, heartbeat | handlers, registry |
| registry (`net/session.ts`) | `sessions`, `byRoom`, `nextConnId` | add, remove, reposition, isCurrent, inRoom | everything that sends or moves |
| handlers (`net/handlers.ts`) | session fields, players row | hello (new, adopt), move, look, resync, say, yell, close, grace timer | all of `world/` |
| presence (`net/presence.ts`, `emit.ts`) | none of its own | announceArrival, announceMove, announceDeparture, snapshots | registry, clients |
| accounts (`net/accounts.ts`, `secret.ts`) | `accounts`, `player_tokens`, scrypt slots | register, login, rehash, device tokens | hello |
| combat (`world/combat.ts`, `engine/combat.ts`) | `battles`, `inCombat`, `fallen`, cool-downs, interval, respawn timers | attack, skill, useItem, stop, leave, tick, victory, defeat | registry, inventory, missions, flags |
| inventory, missions, guild (`world/`) | rows `items`, `missions`, `players.rank` | award, use, give; accept, turnIn, abandon, onSlain; promote | combat, sessions |
| texts (`world/roomText.ts`, `npcText.ts`, `upgrade.ts`, `narration/queue.ts`) | `room_text`, `npc_lines`, in-flight maps, queue, watchers | get, watch, enqueue, publish, stop | renderers (await), clients |
| events, dialogue (`world/`) | `world_flags` in table and memory | setFlag, pregenerate; talk, ask | texts, all sessions |
| world (`content/world.ts`, `engine/map.ts`, `move.ts`, `db/seed.ts`) | the map, read only after boot | assertWorldData, tryMove | everything that moves |
| database file (`db/`, `tools/backup.ts`, `restore.ts`) | tables, `schema_version`, `content_hash`, texts | migrate, seed, reap, backup, restore | server and tools as processes |
| content tools (`tools/authorRegion.ts`, `engine/layout.ts`, `tools/pregen.ts`) | region files, briefs, text rows | a run of each | a person, a model, the server |
| client link (`client/net/`) | `ws`, `allowRetry`, `pendingAuth`; `confirmed`, `pending`, `outSeq` | connect, retry, login; predictMove, onAck, onSnapshot | the ordered socket |
| client store and window (`client/state/store.ts`, `client/input/`, `App.tsx`) | `UiState`, path, cursor, mode, settings | reduce, keys, effects, auto-battle timer | the ordered socket |

Hard behaviours and what correctness means there:

- **Reloads.** A new tab's hello, the old tab's late close, the grace timer, the retry
  timer, a login and the heartbeat may come in any order. A connected page must own its
  session; a player must leave exactly when nobody is there any more.
- **Mirrored state.** The room index repeats positions, a session repeats rows, each
  client repeats the part of the world it sees, and updates are differences. They must
  agree after every step, or as soon as nothing is under way.
- **Timers.** Respawn timers carry the epoch they were armed in; the interval stops
  itself. Nobody may stay down for ever, no enemy may stay away for ever, no timer may
  act on a situation it was not armed for.
- **Awaits.** A password check, a rendering and a first text end after the world has
  moved on: names, flags, watchers and connections may have changed.
- **Half-done work.** Writes fail between two statements, processes die between two
  transactions or two calls of a paid model, and are started again.
- **Paying once.** Rewards, gifts, promotions and model texts touch several rows.

`PROJECT.json` lists every component with its state of modelling and every hazard with
its line.

## 2. How the modules fit

| module | extends or uses | what it is |
|---|---|---|
| `Seats` | | abstract contract of the registry |
| `Sessions` | refines `Seats` | connections, hello, close, grace, heartbeat |
| `Gate` | | what the door lets in: counters, buckets, silent sockets |
| `Accounts` | | who a connection plays as |
| `Presence` | extends `Seats` | who sees whom |
| `Combat` | extends `Seats` | fights, defeat, revival |
| `Economy` | | bags, missions, ranks |
| `Canon` | | abstract contract of the text rows |
| `Upgrade` | refines `Canon` | sentences, queue, watchers, flags |
| `Reconcile` | | where a player sees itself |
| `ClientLink` | | how a page keeps its connection |
| `Menu` | | what the command window offers |
| `Layout` | | the grid of a generated region |
| `Authoring` | | a region file over runs of the tool and edits |
| `Worlds` | | which content the boot accepts, and walking in it |
| `Keeping` | | the database file under boots, backup and restore |
| `Pregen` | | the first sentences, written beside a server |
| `Page` | extends `Reconcile`, uses `ClientLink`, `Menu` | a page: where it draws its player, its link, its window |
| `Players` | extends `Accounts`, uses `Gate` | who comes in |
| `Content` | extends `Layout`, uses `Authoring`, `Worlds` | how a world comes to be |
| `Stored` | extends `Economy`, uses `Keeping`, `Pregen` | what the database holds |
| `SessionsProofs`, `PresenceProofs`, `CombatProofs`, `UpgradeProofs`, `PageProofs`, `PlayersProofs`, `ContentProofs`, `StoredProofs` | extend the module they are named after | theorems |
| `MC*` | extend or instantiate | instances for TLC, and what a run states |

`Seats` is what the rest of the world knows of connections. `Sessions` shows that the
code keeps it (`ImplementsSeats`, checked and proved); `Presence` and `Combat` are built
on its actions `Take`, `Close` and `Depart` instead of repeating epochs and grace timers.
This is sound for safety: every behaviour of the sessions is one the contract allows, so
what holds of Presence and Combat under every behaviour of the contract holds under the
code's. `Crash` of Combat is the one step outside it: a new process begins with no seats.

Several instances share one run through a variable `part` that never changes: a behaviour
belongs to one instance, the others stay in their initial state. A run then answers one
question about a subject on several small instances, each with the bounds its own hazard
needs, instead of one that is large in every direction. The properties of such a run say
per instance what holds of it; each is a conjunction of properties that are defined,
explained and tied to the source in the instance's own module.

`MCCombatParty` and `MCUpgrade` have one instance only; there the parts differ in what the
behaviours are confined to (`Confined`: who is present, where, which skills are queued,
which keys are asked for). A confined behaviour is a behaviour of the module, so nothing is
checked that the code cannot do, and the properties are the module's own, the ones the
theorems of section 7 name. `Page`, `Players`, `Content` and `Stored` are such
compositions as modules of their own, with their constants still open: the properties they
define are the ones the runs check on `MCPage`, `MCMenuParts`, `MCPlayers`, `MCContent` and
`MCStored`, and the ones the theorems state for every value of the constants. `MCMenuParts`
is the window of `Page` in a run of its own, because it is by far its largest part. In
`MCMenuParts`, `MCPlayers` and `MCStored` too a behaviour is confined to a kind
(`ConfinedSpec`, `KindSpec`).

## 3. The modules

Every definition's lines are in the `map` of `PROJECT.json`; here is what the state stands
for and where the model abstracts.

### Seats, Sessions
A seat has a newest holder; only that holder's close frees it; only a player whose seat
is free departs; a connection takes a seat once.

| Sessions | code |
|---|---|
| `sock`, `mute`, `dead`, `verifying`, `owner`, `epoch`, `outSeq` | a `Conn` of `server.ts`: ready state, silent peer, `dead`, `helloPending`, `session`, `epoch`, highest number sent |
| `registered`, `connId`, `socket`, `linger`, `missed`, `lastSeq` | `Registry.sessions` and the fields of `Session` |
| `Connect`, `HelloAnonymous`, `HelloWithAccount` + `AuthSettles`, `Breach`, `ActionFrame`, `Pong` | the listeners of `server.ts`; a hello with an account is two actions because it awaits the password check |
| `Establish` | `handleHello`: new epoch, adopt or add |
| `CloseEvent` with `Detach` | both close listeners, `handleClose` |
| `GraceExpires`, `Beat`, `Shutdown` | the grace timer, the heartbeat, `close()` of `index.ts` |
| `PeerCloses`, `PeerVanishes` | the peer (environment) |

A `Session` object is identified with its player. Frames of a socket that was replaced
may still be delivered (`Heard`), as `ws` delivers what was received before the close.

### Gate
`socketsPerIp`, `newCharsPerIp`, `frames`/`seenAt` (a connection's bucket) and the buckets
inside `sess` (a session's: actions, resyncs, yells) on a `clock` that `Tick` advances and
`JumpBack` sets back. `Connect` refuses over the limits, `HelloNew` is `mayCreate` and the
creation, which is remembered even when the insert then throws, `HelloKnown` an adoption,
`Action` a frame with its buckets and its one answer, `Beat` the sweep and the pings,
`Flooding` the frame bucket's cut. A hello is one step here: its await is in Accounts and
Sessions. That an address creates no more characters in a window than it may is stated with
a clock that is not set back: the window is made of clock readings.

### Accounts
`secret` and `character` are the rows `accounts` and `players`, `tokens` is
`player_tokens`, `held` what each browser stores, `running`/`waiting` the slots and the
line of `withSlot`. `Register` and `Login` read what the code reads before the scrypt
await; `Registered`, `LoggedIn` and `Refused` are everything after it, up to the welcome;
`Rehashed` is the promise that nobody awaits. A `Device` is a tab; the tabs of a `Browser`
find one token (`Saved`), and each may have a hello that waits. `Kept` is the device limit
in the order the query gives: by date, and of equal dates the row inserted last first, for
the index (`006-accounts.sql`) is read backwards. `there` is whether the socket is still
there. A secret is "none", "stale" (older parameters) or "strong"; passwords are right or
wrong.

### Presence
`conn`, `pos`, `byRoom` are the registry; `row` is the position in the players table;
`down` is hp = 0; `minimap`, `roster`, `grid` are `UiState.others`, `room.occupants` and
`region` of each client. A socket delivers in order and `reduce` is deterministic, so a
client's copy is updated in the step that sends (the delay itself is the subject of
Reconcile and Menu). `Arrival`, `Sight`/`Sighting`/`RoomOf`/`GridAfter` (inside `Move`)
and `Leave` are the three announcements with the client's reduction applied; `HelloAdopt`
is the silent adoption; `Defeat`, `Drink`, `RespawnFires`, `HelloFails` are the part of
combat and hello that changes positions; `FoesChanged` re-sends room and grid when an
enemy dies or returns.

The history variables `unseen`, `unheard`, `offGrid` record which client has not been
told of a move that the code makes silently (revivals), and are cleared when it is told
everything again; `torn` records a position written by a revival whose second write
failed. They make the agreement properties exact: everything *else* must agree.

### Combat
`battle[r]` is the `Combat` of a room (enemy hit points, fighters in the order they
joined, threat, target, windup), `inCombat` the second index, `engaged`, `queued`,
`guarded` the fields of `Fighter`, `fallen`/`slain` the two ways an enemy is away,
`ticking` the interval, `respawn` the armed timers by the epoch captured, `screen` the
client's fight window. `Quit` is `leave` and the removal in `defeat`; `Without` deletes
a fighter and retargets; `SwingKills` is `victory`.

Time is left open (a due swing, a passed cool-down, a firing timer may happen at any
moment after they are armed); a tick in which several swings are due is their sequence,
because nothing else of the code observes the middle of a tick except through what each
swing itself sends; damage is a small set of numbers instead of rolls; loot is "any of
those entitled may get one potion", its rows and the mission credit are Economy's `Slay`.
The map is a set of rooms where any step leads anywhere, and a new session's room is
arbitrary: the fight does not depend on which step ends it. In Presence and Combat a
socket in its closing phase counts as connected: the code sends to sockets whose
`readyState` is OPEN only, and a client that is closing has no screen that anyone looks
at.

### Economy
`db` is the rows, `rank` and `hurt` the session's copy, `screen` what each client was last
sent, `earned` and `spent` the ledger of history. A handler is one step; inside it `Tx`
runs a sequence of statements (`Add`, `Spend`, `Complete`, `Promotion`, `Heal`) of which
the n-th may fail, and a transaction then keeps none. `Slay` is `victory`'s awards and
`missions.onSlain` for any set of helpers; an `advanceMission` that throws ends the process
(nobody catches it in the tick), so the credit stops where it failed and every page comes
back to a snapshot of the rows. `Drink`, `Give`, `Accept`, `TurnIn`, `Abandon`,
`Promote` are the handlers of that name. A potion heals in full or leaves a wound. Items
are a potion and a trophy.

### Upgrade, Canon
A key is a room or a topic with the values of the flags it declares. `row[k]` is the text
row, `filling` the services' in-flight maps, `chain` the descriptions asked for and not
begun (`Session.chain`), `queued`/`running`/`attempts`/`cooling` the queue, `targets`/
`watchers` the upgrade service, `page` the lines on a client. A step is one macrotask with
the microtasks it starts, as the event loop runs them: that is why `watch()` and `publish`
of a rendering that settles at once are ordered the way they are. `SetFlag` is row, memory
and announcement in one step and `SetFlagFails` the write that throws; `Stop`,
`CloseDatabase` and `Boot` are the shutdown and the next start; `Elsewhere` is the
pregeneration tool on the same rows, of the keys in `OtherProcess`. What a step does to the
queue is computed on a record of its variables (`Push`, `Pump`) and written back by
`Commit`, with the pages and watchers of what was published. `Canon` says of every key: no
text, then a provisional one, then a final one, each at most once.

### Reconcile
`confirmed`, `pending`, `outSeq` are the `Reconciler`; `up` and `down` are the ordered
link; `phase`, `pos`, `lastSeq`, `fallen` are the server's side. `Replay` is the fold of
`view()`, `Answered` how many moves the loop of `onAck` shifts out. `Act` is a key on the
page, `Handle` is `handleAction` with the move or its refusal and the ack, `Ignored` a
frame on a dead connection, `Fall`/`Revive` defeat and the respawn timer, `Unseal` a flag.
`untold` marks a position changed by a revival, of which the page is told neither by ack
nor by snapshot; `SeesItself` is stated up to it.

### ClientLink
Per tab: `ws` and the sockets it has ever opened (`sock`), `timer`, `allowRetry`,
`pendingAuth`, `status`, `notice`; `token` is localStorage, which tabs share. Handlers are
those of `socket.ts` with App's callbacks and the store's reduction. `Authenticate` is the
login form, which the page offers once it has had a snapshot (`greeted`) and whatever its
connection does: it closes an open socket, and opens one when none is open, be it after a
refusal, while a retry waits or while a socket is still connecting or closing. The last two
make a second socket; `doubled` counts, per tab, the logins that met something under way.
`LinkIsTrue` is exact up to it: a tab has as many sockets and retries as one and `doubled`,
"live" on the screen is always true, and a session that listens is shown as live where
nothing was doubled. What goes wrong after a doubled login is in section 5. The page's
unmounting is not modelled.

### Menu
`ui` is the part of `UiState` the menu is built from, `srv` what the server holds, `up`
and `down` the messages on their way, `mode`, `path`, `cursor`, `settings`, `auto` App's
state. A step of the page is one event with its render and its effects, as React flushes
them for a discrete event; the menu tree itself (`RootItems`, `Resolve`) is rebuilt in
each state. `Listed` gives the things of a set in the order of `Listing`, which stands for the
order the server sends them in; `Resolve` walks the path by a recursive function, from the
root to the set of lists (one or none) it leads to. Typed commands and touch send the same
actions. `Lines` says for which rooms the log is followed. `MCMenuParts` uses a VIEW
(`Seen`) without the cursor and without who chose an order: no guard reads the latter, and
Enter at a cursor does what `Click` does at the same item, so the states left out have the
same successors up to the view.

### Layout
`generateLayout` with `Carve` and `Skip` for every choice of a frontier cell and every
roll. The frontier is a bag: its order only decides which cell is drawn, and every draw is
a choice.

### Worlds
`world` is what the loaders have read; `Boot` is `assertWorldData`, check by check; `Walk`
is `tryMove`, `Slay` a fight won with its flag, `Rise` a promotion. Reachability is the
code's own: optimistic about flags and ranks; what a search finds is stated as the least
set that is closed under its step (`Closure`), since the order of the queue does not
matter. An authored world has at most one door on a side of a cell and numbers for ranks
(`WellFormed`): the tool that writes the exits sees to it (`authorRegion.ts:123`), the boot
does not look, and `exitAt` would take the first of two. `MCWorldSamples` builds worlds of
two regions with up to two doors and one mistake.

### Authoring
`file` is the region's JSON, `pairs` the neighbours' exits that lead here, `brief` the
person's order, `run` the memory of the run under way. Doors are linked one by one
(`Link`): the other side of one is on the disk before the next is looked at, and a wrong
door stops the run there. Cells lie in a row. A write of a file is atomic (`writeFileSync`
of a small file). The person edits between runs, and while one is under way only with
`Beside`. Every batch is paid; a run may die after any step.

### Keeping
`db` is the SQLite file, `pc` the boot of the server and of restore's own server, `dest`
and `manifest` a backup, `bk` the runs of backup (one for each of `Backup`, all to the same
destination) and `rs` restore. Each statement outside a transaction and each transaction is
a step, and every process may die between two. `raced` marks a run of backup whose look at
the destination came before the file another run put there. `Create` is `schema.sql` in one
step although its statements are single ones: `meta` is the first of its tables and the
version row comes after the last, so a boot that dies inside it leaves what one that dies
after it leaves, a file with `meta` and without a version, which every later boot refuses.
The probe for the meta table and the write after it are one step. The person deploys new
code and a new world; players buy texts and join. That what restore has planned can be
written (`RestoreRuns`) is stated for files whose rooms the world still has; section 5 has
the others.

### Pregen
A run: plan, redo, fill, drain, finish with its exit code. A key is pushed once per run;
the queue's retries inside a run are Upgrade's. How much the queue holds and how many jobs
run at once is chosen per run from `Queues`, the `--limit` from `Limits`, where 0 is none.
The server on the same database is `Visit` (a fallback row) and `Flip` (a flag).

## 4. Runs

`part` names the instance of a run that moves (section 2).

| run | instances and bounds | what it shows |
|---|---|---|
| `sessions` | 2 players, 3 connections, 2 sockets per address, action number 1 (a second use of it is the breach) | the page that is open owns the session, numbers belong to their connection, nobody leaves while there, and `Sessions` implements `Seats` |
| `presence` | 2 players, 3 connections, 3 rooms in 2 regions, 1 timer per epoch | index, stored positions, minimaps, room lists and grids agree; a reload is quiet |
| `combat` | 3 players, 2 connections, a town and three dens, one with a boss, two with a windup, 2 hit points, damage 1 or 2. `fight`, `heal`, `guard`: 2 players in one den; `solo`: one player between a den and the boss, 2 overlapping timers, a failing write, a crash | both fight indexes, fighters alive and in place, target, orders that can be carried out; screens; credit; the clock |
| `upgrade` | 2 readers, a room that declares the flag, a topic that the flag opens, one that it does not touch, 1 slot, a queue of 2, 2 attempts. `room`: both readers and a reconnection, of the room only; `queue`: one reader of everything, so that a third key overflows the queue, and a second process that settles the opened topic | texts are of their key's state, the queue never idles with keys in it, lines keep their place, rows implement `Canon` |
| `menu` | 3 rooms, one companion, skill, mission, NPC and topic, 2 items, 1 action and 2 messages under way. `fight` with a companion, `bag` with gifts, `talk` with missions: 1 change of the world, no settings; `fall` with deaths, revivals, settings and automatic skills: 2 changes | the window stands on a list that exists, is true when nothing is under way, and asks twice before what cannot be undone |
| `page` | `walk`: 3 actions, 2 predicted, 2 connections, a death, a sealed door; `link`: 2 tabs, 2 sockets each, 2 breaks, 1 login, in whatever state its connection is | the page ends up where the server has it, right guesses are never undone; one socket per tab but for a doubled login, a true status, the server's reason stays |
| `players` | `accounts`: 3 tabs of 2 browsers, 2 names, 1 slot, 1 device per account, a failing rehash; `births`: 2 sockets of one address, hellos and beats only, a clock of 3 ticks; `buckets`: a socket of each of two addresses, one character, a clock of 2 ticks that jumps back once | one winner per name, buried tokens dead, one answer per wait; counters and buckets |
| `content` | `layout`: every region of 6 rooms; `authoring`: 3 cells, batches of 2, 3 edits by hand, one good and one bad door; `worlds`: 2 regions in 3 shapes, 11 kinds of first and 4 of second door, 9 mistakes or none | regions are one piece; files are resumable and nothing in them is overwritten; accepted worlds can be played and every two-way door has its one way back |
| `stored` | `economy`: 2 players, potion and trophy, two missions, two enemies; `worlds`: backup and restore over two worlds; `race`: two backups to one destination beside a server that is deployed anew; `boot`: old and new files, two processes; `ample`, `small`: two runs of the pregeneration tool with no limit or one of 1 or 2, a flag that changes once, and room in the queue for all 4 keys or for 1 | items conserved, trophies only buy ranks, paid once, copies fresh; files that say what they are, runs that did what they say, paid texts that stay |
| `live` | small instances of seven modules under their fairness (section 5) | enemies and the dead return, silent sockets and empty sessions end, tabs settle, queued keys and predicted moves are answered |
| `combat_room` | as `fight` | **violated**: `FightEndsWithRoom` |
| `accounts_token` | 3 devices of one account that may have two tokens, a clock of one tick | **violated**: `WelcomeTokenWorks` |

Why these bounds are enough to be interesting. Three connections and two players give a
session that is replaced twice, a late close of each of the earlier tabs, and a second
player whose page watches; epochs, counters and timers are only compared for equality. The
socket limit of 2 makes the third connection a refused one. Three rooms in two regions
contain a step inside a region and one across. Two hit points and damage 1 or 2 contain a
blow that is survived, one that is exact and one that overshoots; two overlapping respawn
timers exist only with a second death inside five seconds, which `solo` admits. One flag
with two values makes a key that changes and comes back under a renderer, two attempts a
failure that is retried and one that is the last, and three keys a queue of two that has to
drop one. A device limit of 1 (the code allows 5) makes every second login evict; the limit
of 2 of `accounts_token` has both places filled by tokens that were used after the login
under way read the clock, so that no two dates that matter are equal. Two predicted moves
are one that is right before one that is refused, and the third is beyond the limit. Three
cells in a row have a gap that can be made in the middle; batches of two leave a second
batch. One key of queue room is the smallest queue that refuses. In `live` the instances
are the smallest in which the fair steps compete.

`CHECK_DEADLOCK FALSE` is set because counters bound the behaviours: when connections,
calls or attempts are used up and everything has closed, the modelled world rests. Only
`sessions` needs no such line.

Every property has a mutant of the code in the modules (`...ByPlayer`, `...WithoutEnd`,
...): a plausible bug under which the run fails. They are listed in `PROJECT.json` and are
used by no action.

## 5. Where the code and its own words differ

Each row is a property that states what a comment, a document or a test says, and that
TLC refutes on the model of the code. The two with a run are in `PROJECT.json`; the ones
with a configuration can be repeated with it (`tlc -config X.cfg M`); the others are
defined in their module and refuted by naming them in that module's configuration.

| property | module, configuration | what happens |
|---|---|---|
| `FightEndsWithRoom` | Combat, `MCCombatRoom.cfg` of MCCombat | a potion outside a fight does not ask for hit points, so it raises a character that is down; the respawn timer stays armed (`combat.ts:828`) and later carries the character out of a new fight, which goes on from another room, against `handlers.ts:660` |
| `WelcomeTokenWorks` | Accounts, `AccountsToken.cfg` | a new token is dated with the clock of before the scrypt wait (`server.ts:294`); when the other devices of the account use theirs during the wait, strictly later, the new one is the least recently used: the limit evicts it as it is issued (`accounts.ts:57`) and the welcome hands out a token that opens nothing |
| `NoEternalGhost` | Sessions, `MCSessionsGhost.cfg` of MCSessions | a socket that closed during the password check is given a session (`server.ts:303` looks at `dead` only): no close event will come, and the ghost that `server.ts:384` promises to remove stays |
| `MinimapsAlwaysAgree`, `ReturnKeepsPosition` | Presence | a revival moves the player and tells only the player (`combat.ts:828`, `handlers.ts:315`), against `README.md:40` and `session.ts:13` |
| `OnlyRevivalRaises` | Combat | `useItem` outside a fight calls `inventory.use` before it looks at hp (`combat.ts:467`), against `handlers.ts:225` |
| `EveryReaderReplaced` | Upgrade | watchers of replaced connections count towards the limit (`upgrade.ts:271`), so a present reader keeps the fallback, against `upgrade.ts:228` |
| `NoHopelessWatchers` | Upgrade | after the last failure a key's watchers stay for the life of the process (`upgrade.ts:231`), against `upgrade.ts:263` |
| `CompleteIsOffered` | Economy (`CompleteIsOffered` of MCStored) | a mission whose boss is slain for good is left out of the offers before the player's own row is looked at (`missions.ts:115`): who completed it sees no entry to hand it in, against `protocol.ts:363` |
| `RevivalIsShown` | Reconcile | a revival sends neither ack nor snapshot (`combat.ts:831`), so the page draws the player where it died until its next action, against `protocol.ts:532` |
| `PendingDiesWithLink` | Reconcile | after an error without reconnection nothing clears `pending` (`reconcile.ts:46`), against `reconcile.ts:8` |
| `BeyondPendingIsRefused` | Reconcile | no server code reads `maxPending` (`reconcile.ts:28`), against `reconcile.ts:26` |
| `LoginReachesServer` | ClientLink, one tab, two slots, one break, one login | a login while a retry is pending opens two sockets; the first takes the credentials and sends them on the one that is still connecting, which throws (`socket.ts:136`), against `socket.ts:59` |
| `LiveWheneverPlaying` | ClientLink, one tab, two slots, one break, one login | of those two sockets the first one's end closes the status of a live connection (`socket.ts:102`), against `App.tsx:77` |
| `NoRoomIsLost` | Worlds on `MCWorldSamples` with Shapes {open, split, lair}, Doors {none, pair, trap}, Seconds {none, pair}, Slips {none} | a piece of a region entered only from a piece nobody can get to counts as reached (`seed.ts:302`), against `seed.ts:223` |
| `NobodyIsTrapped` | Worlds | the counterpart of a two-way door may have a flag or a rank of its own (`seed.ts:166`), against `seed.ts:165` |
| `RestoreAlwaysRuns` | Keeping, `MCKeepingRooms.cfg` of MCKeeping | `stateHash` throws for a row of `rooms` the map no longer has (`restore.ts:103`): no restore runs, against `restore.ts:96` |
| `RefusedOnlyByNewer` | Keeping, `MCKeepingCrash.cfg` of MCKeeping | a boot that dies between `schema.sql` and the version row leaves a file every later boot refuses (`migrate.ts:37`), against `migrate.ts:3` |
| `ManifestNamesItsWorld` | Keeping | the manifest takes the hash from before the copy (`backup.ts:133`), against `backup.ts:45` |
| `BackupBesideLiveServer` | Keeping | one visitor during the copy and the verification throws (`backup.ts:121`), against `backup.ts:1` |
| `NeverOverwrites` | Keeping with two backups | both look at the destination before either has copied; the second copy replaces the first (`backup.ts:93`, `:104`), against `backup.ts:94` |
| `PaidTextComesBack` | Keeping | a fallback told since wins over the backup's paid text (`queries.ts:310`), against `restore.ts:9` |
| `DryRunForetells` | Keeping | the dry run counts rows of any source and none the target has (`restore.ts:138`), against `README.md:1330` |
| `CursorStays` | Menu | the cursor is an index (`App.tsx:123`), against `menu.ts:21` |
| `EnterSkipsDisabled` | Menu | a list is entered on index 0, disabled or not (`App.tsx:167`), against `menu.ts:31` |
| `AutoNeverOverrides`, `StopStays` | Menu | the timer looks at the slot on the screen, which lags behind a person's choice (`App.tsx:153`, `prefs.ts:59`), against `App.tsx:135` and `prefs.ts:59` |
| `RevivalLineStays`, `LogIsOfThisRoom` | Menu | the log is cleared by `room.describe` of another room only: with a revival's line in it (`store.ts:156`), and not by a snapshot (`store.ts:105`), against `store.ts:149` and `:137` |
| `NothingOverwritten` with `Beside` | Authoring | a seed written by hand while the model answers is replaced (`authorRegion.ts:187`), against `authorRegion.ts:14` |
| `DoorsHaveTwoSides` | Authoring, `AuthoringDoors.cfg` | with complete seeds this region's exits are never saved (`authorRegion.ts:306`), against `README.md:2295` |
| `GhostSeedsGo` | Authoring | nor are removed seeds, unless another one is missing (`authorRegion.ts:306`), against `authorRegion.ts:241` |
| `SeedsShareOverview` | Authoring | a run that dies after a batch loses the overview its seeds were made from (`authorRegion.ts:309`), against `authorRegion.ts:220` |
| `WrongDoorIsFree` | Authoring | the overview is asked for before the doors are checked (`authorRegion.ts:232`), against `authorRegion.ts:250` |
| `ExitZeroMeansDone` | Pregen | a full queue refuses NPC lines silently and only rooms are counted (`pregen.ts:130`), against `pregen.ts:385` |
| `LeftoversAreRetried` | Pregen | fallbacks of flag states that have passed are counted and never retried (`pregen.ts:387`), against `pregen.ts:388` |

## 6. Fairness

Only weak fairness is assumed, of what the runtime or the code itself brings about; peers,
players, breaks, failures and the person at the tools are never fair.

- `Sessions`: the heartbeat, each grace timer, the close event of each closing socket, each
  running password check. Node fires armed timers, `ws` emits `close` after `terminate()`
  or `close()` (it has a close time-out of its own), and scrypt returns.
- `Gate`: the heartbeat and the close event of a dying socket.
- `Combat`: enemy returns (the interval runs while one waits) and each respawn timer.
  Swings and players are not fair.
- `Upgrade`: of every key, the end of a first rendering, of a job and of a cool-down: a
  renderer resolves or rejects (the model's call has a time-out) and the timer is armed.
- `ClientLink`: the retry timer, the events of each socket, the server's reading of what
  arrived and its password check.
- `Reconcile`: delivery of messages on a link that stays, the server's reading and its
  password check.
- `Accounts`: the end of a running rehash, either way.

`LiveSpecs` of MCLive is the conjunction of all of these for instances of which one moves.
In the initial state of each instance no fair action is enabled, so the ones that rest take
nothing from the behaviours of the one that moves.

## 7. Proofs

Each proof module extends one module of the system, or one of the four compositions of
section 2 with the modules it instantiates. Its assumptions are the named `ASSUME`s of that
module (which TLC evaluates for the instances) and nothing more, except where the table
says. The bounds are arbitrary naturals, the sets arbitrary sets, finite where the code
counts their elements. The theorems about a composition's own properties are of the
composition's specification, the others of the extended module's.

| module | theorem | statement |
|---|---|---|
| `SessionsProofs` | `Invariance` | `Spec => []IInv` |
| | `TypeCorrect` | `Spec => []TypeOK` |
| | `PagesOwnSessions` | `Spec => []OpenPageOwnsSession` |
| | `LingerCorrect` | `Spec => []LingerMatchesSocket` |
| | `SeqCorrect` | `Spec => []SeqBelongsToConnection` |
| | `CounterCorrect` | `Spec => []SocketsCounted` |
| | `DepartureCorrect` | `Spec => DepartsOnlyWhenGone` |
| | `CloseCorrect` | `Spec => CloseDetaches` |
| | `Refinement` | `Spec => ImplementsSeats` |
| `PresenceProofs` | `PresenceInvariant` | `Spec => []IInv` |
| | `IndexAlwaysMatches` | `Spec => []IndexMatchesPositions` |
| | `StoredPositionStaysCurrent` | `Spec => []StoredPositionIsCurrent` |
| | `ClientsAlwaysAgree` | `Spec => []ClientsAgree` |
| | `ReconnectsAreQuiet` | `Spec => QuietReconnect` |
| `CombatProofs` | `CombatInvariant` | `Spec => []IInv` |
| | `FightsAreSound` | `Spec => []FightIsSound` |
| | `ScreensAlwaysShowFights` | `Spec => []ScreensShowFights` |
| | `CreditIsAlwaysDamage` | `Spec => []CreditIsDamage` |
| | `ClocksAlwaysRun` | `Spec => []ClocksRun` |
| `UpgradeProofs` | `Inductive` | `Spec => []IInv` |
| | `TextsStayTrue` | `Spec => []TextsAreTrue` |
| | `QueueAlwaysWorks` | `Spec => []QueueWorks` |
| | `PagesKeepTheirLines` | `Spec => LinesKeepTheirPlace` |
| | `ServicesImplementCanon` | `Spec => WrittenOnce` |
| `PageProofs` | `LineInOrder` | `Spec => []IInv` |
| | `PageSeesItself` | `Spec => []SeesItself` |
| | `RightGuessesAreSmooth` | `Spec => SmoothWhenRight` |
| | `LinkIsTrueAlways` | `PageSpec => []LinkIsTrue` |
| | `ReasonStaysAlways` | `PageSpec => ReasonStays` |
| | `WindowAlwaysHasAList` | `PageSpec => []WindowHasAList` |
| | `IrreversibleAlwaysTakesTwo` | `PageSpec => IrreversibleTakesTwo` |
| | `WindowIsAlwaysTrue` | `PageSpec => []WindowIsTrue` |
| `PlayersProofs` | `AccountsInvariant` | `Spec => []IInv` |
| | `AccountsStayOwned` | `Spec => []AccountsAreOwned` |
| | `EveryWaitHasItsAnswer` | `Spec => []WaitsAreAnswered` |
| | `CharactersAreBoundForGood` | `Spec => BoundForGood` |
| | `DoorAlwaysKeepsCount` | `PlayersSpec => []DoorKeepsCount` |
| `ContentProofs` | `TypeCorrect` | `Spec => []TypeOK` |
| | `RegionIsOnePiece` | `Spec => []OnePiece` |
| | `NoLonelyCell` | `Spec => []FrontierTouches` |
| | `NothingIsLost` | `Spec => []OpenCellsWait` |
| | `AcceptedWorldsAlwaysWork` | `ContentSpec => []AcceptedWorldsWork` |
| | `DoorsAlwaysReturn` | `ContentSpec => DoorsReturn` |
| | `NothingIsEverOverwritten` | `ContentSpec => NothingOverwritten` |
| | `FileIsAlwaysResumable` | `ContentSpec => []FileIsResumable` |
| `StoredProofs` | `CopiesHold` | `EconomyAssumption`, then `Spec => []CopiesAreFresh` |
| | `ItemsHold` | `EconomyAssumption`, then `Spec => []ItemsConserved` |
| | `TrophiesHold` | `EconomyAssumption`, `RanksAskOnce`, then `Spec => []TrophiesBuyRanks` |
| | `PaymentsHold` | `EconomyAssumption`, then `Spec => PaidOnce` |
| | `FilesAreAlwaysWhole` | `StoredSpec => []FilesAreWhole` |
| | `RunsAlwaysDoWhatTheySay` | `StoredSpec => []RunsDoWhatTheySay` |
| | `PaidWorkAlwaysStays` | `StoredSpec => PaidWorkStays` |

Why the invariants had to be strengthened, and how.

**Sessions.** `OpenPageOwnsSession` is not inductive: nothing in it says that the epoch
of an old tab cannot equal that of the new session. `IInv` adds how epochs are handed
out: every epoch in use is smaller than `nextConnId` (`EpochsIssued`), two connections
with a session never share one (`EpochsUnique`), a session's socket is the connection
its epoch was issued to (`SocketIsEpoch`), that connection is the session's socket until
its close event (`EpochSeated`), and a connection that has said no hello has no session
(`Fresh`). Then the epoch guard of `handleClose` lets through exactly the close of the
socket in use, which is what `CloseDetaches` and the refinement need.
`SeqBelongsToConnection` and `SocketsCounted` are proved on top of `IInv`, the latter
with the cardinality theorems of the library.

**Presence.** The three pictures a client has (`MinimapsAgree`, `RostersAgree`,
`GridsAgree`) are computed from the room index, so none of them is inductive without
`IndexMatchesPositions`, and none is without the others, because one step redraws all
three. `HoldersUsed` (a connection that holds a seat was given it) is why a return within
the grace period always changes the holder, which `QuietReconnect` is about.

**Combat.** A room's `Combat` and the players who believe to be in it change together.
`Fought(r, b, S)` says of a battle b and a set S of players everything at once: the order
names each fighter once and only those, the target is one of them, who has threat is one
of them, the enemy lives. Leaving, joining, striking and being aimed at each keep
`Fought`, and the actions are made of these. `CreditIsDamage` sums threat along the order;
a sum over a sequence cannot be unfolded by the prover, so the model states it by a
running total, a function that exists, and each step moves that function along (what a
fighter who leaves had is taken off from its place on; a blow is added from the striker's
place on). `ClocksRun` needs the parts `Bodies` and `Timers` (who is down has a timer of
its own epoch, but for a write that failed) and `Enemies`. Two assumptions beside the
parameters' ranges say that the markers for "no fight" and "no room" are not one.

**Accounts.** Two arguments that do not meet. Slots: a job keeps the number of the attempt
that made it, so no two are equal, the slots are full whenever somebody stands in line
(`Slotted`), and each waiting hello has exactly one job that answers it (`Answers`). Rows:
a name without a secret has no character, so that the insert of the name is the only step
that gives an account its first character; tokens are numbered as they are made, and the
token of an owned row is in nobody's hands (`Rows`). That the limit of devices is kept is
a counting argument over the tokens of a character (`IssuedOK`).

**Economy.** The module's assumptions are operators (`EconomyAssumption`, which `Stored`
assumes, and `RanksAskOnce`, which `MCStored` assumes of its constants) and hypotheses of
the theorems. A transaction is a recursive function of the number of statements executed,
and so is a sum; the first section of the proofs shows that such functions exist (by least
counterexample) and what they do at 0 and at n + 1. Every handler is then worked out to its
effect on the rows: the sum of a reward's lines, the drops of the lucky, the dues of a
rank, or nothing. `Copies` is the inductive invariant: `CopiesAreFresh` and that only a
mission that was taken is closed, without which taking it could undo the payment. Of each
step `Books` says that what came in and went out is what changed, player by player and item
by item; summed over the players this keeps `ItemsConserved`, and only a gift is argued on
the sum itself, where one leaves and one arrives. `RankPaid` needs `RanksAskOnce`, that no
rank names one item in two lines: `promote` compares each line with the bag by itself, and
of a list with two lines for one item the second would take what is left, less than its
amount (or fail, when nothing is). `ranks.json` has no such list, `content/balance.ts:190`
would let one pass.

**Upgrade.** `TextsAreTrue` depends on what is under way: `WorldOK` says that every row is
a sentence of the state of its key, and that a rendering in flight is of that state too.
`QueueOK` says of the queue's record that a key is named once in it, is either waiting or
running, has a target and a row, and is not given up (`Works`), and that no slot idles
while a key waits (`Busy`); that `Pump` restores this is an induction over the number of
keys that still wait, made by a least counterexample, because the prover has no induction
theorem. `PagesOK` says that the lines of a page are numbered, each once, and that every
watcher either names a line of its key on that page or is of a connection that is over:
without it a replacement could reach a line of another key. `WrittenOnce` is the refinement
of `Canon`, step by step (`RowsMove`).

**Reconcile.** The ordered link is read as one line, from what the page has heard, over
the messages and frames under way, to what the page will send next. `Numbers` says that
the numbers grow along it and that a frame and the move predicted with it name one
direction; `Linked` that a connection begins with its hello and ends with its error;
`Told` that at the end of the messages the page will have heard the server's own position,
unless a revival came between; `Stepwise` that the ack of a predicted move which was taken
as a step stands one step after what is heard before it. `Settled` is `Told` and
`PendingIsAnswered` with nothing under way. `SmoothWhenRight` is `Stepwise` for the message
that is read, and a lemma on `view()`: the first move may be taken before the others are
replayed (`ReplayFirst`).

**Gate.** `BirthsKept` is the argument about creations: the list of an address may forget
what is older than the window and nothing else, and holds failed creations too, so while
the clock is not set back whatever was born in a window that ends now is still remembered,
and `mayCreate` compares a number that is not smaller than the true one. `YellsKept`
accounts for a session's bucket: what is left and what was yelled is at most what it began
with and what the time up to its last action has refilled. `Rowed` says that who is not
known yet has no session. `SocketsAreCounted` and `OneAckEach` are inductive as they stand.

**ClientLink.** `LinkIsTrue` is about three kinds of late event at once. `OneEach` says
that the sockets and retries of a tab are not more than one and its doubled logins, and
that on a tab without one only `ws` is not over and a retry timer and a socket exclude each
other: only the login finds something under way when it opens a socket, which is what
`doubled` counts. `Ends` says how the server's end of a socket and its messages go with the
page's; `Shows` that a session of a tab without a doubled login has told of itself, or its
welcome is on the way, and that any live page has a socket that is up and had a session;
`Sent` that what was asked of the server and what waits to be sent were entered by hand,
once each. `ReasonStays` needs `ReasonShown` only: a page that shows a reason is not live.

**Menu.** The lists are rebuilt from the facts after every step, so nothing about a list is
remembered; what has to be shown is that they have a shape whatever the facts are. `Top`,
`Low` and `Shut` say that a list opens lists to a depth of three and no further. `PathInv`
is that path and cursor are a sequence and a number and that the path resolves: the effect
after each render cuts a path whose branch is gone, a key goes one branch down or up, and a
shorter way resolves when the longer one does, because below nothing there is nothing.
`IrreversibleTakesTwo` is about the window's top: the acts found there are `TopActs`, none
of which drinks or gives, so such an action is only sent from a path that is not empty
(`Careful`); the list of one item is where a folded menu would break this.

`QuietScreenIsTrue` compares two records that change at different times. `ScreenInv` makes
it inductive: the screen, told everything that is under way message by message (`Becomes`),
agrees with the server on all but the cooldowns, which the server tells with the next swing
only. A step of the server `Tells` what it changed if every screen that agreed before it
agrees again once the messages it sent are read; handlers (`Answers`), deaths, revivals and
turns of the world are each shown to do so, and a message that is read is one taken off the
front of what `Becomes` speaks of. Three facts carry the cases: `combat.update` counts only
while the screen shows a fight, which `Becomes` knows because what came before it is read
first; who is out of a fight has no allies and no order (`IsSrv`); and the screen's dialogue
is closed by every message that changes its room (`IsUi`).

**Authoring.** `PaidSeedsKept` and `HalfDoorHasItsPair` are about the file; a run writes
its memory over the file. `MemoryHasFile` says that the memory has the grid and every seed
of the file, at every step of the run, which is why writing loses nothing, and `DoorsPaired`
that exits in memory have their other side on the disk already. Both need that nobody edits
beside the tool, which `Content` says of it (`Beside <- FALSE`).

**Worlds.** The boot computes three searches. As least closed sets they can be reasoned
about without recursion: `SearchStays` (what is closed under a step contains what is found),
`PieceIsWhole` (a region in one piece is found from any of its rooms), `EveryRoomIsWalkedTo`
(so the graph of regions, followed by the rooms, is the walk of a player) and
`MissionHasBoth`. `BootInv` says that who walks has passed the boot, stands on floor with a
seed, and went through the door that `door` names. `DoorsReturn` uses the boot's check that
a two-way door has a counterpart (`DoorOk`), that an authored world has no second door on
that side (`WellFormed`), and that what let the player through the one opens the other when
it asks for no other flag and no higher rank.

**Keeping.** `KeepInv` says of the live file and of a backup that a version has its tables
and a hash its rooms (`Intact`), of a process between two transactions what it has already
written (`BootsOk`), of a run of backup that has looked and not yet copied that the
destination is still free or that another run's copy came between (`BackupOk`), and of
restore's report that its plan is of rooms the file has (`ReportOk`). The action properties
follow from one notion: every step but a deploy onto a new file only grows the file
(`Grows`), row by row.

**Pregen.** `JobOk` says that a key is in one place at a time: to be pushed, in the queue (which
is injective), under way, or settled (`QueueOk`, `PlacesOk`); that the counters are numbers
of settled keys (`CountsOk`); and that the plan is the set of keys that were due. `RunOk`
says of a run that has ended what its report says, whatever the flags do afterwards.

**Layout.** `OnePiece` (no proper part of the carved cells is without a neighbour in the
rest) says nothing of the cell that is carved next. `IInv` adds that every cell of the
frontier touches a carved one (`FrontierTouches`), so that the new cell is joined to what
is there; a part of the old cells alone was joined to the rest before, and a part with the
new cell in it is joined through its neighbour or through the old piece. `OpenCellsWait` is
why the carving stops short only when nothing can be carved: a wall a passage can grow into
waits in the frontier.

What stays with TLC, and why:

- All liveness (`live`): fairness and ENABLED are outside what the prover handles.

## 8. Not modelled

- **Prose and drawing**: narration, prompts, log wording, layout of the page, colours, key
  hints, text drawings of the map. Formatting is left out everywhere.
- **Validators and sanitizers** (`shared/`): pure functions on strings. The parsing of
  content files and the ranges of `balance.ts`: each a check of one field.
- **The model call** (`narration/llm.ts`): an operation that takes time and may fail.
- **Time**: order is modelled, durations are not, but for the clock of Gate, the cool-down
  of the queue (which ends some time) and the dates of tokens. Likewise dice.
- **Simulators, cost and preflight** (`tools/*Sim.ts`, `cost.ts`, `preflight.ts`): reports
  that change nothing. **Static files**: pure I/O.
- **Start-up wiring and signal handlers** of `index.ts`, the unmounting of the page, and
  preferences other than the automatic skills.
- **Compositions** beyond those of section 2: what one subject needs of another is
  modelled inside it (a revival in Presence and Reconcile, a flag in Economy and Worlds)
  instead of putting whole modules side by side, which would be out of TLC's reach.
