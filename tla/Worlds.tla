------------------------------- MODULE Worlds -------------------------------
(* What the boot accepts as a world (db/seed.ts assertWorldData, on what    *)
(* content/world.ts has read and engine/map.ts serves) and how a player     *)
(* then moves about in it (engine/move.ts).  The world is chosen by Init    *)
(* among those an author might have written.                                *)
EXTENDS Integers, FiniteSets

CONSTANTS
  Authored,    \* the worlds on disk, well formed one file at a time
  Slain,       \* enemies.json: the flag an enemy's death turns on, or NoFlag
  TopRank,     \* the last level of ranks.json
  Item         \* the items of items.json

\* A position is a region and a cell.  The tool that writes the exits never puts
\* two doors on one side of a cell; the boot does not look for them.  A rank asked
\* for is a number (content/world.ts:42).
WellFormed(w) ==
  /\ \A p \in {w.spawn} \cup {e.at : e \in w.exits} \cup {e.to : e \in w.exits} : p = <<p[1], p[2]>>
  /\ \A e, f \in w.exits : e.at = f.at /\ e.dir = f.dir => e = f
  /\ \A e \in w.exits : e.minRank \in Nat

WorldsAssumption == TopRank \in Nat /\ \A w \in Authored : WellFormed(w)

VARIABLES
  world,       \* [tiles, seeds, sensitive, enemies, exits, npcs, missions, spawn, flags]
  mode,        \* "booting", "up" or "refused"
  pos, on, rank, \* the player's cell, the flags that are on, the player's rank
  door         \* history: the exit the last step went through, or NoDoor
vars == <<world, mode, pos, on, rank, door>>

NoFlag == "none"
NoDoor == [at |-> <<>>]
Dir == {"north", "south", "east", "west"}
Delta == [north |-> <<0, -1>>, south |-> <<0, 1>>, west |-> <<-1, 0>>, east |-> <<1, 0>>]
Opposite == [north |-> "south", south |-> "north", east |-> "west", west |-> "east"]
Step(p, dir) == <<p[1], <<p[2][1] + Delta[dir][1], p[2][2] + Delta[dir][2]>>>>
-----------------------------------------------------------------------------
(* engine/map.ts.  A position is <<region, <<x, y>>>>.                      *)
Region(w) == DOMAIN w.tiles
TileAt(w, p) ==
  IF p[1] \in Region(w) /\ p[2] \in DOMAIN w.tiles[p[1]] THEN w.tiles[p[1]][p[2]] ELSE "#"
Walkable(w, p) == TileAt(w, p) # "#"
Cells(w, r) == {r} \X DOMAIN w.tiles[r]
AllRooms(w) == {p \in UNION {Cells(w, r) : r \in Region(w)} : Walkable(w, p)}
\* exitAt takes the first of them in the file: there is one at most.
ExitsAt(w, p, dir) == {e \in w.exits : e.at = p /\ e.dir = dir}
Placed(w) == UNION {{w.enemies[r][c] : c \in DOMAIN w.enemies[r]} : r \in Region(w)}

\* What a search finds in U: the least part of it that holds S and all of
\* Succ(s) for its members.  The order of the search does not matter.
Closure(S, Succ(_), U) ==
  {x \in U : \A T \in SUBSET U :
     S \cap U \subseteq T /\ (\A s \in T : Succ(s) \cap U \subseteq T) => x \in T}
-----------------------------------------------------------------------------
(* db/seed.ts                                                               *)
Declared(w, f) == f \in DOMAIN w.flags

\* assertRegion: seeds on every walkable cell and on no other, flags declared
\* on floor only and known, the E tiles and the placed enemies in pairs.
RegionOk(w, r) ==
  LET floor == {p[2] : p \in AllRooms(w) \cap Cells(w, r)}
  IN  /\ w.seeds[r] = floor
      /\ DOMAIN w.sensitive[r] \subseteq floor
      /\ \A c \in DOMAIN w.sensitive[r] : \A f \in w.sensitive[r][c] : Declared(w, f)
      /\ DOMAIN w.enemies[r] = {c \in floor : w.tiles[r][c] = "E"}
      /\ \A c \in DOMAIN w.enemies[r] : w.enemies[r][c] \in DOMAIN Slain

Back(w, e, b) == b.at = e.to /\ b.dir = Opposite[e.dir] /\ b.to = e.at

\* Mutant: nobody looks for the way back.
DoorAlone(w, e) ==
  /\ Walkable(w, e.at) /\ ~Walkable(w, Step(e.at, e.dir)) /\ Walkable(w, e.to)
  /\ e.requires = NoFlag \/ Declared(w, e.requires)
  /\ e.minRank <= TopRank

\* assertDoors
DoorOk(w, e) ==
  /\ Walkable(w, e.at) /\ ~Walkable(w, Step(e.at, e.dir)) /\ Walkable(w, e.to)
  /\ e.requires = NoFlag \/ Declared(w, e.requires)
  /\ e.minRank <= TopRank
  /\ e.oneWay \/ \E b \in w.exits : Back(w, e, b)

\* assertMissions
MissionOk(w, m) ==
  /\ \E n \in w.npcs : n.id = m.npc /\ n.guild
  /\ m.requires = NoFlag \/ Declared(w, m.requires)
  /\ m.minRank <= TopRank
  /\ m.enemy \in DOMAIN Slain \cap Placed(w)
  /\ m.reward \subseteq Item

\* NPCs stand on floor; their topics and moods name declared flags.
NpcOk(w, n) == n.at \in AllRooms(w) /\ \A f \in n.topics \cup n.sensitive : Declared(w, f)

\* assertReachable: the flags that are on from the start or by a placed enemy's death.
Openable(w) == {f \in DOMAIN w.flags : w.flags[f]} \cup ({Slain[e] : e \in Placed(w)} \ {NoFlag})

MayOpen(w, e) == (e.requires = NoFlag \/ e.requires \in Openable(w)) /\ e.minRank <= TopRank

\* Mutant: a door is taken for one of both regions, whichever way it goes.
RegionsJoined(w) ==
  Closure({w.spawn[1]}, LAMBDA r : UNION {{e.to[1], e.at[1]} : e \in {x \in w.exits : r \in {x.at[1], x.to[1]}}},
          Region(w))

\* The graph of regions, then the rooms one can walk to from the ways in.
RegionsReached(w) ==
  Closure({w.spawn[1]}, LAMBDA r : {e.to[1] : e \in {x \in w.exits : x.at[1] = r /\ MayOpen(w, x)}},
          Region(w))

Neighbours(w, p) == {q \in {Step(p, dir) : dir \in Dir} : Walkable(w, q)}

RoomsReached(w, r) ==
  Closure({p \in {e.to : e \in w.exits} \cup {w.spawn} : p[1] = r /\ Walkable(w, p)},
          LAMBDA p : Neighbours(w, p), Cells(w, r))

\* What reads a flag.
Readers(w) ==
  ({e.requires : e \in w.exits} \cup {m.requires : m \in w.missions}
   \cup UNION {UNION {w.sensitive[r][c] : c \in DOMAIN w.sensitive[r]} : r \in Region(w)}
   \cup UNION {n.topics \cup n.sensitive : n \in w.npcs}) \ {NoFlag}

Reachable(w) ==
  /\ Region(w) \subseteq RegionsReached(w)
  /\ \A r \in Region(w) : {r} \X w.seeds[r] \subseteq RoomsReached(w, r)
  /\ \A f \in DOMAIN w.flags :
       IF f \in Readers(w) THEN f \in Openable(w)
       ELSE f \in Openable(w) \/ \E e \in DOMAIN Slain : Slain[e] = f

\* assertWorldData
Accepted(w) ==
  /\ \A r \in Region(w) : RegionOk(w, r)
  /\ \A e \in w.exits : DoorOk(w, e)
  /\ \A m \in w.missions : MissionOk(w, m)
  /\ Reachable(w)
  /\ \A e \in DOMAIN Slain : Slain[e] = NoFlag \/ Declared(w, Slain[e])
  /\ \A n \in w.npcs : NpcOk(w, n)
  /\ Walkable(w, w.spawn)
-----------------------------------------------------------------------------
Boot ==
  /\ mode = "booting" /\ mode' = IF Accepted(world) THEN "up" ELSE "refused"
  /\ UNCHANGED <<world, pos, on, rank, door>>

\* resolveMove: a door comes before a step; what is returned can be stood on.
Unlocked(e) == (e.requires = NoFlag \/ e.requires \in on) /\ e.minRank <= rank

Through(dir) ==
  \E e \in ExitsAt(world, pos, dir) :
    Unlocked(e) /\ Walkable(world, e.to) /\ pos' = e.to /\ door' = e

StepOn(dir) ==
  /\ ExitsAt(world, pos, dir) = {} /\ Walkable(world, Step(pos, dir))
  /\ pos' = Step(pos, dir) /\ door' = NoDoor

Walk(dir) ==
  mode = "up" /\ (Through(dir) \/ StepOn(dir)) /\ UNCHANGED <<world, mode, on, rank>>

\* The enemy of this room dies.
Slay ==
  /\ mode = "up" /\ pos[2] \in DOMAIN world.enemies[pos[1]]
  /\ on' = on \cup ({Slain[world.enemies[pos[1]][pos[2]]]} \ {NoFlag})
  /\ UNCHANGED <<world, mode, pos, rank, door>>

\* The guild raises the player's rank.
Rise == mode = "up" /\ rank < TopRank /\ rank' = rank + 1 /\ UNCHANGED <<world, mode, pos, on, door>>

Init ==
  /\ world \in Authored /\ mode = "booting" /\ pos = world.spawn
  /\ on = {f \in DOMAIN world.flags : world.flags[f]} /\ rank = 0 /\ door = NoDoor

Next == Boot \/ (\E dir \in Dir : Walk(dir)) \/ Slay \/ Rise
Spec == Init /\ [][Next]_vars
-----------------------------------------------------------------------------
(* In an accepted world the player always stands in a room with a seed to   *)
(* tell of it, and every flag that is on is one the world declares.         *)
TypeOK ==
  mode = "up" =>
    /\ pos \in AllRooms(world) /\ pos[2] \in world.seeds[pos[1]]
    /\ on \subseteq DOMAIN world.flags /\ rank \in 0..TopRank

(* Every room an exit leads to from here once all that can open is open.    *)
WalkedTo(w, S) ==
  Closure(S, LAMBDA p : Neighbours(w, p) \cup {e.to : e \in {x \in w.exits : x.at = p /\ MayOpen(w, x)}},
          AllRooms(w))

InOnePiece(w, r) ==
  \A p \in AllRooms(w) \cap Cells(w, r) :
    AllRooms(w) \cap Cells(w, r) = Closure({p}, LAMBDA q : Neighbours(w, q), Cells(w, r))

(* The two-level search of the boot, regions first and rooms of a region    *)
(* after, misses nothing when no region falls into pieces: every room can   *)
(* be walked to from the spawn, through doors that something can open.      *)
PiecesMakeOneWorld ==
  mode = "up" /\ (\A r \in Region(world) : InOnePiece(world, r))
    => AllRooms(world) = WalkedTo(world, {world.spawn})

(* A mission of an accepted world can be done: its giver and its enemy      *)
(* stand where the player can get to once all that can open is open, three  *)
(* files apart as they are.                                                 *)
MissionsCanBeDone ==
  mode = "up" /\ (\A r \in Region(world) : InOnePiece(world, r)) =>
    \A m \in world.missions :
      /\ \E n \in world.npcs : n.id = m.npc /\ n.at \in WalkedTo(world, {world.spawn})
      /\ \E p \in WalkedTo(world, {world.spawn}) :
           p[2] \in DOMAIN world.enemies[p[1]] /\ world.enemies[p[1]][p[2]] = m.enemy

(* After a door that is not one-way there is exactly one door on the side   *)
(* the player came in by; it leads to where they were, which is floor, and  *)
(* one that asks for no other flag and no higher rank than the first is     *)
(* open to them.  A counterpart with another lock may hold them             *)
(* (NobodyIsTrapped).                                                       *)
DoorsReturn ==
  [][door' # NoDoor /\ door' # door /\ ~door'.oneWay =>
       \E b \in world.exits :
         /\ ExitsAt(world, pos', Opposite[door'.dir]) = {b}
         /\ b.to = pos /\ Walkable(world, b.to)
         /\ b.requires \in {NoFlag, door'.requires} /\ b.minRank <= door'.minRank => Unlocked(b)]_vars

(* db/seed.ts: the world is a graph that grows from the spawn; what cannot  *)
(* be walked to is refused.  The rooms of a region are searched from every  *)
(* way in, also those that only open in rooms nobody can get to.            *)
NoRoomIsLost == mode = "up" => AllRooms(world) = WalkedTo(world, {world.spawn})

(* What the player can still do from here: rooms and flags, rank given.     *)
StillOpen(w, e, flags) == (e.requires = NoFlag \/ e.requires \in flags) /\ e.minRank <= rank
From(w, S) ==
  LET next(s) ==
        {<<p, s[2] \cup (IF p[2] \in DOMAIN w.enemies[p[1]] THEN {Slain[w.enemies[p[1]][p[2]]]} ELSE {})>> :
           p \in Neighbours(w, s[1]) \cup {s[1]} \cup
                 {e.to : e \in {x \in w.exits : x.at = s[1] /\ StillOpen(w, x, s[2])}}}
      grown[k \in 0 .. 2 * Cardinality(AllRooms(w))] ==
        IF k = 0 THEN S ELSE grown[k - 1] \cup UNION {next(s) : s \in grown[k - 1]}
  IN  grown[2 * Cardinality(AllRooms(w))]

(* db/seed.ts: a door declared to go both ways has its counterpart, else    *)
(* one is trapped.  The counterpart may have a lock of its own.             *)
NobodyIsTrapped ==
  mode = "up" /\ (\A e \in world.exits : ~e.oneWay) =>
    \E s \in From(world, {<<pos, on>>}) : s[1] = world.spawn
=============================================================================
