------------------------------ MODULE Presence ------------------------------
(***************************************************************************)
(* Who sees whom: positions, the room index of the registry, and the copy  *)
(* of the world that every connected client builds from the server's       *)
(* presence.* and room.* messages (net/presence.ts, client/state/store.ts).*)
(*                                                                         *)
(* Connections enter only through the contract of Seats, which Sessions    *)
(* implements: Take is a hello, Close the close of a socket, Depart the    *)
(* end of the grace period.                                                *)
(*                                                                         *)
(* A client's copy is the state its store reaches once everything sent to  *)
(* it has been processed.  A socket delivers in order and the reducer is   *)
(* deterministic, so the copy can be updated in the step that sends.       *)
(***************************************************************************)
EXTENDS Seats, Naturals, FiniteSets

CONSTANTS
  Room,       \* the rooms a player can stand in
  RegionOf,   \* the region of a room
  Exit,       \* pairs of rooms: a step leads from the first to the second
  Arena,      \* rooms where an enemy may strike a player down
  Spawn,      \* map.spawn
  NoRoom,     \* "not on the minimap"
  MaxTimers   \* bound: respawn timers one connection of a player has armed

ASSUME PresenceAssumption ==
  /\ Spawn \in Room
  /\ Arena \subseteq Room
  /\ Exit \subseteq Room \X Room
  /\ DOMAIN RegionOf = Room
  /\ NoRoom \notin Room
  /\ MaxTimers \in Nat

VARIABLES
  conn,       \* the connection session.connId stands for, NoConn before any
  pos,        \* session.pos
  row,        \* the position stored in the players table
  down,       \* players with hp = 0, in memory and in the table
  respawn,    \* respawn timers armed, by the player and the epoch captured
  byRoom,     \* Registry.byRoom
  minimap,    \* UiState.others of the player's client, NoRoom for an absent key
  roster,     \* UiState.room.occupants of the player's client
  grid,       \* UiState.region of the player's client
  \* history
  torn,       \* players with a position half written: in the table only
  \* history: what the client was not told, until it is told again
  unseen,     \* <<viewer, subject>>: moved without presence.* messages
  unheard,    \* <<viewer, subject>>: moved without room.* messages
  offGrid     \* players moved to another region without a self.patch{region}

worldVars == <<conn, pos, row, torn, down, respawn, byRoom>>
viewVars == <<minimap, roster, grid, unseen, unheard, offGrid>>
vars == <<seatVars, worldVars, viewVars>>

Region == {RegionOf[r] : r \in Room}

TypeOK ==
  /\ present \subseteq Player
  /\ holder \in [Player -> Conn \cup {NoConn}]
  /\ used \subseteq Conn
  /\ gone \subseteq Conn
  /\ stopped \in BOOLEAN
  /\ conn \in [Player -> Conn \cup {NoConn}]
  /\ pos \in [Player -> Room]
  /\ row \in [Player -> Room]
  /\ down \subseteq Player
  /\ respawn \in [Player \X Conn -> 0..MaxTimers]
  /\ torn \subseteq Player
  /\ byRoom \in [Room -> SUBSET Player]
  /\ minimap \in [Player -> [Player -> Room \cup {NoRoom}]]
  /\ roster \in [Player -> SUBSET Player]
  /\ grid \in [Player -> Region]
  /\ unseen \subseteq Player \X Player
  /\ unheard \subseteq Player \X Player
  /\ offGrid \subseteq Player

Init ==
  /\ SeatInit
  /\ conn = [p \in Player |-> NoConn]
  /\ pos = [p \in Player |-> Spawn]
  /\ row = [p \in Player |-> Spawn]
  /\ down = {}
  /\ respawn = [t \in Player \X Conn |-> 0]
  /\ torn = {}
  /\ byRoom = [r \in Room |-> {}]
  /\ minimap = [p \in Player |-> [q \in Player |-> NoRoom]]
  /\ roster = [p \in Player |-> {}]
  /\ grid = [p \in Player |-> RegionOf[Spawn]]
  /\ unseen = {}
  /\ unheard = {}
  /\ offGrid = {}

-----------------------------------------------------------------------------
(* Reading the registry.                                                   *)

\* emit.send reaches the player's client.
Live(p) == p \in present /\ holder[p] # NoConn /\ holder[p] \notin gone

CanSee(viewer, subject) == RegionOf[viewer] = RegionOf[subject]

Others(p) == present \ {p}

\* Mutant of Reindexed: the room that was left keeps its entry.
ReindexedWithoutRemoval(p, from, to) == [byRoom EXCEPT ![to] = @ \cup {p}]

\* reposition, add and remove of the registry.
Reindexed(p, from, to) ==
  [r \in Room |-> IF r = to THEN byRoom[r] \cup {p}
                  ELSE IF r = from THEN byRoom[r] \ {p} ELSE byRoom[r]]

Added(p, r) == [byRoom EXCEPT ![r] = @ \cup {p}]
Removed(p, r) == [byRoom EXCEPT ![r] = @ \ {p}]

\* visiblePresence and roomView, for p standing in r, given an index.
VisibleTo(p, r) ==
  [q \in Player |-> IF q \in Others(p) /\ CanSee(r, pos[q]) THEN pos[q] ELSE NoRoom]
OccupantsFor(p, index, r) == index[r] \ {p}

From(viewer, pairs) == {x \in pairs : x[1] = viewer}
About(p) == {p} \X (Player \ {p})
Of(p) == (Player \ {p}) \X {p}

-----------------------------------------------------------------------------
(* What a client is sent.                                                  *)

\* A snapshot replaces the client's whole copy of the world around it.
Snapshot(p, index, r) ==
  /\ roster' = [roster EXCEPT ![p] = OccupantsFor(p, index, r)]
  /\ grid' = [grid EXCEPT ![p] = RegionOf[r]]
  /\ minimap' = [minimap EXCEPT ![p] = VisibleTo(p, r)]
  /\ unseen' = unseen \ From(p, unseen)
  /\ unheard' = unheard \ From(p, unheard)
  /\ offGrid' = offGrid \ {p}

\* announceArrival, after the new client's own snapshot: presence.join to those
\* who see r, room.enter to those who stand in r.
Arrival(p, r) ==
  /\ minimap' = [o \in Player |->
       IF o = p THEN VisibleTo(p, r)
       ELSE IF Live(o) /\ CanSee(pos[o], r) THEN [minimap[o] EXCEPT ![p] = r]
       ELSE minimap[o]]
  /\ roster' = [o \in Player |->
       IF o = p THEN OccupantsFor(p, byRoom', r)
       ELSE IF Live(o) /\ o \in byRoom'[r] THEN roster[o] \cup {p}
       ELSE roster[o]]
  /\ grid' = [grid EXCEPT ![p] = RegionOf[r]]
  /\ unseen' = unseen \ From(p, unseen)
  /\ unheard' = unheard \ From(p, unheard)
  /\ offGrid' = offGrid \ {p}

-----------------------------------------------------------------------------
(* hello                                                                   *)

\* The position handleHello starts from: a character stored with no hit points
\* stands up at the spawn point.
Landing(p) == IF p \in down THEN Spawn ELSE row[p]

\* No session yet: add one, send the snapshot, announce the arrival.
HelloNew(p, c) ==
  /\ p \notin present
  /\ Take(p, c)
  /\ conn' = [conn EXCEPT ![p] = c]
  /\ pos' = [pos EXCEPT ![p] = Landing(p)]
  /\ row' = [row EXCEPT ![p] = Landing(p)]
  /\ torn' = torn \ {p}
  /\ down' = down \ {p}
  /\ byRoom' = Added(p, Landing(p))
  /\ Arrival(p, Landing(p))
  /\ UNCHANGED respawn

\* Mutant of Placed: the new position stays in memory.
PlacedInMemory(p, to) ==
  /\ pos' = [pos EXCEPT ![p] = to]
  /\ byRoom' = Reindexed(p, pos[p], to)
  /\ UNCHANGED <<row, torn>>

\* A new position: in the table, in the session, in the index.
Placed(p, to) ==
  /\ row' = [row EXCEPT ![p] = to]
  /\ pos' = [pos EXCEPT ![p] = to]
  /\ byRoom' = Reindexed(p, pos[p], to)
  /\ torn' = torn \ {p}

\* A session exists: adopt it.  Nobody else is told anything, even when the
\* character was dead and is repositioned to the spawn point.
HelloAdopt(p, c) ==
  /\ p \in present
  /\ Take(p, c)
  /\ conn' = [conn EXCEPT ![p] = c]
  /\ IF p \in down
       THEN /\ Placed(p, Spawn)
            /\ unseen' = (unseen \ From(p, unseen)) \cup Of(p)
            /\ unheard' = (unheard \ From(p, unheard)) \cup Of(p)
       ELSE /\ UNCHANGED <<pos, byRoom, row, torn>>
            /\ unseen' = unseen \ From(p, unseen)
            /\ unheard' = unheard \ From(p, unheard)
  /\ down' = down \ {p}
  /\ minimap' = [minimap EXCEPT ![p] = VisibleTo(p, pos'[p])]
  /\ roster' = [roster EXCEPT ![p] = OccupantsFor(p, byRoom', pos'[p])]
  /\ grid' = [grid EXCEPT ![p] = RegionOf[pos'[p]]]
  /\ offGrid' = offGrid \ {p}
  /\ UNCHANGED respawn

\* The hello of a dead character fails between its two writes (position, then
\* hit points): the connection is refused, the first write stays.
HelloFails(p) ==
  /\ p \in down
  /\ row' = [row EXCEPT ![p] = Spawn]
  /\ torn' = torn \cup {p}
  /\ UNCHANGED <<seatVars, conn, pos, down, respawn, byRoom, viewVars>>

-----------------------------------------------------------------------------
(* Actions of a connected player.                                          *)

\* announceMove, the mover's own minimap: those it starts and ceases to see.
\* Mutant: the diff is computed for the others only.
SightOneSided(p, from, to) == minimap[p]

Sight(p, from, to) ==
  [q \in Player |->
     IF q \notin Others(p) \/ CanSee(from, pos[q]) = CanSee(to, pos[q]) THEN minimap[p][q]
     ELSE IF CanSee(to, pos[q]) THEN pos[q] ELSE NoRoom]

\* announceMove, the others' minimaps: presence.join, leave or move.  A move of
\* somebody the client does not have is dropped by its store.
Sighting(o, p, from, to) ==
  LET before == CanSee(pos[o], from)
      after == CanSee(pos[o], to)
  IN  IF ~before /\ after THEN to
      ELSE IF before /\ ~after THEN NoRoom
      ELSE IF after /\ minimap[o][p] # NoRoom THEN to
      ELSE minimap[o][p]

\* announceMove, the two rooms.  Mutant: nobody is told of the departure.
RoomOfSilentDeparture(o, p, from, to) ==
  IF o \in byRoom'[to] THEN roster[o] \cup {p} ELSE roster[o]

RoomOf(o, p, from, to) ==
  IF o \in byRoom'[to] THEN roster[o] \cup {p}
  ELSE IF o \in byRoom'[from] THEN roster[o] \ {p} ELSE roster[o]

\* announceMove, self.patch: the new grid on a change of region.  Mutants: the
\* patch carries the position only; it carries the room instead of the region.
GridUnpatched(p, from, to) == grid

GridOfRoom(p, from, to) ==
  IF RegionOf[from] # RegionOf[to] THEN [grid EXCEPT ![p] = to] ELSE grid

GridAfter(p, from, to) ==
  IF RegionOf[from] # RegionOf[to] THEN [grid EXCEPT ![p] = RegionOf[to]] ELSE grid

\* doMove, and announceMove.
Move(p, to) ==
  LET from == pos[p]
  IN
  /\ Live(p)
  /\ <<from, to>> \in Exit
  /\ Placed(p, to)
  /\ minimap' = [o \in Player |->
       IF o = p THEN Sight(p, from, to)
       ELSE IF Live(o) THEN [minimap[o] EXCEPT ![p] = Sighting(o, p, from, to)]
       ELSE minimap[o]]
  /\ roster' = [o \in Player |->
       IF o = p THEN OccupantsFor(p, byRoom', to)
       ELSE IF Live(o) THEN RoomOf(o, p, from, to) ELSE roster[o]]
  /\ grid' = GridAfter(p, from, to)
  /\ offGrid' = IF RegionOf[from] # RegionOf[to] THEN offGrid \ {p} ELSE offGrid
  /\ unheard' = unheard \ From(p, unheard)
  /\ UNCHANGED <<seatVars, conn, down, respawn, unseen>>

\* doLook re-sends the room.
Look(p) ==
  /\ Live(p)
  /\ roster' = [roster EXCEPT ![p] = OccupantsFor(p, byRoom, pos[p])]
  /\ unheard' = unheard \ From(p, unheard)
  /\ UNCHANGED <<seatVars, worldVars, minimap, grid, unseen, offGrid>>

\* doResync re-sends everything.
Resync(p) ==
  /\ Live(p)
  /\ Snapshot(p, byRoom, pos[p])
  /\ UNCHANGED <<seatVars, worldVars>>

-----------------------------------------------------------------------------
(* Defeat and respawn, the part of world/combat.ts that moves a player.    *)

Defeat(p) ==
  /\ p \in present \ down
  /\ pos[p] \in Arena
  /\ respawn[<<p, conn[p]>>] < MaxTimers
  /\ down' = down \cup {p}
  /\ respawn' = [respawn EXCEPT ![<<p, conn[p]>>] = @ + 1]
  /\ UNCHANGED <<seatVars, conn, pos, row, torn, byRoom, viewVars>>

\* A potion outside combat.  Nothing asks whether the drinker is still alive,
\* and the respawn timer stays armed.
Drink(p) ==
  /\ Live(p)
  /\ p \in down
  /\ down' = down \ {p}
  /\ UNCHANGED <<seatVars, conn, pos, row, torn, respawn, byRoom, viewVars>>

\* The respawn timer.  It does nothing for a player that has left or come back
\* on another connection.  The two writes are not one transaction: the second
\* may fail after the first, or both may, and memory is then left alone.
RespawnFires(p, c) ==
  /\ respawn[<<p, c>>] > 0
  /\ respawn' = [respawn EXCEPT ![<<p, c>>] = @ - 1]
  /\ \/ /\ p \notin present \/ conn[p] # c
        /\ UNCHANGED <<pos, row, torn, down, byRoom, viewVars>>
     \/ /\ p \in present /\ conn[p] = c
        /\ UNCHANGED <<pos, row, torn, down, byRoom, viewVars>>
     \/ /\ p \in present /\ conn[p] = c
        /\ row' = [row EXCEPT ![p] = Spawn]
        /\ torn' = torn \cup {p}
        /\ UNCHANGED <<pos, down, byRoom, viewVars>>
     \/ /\ p \in present /\ conn[p] = c
        /\ Placed(p, Spawn)
        /\ down' = down \ {p}
        /\ roster' = IF Live(p) THEN [roster EXCEPT ![p] = OccupantsFor(p, byRoom', Spawn)]
                     ELSE roster
        /\ unseen' = unseen \cup Of(p) \cup About(p)
        /\ unheard' = (unheard \ From(p, unheard)) \cup Of(p)
        /\ offGrid' = IF RegionOf[pos[p]] # RegionOf[Spawn] THEN offGrid \cup {p} ELSE offGrid
        /\ UNCHANGED <<minimap, grid>>
  /\ UNCHANGED <<seatVars, conn>>

\* An enemy dies or comes back in r: those in the room are sent the room anew,
\* those in the region the grid.
FoesChanged(r) ==
  LET told == {p \in Player : Live(p) /\ RegionOf[pos[p]] = RegionOf[r]}
      here == {p \in byRoom[r] : Live(p)}
  IN
  /\ r \in Arena
  /\ roster' = [p \in Player |-> IF p \in here THEN OccupantsFor(p, byRoom, r) ELSE roster[p]]
  /\ grid' = [p \in Player |-> IF p \in told THEN RegionOf[r] ELSE grid[p]]
  /\ unheard' = {x \in unheard : x[1] \notin here}
  /\ offGrid' = offGrid \ told
  /\ UNCHANGED <<seatVars, worldVars, minimap, unseen>>

-----------------------------------------------------------------------------
(* Leaving.                                                                *)

\* Mutant of Disconnect: the others are told at once that the player left.
DisconnectAnnounced(c) ==
  /\ c \in used
  /\ Close(c)
  /\ minimap' = [o \in Player |->
       [q \in Player |-> IF holder[q] = c THEN NoRoom ELSE minimap[o][q]]]
  /\ UNCHANGED <<worldVars, roster, grid, unseen, unheard, offGrid>>

\* A socket closes: nothing is sent to anyone.
Disconnect(c) ==
  /\ c \in used
  /\ Close(c)
  /\ UNCHANGED <<worldVars, viewVars>>

\* The grace period ends: announceDeparture, then the registry forgets p.
Leave(p) ==
  /\ ~stopped
  /\ Depart(p)
  /\ byRoom' = Removed(p, pos[p])
  /\ minimap' = [o \in Player |->
       IF Live(o) /\ CanSee(pos[o], pos[p]) THEN [minimap[o] EXCEPT ![p] = NoRoom]
       ELSE minimap[o]]
  /\ roster' = [o \in Player |->
       IF Live(o) /\ o \in byRoom[pos[p]] THEN roster[o] \ {p} ELSE roster[o]]
  /\ UNCHANGED <<conn, pos, row, torn, down, respawn, grid, unseen, unheard, offGrid>>

-----------------------------------------------------------------------------
Next ==
  \/ \E p \in Player, c \in Conn : HelloNew(p, c)
  \/ \E p \in Player, c \in Conn : HelloAdopt(p, c)
  \/ \E p \in Player, r \in Room : Move(p, r)
  \/ \E p \in Player : Look(p)
  \/ \E p \in Player : Resync(p)
  \/ \E p \in Player : HelloFails(p)
  \/ \E p \in Player : Defeat(p)
  \/ \E p \in Player : Drink(p)
  \/ \E p \in Player, c \in Conn : RespawnFires(p, c)
  \/ \E r \in Room : FoesChanged(r)
  \/ \E c \in Conn : Disconnect(c)
  \/ \E p \in Player : Leave(p)

Spec == Init /\ [][Next]_vars

-----------------------------------------------------------------------------
(* Properties.                                                             *)

\* The registry's room index and the sessions' positions agree, so a removal
\* never leaves a player behind in a room it no longer stands in.
IndexMatchesPositions ==
  \A r \in Room : byRoom[r] = {p \in present : pos[p] = r}

\* The stored position is the one in memory, unless the two writes of a revival
\* were interrupted and no later step or revival has stored a position again.
StoredPositionIsCurrent ==
  \A p \in present \ torn : row[p] = pos[p]

\* On every connected client the minimap shows exactly the players of its
\* region, lingering ones included, at their places, except those it was
\* never told had been moved.
Shown(o, p) ==
  minimap[o][p] = IF p \in present /\ CanSee(pos[o], pos[p]) THEN pos[p] ELSE NoRoom

MinimapsAgree ==
  \A o, p \in Player : Live(o) /\ o # p /\ <<o, p>> \notin unseen => Shown(o, p)

\* The same for the list of people in the room.
RostersAgree ==
  \A o, p \in Player :
    Live(o) /\ o # p /\ <<o, p>> \notin unheard =>
      (p \in roster[o] <=> p \in present /\ pos[p] = pos[o])

\* The grid a client draws is the one of the region it stands in.
GridsAgree ==
  \A p \in Player : Live(p) /\ p \notin offGrid => grid[p] = RegionOf[pos[p]]

\* What a connected client draws is what the server holds: the dots of its
\* minimap, the people in its room and the grid of its region, whoever moves,
\* dies, comes back or is gone (session.ts, handlers.ts, combat.ts:828).
ClientsAgree == TypeOK /\ MinimapsAgree /\ RostersAgree /\ GridsAgree

\* A disconnection that ends in time is invisible: no other client's picture of
\* a player changes when that player's socket closes or is replaced.
QuietReconnect ==
  [][(used' # used \/ gone' # gone) /\ present' = present
       => \A o, p \in Player :
            holder'[o] = holder[o] /\ o # p =>
              minimap'[o][p] = minimap[o][p] /\ (p \in roster'[o] <=> p \in roster[o])]_vars

\* README.md, "one side moves and the dot on the other side's minimap follows",
\* taken without exception.
MinimapsAlwaysAgree ==
  \A o, p \in Player : Live(o) /\ o # p => Shown(o, p)

\* session.ts: coming back within the grace period emits nothing because "the
\* position has not changed".
ReturnKeepsPosition ==
  [][\A p \in present : conn'[p] # conn[p] => pos'[p] = pos[p]]_vars
=============================================================================
