--------------------------- MODULE PresenceProofs ---------------------------
(***************************************************************************)
(* Theorems about Presence, for every set of players, connections and      *)
(* rooms and every map.                                                    *)
(*                                                                         *)
(* What a client draws is right because each message is computed from the  *)
(* room index and the positions, so the inductive invariant joins the      *)
(* three pictures a client has to the agreement of index, session and      *)
(* table.  A seat that is held was given out (HoldersUsed), which is why a *)
(* return of the same player always changes the holder.                    *)
(***************************************************************************)
EXTENDS Presence, TLAPS

\* A connection that holds a seat was given it, and only a connection that was
\* given a seat closes one.
HoldersUsed ==
  /\ \A p \in Player : holder[p] # NoConn => holder[p] \in used
  /\ gone \subseteq used

\* The inductive invariant.
IInv ==
  /\ TypeOK
  /\ HoldersUsed
  /\ IndexMatchesPositions
  /\ StoredPositionIsCurrent
  /\ MinimapsAgree
  /\ RostersAgree
  /\ GridsAgree

-----------------------------------------------------------------------------
(* Lemmas about the operators.                                             *)

\* A room is in a region, and a position that is stored is a room.
LEMMA LandingType ==
  ASSUME TypeOK, NEW p \in Player
  PROVE  Landing(p) \in Room
BY PresenceAssumption DEF TypeOK, Landing

\* Reposition moves one player in the index and nobody else.
LEMMA ReindexedIndex ==
  ASSUME TypeOK, IndexMatchesPositions, NEW p \in present, NEW to \in Room,
         pos' = [pos EXCEPT ![p] = to],
         byRoom' = Reindexed(p, pos[p], to),
         present' = present
  PROVE  IndexMatchesPositions' /\ byRoom' \in [Room -> SUBSET Player]
BY DEF TypeOK, IndexMatchesPositions, Reindexed

\* Adding a player that is not there enters it where it stands.
LEMMA AddedIndex ==
  ASSUME TypeOK, IndexMatchesPositions, NEW p \in Player, p \notin present,
         NEW r \in Room,
         pos' = [pos EXCEPT ![p] = r],
         byRoom' = Added(p, r),
         present' = present \cup {p}
  PROVE  IndexMatchesPositions' /\ byRoom' \in [Room -> SUBSET Player]
BY DEF TypeOK, IndexMatchesPositions, Added

\* Removing a player takes it out of the room it stands in, and of no other.
LEMMA RemovedIndex ==
  ASSUME TypeOK, IndexMatchesPositions, NEW p \in present,
         byRoom' = Removed(p, pos[p]),
         pos' = pos,
         present' = present \ {p}
  PROVE  IndexMatchesPositions' /\ byRoom' \in [Room -> SUBSET Player]
BY DEF TypeOK, IndexMatchesPositions, Removed

\* A snapshot shows a player what there is to see from where it stands.
LEMMA VisibleType ==
  ASSUME TypeOK, NEW p \in Player, NEW r
  PROVE  VisibleTo(p, r) \in [Player -> Room \cup {NoRoom}]
BY DEF TypeOK, VisibleTo, Others

-----------------------------------------------------------------------------
(* Initially nobody is there.                                              *)

LEMMA InitIInv == Init => IInv
<1> SUFFICES ASSUME Init PROVE IInv
  OBVIOUS
<1> USE PresenceAssumption DEF Init, SeatInit
<1>1. TypeOK
  <2>1. grid \in [Player -> Region]
    BY DEF Region
  <2>2. respawn \in [Player \X Conn -> 0..MaxTimers]
    OBVIOUS
  <2> QED BY <2>1, <2>2 DEF TypeOK
<1>2. HoldersUsed
  BY DEF HoldersUsed
<1>3. IndexMatchesPositions
  BY DEF IndexMatchesPositions
<1>4. StoredPositionIsCurrent
  BY DEF StoredPositionIsCurrent
<1>5. MinimapsAgree /\ RostersAgree /\ GridsAgree
  BY DEF MinimapsAgree, RostersAgree, GridsAgree, Live
<1> QED BY <1>1, <1>2, <1>3, <1>4, <1>5 DEF IInv

-----------------------------------------------------------------------------
(* hello                                                                   *)

LEMMA HelloNewInv ==
  ASSUME IInv, NEW p \in Player, NEW c \in Conn, HelloNew(p, c)
  PROVE  IInv'
<1> DEFINE r == Landing(p)
<1>1. r \in Room
  BY LandingType DEF IInv
<1> HIDE DEF r
<1>2. /\ p \notin present
      /\ present' = present \cup {p}
      /\ holder' = [holder EXCEPT ![p] = c]
      /\ used' = used \cup {c}
      /\ c \notin used
      /\ gone' = gone /\ stopped' = stopped
      /\ pos' = [pos EXCEPT ![p] = r]
      /\ row' = [row EXCEPT ![p] = r]
      /\ torn' = torn \ {p}
      /\ down' = down \ {p}
      /\ conn' = [conn EXCEPT ![p] = c]
      /\ byRoom' = Added(p, r)
      /\ respawn' = respawn
  BY DEF HelloNew, Take, r
<1>3. Arrival(p, r)
  BY DEF HelloNew, r
<1>4. IndexMatchesPositions' /\ byRoom' \in [Room -> SUBSET Player]
  BY <1>1, <1>2, AddedIndex DEF IInv
<1>5. VisibleTo(p, r) \in [Player -> Room \cup {NoRoom}]
  BY VisibleType DEF IInv
<1>6. TypeOK'
  <2>1. minimap' \in [Player -> [Player -> Room \cup {NoRoom}]]
    BY <1>1, <1>3, <1>5 DEF IInv, TypeOK, Arrival
  <2>2. roster' \in [Player -> SUBSET Player]
    BY <1>3, <1>4, <1>1 DEF IInv, TypeOK, Arrival, OccupantsFor
  <2>3. grid' \in [Player -> Region]
    BY <1>3, <1>1 DEF IInv, TypeOK, Arrival, Region
  <2>4. unseen' \subseteq Player \X Player /\ unheard' \subseteq Player \X Player /\ offGrid' \subseteq Player
    BY <1>3 DEF IInv, TypeOK, Arrival, From
  <2> QED BY <1>1, <1>2, <1>4, <2>1, <2>2, <2>3, <2>4 DEF IInv, TypeOK
<1>7. HoldersUsed'
  BY <1>2 DEF IInv, TypeOK, HoldersUsed
<1>8. StoredPositionIsCurrent'
  BY <1>1, <1>2 DEF IInv, TypeOK, StoredPositionIsCurrent
<1>9. \A o \in Player : o # p /\ Live(o)' => Live(o)
  BY <1>2 DEF IInv, TypeOK, Live
<1>10. MinimapsAgree'
  <2> SUFFICES ASSUME NEW o \in Player, NEW q \in Player, Live(o)', o # q, <<o, q>> \notin unseen'
               PROVE  Shown(o, q)'
    BY DEF MinimapsAgree
  <2>1. CASE o = p
    BY <2>1, <1>1, <1>2, <1>3 DEF IInv, TypeOK, Arrival, VisibleTo, Others, Shown, CanSee
  <2>2. CASE o # p
    <3>1. Live(o) /\ <<o, q>> \notin unseen
      BY <2>2, <1>3, <1>9 DEF Arrival, From
    <3>2. Shown(o, q)
      BY <3>1 DEF IInv, MinimapsAgree
    <3> QED BY <2>2, <3>1, <3>2, <1>1, <1>2, <1>3 DEF IInv, TypeOK, Arrival, Shown, CanSee
  <2> QED BY <2>1, <2>2
<1>11. RostersAgree'
  <2> SUFFICES ASSUME NEW o \in Player, NEW q \in Player, Live(o)', o # q, <<o, q>> \notin unheard'
               PROVE  (q \in roster[o] <=> q \in present /\ pos[q] = pos[o])'
    BY DEF RostersAgree
  <2>1. CASE o = p
    BY <2>1, <1>1, <1>2, <1>3, <1>4 DEF IInv, TypeOK, Arrival, OccupantsFor, IndexMatchesPositions
  <2>2. CASE o # p
    <3>1. Live(o) /\ <<o, q>> \notin unheard
      BY <2>2, <1>3, <1>9 DEF Arrival, From
    <3>2. q \in roster[o] <=> q \in present /\ pos[q] = pos[o]
      BY <3>1 DEF IInv, RostersAgree
    <3>3. o \in byRoom'[r] <=> pos[o] = r
      BY <3>1, <2>2, <1>1, <1>2, <1>4 DEF IInv, TypeOK, IndexMatchesPositions, Live
    <3> QED BY <2>2, <3>1, <3>2, <3>3, <1>1, <1>2, <1>3 DEF IInv, TypeOK, Arrival
  <2> QED BY <2>1, <2>2
<1>12. GridsAgree'
  BY <1>1, <1>2, <1>3, <1>9 DEF IInv, TypeOK, GridsAgree, Arrival, Live
<1> QED BY <1>4, <1>6, <1>7, <1>8, <1>10, <1>11, <1>12 DEF IInv

\* Adopting a session shows the player its surroundings, and marks the others
\* as untold where the character was moved.
LEMMA HelloAdoptInv ==
  ASSUME IInv, NEW p \in Player, NEW c \in Conn, HelloAdopt(p, c)
  PROVE  IInv'
<1> DEFINE r == IF p \in down THEN Spawn ELSE pos[p]
<1>1. r \in Room
  BY PresenceAssumption DEF IInv, TypeOK
<1>2. /\ p \in present
      /\ present' = present
      /\ holder' = [holder EXCEPT ![p] = c]
      /\ used' = used \cup {c}
      /\ c \notin used
      /\ gone' = gone /\ stopped' = stopped
      /\ conn' = [conn EXCEPT ![p] = c]
      /\ down' = down \ {p}
      /\ respawn' = respawn
      /\ offGrid' = offGrid \ {p}
  BY DEF HelloAdopt, Take, IInv, TypeOK
<1>3. /\ pos' = [pos EXCEPT ![p] = r]
      /\ \/ byRoom' = Reindexed(p, pos[p], r) /\ row' = [row EXCEPT ![p] = r] /\ torn' = torn \ {p}
         \/ UNCHANGED <<byRoom, row, torn, pos>>
  <2>1. CASE p \in down
    BY <2>1 DEF HelloAdopt, Placed
  <2>2. CASE p \notin down
    <3>1. r = pos[p] /\ UNCHANGED <<pos, byRoom, row, torn>>
      BY <2>2 DEF HelloAdopt
    <3>2. pos = [pos EXCEPT ![p] = pos[p]]
      BY DEF IInv, TypeOK
    <3> QED BY <3>1, <3>2
  <2> QED BY <2>1, <2>2
<1>4. /\ minimap' = [minimap EXCEPT ![p] = VisibleTo(p, pos'[p])]
      /\ roster' = [roster EXCEPT ![p] = OccupantsFor(p, byRoom', pos'[p])]
      /\ grid' = [grid EXCEPT ![p] = RegionOf[pos'[p]]]
  BY DEF HelloAdopt
<1>5. /\ pos'[p] = r
      /\ \A q \in Player : q # p => pos'[q] = pos[q]
      /\ pos' \in [Player -> Room]
  BY <1>1, <1>3 DEF IInv, TypeOK
<1>6. /\ unseen' \subseteq Player \X Player
      /\ \A o, q \in Player : <<o, q>> \notin unseen' /\ o # p =>
           <<o, q>> \notin unseen /\ (q = p => pos' = pos)
      /\ unheard' \subseteq Player \X Player
      /\ \A o, q \in Player : <<o, q>> \notin unheard' /\ o # p =>
           <<o, q>> \notin unheard /\ (q = p => pos' = pos)
  BY DEF HelloAdopt, From, Of, IInv, TypeOK
<1> HIDE DEF r
<1>7. IndexMatchesPositions' /\ byRoom' \in [Room -> SUBSET Player]
  <2>1. CASE byRoom' = Reindexed(p, pos[p], r)
    BY <2>1, <1>1, <1>2, <1>3, ReindexedIndex DEF IInv
  <2>2. CASE UNCHANGED <<byRoom, row, torn, pos>>
    BY <2>2, <1>2 DEF IInv, TypeOK, IndexMatchesPositions
  <2> QED BY <1>3, <2>1, <2>2
<1>8. TypeOK'
  <2>1. VisibleTo(p, pos'[p]) \in [Player -> Room \cup {NoRoom}]
    BY VisibleType DEF IInv
  <2>2. minimap' \in [Player -> [Player -> Room \cup {NoRoom}]]
    BY <2>1, <1>4 DEF IInv, TypeOK
  <2>3. roster' \in [Player -> SUBSET Player]
    BY <1>4, <1>5, <1>1, <1>7 DEF IInv, TypeOK, OccupantsFor
  <2>4. grid' \in [Player -> Region]
    BY <1>4, <1>5, <1>1 DEF IInv, TypeOK, Region
  <2>5. row' \in [Player -> Room] /\ torn' \subseteq Player
    <3>1. CASE UNCHANGED <<row, torn>>
      BY <3>1 DEF IInv, TypeOK
    <3>2. CASE row' = [row EXCEPT ![p] = r] /\ torn' = torn \ {p}
      BY <3>2, <1>1 DEF IInv, TypeOK
    <3> QED BY <1>3, <3>1, <3>2
  <2>6. /\ present' \subseteq Player /\ used' \subseteq Conn /\ gone' \subseteq Conn
        /\ holder' \in [Player -> Conn \cup {NoConn}]
        /\ conn' \in [Player -> Conn \cup {NoConn}]
    BY <1>2 DEF IInv, TypeOK
  <2>7. /\ down' \subseteq Player /\ offGrid' \subseteq Player
        /\ respawn' \in [Player \X Conn -> 0..MaxTimers]
    BY <1>2 DEF IInv, TypeOK
  <2>8. stopped' \in BOOLEAN
    BY <1>2, Zenon DEF IInv, TypeOK
  <2> QED BY <2>8, <1>5, <1>6, <1>7, <2>2, <2>3, <2>4, <2>5, <2>6, <2>7 DEF TypeOK
<1>9. HoldersUsed'
  BY <1>2 DEF IInv, TypeOK, HoldersUsed
<1>10. StoredPositionIsCurrent'
  BY <1>1, <1>2, <1>3 DEF IInv, TypeOK, StoredPositionIsCurrent
<1>11. \A o \in Player : o # p /\ Live(o)' => Live(o)
  BY <1>2 DEF IInv, TypeOK, Live
<1>12. MinimapsAgree'
  <2> SUFFICES ASSUME NEW o \in Player, NEW q \in Player, Live(o)', o # q, <<o, q>> \notin unseen'
               PROVE  Shown(o, q)'
    BY DEF MinimapsAgree
  <2>1. CASE o = p
    BY <2>1, <1>2, <1>4, <1>5 DEF IInv, TypeOK, VisibleTo, Others, Shown, CanSee
  <2>2. CASE o # p
    <3>1. Shown(o, q)
      BY <2>2, <1>6, <1>11 DEF IInv, MinimapsAgree
    <3> QED BY <2>2, <3>1, <1>2, <1>4, <1>5, <1>6 DEF IInv, TypeOK, Shown, CanSee
  <2> QED BY <2>1, <2>2
<1>13. RostersAgree'
  <2> SUFFICES ASSUME NEW o \in Player, NEW q \in Player, Live(o)', o # q, <<o, q>> \notin unheard'
               PROVE  (q \in roster[o] <=> q \in present /\ pos[q] = pos[o])'
    BY DEF RostersAgree
  <2>1. CASE o = p
    BY <2>1, <1>1, <1>2, <1>4, <1>5, <1>7 DEF IInv, TypeOK, OccupantsFor, IndexMatchesPositions
  <2>2. CASE o # p
    <3>1. q \in roster[o] <=> q \in present /\ pos[q] = pos[o]
      BY <2>2, <1>6, <1>11 DEF IInv, RostersAgree
    <3> QED BY <2>2, <3>1, <1>2, <1>4, <1>5, <1>6 DEF IInv, TypeOK
  <2> QED BY <2>1, <2>2
<1>14. GridsAgree'
  BY <1>2, <1>4, <1>5, <1>11 DEF IInv, TypeOK, GridsAgree, Live
<1> QED BY <1>7, <1>8, <1>9, <1>10, <1>12, <1>13, <1>14 DEF IInv

-----------------------------------------------------------------------------
(* Actions of a connected player.                                          *)

\* A step keeps every client's picture right for the players it tells about:
\* announceMove tells those who start, go on or cease to see the mover.
LEMMA MoveInv ==
  ASSUME IInv, NEW p \in Player, NEW to \in Room, Move(p, to)
  PROVE  IInv'
<1> DEFINE from == pos[p]
<1>1. from \in Room
  BY DEF IInv, TypeOK
<1>2. /\ Live(p)
      /\ p \in present
      /\ row' = [row EXCEPT ![p] = to]
      /\ pos' = [pos EXCEPT ![p] = to]
      /\ byRoom' = Reindexed(p, from, to)
      /\ torn' = torn \ {p}
      /\ UNCHANGED <<present, holder, used, gone, stopped, conn, down, respawn, unseen>>
      /\ unheard' = unheard \ From(p, unheard)
      /\ grid' = GridAfter(p, from, to)
      /\ offGrid' = IF RegionOf[from] # RegionOf[to] THEN offGrid \ {p} ELSE offGrid
  BY DEF Move, Placed, Live, seatVars
<1>3. /\ minimap' = [o \in Player |->
           IF o = p THEN Sight(p, from, to)
           ELSE IF Live(o) THEN [minimap[o] EXCEPT ![p] = Sighting(o, p, from, to)]
           ELSE minimap[o]]
      /\ roster' = [o \in Player |->
           IF o = p THEN OccupantsFor(p, byRoom', to)
           ELSE IF Live(o) THEN RoomOf(o, p, from, to) ELSE roster[o]]
  BY DEF Move
<1> HIDE DEF from
<1>4. from = pos[p]
  BY DEF from
<1>5. IndexMatchesPositions' /\ byRoom' \in [Room -> SUBSET Player]
  BY <1>2, <1>4, ReindexedIndex DEF IInv
<1>6. TypeOK'
  <2>1. minimap' \in [Player -> [Player -> Room \cup {NoRoom}]]
    <3>1. Sight(p, from, to) \in [Player -> Room \cup {NoRoom}]
      BY DEF IInv, TypeOK, Sight
    <3>2. \A o \in Player : Sighting(o, p, from, to) \in Room \cup {NoRoom}
      BY DEF IInv, TypeOK, Sighting
    <3> QED BY <3>1, <3>2, <1>3 DEF IInv, TypeOK
  <2>2. roster' \in [Player -> SUBSET Player]
    BY <1>3, <1>5 DEF IInv, TypeOK, OccupantsFor, RoomOf
  <2>3. grid' \in [Player -> Region]
    BY <1>2 DEF IInv, TypeOK, GridAfter, Region
  <2>4. unheard' \subseteq Player \X Player /\ offGrid' \subseteq Player
    BY <1>2 DEF IInv, TypeOK, From
  <2> QED BY <1>2, <1>5, <2>1, <2>2, <2>3, <2>4 DEF IInv, TypeOK
<1>7. HoldersUsed'
  BY <1>2 DEF IInv, HoldersUsed
<1>8. StoredPositionIsCurrent'
  BY <1>2 DEF IInv, TypeOK, StoredPositionIsCurrent
<1>9. \A o \in Player : Live(o)' <=> Live(o)
  BY <1>2 DEF Live
<1>10. MinimapsAgree'
  <2> SUFFICES ASSUME NEW o \in Player, NEW q \in Player, Live(o), o # q, <<o, q>> \notin unseen
               PROVE  Shown(o, q)'
    BY <1>2, <1>9 DEF MinimapsAgree
  <2>1. Shown(o, q)
    BY DEF IInv, MinimapsAgree
  <2>2. CASE o = p
    BY <2>1, <2>2, <1>2, <1>3, <1>4 DEF IInv, TypeOK, Shown, Sight, Others, CanSee
  <2>3. CASE o # p /\ q = p
    <3>1. minimap'[o][p] = Sighting(o, p, from, to)
      BY <2>3, <1>3 DEF IInv, TypeOK
    <3>2. pos[o] \in Room /\ minimap[o][p] = IF CanSee(pos[o], from) THEN from ELSE NoRoom
      BY <2>1, <2>3, <1>2, <1>4 DEF IInv, TypeOK, Shown
    <3>3. Sighting(o, p, from, to) = IF CanSee(pos[o], to) THEN to ELSE NoRoom
      BY <3>2, <1>1, PresenceAssumption DEF Sighting
    <3> QED BY <2>3, <3>1, <3>3, <1>2 DEF IInv, TypeOK, Shown
  <2>4. CASE o # p /\ q # p
    BY <2>1, <2>4, <1>2, <1>3 DEF IInv, TypeOK, Shown, CanSee
  <2> QED BY <2>2, <2>3, <2>4
<1>11. RostersAgree'
  <2> SUFFICES ASSUME NEW o \in Player, NEW q \in Player, Live(o), o # q, <<o, q>> \notin unheard'
               PROVE  (q \in roster[o] <=> q \in present /\ pos[q] = pos[o])'
    BY <1>9 DEF RostersAgree
  <2>1. CASE o = p
    BY <2>1, <1>2, <1>3, <1>5 DEF IInv, TypeOK, OccupantsFor, IndexMatchesPositions
  <2>2. CASE o # p
    <3>1. q \in roster[o] <=> q \in present /\ pos[q] = pos[o]
      BY <2>2, <1>2 DEF IInv, RostersAgree, From
    <3>2. /\ o \in byRoom'[to] <=> pos[o] = to
          /\ o \in byRoom'[from] <=> pos[o] = from
      BY <2>2, <1>1, <1>2, <1>5 DEF IInv, TypeOK, IndexMatchesPositions, Live
    <3>3. roster'[o] = IF pos[o] = to THEN roster[o] \cup {p}
                       ELSE IF pos[o] = from THEN roster[o] \ {p} ELSE roster[o]
      BY <3>2, <2>2, <1>3 DEF RoomOf
    <3> QED BY <2>2, <3>1, <3>3, <1>2, <1>4 DEF IInv, TypeOK
  <2> QED BY <2>1, <2>2
<1>12. GridsAgree'
  BY <1>2, <1>4, <1>9 DEF IInv, TypeOK, GridsAgree, GridAfter
<1> QED BY <1>5, <1>6, <1>7, <1>8, <1>10, <1>11, <1>12 DEF IInv

\* Looking around again replaces the list of people in the room.
LEMMA LookInv ==
  ASSUME IInv, NEW p \in Player, Look(p)
  PROVE  IInv'
<1>1. TypeOK'
  BY DEF IInv, TypeOK, Look, OccupantsFor, From, seatVars, worldVars
<1>2. HoldersUsed' /\ IndexMatchesPositions' /\ StoredPositionIsCurrent'
  BY DEF IInv, HoldersUsed, IndexMatchesPositions, StoredPositionIsCurrent, Look, seatVars, worldVars
<1>3. MinimapsAgree' /\ GridsAgree'
  BY DEF IInv, MinimapsAgree, GridsAgree, Shown, Live, Look, seatVars, worldVars
<1>4. RostersAgree'
  BY DEF IInv, TypeOK, RostersAgree, IndexMatchesPositions, Live, Look, OccupantsFor, From,
         seatVars, worldVars
<1> QED BY <1>1, <1>2, <1>3, <1>4 DEF IInv

\* A snapshot makes the whole picture right, whatever it was before.
LEMMA ResyncInv ==
  ASSUME IInv, NEW p \in Player, Resync(p)
  PROVE  IInv'
<1>1. TypeOK'
  <2>1. VisibleTo(p, pos[p]) \in [Player -> Room \cup {NoRoom}]
    BY VisibleType DEF IInv
  <2> QED BY <2>1 DEF IInv, TypeOK, Resync, Snapshot, OccupantsFor, From, Region, seatVars, worldVars
<1>2. HoldersUsed' /\ IndexMatchesPositions' /\ StoredPositionIsCurrent'
  BY DEF IInv, HoldersUsed, IndexMatchesPositions, StoredPositionIsCurrent, Resync, seatVars, worldVars
<1>3. MinimapsAgree'
  BY DEF IInv, TypeOK, MinimapsAgree, Shown, Live, Resync, Snapshot, VisibleTo, Others, CanSee, From,
         seatVars, worldVars
<1>4. RostersAgree'
  BY DEF IInv, TypeOK, RostersAgree, IndexMatchesPositions, Live, Resync, Snapshot, OccupantsFor, From,
         seatVars, worldVars
<1>5. GridsAgree'
  BY DEF IInv, TypeOK, GridsAgree, Live, Resync, Snapshot, seatVars, worldVars
<1> QED BY <1>1, <1>2, <1>3, <1>4, <1>5 DEF IInv

-----------------------------------------------------------------------------
(* Steps no client is told of, and that leave everybody where they are.    *)

LEMMA PicturesUntouched ==
  ASSUME IInv, UNCHANGED <<present, pos, byRoom, viewVars>>,
         \A o \in Player : Live(o)' => Live(o)
  PROVE  IndexMatchesPositions' /\ MinimapsAgree' /\ RostersAgree' /\ GridsAgree'
BY DEF IInv, IndexMatchesPositions, MinimapsAgree, RostersAgree, GridsAgree, Shown, viewVars

LEMMA HelloFailsInv ==
  ASSUME IInv, NEW p \in Player, HelloFails(p)
  PROVE  IInv'
<1>1. TypeOK'
  BY PresenceAssumption DEF IInv, TypeOK, HelloFails, seatVars, viewVars
<1>2. HoldersUsed' /\ StoredPositionIsCurrent'
  BY DEF IInv, TypeOK, HoldersUsed, StoredPositionIsCurrent, HelloFails, seatVars
<1>3. \A o \in Player : Live(o)' => Live(o)
  BY DEF HelloFails, Live, seatVars
<1>4. UNCHANGED <<present, pos, byRoom, viewVars>>
  BY DEF HelloFails, seatVars
<1> QED BY <1>1, <1>2, <1>3, <1>4, PicturesUntouched DEF IInv

LEMMA DefeatInv ==
  ASSUME IInv, NEW p \in Player, Defeat(p)
  PROVE  IInv'
<1>1. TypeOK'
  <2>1. CASE conn[p] \in Conn
    <3>1. <<p, conn[p]>> \in Player \X Conn
      BY <2>1
    <3>2. respawn' \in [Player \X Conn -> 0..MaxTimers]
      BY <3>1, PresenceAssumption DEF IInv, TypeOK, Defeat
    <3> QED BY <3>2 DEF IInv, TypeOK, Defeat, seatVars, viewVars
  <2>2. CASE conn[p] = NoConn
    <3>1. respawn' = respawn
      BY <2>2, SeatsAssumption DEF IInv, TypeOK, Defeat
    <3> QED BY <3>1 DEF IInv, TypeOK, Defeat, seatVars, viewVars
  <2> QED BY <2>1, <2>2 DEF IInv, TypeOK
<1>2. HoldersUsed' /\ StoredPositionIsCurrent'
  BY DEF IInv, TypeOK, HoldersUsed, StoredPositionIsCurrent, Defeat, seatVars
<1>3. \A o \in Player : Live(o)' => Live(o)
  BY DEF Defeat, Live, seatVars
<1>4. UNCHANGED <<present, pos, byRoom, viewVars>>
  BY DEF Defeat, seatVars
<1> QED BY <1>1, <1>2, <1>3, <1>4, PicturesUntouched DEF IInv

LEMMA DrinkInv ==
  ASSUME IInv, NEW p \in Player, Drink(p)
  PROVE  IInv'
<1>1. TypeOK'
  BY DEF IInv, TypeOK, Drink, seatVars, viewVars
<1>2. HoldersUsed' /\ StoredPositionIsCurrent'
  BY DEF IInv, TypeOK, HoldersUsed, StoredPositionIsCurrent, Drink, seatVars
<1>3. \A o \in Player : Live(o)' => Live(o)
  BY DEF Drink, Live, seatVars
<1>4. UNCHANGED <<present, pos, byRoom, viewVars>>
  BY DEF Drink, seatVars
<1> QED BY <1>1, <1>2, <1>3, <1>4, PicturesUntouched DEF IInv

LEMMA DisconnectInv ==
  ASSUME IInv, NEW c \in Conn, Disconnect(c)
  PROVE  IInv'
<1>1. TypeOK'
  BY DEF IInv, TypeOK, Disconnect, Close, worldVars, viewVars
<1>2. HoldersUsed' /\ StoredPositionIsCurrent'
  BY DEF IInv, TypeOK, HoldersUsed, StoredPositionIsCurrent, Disconnect, Close, worldVars
<1>3. \A o \in Player : Live(o)' => Live(o)
  BY DEF IInv, TypeOK, Disconnect, Close, Live
<1>4. UNCHANGED <<present, pos, byRoom, viewVars>>
  BY DEF Disconnect, Close, worldVars
<1> QED BY <1>1, <1>2, <1>3, <1>4, PicturesUntouched DEF IInv

-----------------------------------------------------------------------------
(* The respawn timer, enemies, leaving.                                    *)

\* What every case of the timer leaves alone, and the count of timers armed.
LEMMA TimerSpent ==
  ASSUME IInv, NEW p \in Player, NEW c \in Conn, RespawnFires(p, c)
  PROVE  /\ respawn' \in [Player \X Conn -> 0..MaxTimers]
         /\ UNCHANGED <<present, holder, used, gone, stopped, conn>>
<1>1. <<p, c>> \in Player \X Conn
  OBVIOUS
<1>2. respawn[<<p, c>>] \in 0..MaxTimers
  BY <1>1 DEF IInv, TypeOK
<1>3. respawn[<<p, c>>] - 1 \in 0..MaxTimers
  BY <1>2, PresenceAssumption DEF RespawnFires
<1>4. respawn' = [respawn EXCEPT ![<<p, c>>] = respawn[<<p, c>>] - 1]
  BY DEF RespawnFires
<1>5. respawn' \in [Player \X Conn -> 0..MaxTimers]
  BY <1>3, <1>4 DEF IInv, TypeOK
<1> QED BY <1>5 DEF RespawnFires, seatVars

\* A revival tells the player only what is in the room.
LEMMA RevivalInv ==
  ASSUME IInv, NEW p \in Player, p \in present,
         UNCHANGED <<present, holder, used, gone, stopped, conn>>,
         respawn' \in [Player \X Conn -> 0..MaxTimers],
         Placed(p, Spawn),
         down' = down \ {p},
         roster' = IF Live(p) THEN [roster EXCEPT ![p] = OccupantsFor(p, byRoom', Spawn)]
                   ELSE roster,
         unseen' = unseen \cup Of(p) \cup About(p),
         unheard' = (unheard \ From(p, unheard)) \cup Of(p),
         offGrid' = IF RegionOf[pos[p]] # RegionOf[Spawn] THEN offGrid \cup {p} ELSE offGrid,
         UNCHANGED <<minimap, grid>>
  PROVE  IInv'
<1>1. IndexMatchesPositions' /\ byRoom' \in [Room -> SUBSET Player]
  BY PresenceAssumption, ReindexedIndex DEF IInv, Placed
<1>2. TypeOK'
  BY <1>1, PresenceAssumption DEF IInv, TypeOK, Placed, OccupantsFor, Of, About, From
<1>3. HoldersUsed' /\ StoredPositionIsCurrent'
  BY PresenceAssumption DEF IInv, TypeOK, HoldersUsed, StoredPositionIsCurrent, Placed
<1>4. /\ pos'[p] = Spawn
      /\ \A q \in Player : q # p => pos'[q] = pos[q]
  BY DEF IInv, TypeOK, Placed
<1>5. MinimapsAgree'
  <2> SUFFICES ASSUME NEW o \in Player, NEW q \in Player, Live(o), o # q, <<o, q>> \notin unseen'
               PROVE  Shown(o, q)'
    BY DEF MinimapsAgree, Live
  <2>1. o # p /\ q # p /\ <<o, q>> \notin unseen
    BY DEF Of, About
  <2>2. Shown(o, q)
    BY <2>1 DEF IInv, MinimapsAgree
  <2> QED BY <2>1, <2>2, <1>4 DEF Shown, CanSee
<1>6. RostersAgree'
  <2> SUFFICES ASSUME NEW o \in Player, NEW q \in Player, Live(o), o # q, <<o, q>> \notin unheard'
               PROVE  (q \in roster[o] <=> q \in present /\ pos[q] = pos[o])'
    BY DEF RostersAgree, Live
  <2>1. CASE o = p
    BY <2>1, <1>1, <1>4, PresenceAssumption
       DEF IInv, TypeOK, OccupantsFor, IndexMatchesPositions
  <2>2. CASE o # p
    <3>1. q # p /\ <<o, q>> \notin unheard
      BY <2>2 DEF Of, From
    <3>2. q \in roster[o] <=> q \in present /\ pos[q] = pos[o]
      BY <3>1 DEF IInv, RostersAgree
    <3> QED BY <2>2, <3>1, <3>2, <1>4 DEF IInv, TypeOK
  <2> QED BY <2>1, <2>2
<1>7. GridsAgree'
  BY <1>4 DEF IInv, TypeOK, GridsAgree, Live
<1> QED BY <1>1, <1>2, <1>3, <1>5, <1>6, <1>7 DEF IInv

LEMMA RespawnFiresInv ==
  ASSUME IInv, NEW p \in Player, NEW c \in Conn, RespawnFires(p, c)
  PROVE  IInv'
<1>1. /\ respawn' \in [Player \X Conn -> 0..MaxTimers]
      /\ UNCHANGED <<present, holder, used, gone, stopped, conn>>
  BY TimerSpent
<1>2. \A o \in Player : Live(o)' => Live(o)
  BY <1>1 DEF Live
<1>3. CASE UNCHANGED <<pos, row, torn, down, byRoom, viewVars>>
  <2>1. TypeOK'
    BY <1>1, <1>3 DEF IInv, TypeOK, viewVars
  <2>2. HoldersUsed' /\ StoredPositionIsCurrent'
    BY <1>1, <1>3 DEF IInv, HoldersUsed, StoredPositionIsCurrent
  <2> QED BY <1>1, <1>2, <1>3, <2>1, <2>2, PicturesUntouched DEF IInv
<1>4. CASE /\ row' = [row EXCEPT ![p] = Spawn]
           /\ torn' = torn \cup {p}
           /\ UNCHANGED <<pos, down, byRoom, viewVars>>
  <2>1. TypeOK'
    BY <1>1, <1>4, PresenceAssumption DEF IInv, TypeOK, viewVars
  <2>2. HoldersUsed' /\ StoredPositionIsCurrent'
    BY <1>1, <1>4 DEF IInv, TypeOK, HoldersUsed, StoredPositionIsCurrent
  <2> QED BY <1>1, <1>2, <1>4, <2>1, <2>2, PicturesUntouched DEF IInv
<1>5. CASE /\ p \in present
           /\ Placed(p, Spawn)
           /\ down' = down \ {p}
           /\ roster' = IF Live(p) THEN [roster EXCEPT ![p] = OccupantsFor(p, byRoom', Spawn)]
                        ELSE roster
           /\ unseen' = unseen \cup Of(p) \cup About(p)
           /\ unheard' = (unheard \ From(p, unheard)) \cup Of(p)
           /\ offGrid' = IF RegionOf[pos[p]] # RegionOf[Spawn] THEN offGrid \cup {p} ELSE offGrid
           /\ UNCHANGED <<minimap, grid>>
  BY <1>1, <1>5, RevivalInv
<1> QED BY <1>3, <1>4, <1>5 DEF RespawnFires

LEMMA FoesChangedInv ==
  ASSUME IInv, NEW r \in Room, FoesChanged(r)
  PROVE  IInv'
<1> DEFINE here == {p \in byRoom[r] : Live(p)}
           told == {p \in Player : Live(p) /\ RegionOf[pos[p]] = RegionOf[r]}
<1>1. /\ roster' = [p \in Player |-> IF p \in here THEN OccupantsFor(p, byRoom, r) ELSE roster[p]]
      /\ grid' = [p \in Player |-> IF p \in told THEN RegionOf[r] ELSE grid[p]]
      /\ unheard' = {x \in unheard : x[1] \notin here}
      /\ offGrid' = offGrid \ told
      /\ UNCHANGED <<seatVars, worldVars, minimap, unseen>>
  BY DEF FoesChanged
<1>2. \A p \in Player : p \in here <=> Live(p) /\ pos[p] = r
  BY DEF IInv, TypeOK, IndexMatchesPositions, Live
<1>3. \A p \in Player : Live(p)' <=> Live(p)
  BY <1>1 DEF Live, seatVars
<1>4. \A p \in Player : p \in told <=> Live(p) /\ RegionOf[pos[p]] = RegionOf[r]
  OBVIOUS
<1> HIDE DEF here, told
<1>5. TypeOK'
  BY <1>1 DEF IInv, TypeOK, OccupantsFor, Region, seatVars, worldVars
<1>6. HoldersUsed' /\ IndexMatchesPositions' /\ StoredPositionIsCurrent'
  BY <1>1 DEF IInv, HoldersUsed, IndexMatchesPositions, StoredPositionIsCurrent, seatVars, worldVars
<1>7. MinimapsAgree'
  BY <1>1, <1>3 DEF IInv, MinimapsAgree, Shown, seatVars, worldVars
<1>8. RostersAgree'
  <2> SUFFICES ASSUME NEW o \in Player, NEW q \in Player, Live(o), o # q, <<o, q>> \notin unheard'
               PROVE  (q \in roster[o] <=> q \in present /\ pos[q] = pos[o])'
    BY <1>3 DEF RostersAgree
  <2>1. CASE o \in here
    BY <2>1, <1>1, <1>2 DEF IInv, TypeOK, OccupantsFor, IndexMatchesPositions, seatVars, worldVars
  <2>2. CASE o \notin here
    BY <2>2, <1>1 DEF IInv, TypeOK, RostersAgree, seatVars, worldVars
  <2> QED BY <2>1, <2>2
<1>9. GridsAgree'
  BY <1>1, <1>3, <1>4 DEF IInv, TypeOK, GridsAgree, seatVars, worldVars
<1> QED BY <1>5, <1>6, <1>7, <1>8, <1>9 DEF IInv

\* The departure of a player is told to those who saw it, and it is not missed
\* by the rest.
LEMMA LeaveInv ==
  ASSUME IInv, NEW p \in Player, Leave(p)
  PROVE  IInv'
<1>1. /\ p \in present
      /\ holder[p] = NoConn
      /\ present' = present \ {p}
      /\ UNCHANGED <<holder, used, gone, stopped>>
      /\ byRoom' = Removed(p, pos[p])
      /\ UNCHANGED <<conn, pos, row, torn, down, respawn, grid, unseen, unheard, offGrid>>
  BY DEF Leave, Depart
<1>2. /\ minimap' = [o \in Player |->
           IF Live(o) /\ CanSee(pos[o], pos[p]) THEN [minimap[o] EXCEPT ![p] = NoRoom]
           ELSE minimap[o]]
      /\ roster' = [o \in Player |->
           IF Live(o) /\ o \in byRoom[pos[p]] THEN roster[o] \ {p} ELSE roster[o]]
  BY DEF Leave
<1>3. IndexMatchesPositions' /\ byRoom' \in [Room -> SUBSET Player]
  BY <1>1, RemovedIndex DEF IInv
<1>4. TypeOK'
  BY <1>1, <1>2, <1>3 DEF IInv, TypeOK
<1>5. HoldersUsed' /\ StoredPositionIsCurrent'
  BY <1>1 DEF IInv, TypeOK, HoldersUsed, StoredPositionIsCurrent
<1>6. \A o \in Player : Live(o)' => Live(o) /\ o # p
  BY <1>1 DEF Live
<1>7. MinimapsAgree'
  <2> SUFFICES ASSUME NEW o \in Player, NEW q \in Player, Live(o), o # p, o # q, <<o, q>> \notin unseen
               PROVE  Shown(o, q)'
    BY <1>1, <1>6 DEF MinimapsAgree
  <2>1. Shown(o, q)
    BY DEF IInv, MinimapsAgree
  <2> QED BY <2>1, <1>1, <1>2 DEF IInv, TypeOK, Shown
<1>8. RostersAgree'
  <2> SUFFICES ASSUME NEW o \in Player, NEW q \in Player, Live(o), o # p, o # q, <<o, q>> \notin unheard
               PROVE  (q \in roster[o] <=> q \in present /\ pos[q] = pos[o])'
    BY <1>1, <1>6 DEF RostersAgree
  <2>1. q \in roster[o] <=> q \in present /\ pos[q] = pos[o]
    BY DEF IInv, RostersAgree
  <2>2. o \in byRoom[pos[p]] <=> pos[o] = pos[p]
    BY DEF IInv, TypeOK, IndexMatchesPositions, Live
  <2> QED BY <2>1, <2>2, <1>1, <1>2 DEF IInv, TypeOK
<1>9. GridsAgree'
  BY <1>1, <1>6 DEF IInv, GridsAgree
<1> QED BY <1>3, <1>4, <1>5, <1>7, <1>8, <1>9 DEF IInv

-----------------------------------------------------------------------------
(* The theorems.                                                           *)

LEMMA StutterIInv == IInv /\ UNCHANGED vars => IInv'
BY DEF IInv, TypeOK, HoldersUsed, IndexMatchesPositions, StoredPositionIsCurrent, MinimapsAgree,
       RostersAgree, GridsAgree, Shown, Live, vars, seatVars, worldVars, viewVars

LEMMA NextIInv == IInv /\ [Next]_vars => IInv'
<1> SUFFICES ASSUME IInv, [Next]_vars PROVE IInv'
  OBVIOUS
<1>1. ASSUME NEW p \in Player, NEW c \in Conn, HelloNew(p, c) PROVE IInv'
  BY <1>1, HelloNewInv
<1>2. ASSUME NEW p \in Player, NEW c \in Conn, HelloAdopt(p, c) PROVE IInv'
  BY <1>2, HelloAdoptInv
<1>3. ASSUME NEW p \in Player, NEW r \in Room, Move(p, r) PROVE IInv'
  BY <1>3, MoveInv
<1>4. ASSUME NEW p \in Player, Look(p) PROVE IInv'
  BY <1>4, LookInv
<1>5. ASSUME NEW p \in Player, Resync(p) PROVE IInv'
  BY <1>5, ResyncInv
<1>6. ASSUME NEW p \in Player, HelloFails(p) PROVE IInv'
  BY <1>6, HelloFailsInv
<1>7. ASSUME NEW p \in Player, Defeat(p) PROVE IInv'
  BY <1>7, DefeatInv
<1>8. ASSUME NEW p \in Player, Drink(p) PROVE IInv'
  BY <1>8, DrinkInv
<1>9. ASSUME NEW p \in Player, NEW c \in Conn, RespawnFires(p, c) PROVE IInv'
  BY <1>9, RespawnFiresInv
<1>10. ASSUME NEW r \in Room, FoesChanged(r) PROVE IInv'
  BY <1>10, FoesChangedInv
<1>11. ASSUME NEW c \in Conn, Disconnect(c) PROVE IInv'
  BY <1>11, DisconnectInv
<1>12. ASSUME NEW p \in Player, Leave(p) PROVE IInv'
  BY <1>12, LeaveInv
<1>13. CASE UNCHANGED vars
  BY <1>13, StutterIInv
<1> QED
  BY <1>1, <1>2, <1>3, <1>4, <1>5, <1>6, <1>7, <1>8, <1>9, <1>10, <1>11, <1>12, <1>13 DEF Next

\* The invariant holds in every reachable state.
THEOREM PresenceInvariant == Spec => []IInv
BY InitIInv, NextIInv, PTL DEF Spec

\* The room index and the positions of the sessions always agree (session.ts,
\* reposition, add and remove).
THEOREM IndexAlwaysMatches == Spec => []IndexMatchesPositions
<1>1. IInv => IndexMatchesPositions
  BY DEF IInv
<1> QED BY <1>1, PresenceInvariant, PTL

\* The stored position is the one in memory unless a revival was interrupted
\* between its two writes (combat.ts, respawnPlayer).
THEOREM StoredPositionStaysCurrent == Spec => []StoredPositionIsCurrent
<1>1. IInv => StoredPositionIsCurrent
  BY DEF IInv
<1> QED BY <1>1, PresenceInvariant, PTL

\* Every connected client draws what the server holds, except what it was never
\* told (presence.ts, announceMove and visiblePresence).
THEOREM ClientsAlwaysAgree == Spec => []ClientsAgree
<1>1. IInv => ClientsAgree
  BY DEF IInv, ClientsAgree
<1> QED BY <1>1, PresenceInvariant, PTL

\* A socket that closes or is replaced changes nobody else's picture
\* (handlers.ts, handleHello on an existing session; session.ts, detach).
THEOREM ReconnectsAreQuiet == Spec => QuietReconnect
<1> DEFINE Quiet ==
      (used' # used \/ gone' # gone) /\ present' = present
        => \A o, p \in Player :
             holder'[o] = holder[o] /\ o # p =>
               minimap'[o][p] = minimap[o][p] /\ (p \in roster'[o] <=> p \in roster[o])
<1>1. ASSUME IInv, [Next]_vars PROVE [Quiet]_vars
  <2> SUFFICES ASSUME Next, used' # used \/ gone' # gone, present' = present,
                      NEW o \in Player, NEW p \in Player, holder'[o] = holder[o], o # p
               PROVE  minimap'[o][p] = minimap[o][p] /\ (p \in roster'[o] <=> p \in roster[o])
    BY <1>1
  <2>1. ASSUME NEW q \in Player, NEW c \in Conn, HelloNew(q, c) PROVE FALSE
    BY <2>1 DEF HelloNew, Take
  <2>2. ASSUME NEW q \in Player, NEW c \in Conn, HelloAdopt(q, c)
        PROVE  minimap'[o][p] = minimap[o][p] /\ (p \in roster'[o] <=> p \in roster[o])
    <3>1. holder[q] # c
      BY <1>1, <2>2, SeatsAssumption DEF IInv, HoldersUsed, HelloAdopt, Take
    <3>2. o # q
      BY <1>1, <2>2, <3>1 DEF IInv, TypeOK, HelloAdopt, Take
    <3> QED BY <1>1, <2>2, <3>2 DEF IInv, TypeOK, HelloAdopt
  <2>3. ASSUME NEW c \in Conn, Disconnect(c)
        PROVE  minimap'[o][p] = minimap[o][p] /\ (p \in roster'[o] <=> p \in roster[o])
    BY <2>3 DEF Disconnect, viewVars
  <2>4. ASSUME NEW q \in Player, NEW r \in Room, Move(q, r) PROVE FALSE
    BY <2>4 DEF Move, seatVars
  <2>5. ASSUME NEW q \in Player, Look(q) \/ Resync(q) \/ HelloFails(q) \/ Defeat(q) \/ Drink(q)
        PROVE FALSE
    BY <2>5 DEF Look, Resync, HelloFails, Defeat, Drink, seatVars
  <2>6. ASSUME NEW q \in Player, NEW c \in Conn, RespawnFires(q, c) PROVE FALSE
    BY <2>6 DEF RespawnFires, seatVars
  <2>7. ASSUME NEW r \in Room, FoesChanged(r) PROVE FALSE
    BY <2>7 DEF FoesChanged, seatVars
  <2>8. ASSUME NEW q \in Player, Leave(q) PROVE FALSE
    BY <2>8 DEF Leave, Depart
  <2> QED BY <2>1, <2>2, <2>3, <2>4, <2>5, <2>6, <2>7, <2>8 DEF Next
<1>2. QuietReconnect <=> [][Quiet]_vars
  BY DEF QuietReconnect
<1> QED BY <1>1, <1>2, PresenceInvariant, PTL DEF Spec
=============================================================================
