----------------------------- MODULE MCPresence -----------------------------
(* Three rooms in two regions: hall and yard in "town", cave in "wild".    *)
EXTENDS Presence, TLC

CONSTANTS hall, yard, cave

MCRoom == {hall, yard, cave}
MCRegionOf == [r \in MCRoom |-> IF r = cave THEN "wild" ELSE "town"]
MCExit == {<<hall, yard>>, <<yard, hall>>, <<yard, cave>>, <<cave, yard>>}

Symmetry == Permutations(Player) \cup Permutations(Conn)
=============================================================================
