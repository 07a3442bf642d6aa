---------------------------- MODULE MCWorldSamples ----------------------------
(* Worlds an author might have written, for TLC: two regions of one row of   *)
(* three cells, up to two doors between them, a guild clerk with a mission,  *)
(* and one mistake at most.                                                  *)
EXTENDS Integers, TLC

LOCAL NoFlag == "none"
LOCAL Opposite == [north |-> "south", south |-> "north", east |-> "west", west |-> "east"]

CONSTANTS Shapes, Doors, Seconds, Slips   \* Seconds: the kinds of the second door

Row(a, b, c) == (<<0, 0>> :> a) @@ (<<1, 0>> :> b) @@ (<<2, 0>> :> c)
ShapeOf == [open |-> Row(".", ".", "."), lair |-> Row(".", ".", "E"),
            split |-> Row(".", "#", ".")]
SlainFlag == [ghoul |-> "slain", wraith |-> "banished"]

\* A door between a cell of r1 and one of r2, by its kind.
Exit(at, dir, to, req, lvl, one) ==
  [at |-> at, dir |-> dir, to |-> to, requires |-> req, minRank |-> lvl, oneWay |-> one]
DoorOf(kind, a, b, dir, far) ==
  LET there(req, lvl, one) == Exit(a, dir, b, req, lvl, one)
      back(req, lvl, to) == Exit(b, Opposite[dir], to, req, lvl, FALSE)
  IN  CASE kind = "none" -> {}
        [] kind = "pair" -> {there(NoFlag, 0, FALSE), back(NoFlag, 0, a)}
        [] kind = "half" -> {there(NoFlag, 0, FALSE)}
        [] kind = "oneway" -> {there(NoFlag, 0, TRUE)}
        [] kind = "crossed" -> {there(NoFlag, 0, FALSE), Exit(b, Opposite[dir], far, NoFlag, 0, TRUE)}
        [] kind = "loop" -> {Exit(b, dir, <<b[1], far[2]>>, NoFlag, 0, FALSE), Exit(<<b[1], far[2]>>, Opposite[dir], b, NoFlag, 0, FALSE)}
        [] kind = "inward" -> {Exit(b, Opposite[dir], a, NoFlag, 0, TRUE)}
        [] kind = "sealed" -> {there("slain", 0, FALSE), back(NoFlag, 0, a)}
        [] kind = "banned" -> {there("banished", 0, FALSE), back(NoFlag, 0, a)}
        [] kind = "ranked" -> {there(NoFlag, 1, FALSE), back(NoFlag, 0, a)}
        [] kind = "tooHigh" -> {there(NoFlag, 9, FALSE), back(NoFlag, 0, a)}
        [] kind = "trap" -> {there(NoFlag, 0, FALSE), back("slain", 0, a)}

Foe(r, s) == IF s = "lair" THEN [c \in {<<2, 0>>} |-> IF r = "r1" THEN "ghoul" ELSE "wraith"] ELSE << >>
Floor(s) == {c \in DOMAIN ShapeOf[s] : ShapeOf[s][c] # "#"}

Plain(s1, s2, d1, d2) ==
  [tiles |-> [r1 |-> ShapeOf[s1], r2 |-> ShapeOf[s2]],
   seeds |-> [r1 |-> Floor(s1), r2 |-> Floor(s2)],
   sensitive |-> [r1 |-> << >>, r2 |-> << >>],
   enemies |-> [r1 |-> Foe("r1", s1), r2 |-> Foe("r2", s2)],
   exits |-> DoorOf(d1, <<"r1", <<0, 0>>>>, <<"r2", <<0, 0>>>>, "north", <<"r1", <<2, 0>>>>)
             \cup DoorOf(d2, <<"r1", <<2, 0>>>>, <<"r2", <<2, 0>>>>, "south", <<"r1", <<0, 0>>>>),
   npcs |-> {[id |-> "clerk", at |-> <<"r1", <<0, 0>>>>, guild |-> TRUE, topics |-> {}, sensitive |-> {}]},
   missions |-> {}, spawn |-> <<"r1", <<0, 0>>>>,
   flags |-> [slain |-> FALSE, banished |-> FALSE]]

Hunt(npc, foe) == [npc |-> npc, minRank |-> 0, requires |-> NoFlag, enemy |-> foe, reward |-> {"coin"}]

Slipped(w, slip) ==
  CASE slip = "none" -> w
    [] slip = "hunt" -> [w EXCEPT !.missions = {Hunt("clerk", "ghoul")}]
    [] slip = "hunt2" -> [w EXCEPT !.missions = {Hunt("clerk", "wraith")}]
    [] slip = "noClerk" -> [w EXCEPT !.missions = {Hunt("nobody", "ghoul")}]
    [] slip = "seedless" -> [w EXCEPT !.seeds["r2"] = @ \ {<<0, 0>>}]
    [] slip = "noFoe" -> [w EXCEPT !.enemies["r1"] = << >>]
    [] slip = "mood" -> [w EXCEPT !.sensitive["r2"] = (<<0, 0>> :> {"slain"})]
    [] slip = "clerkInWall" ->
         [w EXCEPT !.npcs = {[n EXCEPT !.at = <<"r1", <<1, 0>>>>] : n \in @}, !.missions = {Hunt("clerk", "ghoul")}]
    [] slip = "lostFlag" -> [w EXCEPT !.flags = @ @@ ("unused" :> FALSE)]
    [] slip = "undeclared" -> [w EXCEPT !.flags = ("slain" :> FALSE)]

MCAuthored ==
  {Slipped(Plain(s1, s2, d1, d2), slip) :
     s1 \in Shapes, s2 \in Shapes, d1 \in Doors, d2 \in Seconds, slip \in Slips}
=============================================================================
