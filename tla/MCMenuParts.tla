----------------------------- MODULE MCMenuParts -----------------------------
(* The page's window in one run.  A behaviour is of a kind that says what it  *)
(* is about: a fight with a companion ("fight"); defeat, revival, the         *)
(* settings and the auto-battle timer ("fall"); bag and gifts ("bag"); talk,  *)
(* missions and the journal ("talk").                                         *)
EXTENDS Page

CONSTANTS n1, i1, i2, p1, m1, t1, s1, r1, r2, r3
VARIABLE kind

MCListing == <<n1, t1, m1, s1, i1, i2, p1>>
HomeOf == [n \in Npcs |-> r1]

\* No link, and a map without ways.
Nowhere == <<"r", 0>>
Here1 == {Nowhere}
NoWays == <<>>

\* Where the enemies of a kind live, and whether somebody else is about.
LairsOf == [fight |-> {r1}, fall |-> {r2}, bag |-> {}, talk |-> {}]
Confined ==
  /\ srv.foes \subseteq LairsOf[kind]
  /\ \A p \in Mates : srv.at[p] = r3 <=> kind \in {"fall", "talk"}
  /\ \A i \in DOMAIN orders : orders[i].act # <<"move", r3>>
  /\ kind # "fall" => ~ auto /\ ~ settings /\ turns <= 1
  /\ kind # "bag" => srv.bag = {}
  /\ kind \in {"bag", "talk"} => srv.cool = {}
  /\ kind # "talk" => /\ srv.topics = {}
                      /\ path # <<>> => path[1] # <<"talk">>
KindInit == PageInit /\ part = "window" /\ kind \in DOMAIN LairsOf /\ Confined
KindSpec ==
  KindInit /\ [][PageNext /\ UNCHANGED kind /\ Confined']_<<vars, linkVars, windowVars, part, kind>>

(* States that differ only in the cursor, or in who chose an order, are one: *)
(* no guard reads the latter, and what Enter does at a cursor Click does at  *)
(* any item.                                                                 *)
Seen ==
  <<[srv EXCEPT !.slot = @.act], [i \in DOMAIN orders |-> orders[i].act], news, ui, log,
    mode, path, settings, auto, turns, kind>>
=============================================================================
