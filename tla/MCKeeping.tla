----------------------------- MODULE MCKeeping -----------------------------
(* A hall, which may react to the flag, and a vault; worlds that differ in  *)
(* a seed, or by the hall.                                                  *)
EXTENDS Keeping, TLC

RoomOf(seed, decl) == [seed |-> seed, decl |-> decl]
Whole == ("hall" :> RoomOf("s1", FALSE)) @@ ("vault" :> RoomOf("s1", FALSE))
Smaller == "vault" :> RoomOf("s1", FALSE)
Still == "hall" :> RoomOf("s1", TRUE)
Reworded == "hall" :> RoomOf("s2", TRUE)
Both == {Whole, Smaller}
Same == {Still}
Worded == {Still, Reworded}

File(w, text) ==
  [tables |-> 1..SchemaVersion, version |-> SchemaVersion, hash |-> w, rooms |-> w, flag |-> "false", text |-> text, players |-> {}]
Old == [File(Still, << >>) EXCEPT !.tables = 1..(SchemaVersion - 1), !.version = SchemaVersion - 1]
Texts(w) == {Key(w, room, "false") : room \in DOMAIN w}
Filled(w) == {File(w, [k \in Texts(w) |-> IF k.room = "vault" THEN "llm" ELSE "fallback"])}
New == {NoFile}
NewOrOld == {NoFile, Old}
Lived == Filled(Whole)
StillLived == {File(Still, [k \in Texts(Still) |-> "llm"])}
StillTold == {File(Still, [k \in Texts(Still) |-> "fallback"])}
=============================================================================
