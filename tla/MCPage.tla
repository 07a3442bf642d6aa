------------------------------- MODULE MCPage -------------------------------
(* Page on two cells in a row and one behind a sealed door; its window has *)
(* a run of its own (MCMenuParts).                                         *)
EXTENDS Page, TLC

MCDelta == [d \in Dir |-> IF d = "east" THEN 1 ELSE -1]
MCWalkable == {<<"town", 0>>, <<"town", 1>>, <<"cave", 0>>}
MCSpawn == <<"town", 0>>
MCExit == (<<<<"town", 1>>, "east">> :> <<"cave", 0>>)
MCSealed == DOMAIN MCExit

NoThings == <<>>
=============================================================================
