----------------------------- MODULE MCSessions -----------------------------
(* Small instances of Sessions: two players, connections interchangeable.  *)
EXTENDS Sessions, TLC

Symmetry == Permutations(Conn) \cup Permutations(Player)
=============================================================================
