------------------------------ MODULE MCCombat ------------------------------
(* Small instances of Combat: a town without enemies and a few dens.       *)
EXTENDS Combat, TLC

CONSTANTS p1, p2, WindupDens   \* WindupDens: the dens whose enemy winds up
MCEveryNth == [r \in Den |-> IF r \in WindupDens THEN 1 ELSE 0]
Symmetry == Permutations({p1, p2}) \cup Permutations(Conn)
=============================================================================
