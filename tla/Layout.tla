-------------------------------- MODULE Layout --------------------------------
(* The generator of a region's tiles (engine/layout.ts): from one cell in    *)
(* the middle it carves wall cells of a frontier until there are Rooms cells *)
(* to walk on.  Whatever the random numbers are, the cells must form one     *)
(* piece: nobody checks a generated region by hand.                          *)
EXTENDS Integers, FiniteSets

CONSTANTS
  Rooms,   \* options.rooms
  Root,    \* ceil(sqrt(Rooms))
  Loops    \* whether options.loopChance is above zero

ASSUME LayoutAssumption ==
  /\ Rooms \in Nat \ {0} /\ Root \in Nat \ {0} /\ Loops \in BOOLEAN
  /\ (Root - 1) * (Root - 1) < Rooms /\ Rooms <= Root * Root

\* Three to four times the side the rooms need: a maze leaves half of it walls.
Side == 3 * Root + 4
Inside == (1 .. Side - 2) \X (1 .. Side - 2)
Mid == <<Side \div 2, Side \div 2>>
Nbrs(c) == {<<c[1], c[2] - 1>>, <<c[1], c[2] + 1>>, <<c[1] - 1, c[2]>>, <<c[1] + 1, c[2]>>}

VARIABLES
  carved,    \* the cells to walk on
  frontier   \* frontier[c] : how many times cell c is in the frontier
vars == <<carved, frontier>>

CarvedNbrs(c) == Nbrs(c) \cap carved
\* The walls around a carved cell enter the frontier, again if they are in it.
Push(f, cs, c) == [e \in Inside |-> IF e \in Nbrs(c) /\ e \notin cs THEN f[e] + 1 ELSE f[e]]
Pop(c) == [frontier EXCEPT ![c] = @ - 1]
Busy == Cardinality(carved) < Rooms

\* A cell that would widen a passage stays wall; one that closes a loop may.
Skip(c) ==
  /\ Busy /\ frontier[c] > 0
  /\ c \in carved \/ Cardinality(CarvedNbrs(c)) > 1
  /\ frontier' = Pop(c) /\ UNCHANGED carved
\* Mutant: the passage goes on behind a wall that is left standing.
CarveLong(c) ==
  /\ Busy /\ frontier[c] > 0 /\ c \notin carved
  /\ LET far == <<c[1] + 2, c[2]>>
     IN /\ carved' = carved \cup {c, far}
        /\ frontier' = Push(Push(Pop(c), carved', c), carved', far)
Carve(c) ==
  /\ Busy /\ frontier[c] > 0 /\ c \notin carved
  /\ Cardinality(CarvedNbrs(c)) < (IF Loops THEN 3 ELSE 2)
  /\ carved' = carved \cup {c}
  /\ frontier' = Push(Pop(c), carved', c)

Init ==
  /\ carved = {Mid}
  /\ frontier = Push([e \in Inside |-> 0], {Mid}, Mid)
Next == \E c \in Inside : Skip(c) \/ Carve(c)
Spec == Init /\ [][Next]_vars
-----------------------------------------------------------------------------
(* connectedComponents, which authorRegion asks of every region: the flood    *)
(* fill takes the cells that are reached from one cell out of those to start  *)
(* from.                                                                      *)

Flood(cells, start) ==
  LET fill[s \in SUBSET cells] ==
        LET more == s \cup {c \in cells : Nbrs(c) \cap s # {}}
        IN IF more = s THEN s ELSE fill[more]
  IN fill[{start}]
ConnectedComponents(cells) == Cardinality({Flood(cells, c) : c \in cells})
-----------------------------------------------------------------------------
(* Properties *)

TypeOK == carved \subseteq Inside /\ frontier \in [Inside -> Nat]

\* layout.ts:17: the cells are one piece at every moment, so nobody ever pays
\* for a room that cannot be reached: no part of them is cut off from the rest.
OnePiece ==
  \A part \in SUBSET carved : part # {} /\ part # carved =>
    \E a \in part, b \in carved \ part : b \in Nbrs(a)

\* The region the generator returns passes the check of authorRegion.
OneComponent == ~ Busy => ConnectedComponents(carved) = 1

\* layout.ts:101: a cell of the frontier has a carved neighbour when it is
\* taken: the case n = 0, which the loop would carve, does not happen.
FrontierTouches == \A c \in Inside : frontier[c] > 0 => CarvedNbrs(c) # {}

\* A wall cell that a passage can still grow into is waiting in the frontier:
\* nothing that could be carved is dropped, however often others were.
OpenCellsWait ==
  \A c \in Inside \ carved : (\E d \in carved : CarvedNbrs(c) = {d}) => frontier[c] > 0

\* layout.ts:70: the frontier does not run dry before there are enough rooms.
NeverStuck == Busy => \E c \in Inside : frontier[c] > 0
=============================================================================
