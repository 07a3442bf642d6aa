----------------------------- MODULE ContentProofs -----------------------------
(* How a world comes to be, for every number of rooms and every seed, every   *)
(* row of cells, every batch, every brief, and every set of worlds an author  *)
(* might have written.  The three parts have an inductive invariant each:     *)
(* IInv (a cell of the frontier touches a carved one, so the next one is      *)
(* joined to the rest), ToolInv (what a run of the authoring tool has in      *)
(* memory agrees with the file) and BootInv (who walks has passed the boot).  *)
EXTENDS Content, Sequences, FiniteSetTheorems, TLAPS

IInv ==
  /\ TypeOK
  /\ Mid \in carved /\ IsFiniteSet(carved)
  /\ FrontierTouches
  /\ OpenCellsWait
  /\ OnePiece

\* The grid has a middle and sides, whatever the number of rooms.
LEMMA SideType == Side \in Nat /\ Side >= 7 /\ Mid \in Inside
<1>1. Root \in Nat /\ Root >= 1
  BY LayoutAssumption
<1>2. Side \in Nat /\ Side >= 7
  BY <1>1 DEF Side
<1>3. Side \div 2 \in 1 .. Side - 2
  BY <1>2
<1> QED
  BY <1>2, <1>3 DEF Mid, Inside

\* Being a neighbour goes both ways between cells of the grid.
LEMMA NbrsSymmetric ==
  ASSUME NEW a \in Inside, NEW b \in Inside PROVE b \in Nbrs(a) <=> a \in Nbrs(b)
<1> DEFINE M == 1 .. Side - 2
<1>1. PICK ax \in M, ay \in M : a = <<ax, ay>>
  BY DEF Inside
<1>2. PICK bx \in M, by \in M : b = <<bx, by>>
  BY DEF Inside
<1>3. ax \in Int /\ ay \in Int /\ bx \in Int /\ by \in Int
  BY SideType
<1>4. b \in Nbrs(a) <=> \/ bx = ax /\ by = ay - 1
                        \/ bx = ax /\ by = ay + 1
                        \/ bx = ax - 1 /\ by = ay
                        \/ bx = ax + 1 /\ by = ay
  BY <1>1, <1>2 DEF Nbrs
<1>5. a \in Nbrs(b) <=> \/ ax = bx /\ ay = by - 1
                        \/ ax = bx /\ ay = by + 1
                        \/ ax = bx - 1 /\ ay = by
                        \/ ax = bx + 1 /\ ay = by
  BY <1>1, <1>2 DEF Nbrs
<1> QED
  BY <1>3, <1>4, <1>5

\* The first cell is one piece and offers its walls.
LEMMA InitIInv == Init => IInv
<1> SUFFICES ASSUME Init PROVE IInv
  OBVIOUS
<1> USE DEF Init
<1>1. Mid \in Inside
  BY SideType
<1>2. TypeOK
  BY <1>1 DEF TypeOK, Push
<1>3. Mid \in carved /\ IsFiniteSet(carved)
  BY FS_Singleton
<1>4. FrontierTouches
  <2> SUFFICES ASSUME NEW c \in Inside, frontier[c] > 0 PROVE Mid \in CarvedNbrs(c)
    BY DEF FrontierTouches
  <2>1. c \in Nbrs(Mid)
    BY DEF Push
  <2> QED
    BY <2>1, <1>1, NbrsSymmetric DEF CarvedNbrs
<1>5. OpenCellsWait
  <2> SUFFICES ASSUME NEW c \in Inside \ carved, Mid \in CarvedNbrs(c) PROVE frontier[c] > 0
    BY DEF OpenCellsWait
  <2>1. c \in Nbrs(Mid)
    BY <1>1, NbrsSymmetric DEF CarvedNbrs
  <2> QED
    BY <2>1 DEF Push
<1>6. OnePiece
  BY DEF OnePiece
<1> QED
  BY <1>2, <1>3, <1>4, <1>5, <1>6 DEF IInv

\* A cell that is dropped is carved already or touches two carved cells.
LEMMA SkipIInv == ASSUME IInv, NEW c \in Inside, Skip(c) PROVE IInv'
<1> USE DEF IInv, Skip
<1>1. frontier \in [Inside -> Nat] /\ frontier[c] - 1 \in Nat
  BY DEF TypeOK
<1>2. TypeOK'
  BY <1>1 DEF TypeOK, Pop
<1>3. \A e \in Inside : frontier'[e] = IF e = c THEN frontier[e] - 1 ELSE frontier[e]
  BY <1>1 DEF Pop
<1>4. (Mid \in carved /\ IsFiniteSet(carved))' /\ OnePiece'
  BY DEF OnePiece
<1>5. FrontierTouches'
  <2> SUFFICES ASSUME NEW e \in Inside, frontier'[e] > 0 PROVE CarvedNbrs(e) # {}
    BY DEF FrontierTouches, CarvedNbrs
  <2>1. frontier[e] > 0
    BY <1>1, <1>3
  <2> QED
    BY <2>1 DEF FrontierTouches
<1>6. OpenCellsWait'
  <2> SUFFICES ASSUME NEW e \in Inside \ carved, NEW d \in carved, CarvedNbrs(e) = {d}
               PROVE frontier'[e] > 0
    BY DEF OpenCellsWait, CarvedNbrs
  <2>1. frontier[e] > 0
    BY DEF OpenCellsWait
  <2>2. Cardinality(CarvedNbrs(e)) = 1
    BY FS_Singleton
  <2>3. e # c
    BY <2>2
  <2> QED
    BY <2>1, <2>3, <1>3
<1> QED
  BY <1>2, <1>4, <1>5, <1>6

\* A cell that is carved joins the rest and offers the walls it touches.
LEMMA CarveIInv == ASSUME IInv, NEW c \in Inside, Carve(c) PROVE IInv'
<1> USE DEF IInv
<1>1. frontier \in [Inside -> Nat] /\ frontier[c] > 0 /\ frontier[c] - 1 \in Nat /\ carved \subseteq Inside
  BY DEF TypeOK, Carve
<1>2. c \notin carved /\ carved' = carved \cup {c}
  BY DEF Carve
<1>3. \A e \in Inside : Pop(c)[e] = IF e = c THEN frontier[e] - 1 ELSE frontier[e]
  BY <1>1 DEF Pop
<1>4. Pop(c) \in [Inside -> Nat]
  BY <1>1 DEF Pop
<1>5. frontier' = [e \in Inside |-> IF e \in Nbrs(c) /\ e \notin carved' THEN Pop(c)[e] + 1 ELSE Pop(c)[e]]
  BY DEF Carve, Push
<1>6. TypeOK'
  BY <1>1, <1>2, <1>4, <1>5 DEF TypeOK
<1>7. (Mid \in carved /\ IsFiniteSet(carved))'
  BY <1>2, FS_AddElement
<1>8. \A e \in Inside : CarvedNbrs(e)' = CarvedNbrs(e) \cup (Nbrs(e) \cap {c})
  BY <1>2 DEF CarvedNbrs
<1>9. FrontierTouches'
  <2> SUFFICES ASSUME NEW e \in Inside, frontier'[e] > 0 PROVE CarvedNbrs(e)' # {}
    BY DEF FrontierTouches
  <2>1. CASE e \in Nbrs(c) /\ e \notin carved'
    BY <2>1, <1>8, NbrsSymmetric
  <2>2. CASE ~ (e \in Nbrs(c) /\ e \notin carved')
    <3>1. frontier'[e] = Pop(c)[e]
      BY <2>2, <1>5
    <3>2. frontier[e] > 0
      BY <3>1, <1>1, <1>3
    <3> QED
      BY <3>2, <1>8 DEF FrontierTouches
  <2> QED
    BY <2>1, <2>2
<1>10. OpenCellsWait'
  <2> SUFFICES ASSUME NEW e \in Inside \ carved', NEW d \in carved', CarvedNbrs(e)' = {d}
               PROVE frontier'[e] > 0
    BY DEF OpenCellsWait
  <2>1. e # c /\ e \notin carved
    BY <1>2
  <2>2. CASE c \in Nbrs(e)
    <3>1. e \in Nbrs(c)
      BY <2>2, NbrsSymmetric
    <3>2. frontier'[e] = Pop(c)[e] + 1
      BY <3>1, <1>5
    <3> QED
      BY <3>2, <1>4
  <2>3. CASE c \notin Nbrs(e)
    <3>1. CarvedNbrs(e) = {d}
      BY <2>3, <1>8
    <3>2. d \in carved
      BY <3>1 DEF CarvedNbrs
    <3>3. frontier[e] > 0
      BY <3>1, <3>2, <2>1 DEF OpenCellsWait
    <3>4. e \notin Nbrs(c)
      BY <2>3, NbrsSymmetric
    <3> QED
      BY <3>3, <3>4, <2>1, <1>3, <1>5
  <2> QED
    BY <2>2, <2>3
<1>11. OnePiece'
  <2> SUFFICES ASSUME NEW piece \in SUBSET carved', piece # {}, piece # carved'
               PROVE \E a \in piece, b \in carved' \ piece : b \in Nbrs(a)
    BY DEF OnePiece
  <2>1. PICK d \in carved : d \in Nbrs(c)
    BY <1>1 DEF FrontierTouches, CarvedNbrs
  <2>2. c \in Nbrs(d)
    BY <2>1, <1>1, NbrsSymmetric
  <2> DEFINE old == piece \ {c}
  <2>3. old \in SUBSET carved
    BY <1>2
  <2>4. CASE old = {}
    <3>1. piece = {c} /\ d \in carved' \ piece
      BY <2>4, <1>2
    <3> QED
      BY <3>1, <2>1
  <2>5. CASE old = carved
    <3>1. c \notin piece /\ d \in piece
      BY <2>5, <1>2
    <3> QED
      BY <3>1, <2>2, <1>2
  <2>6. CASE old # {} /\ old # carved
    <3>1. PICK a \in old, b \in carved \ old : b \in Nbrs(a)
      BY <2>3, <2>6 DEF OnePiece
    <3>2. a \in piece /\ b \in carved' \ piece
      BY <1>2
    <3> QED
      BY <3>1, <3>2
  <2> QED
    BY <2>4, <2>5, <2>6
<1> QED
  BY <1>6, <1>7, <1>9, <1>10, <1>11

\* IInv holds in every reachable state.
LEMMA Invariance == Spec => []IInv
<1>1. IInv /\ [Next]_vars => IInv'
  <2> SUFFICES ASSUME IInv, [Next]_vars PROVE IInv'
    OBVIOUS
  <2>1. ASSUME NEW c \in Inside, Skip(c) PROVE IInv'
    BY <2>1, SkipIInv
  <2>2. ASSUME NEW c \in Inside, Carve(c) PROVE IInv'
    BY <2>2, CarveIInv
  <2>3. CASE UNCHANGED vars
    BY <2>3 DEF vars, IInv, TypeOK, FrontierTouches, OpenCellsWait, OnePiece, CarvedNbrs
  <2> QED
    BY <2>1, <2>2, <2>3 DEF Next
<1> QED
  BY <1>1, InitIInv, PTL DEF Spec

\* The generator's state has its type: no cell outside the walls is carved, so
\* a region is closed on all sides (layout.ts:72).
THEOREM TypeCorrect == Spec => []TypeOK
<1>1. IInv => TypeOK
  BY DEF IInv
<1> QED
  BY <1>1, Invariance, PTL

\* A region is one piece at every moment, whatever its size, its seed and its
\* chance of loops (layout.ts:17).
THEOREM RegionIsOnePiece == Spec => []OnePiece
<1>1. IInv => OnePiece
  BY DEF IInv
<1> QED
  BY <1>1, Invariance, PTL

\* The case n = 0 of the loop does not happen (layout.ts:101).
THEOREM NoLonelyCell == Spec => []FrontierTouches
<1>1. IInv => FrontierTouches
  BY DEF IInv
<1> QED
  BY <1>1, Invariance, PTL

\* No wall a passage can grow into is lost from the frontier.
THEOREM NothingIsLost == Spec => []OpenCellsWait
<1>1. IInv => OpenCellsWait
  BY DEF IInv
<1> QED
  BY <1>1, Invariance, PTL
-----------------------------------------------------------------------------
(* The authoring tool *)

FileSet == [tiles : SUBSET Tool!Cells, exits : SUBSET Good, seeds : [Tool!Cells -> -1 .. MaxModel]]
RunSet ==
  [step : {"overview", "link", "seeds", "end", "brief"}, mode : {"full", "layout", "dry"},
   tiles : SUBSET Tool!Cells, fresh : BOOLEAN, seeds : [Tool!Cells -> -1 .. MaxModel],
   exits : SUBSET Good, todo : SUBSET Tool!Cells, overview : 0 .. MaxModel, told : BOOLEAN,
   doors : Seq(Tool!Door), left : Seq(Tool!Door), filled : Nat, calls : Nat]

ToolTypes ==
  /\ Tool!HasFile => file \in FileSet /\ file.tiles # {}
  /\ run # Tool!Idle => run \in RunSet /\ run.tiles # {} /\ run.todo \subseteq run.tiles
  /\ pairs \subseteq Good /\ overviews \in 0 .. MaxModel
  /\ brief \in [overview : 0 .. MaxModel, doors : Seq(Tool!Door)]
\* What was paid for stands on the grid of the file.
PaidInGrid == \A c \in paid : Tool!HasFile /\ c \in file.tiles /\ file.seeds[c] # Tool!Empty
\* No exit without its other side, on the disk or about to be written.
DoorsPaired ==
  /\ Tool!HasFile => file.exits \subseteq pairs
  /\ run # Tool!Idle => run.exits \subseteq pairs
\* The memory of a run has the grid of the file and every seed of it.
MemoryHasFile ==
  run # Tool!Idle /\ Tool!HasFile =>
    /\ run.tiles = file.tiles
    /\ \A c \in file.tiles : file.seeds[c] # Tool!Empty => run.seeds[c] = file.seeds[c]
\* Seeds are written of an overview.
OverviewFirst ==
  run # Tool!Idle =>
    /\ run.step = "seeds" => run.mode = "full"
    /\ run.mode = "full" => run.step = "overview" \/ run.overview # Tool!Empty
\* What a step of the tool may do to the file.
KeepsFile ==
  Tool!HasFile =>
    /\ file'.tiles = file.tiles
    /\ \A c \in file.tiles : file.seeds[c] # Tool!Empty => file'.seeds[c] = file.seeds[c]
ToolInv == ToolTypes /\ PaidInGrid /\ DoorsPaired /\ MemoryHasFile /\ OverviewFirst

LEMMA ToolConstants ==
  /\ Width \in Nat /\ MaxModel \in Nat /\ Batch \in Nat /\ Drawn \in SUBSET Tool!Cells
  /\ IsFiniteSet(Tool!Cells)
<1>1. Width \in Nat /\ MaxModel \in Nat /\ Batch \in Nat /\ Drawn \in SUBSET Tool!Cells
  BY ToolAssumption DEF Tool!AuthoringAssumption
<1>2. IsFiniteSet(1 .. Width)
  BY <1>1, FS_Interval
<1> QED
  BY <1>1, <1>2 DEF Tool!Cells

\* What a run writes is a file: its grid, its exits and its seeds.
LEMMA WrittenIsFile ==
  ASSUME NEW r \in RunSet, r.tiles # {}
  PROVE  /\ Tool!Written(r) \in FileSet /\ Tool!Written(r) # Tool!NoFile
         /\ Tool!Written(r).tiles = r.tiles /\ Tool!Written(r).exits = r.exits
         /\ \A c \in r.tiles : Tool!Written(r).seeds[c] = r.seeds[c]
<1> DEFINE w == Tool!Written(r)
<1>1. /\ r.tiles \in SUBSET Tool!Cells /\ r.exits \in SUBSET Good
      /\ r.seeds \in [Tool!Cells -> -1 .. MaxModel]
  BY DEF RunSet
<1>2. [c \in Tool!Cells |-> IF c \in r.tiles THEN r.seeds[c] ELSE Tool!Empty] \in [Tool!Cells -> -1 .. MaxModel]
  BY <1>1, ToolConstants DEF Tool!Empty
<1>3. w.tiles = r.tiles /\ w.exits = r.exits
  BY DEF Tool!Written
<1>4. w \in FileSet
  BY <1>1, <1>2 DEF Tool!Written, FileSet
<1>5. \A c \in r.tiles : w.seeds[c] = r.seeds[c]
  BY <1>1 DEF Tool!Written
<1>6. w # Tool!NoFile
  BY <1>3 DEF Tool!NoFile
<1> QED
  BY <1>3, <1>4, <1>5, <1>6

LEMMA InitToolInv == Tool!Init => ToolInv
BY ToolConstants
DEF Tool!Init, ToolInv, ToolTypes, PaidInGrid, DoorsPaired, MemoryHasFile, OverviewFirst,
    Tool!HasFile, Tool!Empty, Tool!Door

\* A run reads the file and the brief.
LEMMA OpenToolInv ==
  ASSUME ToolInv, NEW how \in {"full", "layout", "dry"}, Tool!Open(how) PROVE ToolInv'
<1> DEFINE tiles == IF file = Tool!NoFile THEN Drawn ELSE file.tiles
           kept == IF file = Tool!NoFile THEN Tool!NoSeeds
                   ELSE [c \in Tool!Cells |-> IF c \in tiles THEN file.seeds[c] ELSE Tool!Empty]
           r == [step |-> "link", mode |-> how, tiles |-> tiles, fresh |-> file = Tool!NoFile,
                 seeds |-> kept, exits |-> IF file = Tool!NoFile THEN {} ELSE file.exits,
                 todo |-> {c \in tiles : kept[c] = Tool!Empty}, overview |-> brief.overview, told |-> FALSE,
                 doors |-> brief.doors, left |-> brief.doors, filled |-> 0, calls |-> 0]
           step == IF r.overview = Tool!Empty /\ how = "full" THEN "overview" ELSE "link"
<1>1. UNCHANGED <<file, pairs, brief, overviews, paid, edits>>
  BY DEF Tool!Open
<1>2. IF Tool!OneComponent(tiles) THEN run' = [r EXCEPT !.step = step] ELSE run' = Tool!Idle
  BY DEF Tool!Open, Tool!Go, Tool!Stop
<1>3. file # Tool!NoFile => file \in FileSet /\ file.exits \subseteq pairs
  BY DEF ToolInv, ToolTypes, DoorsPaired, Tool!HasFile
<1>4. tiles \in SUBSET Tool!Cells
  BY <1>3, ToolConstants DEF FileSet
<1>5. kept \in [Tool!Cells -> -1 .. MaxModel]
  <2>1. CASE file = Tool!NoFile
    BY <2>1, ToolConstants DEF Tool!NoSeeds, Tool!Empty
  <2>2. CASE file # Tool!NoFile
    BY <2>2, <1>3, ToolConstants DEF FileSet, Tool!Empty
  <2> QED
    BY <2>1, <2>2
<1>6. brief.overview \in 0 .. MaxModel /\ brief.doors \in Seq(Tool!Door)
  BY DEF ToolInv, ToolTypes
<1>7. r.exits \in SUBSET Good /\ r.exits \subseteq pairs
  BY <1>3 DEF FileSet
<1>8. [r EXCEPT !.step = step] \in RunSet
  <2> HIDE DEF kept, tiles
  <2> QED
    BY <1>4, <1>5, <1>6, <1>7 DEF RunSet
<1>9. CASE Tool!OneComponent(tiles)
  <2> DEFINE q == [r EXCEPT !.step = step]
  <2>1. run' = q
    BY <1>2, <1>9
  <2>2. /\ q.tiles = tiles /\ q.todo \subseteq q.tiles /\ q.exits = r.exits /\ q.seeds = kept
        /\ q.step = step /\ q.mode = how /\ q.overview = brief.overview
    OBVIOUS
  <2>3. tiles # {}
    BY <1>9 DEF Tool!OneComponent
  <2>4. file # Tool!NoFile => q.tiles = file.tiles /\ \A c \in file.tiles : q.seeds[c] = file.seeds[c]
    BY <2>2, <1>3 DEF FileSet
  <2> HIDE DEF q, step, r, kept, tiles
  <2>5. ToolTypes'
    BY <1>1, <2>1, <1>8, <2>2, <2>3 DEF q, ToolInv, ToolTypes, Tool!HasFile
  <2>6. PaidInGrid'
    BY <1>1 DEF ToolInv, PaidInGrid, Tool!HasFile
  <2>7. DoorsPaired'
    BY <1>1, <2>1, <2>2, <1>7 DEF ToolInv, DoorsPaired, Tool!HasFile
  <2>8. MemoryHasFile'
    BY <1>1, <2>1, <2>4 DEF MemoryHasFile, Tool!HasFile
  <2>9. OverviewFirst'
    BY <2>1, <2>2 DEF step, r, OverviewFirst
  <2> QED
    BY <2>5, <2>6, <2>7, <2>8, <2>9 DEF ToolInv
<1>10. CASE ~ Tool!OneComponent(tiles)
  <2>1. run' = Tool!Idle
    BY <1>2, <1>10
  <2> QED
    BY <2>1, <1>1 DEF ToolInv, ToolTypes, PaidInGrid, DoorsPaired, MemoryHasFile, OverviewFirst, Tool!HasFile
<1> QED
  BY <1>9, <1>10

\* The run is over: the file stays what it is.
LEMMA StopToolInv ==
  ASSUME ToolInv, run' = Tool!Idle, UNCHANGED <<file, overviews, paid>>, pairs \subseteq pairs', pairs' \subseteq Good,
         brief' \in [overview : 0 .. MaxModel, doors : Seq(Tool!Door)]
  PROVE  ToolInv'
BY DEF ToolInv, ToolTypes, PaidInGrid, DoorsPaired, MemoryHasFile, OverviewFirst, Tool!HasFile

\* The run goes on and writes nothing of this region.
LEMMA GoToolInv ==
  ASSUME ToolInv, run # Tool!Idle, run' \in RunSet,
         run'.tiles = run.tiles, run'.todo = run.todo, run'.seeds = run.seeds,
         run'.exits \subseteq pairs', pairs \subseteq pairs', pairs' \subseteq Good,
         overviews' \in 0 .. MaxModel, UNCHANGED <<file, brief, paid>>,
         OverviewFirst'
  PROVE  ToolInv'
<1>1. ToolTypes'
  BY DEF ToolInv, ToolTypes, Tool!HasFile
<1>2. PaidInGrid' /\ DoorsPaired' /\ MemoryHasFile'
  BY DEF ToolInv, PaidInGrid, DoorsPaired, MemoryHasFile, Tool!HasFile
<1> QED
  BY <1>1, <1>2 DEF ToolInv

LEMMA OverviewToolInv == ASSUME ToolInv, Tool!Overview PROVE ToolInv'
<1>1. /\ run # Tool!Idle /\ run \in RunSet /\ run.exits \subseteq pairs /\ run.step = "overview"
      /\ overviews \in 0 .. MaxModel /\ overviews < MaxModel /\ pairs \subseteq Good
  BY DEF ToolInv, ToolTypes, DoorsPaired, Tool!Overview, Tool!At
<1>2. overviews' = overviews + 1 /\ UNCHANGED <<file, pairs, brief, paid>>
  BY DEF Tool!Overview
<1>3. overviews + 1 \in 0 .. MaxModel /\ overviews + 1 # Tool!Empty
  BY <1>1, ToolConstants DEF Tool!Empty
<1>4. run' = [run EXCEPT !.overview = overviews + 1, !.told = TRUE, !.calls = 1, !.step = "link"]
  BY <1>1 DEF Tool!Overview, Tool!Go, RunSet
<1>5. run' \in RunSet
  BY <1>1, <1>3, <1>4 DEF RunSet
<1>6. /\ run'.tiles = run.tiles /\ run'.todo = run.todo /\ run'.seeds = run.seeds /\ run'.exits = run.exits
      /\ run'.step = "link" /\ run'.overview = overviews + 1
  BY <1>1, <1>4 DEF RunSet
<1>7. OverviewFirst'
  BY <1>3, <1>6 DEF OverviewFirst
<1> QED
  BY <1>1, <1>2, <1>3, <1>5, <1>6, <1>7, GoToolInv

LEMMA LinkToolInv == ASSUME ToolInv, Tool!Link \/ Tool!DoorsLinked PROVE ToolInv'
<1>1. /\ run # Tool!Idle /\ run \in RunSet /\ run.exits \subseteq pairs /\ run.step = "link"
      /\ overviews \in 0 .. MaxModel /\ pairs \subseteq Good /\ run.left \in Seq(Tool!Door)
      /\ brief \in [overview : 0 .. MaxModel, doors : Seq(Tool!Door)]
      /\ run.mode = "full" => run.overview # Tool!Empty
  BY DEF ToolInv, ToolTypes, DoorsPaired, OverviewFirst, Tool!Link, Tool!DoorsLinked, Tool!At, RunSet
<1>2. UNCHANGED <<file, brief, overviews, paid>>
  BY DEF Tool!Link, Tool!DoorsLinked
<1> DEFINE first == Head(run.left)
<1>3. CASE Tool!Link /\ first \in Bad
  <2>1. run' = Tool!Idle /\ pairs' = pairs
    BY <1>3 DEF Tool!Link, Tool!Stop
  <2> QED
    BY <1>1, <1>2, <2>1, StopToolInv
<1>4. CASE Tool!Link /\ first \notin Bad
  <2>1. run' = [run EXCEPT !.exits = @ \cup {first}, !.left = Tail(@), !.step = "link"] /\ pairs' = pairs \cup {first}
    BY <1>1, <1>4 DEF Tool!Link, Tool!Go, RunSet
  <2>2. first \in Good /\ Tail(run.left) \in Seq(Tool!Door)
    <3>1. run.left # <<>>
      BY <1>4 DEF Tool!Link
    <3>2. first \in Tool!Door /\ Tail(run.left) \in Seq(Tool!Door)
      BY <1>1, <3>1
    <3> QED
      BY <1>4, <3>2 DEF Tool!Door
  <2> HIDE DEF first
  <2>3. /\ run'.tiles = run.tiles /\ run'.todo = run.todo /\ run'.seeds = run.seeds
        /\ run'.exits = run.exits \cup {first} /\ run'.step = "link" /\ run'.mode = run.mode
        /\ run'.overview = run.overview
    BY <1>1, <2>1 DEF RunSet
  <2>4. run' \in RunSet
    <3>1. run.exits \cup {first} \in SUBSET Good
      BY <1>1, <2>2 DEF RunSet
    <3> QED
      BY <1>1, <2>1, <2>2, <3>1 DEF RunSet
  <2>5. OverviewFirst'
    BY <1>1, <2>3 DEF OverviewFirst
  <2> QED
    BY <1>1, <1>2, <2>1, <2>2, <2>3, <2>4, <2>5, GoToolInv
<1>5. CASE Tool!DoorsLinked
  <2> DEFINE step == IF run.mode = "layout" THEN "end" ELSE "seeds"
  <2>1. run' = [run EXCEPT !.step = step] /\ pairs' = pairs
    BY <1>5 DEF Tool!DoorsLinked, Tool!Go
  <2>2. /\ run'.tiles = run.tiles /\ run'.todo = run.todo /\ run'.seeds = run.seeds
        /\ run'.exits = run.exits /\ run'.step = step /\ run'.mode = run.mode
        /\ run'.overview = run.overview /\ run' \in RunSet
    BY <1>1, <2>1 DEF RunSet
  <2>3. run.mode \in {"full", "layout"}
    BY <1>1, <1>5 DEF RunSet, Tool!DoorsLinked
  <2>4. OverviewFirst'
    BY <1>1, <2>2, <2>3 DEF OverviewFirst
  <2> QED
    BY <1>1, <1>2, <2>1, <2>2, <2>4, GoToolInv
<1> QED
  BY <1>3, <1>4, <1>5

\* A batch fills empty places of the grid only, and is written at once.
LEMMA SeedsToolInv ==
  ASSUME ToolInv, Tool!Seeds
  PROVE  ToolInv' /\ KeepsFile
<1> DEFINE slice == Tool!FirstCells(run.todo, Batch)
<1>1. /\ run # Tool!Idle /\ run \in RunSet /\ run.exits \subseteq pairs /\ run.step = "seeds"
      /\ run.tiles # {} /\ run.todo \subseteq run.tiles
  BY DEF ToolInv, ToolTypes, DoorsPaired, Tool!Seeds, Tool!At
<1>2. PICK got \in SUBSET slice :
        LET new == {c \in got : run.seeds[c] = Tool!Empty}
            r == [run EXCEPT !.todo = @ \ slice, !.filled = @ + Tool!Cardinality(new), !.calls = @ + 1,
                             !.seeds = [c \in Tool!Cells |-> IF c \in new THEN run.overview ELSE @[c]]]
        IN Tool!Go(r, "seeds") /\ file' = Tool!Written(r) /\ paid' = paid \cup new
  BY DEF Tool!Seeds, Tool!Answers
<1> DEFINE new == {c \in got : run.seeds[c] = Tool!Empty}
           seeds == [c \in Tool!Cells |-> IF c \in new THEN run.overview ELSE run.seeds[c]]
           r == [run EXCEPT !.todo = @ \ slice, !.filled = @ + Tool!Cardinality(new), !.calls = @ + 1,
                            !.seeds = [c \in Tool!Cells |-> IF c \in new THEN run.overview ELSE @[c]]]
<1>3. r = [run EXCEPT !.todo = run.todo \ slice, !.filled = run.filled + Tool!Cardinality(new),
                      !.calls = run.calls + 1, !.seeds = seeds]
  BY <1>1 DEF RunSet
<1>4. run' = [r EXCEPT !.step = "seeds"] /\ file' = Tool!Written(r) /\ paid' = paid \cup new
  BY <1>2 DEF Tool!Go
<1>5. new \subseteq run.tiles /\ new \subseteq Tool!Cells
  BY <1>1 DEF Tool!FirstCells, RunSet
<1>6. Tool!Cardinality(new) \in Nat
  <2>1. IsFiniteSet(new)
    BY <1>5, ToolConstants, FS_Subset
  <2>2. Cardinality(new) \in Nat
    BY <2>1, FS_CardinalityType
  <2> HIDE DEF new
  <2> QED
    BY <2>2 DEF Tool!Cardinality, Cardinality
<1>7. run.overview \in 0 .. MaxModel /\ run.overview # Tool!Empty /\ run.mode = "full"
  BY <1>1 DEF ToolInv, OverviewFirst, RunSet
<1>8. seeds \in [Tool!Cells -> -1 .. MaxModel]
  BY <1>1, <1>7, ToolConstants DEF RunSet
<1>9. /\ r \in RunSet /\ r.tiles = run.tiles /\ r.exits = run.exits /\ r.seeds = seeds
      /\ r.todo \subseteq run.todo /\ r.mode = run.mode /\ r.overview = run.overview
  <2> HIDE DEF new, seeds, r, slice
  <2>1. run.filled + Tool!Cardinality(new) \in Nat /\ run.calls + 1 \in Nat /\ run.todo \ slice \in SUBSET Tool!Cells
    BY <1>1, <1>6 DEF RunSet
  <2> QED
    BY <1>1, <1>3, <1>8, <2>1 DEF RunSet
<1>10. /\ run' \in RunSet /\ run'.tiles = run.tiles /\ run'.exits = run.exits /\ run'.seeds = seeds
       /\ run'.todo \subseteq run.todo /\ run'.mode = "full" /\ run'.overview = run.overview
  <2> HIDE DEF r, seeds
  <2> QED
    BY <1>4, <1>7, <1>9 DEF RunSet
<1>11. \A c \in run.tiles : c \in Tool!Cells /\ (IF c \in new THEN seeds[c] = run.overview ELSE seeds[c] = run.seeds[c])
  BY <1>1 DEF RunSet
<1>12. /\ file' \in FileSet /\ file' # Tool!NoFile /\ file'.tiles = run.tiles /\ file'.exits = run.exits
       /\ \A c \in run.tiles : file'.seeds[c] = seeds[c]
  <2> HIDE DEF r, seeds
  <2> QED
    BY <1>1, <1>4, <1>9, WrittenIsFile
<1>13. UNCHANGED <<pairs, brief, overviews>>
  BY DEF Tool!Seeds
<1>14. \A c \in new : run.seeds[c] = Tool!Empty
  OBVIOUS
<1> HIDE DEF new, seeds, r, slice
<1>15. ToolTypes'
  BY <1>1, <1>10, <1>12, <1>13 DEF ToolInv, ToolTypes
<1>16. Tool!HasFile => run.tiles = file.tiles
                       /\ \A c \in file.tiles : file.seeds[c] # Tool!Empty => run.seeds[c] = file.seeds[c] /\ c \notin new
  BY <1>1, <1>14 DEF ToolInv, MemoryHasFile
<1>17. PaidInGrid'
  <2>1. \A c \in paid : c \in run.tiles /\ run.seeds[c] # Tool!Empty /\ c \notin new
    BY <1>16 DEF ToolInv, PaidInGrid
  <2> QED
    BY <1>4, <1>5, <1>7, <1>11, <1>12, <2>1 DEF PaidInGrid, Tool!HasFile
<1>18. DoorsPaired'
  BY <1>1, <1>10, <1>12, <1>13 DEF DoorsPaired
<1>19. MemoryHasFile'
  BY <1>10, <1>12 DEF MemoryHasFile
<1>20. OverviewFirst'
  BY <1>7, <1>10 DEF OverviewFirst
<1>21. KeepsFile
  BY <1>11, <1>12, <1>16 DEF KeepsFile
<1> QED
  BY <1>15, <1>17, <1>18, <1>19, <1>20, <1>21 DEF ToolInv

LEMMA EndToolInv == ASSUME ToolInv, Tool!End PROVE ToolInv' /\ KeepsFile
<1>1. /\ run # Tool!Idle /\ run \in RunSet /\ run.exits \subseteq pairs /\ run.tiles # {}
      /\ run.step = "seeds" => run.mode = "full"
      /\ run.mode = "full" => run.step = "overview" \/ run.overview # Tool!Empty
      /\ run.step \in {"end", "seeds"} /\ pairs \subseteq Good /\ overviews \in 0 .. MaxModel
  BY DEF ToolInv, ToolTypes, DoorsPaired, OverviewFirst, Tool!End, Tool!At
<1>2. run' = [run EXCEPT !.step = "brief"] /\ UNCHANGED <<pairs, brief, overviews, paid>>
  BY DEF Tool!End, Tool!Go
<1>3. /\ run' \in RunSet /\ run'.tiles = run.tiles /\ run'.exits = run.exits /\ run'.seeds = run.seeds
      /\ run'.todo = run.todo /\ run'.mode = run.mode /\ run'.overview = run.overview /\ run'.step = "brief"
  BY <1>1, <1>2 DEF RunSet
<1>4. OverviewFirst'
  BY <1>1, <1>3 DEF OverviewFirst
<1>5. CASE file' = Tool!Written(run)
  <2>1. /\ file' \in FileSet /\ file' # Tool!NoFile /\ file'.tiles = run.tiles /\ file'.exits = run.exits
        /\ \A c \in run.tiles : file'.seeds[c] = run.seeds[c]
    BY <1>1, <1>5, WrittenIsFile
  <2>2. ToolTypes'
    BY <1>1, <1>2, <1>3, <2>1 DEF ToolInv, ToolTypes
  <2>3. Tool!HasFile => run.tiles = file.tiles
                        /\ \A c \in file.tiles : file.seeds[c] # Tool!Empty => run.seeds[c] = file.seeds[c]
    BY <1>1 DEF ToolInv, MemoryHasFile
  <2>4. PaidInGrid'
    BY <1>2, <2>1, <2>3 DEF ToolInv, PaidInGrid, Tool!HasFile
  <2>5. DoorsPaired' /\ MemoryHasFile'
    BY <1>1, <1>2, <1>3, <2>1 DEF DoorsPaired, MemoryHasFile
  <2>6. KeepsFile
    BY <2>1, <2>3 DEF KeepsFile
  <2> QED
    BY <2>2, <2>4, <2>5, <2>6, <1>4 DEF ToolInv
<1>6. CASE file' = file
  <2>1. ToolInv'
    BY <1>1, <1>2, <1>3, <1>4, <1>6, GoToolInv
  <2> QED
    BY <1>6, <2>1 DEF KeepsFile
<1> QED
  BY <1>5, <1>6 DEF Tool!End

LEMMA BriefToolInv == ASSUME ToolInv, Tool!Brief PROVE ToolInv'
<1>1. run \in RunSet /\ brief \in [overview : 0 .. MaxModel, doors : Seq(Tool!Door)] /\ pairs \subseteq Good
  BY DEF ToolInv, ToolTypes, Tool!Brief, Tool!At
<1>2. brief' \in [overview : 0 .. MaxModel, doors : Seq(Tool!Door)]
  BY <1>1 DEF Tool!Brief, RunSet
<1>3. run' = Tool!Idle /\ UNCHANGED <<file, pairs, overviews, paid>>
  BY DEF Tool!Brief, Tool!Stop
<1> QED
  BY <1>1, <1>2, <1>3, StopToolInv

\* A run that dies, or that was to write nothing, leaves what is on the disk.
LEMMA DieToolInv == ASSUME ToolInv, Tool!Die \/ Tool!DryRun PROVE ToolInv'
<1>1. run' = Tool!Idle /\ UNCHANGED <<file, pairs, brief, overviews, paid>>
  BY DEF Tool!Die, Tool!DryRun, Tool!Stop
<1>2. brief \in [overview : 0 .. MaxModel, doors : Seq(Tool!Door)] /\ pairs \subseteq Good
  BY DEF ToolInv, ToolTypes
<1> QED
  BY <1>1, <1>2, StopToolInv

\* The person writes, narrows and clears between the runs.
LEMMA PersonToolInv ==
  ASSUME ToolInv, Tool!EditSeed \/ Tool!Narrow \/ Tool!ClearExits \/ Tool!AddDoor PROVE ToolInv'
<1>1. run = Tool!Idle /\ UNCHANGED <<run, pairs, overviews>>
  BY DEF Tool!EditSeed, Tool!Narrow, Tool!ClearExits, Tool!AddDoor, Tool!Edit
<1>2. /\ pairs \subseteq Good /\ overviews \in 0 .. MaxModel
      /\ brief \in [overview : 0 .. MaxModel, doors : Seq(Tool!Door)]
      /\ Tool!HasFile => file \in FileSet /\ file.tiles # {} /\ file.exits \subseteq pairs
  BY DEF ToolInv, ToolTypes, DoorsPaired
<1>3. MemoryHasFile' /\ OverviewFirst'
  BY <1>1 DEF MemoryHasFile, OverviewFirst
<1>4. CASE Tool!EditSeed
  <2>1. PICK c \in file.tiles, text \in {Tool!Empty, Tool!Hand} :
          file' = [file EXCEPT !.seeds[c] = text] /\ paid' = paid \ {c}
    BY <1>4 DEF Tool!EditSeed
  <2>2. Tool!HasFile /\ brief' = brief /\ text \in -1 .. MaxModel
    BY <1>4, ToolConstants DEF Tool!EditSeed, Tool!Empty, Tool!Hand
  <2>3. /\ file' \in FileSet /\ file'.tiles = file.tiles /\ file'.exits = file.exits
        /\ \A d \in file.tiles : d # c => file'.seeds[d] = file.seeds[d]
    BY <1>2, <2>1, <2>2 DEF FileSet
  <2>4. file' # Tool!NoFile
    BY <1>2, <2>2, <2>3 DEF Tool!NoFile
  <2>5. PaidInGrid'
    BY <2>1, <2>3, <2>4 DEF ToolInv, PaidInGrid, Tool!HasFile
  <2> QED
    BY <1>1, <1>2, <1>3, <2>2, <2>3, <2>5 DEF ToolInv, ToolTypes, DoorsPaired
<1>5. CASE Tool!Narrow
  <2>1. PICK cells \in SUBSET file.tiles :
          cells # {} /\ file' = [file EXCEPT !.tiles = cells] /\ paid' = paid \cap cells
    BY <1>5 DEF Tool!Narrow
  <2>2. Tool!HasFile /\ brief' = brief
    BY <1>5 DEF Tool!Narrow
  <2>3. file' \in FileSet /\ file'.tiles = cells /\ file'.exits = file.exits /\ file'.seeds = file.seeds
    BY <1>2, <2>1, <2>2 DEF FileSet
  <2>4. file' # Tool!NoFile
    BY <2>1, <2>3 DEF Tool!NoFile
  <2>5. PaidInGrid'
    BY <2>1, <2>3, <2>4 DEF ToolInv, PaidInGrid, Tool!HasFile
  <2> QED
    BY <1>1, <1>2, <1>3, <2>1, <2>2, <2>3, <2>5 DEF ToolInv, ToolTypes, DoorsPaired
<1>6. CASE Tool!ClearExits
  <2>1. Tool!HasFile /\ brief' = brief /\ paid' = paid /\ file' = [file EXCEPT !.exits = {}]
    BY <1>6 DEF Tool!ClearExits
  <2>2. file' \in FileSet /\ file'.tiles = file.tiles /\ file'.exits = {} /\ file'.seeds = file.seeds
    BY <1>2, <2>1 DEF FileSet
  <2>3. file' # Tool!NoFile
    BY <1>2, <2>1, <2>2 DEF Tool!NoFile
  <2>4. PaidInGrid'
    BY <2>1, <2>2, <2>3 DEF ToolInv, PaidInGrid, Tool!HasFile
  <2> QED
    BY <1>1, <1>2, <1>3, <2>1, <2>2, <2>4 DEF ToolInv, ToolTypes, DoorsPaired
<1>7. CASE Tool!AddDoor
  <2>1. PICK d \in Tool!Door : brief' = [brief EXCEPT !.doors = Append(@, d)]
    BY <1>7 DEF Tool!AddDoor
  <2>2. Append(brief.doors, d) \in Seq(Tool!Door)
    BY <1>2
  <2>3. brief' \in [overview : 0 .. MaxModel, doors : Seq(Tool!Door)]
    BY <1>2, <2>1, <2>2
  <2>4. UNCHANGED <<file, paid>>
    BY <1>7 DEF Tool!AddDoor
  <2> QED
    BY <1>1, <1>2, <1>3, <2>3, <2>4 DEF ToolInv, ToolTypes, DoorsPaired, PaidInGrid, Tool!HasFile
<1> QED
  BY <1>4, <1>5, <1>6, <1>7

\* A step of the tool keeps its invariant and the file; one of the person
\* keeps the invariant.
LEMMA ToolStep ==
  ASSUME ToolInv, Tool!Next PROVE ToolInv' /\ (Tool!Tool => KeepsFile)
<1>1. ASSUME NEW how \in {"full", "layout", "dry"}, Tool!Open(how) PROVE ToolInv' /\ KeepsFile
  BY <1>1, OpenToolInv DEF Tool!Open, KeepsFile
<1>2. CASE Tool!Overview \/ Tool!Link \/ Tool!DoorsLinked \/ Tool!Brief \/ Tool!Die \/ Tool!DryRun
  <2>1. ToolInv'
    BY <1>2, OverviewToolInv, LinkToolInv, BriefToolInv, DieToolInv
  <2>2. file' = file
    BY <1>2 DEF Tool!Overview, Tool!Link, Tool!DoorsLinked, Tool!Brief, Tool!Die, Tool!DryRun
  <2> QED
    BY <2>1, <2>2 DEF KeepsFile
<1>3. CASE Tool!Seeds \/ Tool!End
  BY <1>3, SeedsToolInv, EndToolInv
<1>4. Tool!Tool => ToolInv' /\ KeepsFile
  BY <1>1, <1>2, <1>3 DEF Tool!Tool
<1> QED
  BY <1>4, PersonToolInv DEF Tool!Next
-----------------------------------------------------------------------------
(* The boot and who walks behind it *)

BootInv ==
  /\ world \in Authored
  /\ mode = "booting" => pos = world.spawn /\ on \subseteq DOMAIN world.flags /\ rank = 0
  /\ mode = "up" => W!Accepted(world) /\ W!TypeOK

\* A cell on which one can stand is a room.
LEMMA FloorIsRoom ==
  ASSUME NEW w, NEW p, p = <<p[1], p[2]>>, W!Walkable(w, p) PROVE p \in W!AllRooms(w)
<1>1. p[1] \in W!Region(w) /\ p[2] \in DOMAIN w.tiles[p[1]]
  BY DEF W!Walkable, W!TileAt
<1>2. p \in {p[1]} \X DOMAIN w.tiles[p[1]]
  BY <1>1
<1> QED
  BY <1>1, <1>2 DEF W!AllRooms, W!Cells

\* A room of an accepted world has its seed.
LEMMA RoomHasSeed ==
  ASSUME NEW w, W!Accepted(w), NEW p \in W!AllRooms(w) PROVE p[1] \in W!Region(w) /\ p[2] \in w.seeds[p[1]]
<1>1. PICK r \in W!Region(w) : p \in W!Cells(w, r)
  BY DEF W!AllRooms
<1>2. p[1] = r
  BY <1>1 DEF W!Cells
<1>3. p[2] \in {q[2] : q \in W!AllRooms(w) \cap W!Cells(w, r)}
  BY <1>1
<1>4. w.seeds[r] = {q[2] : q \in W!AllRooms(w) \cap W!Cells(w, r)}
  BY DEF W!Accepted, W!RegionOk
<1> QED
  BY <1>2, <1>3, <1>4

LEMMA WorldConstants == TopRank \in Nat /\ \A w \in Authored : W!WellFormed(w)
BY WorldAssumption DEF W!WorldsAssumption

\* Who moved in an accepted world stands in a room of it.
LEMMA StandsInRoom ==
  ASSUME BootInv, mode = "up", UNCHANGED world, NEW p, pos' = p, p = <<p[1], p[2]>>, W!Walkable(world, p)
  PROVE  pos' \in W!AllRooms(world) /\ pos'[2] \in world.seeds[pos'[1]]
BY FloorIsRoom, RoomHasSeed DEF BootInv

LEMMA BootStep == ASSUME BootInv, [W!Next]_worldVars PROVE BootInv'
<1>1. world \in Authored /\ W!WellFormed(world)
  BY WorldConstants DEF BootInv
<1>2. CASE W!Boot
  <2>1. UNCHANGED <<world, pos, on, rank>> /\ mode = "booting"
    BY <1>2 DEF W!Boot
  <2>2. mode' \in {"up", "refused"} /\ (mode' = "up" => W!Accepted(world))
    BY <1>2 DEF W!Boot
  <2>3. ASSUME W!Accepted(world) PROVE pos \in W!AllRooms(world) /\ pos[2] \in world.seeds[pos[1]]
    <3>1. pos = world.spawn
      BY <2>1 DEF BootInv
    <3>2. pos = <<pos[1], pos[2]>>
      BY <1>1, <3>1 DEF W!WellFormed
    <3>3. W!Walkable(world, pos)
      BY <2>3, <3>1 DEF W!Accepted
    <3> QED
      BY <2>3, <3>2, <3>3, FloorIsRoom, RoomHasSeed
  <2>4. on \subseteq DOMAIN world.flags /\ rank \in 0 .. TopRank
    BY <2>1, WorldConstants DEF BootInv
  <2> QED
    BY <1>1, <2>1, <2>2, <2>3, <2>4 DEF BootInv, W!TypeOK
<1>3. ASSUME NEW dir \in W!Dir, W!Walk(dir) PROVE BootInv'
  <2>1. mode = "up" /\ UNCHANGED <<world, mode, on, rank>>
    BY <1>3 DEF W!Walk
  <2>2. pos' \in W!AllRooms(world) /\ pos'[2] \in world.seeds[pos'[1]]
    <3>1. CASE W!Through(dir)
      <4>1. PICK e \in W!ExitsAt(world, pos, dir) : W!Walkable(world, e.to) /\ pos' = e.to
        BY <3>1 DEF W!Through
      <4>2. e.to = <<e.to[1], e.to[2]>>
        BY <1>1, <4>1 DEF W!ExitsAt, W!WellFormed
      <4> QED
        BY <2>1, <4>1, <4>2, StandsInRoom
    <3>2. CASE W!StepOn(dir)
      <4> DEFINE p == W!Step(pos, dir)
      <4>1. pos' = p /\ W!Walkable(world, p)
        BY <3>2 DEF W!StepOn
      <4>2. p = <<p[1], p[2]>>
        BY DEF W!Step
      <4> HIDE DEF p
      <4> QED
        BY <2>1, <4>1, <4>2, StandsInRoom
    <3> QED
      BY <1>3, <3>1, <3>2 DEF W!Walk
  <2> QED
    BY <1>1, <2>1, <2>2 DEF BootInv, W!TypeOK
<1>4. CASE W!Slay
  <2> DEFINE f == Slain[world.enemies[pos[1]][pos[2]]]
  <2>1. /\ mode = "up" /\ pos[2] \in DOMAIN world.enemies[pos[1]]
        /\ on' = on \cup ({f} \ {W!NoFlag}) /\ UNCHANGED <<world, mode, pos, rank>>
    BY <1>4 DEF W!Slay
  <2>2. W!Accepted(world) /\ W!TypeOK
    BY <2>1 DEF BootInv
  <2>3. pos[1] \in W!Region(world)
    BY <2>1, <2>2, RoomHasSeed DEF W!TypeOK
  <2>4. W!RegionOk(world, pos[1])
    BY <2>2, <2>3 DEF W!Accepted
  <2>5. world.enemies[pos[1]][pos[2]] \in DOMAIN Slain
    BY <2>1, <2>4 DEF W!RegionOk
  <2>6. f = W!NoFlag \/ f \in DOMAIN world.flags
    BY <2>2, <2>5 DEF W!Accepted, W!Declared
  <2> HIDE DEF f
  <2> QED
    BY <1>1, <2>1, <2>2, <2>6 DEF BootInv, W!TypeOK
<1>5. CASE W!Rise
  <2>1. mode = "up" /\ rank < TopRank /\ rank' = rank + 1 /\ UNCHANGED <<world, mode, pos, on>>
    BY <1>5 DEF W!Rise
  <2>2. rank \in 0 .. TopRank
    BY <2>1 DEF BootInv, W!TypeOK
  <2>3. rank' \in 0 .. TopRank
    BY <2>1, <2>2, WorldConstants
  <2> QED
    BY <1>1, <2>1, <2>3 DEF BootInv, W!TypeOK
<1>6. CASE UNCHANGED worldVars
  BY <1>6 DEF worldVars, BootInv, W!TypeOK
<1> QED
  BY <1>2, <1>3, <1>4, <1>5, <1>6 DEF W!Next

\* A door that goes both ways has its counterpart, no other door is on that
\* side of the cell, and whoever came in can go back by it if it asks no more.
LEMMA TurnLeadsBack ==
  ASSUME BootInv, [W!Next]_worldVars, door' # W!NoDoor, door' # door, ~ door'.oneWay
  PROVE  \E b \in world.exits :
           /\ W!ExitsAt(world, pos', W!Opposite[door'.dir]) = {b}
           /\ b.to = pos /\ W!Walkable(world, b.to)
           /\ b.requires \in {W!NoFlag, door'.requires} /\ b.minRank <= door'.minRank => W!Unlocked(b)
<1>1. PICK dir \in W!Dir : W!Walk(dir)
  BY DEF W!Next, W!Boot, W!Slay, W!Rise, worldVars
<1>2. mode = "up" /\ W!Through(dir)
  BY <1>1 DEF W!Walk, W!StepOn
<1>3. door' \in world.exits /\ door'.at = pos /\ pos' = door'.to /\ W!Unlocked(door')
  BY <1>2 DEF W!Through, W!ExitsAt
<1>4. W!DoorOk(world, door') /\ W!WellFormed(world)
  BY <1>2, <1>3, WorldConstants DEF BootInv, W!Accepted
<1>5. PICK b \in world.exits : W!Back(world, door', b)
  BY <1>4 DEF W!DoorOk
<1>6. b.to = pos /\ W!Walkable(world, b.to)
  BY <1>3, <1>4, <1>5 DEF W!DoorOk, W!Back
<1>7. W!ExitsAt(world, pos', W!Opposite[door'.dir]) = {b}
  <2>1. b \in W!ExitsAt(world, pos', W!Opposite[door'.dir])
    BY <1>3, <1>5 DEF W!ExitsAt, W!Back
  <2>2. ASSUME NEW e \in W!ExitsAt(world, pos', W!Opposite[door'.dir]) PROVE e = b
    <3>1. e \in world.exits /\ e.at = b.at /\ e.dir = b.dir
      BY <1>3, <1>5, <2>2 DEF W!ExitsAt, W!Back
    <3> QED
      BY <1>4, <1>5, <3>1 DEF W!WellFormed
  <2> QED
    BY <2>1, <2>2
<1>8. b.requires \in {W!NoFlag, door'.requires} /\ b.minRank <= door'.minRank => W!Unlocked(b)
  <2>1. b.minRank \in Nat /\ door'.minRank \in Nat
    BY <1>3, <1>4, <1>5 DEF W!WellFormed
  <2>2. rank \in Nat
    BY <1>2, WorldConstants DEF BootInv, W!TypeOK
  <2> QED
    BY <1>3, <2>1, <2>2 DEF W!Unlocked
<1> QED
  BY <1>5, <1>6, <1>7, <1>8
-----------------------------------------------------------------------------
(* Theorems of the whole *)

LEMMA ContentInvariance == ContentSpec => [](ToolInv /\ BootInv)
<1>1. ContentInit => ToolInv /\ BootInv
  <2> SUFFICES ASSUME ContentInit PROVE ToolInv /\ BootInv
    OBVIOUS
  <2>1. ToolInv
    BY InitToolInv DEF ContentInit
  <2>2. BootInv
    BY DEF ContentInit, W!Init, BootInv
  <2> QED
    BY <2>1, <2>2
<1>2. ToolInv /\ BootInv /\ [ContentNext]_<<vars, worldVars, fileVars, part>> => (ToolInv /\ BootInv)'
  <2> SUFFICES ASSUME ToolInv, BootInv, [ContentNext]_<<vars, worldVars, fileVars, part>>
               PROVE  (ToolInv /\ BootInv)'
    OBVIOUS
  <2>1. Tool!Next \/ UNCHANGED fileVars
    BY DEF ContentNext
  <2>2. [W!Next]_worldVars
    BY DEF ContentNext
  <2>3. UNCHANGED fileVars => ToolInv'
    BY DEF fileVars, ToolInv, ToolTypes, PaidInGrid, DoorsPaired, MemoryHasFile, OverviewFirst, Tool!HasFile
  <2>4. ToolInv'
    BY <2>1, <2>3, ToolStep
  <2>5. BootInv'
    BY <2>2, BootStep
  <2> QED
    BY <2>4, <2>5
<1> QED
  BY <1>1, <1>2, PTL DEF ContentSpec

\* A part of U that holds what a search starts from and whatever it leads to
\* holds all that the search finds.
LEMMA SearchStays ==
  ASSUME NEW w, NEW T \in SUBSET W!Region(w), w.spawn[1] \in T,
         \A e \in w.exits : e.at[1] \in T /\ W!MayOpen(w, e) /\ e.to[1] \in W!Region(w) => e.to[1] \in T
  PROVE  W!RegionsReached(w) \subseteq T
BY DEF W!RegionsReached, W!Closure

\* Of a region that is one piece a part closed under walking has all rooms or
\* none.
LEMMA PieceIsWhole ==
  ASSUME NEW w, NEW r \in W!Region(w), W!InOnePiece(w, r), NEW T \in SUBSET W!AllRooms(w),
         \A q \in T : W!Neighbours(w, q) \cap W!AllRooms(w) \subseteq T,
         NEW p \in T, p[1] = r
  PROVE  W!AllRooms(w) \cap W!Cells(w, r) \subseteq T
<1> DEFINE U == W!AllRooms(w) \cap W!Cells(w, r)
           P == T \cap W!Cells(w, r)
<1>1. p \in U
  BY DEF W!AllRooms, W!Cells
<1>2. U = W!Closure({p}, LAMBDA q : W!Neighbours(w, q), W!Cells(w, r))
  BY <1>1 DEF W!InOnePiece
<1>3. P \in SUBSET W!Cells(w, r) /\ p \in P
  BY <1>1
<1>4. \A q \in P : W!Neighbours(w, q) \cap W!Cells(w, r) \subseteq P
  BY DEF W!Neighbours, W!AllRooms
<1>5. W!Closure({p}, LAMBDA q : W!Neighbours(w, q), W!Cells(w, r)) \subseteq P
  BY <1>3, <1>4 DEF W!Closure
<1> QED
  BY <1>2, <1>5

\* The search of the boot, regions first and rooms of a region after, misses
\* no room of a world whose regions are one piece each.
LEMMA EveryRoomIsWalkedTo ==
  ASSUME NEW w \in Authored, W!Accepted(w), \A r \in W!Region(w) : W!InOnePiece(w, r)
  PROVE  W!AllRooms(w) = W!WalkedTo(w, {w.spawn})
<1> DEFINE U == W!AllRooms(w)
           Next1(p) == W!Neighbours(w, p) \cup {e.to : e \in {x \in w.exits : x.at = p /\ W!MayOpen(w, x)}}
<1>1. W!WalkedTo(w, {w.spawn}) =
        {x \in U : \A T \in SUBSET U :
           {w.spawn} \cap U \subseteq T /\ (\A s \in T : Next1(s) \cap U \subseteq T) => x \in T}
  BY DEF W!WalkedTo, W!Closure
<1>2. SUFFICES ASSUME NEW T \in SUBSET U, {w.spawn} \cap U \subseteq T, \A s \in T : Next1(s) \cap U \subseteq T
               PROVE  U \subseteq T
  BY <1>1
<1>3. W!WellFormed(w)
  BY WorldConstants
<1>4. \A q \in T : W!Neighbours(w, q) \cap U \subseteq T
  BY <1>2
<1> DEFINE Whole == {r \in W!Region(w) : U \cap W!Cells(w, r) \subseteq T}
<1>5. ASSUME NEW p \in T PROVE p[1] \in Whole
  <2>1. p[1] \in W!Region(w)
    BY DEF W!AllRooms, W!Cells
  <2> QED
    BY <2>1, <1>4, PieceIsWhole
<1>6. w.spawn[1] \in Whole
  <2>1. w.spawn \in U
    BY <1>3, FloorIsRoom DEF W!WellFormed, W!Accepted
  <2> QED
    BY <2>1, <1>2, <1>5
<1>7. ASSUME NEW e \in w.exits, e.at[1] \in Whole, W!MayOpen(w, e) PROVE e.to[1] \in Whole
  <2>1. W!Walkable(w, e.at) /\ W!Walkable(w, e.to)
    BY DEF W!Accepted, W!DoorOk
  <2>2. e.at \in U /\ e.to \in U
    BY <1>3, <2>1, FloorIsRoom DEF W!WellFormed
  <2>3. e.at \in W!Cells(w, e.at[1])
    BY <2>2 DEF W!AllRooms, W!Cells
  <2>4. e.at \in T
    BY <1>7, <2>2, <2>3
  <2>5. e.to \in Next1(e.at)
    BY <1>7
  <2>6. e.to \in T
    BY <1>2, <2>2, <2>4, <2>5
  <2> QED
    BY <1>5, <2>6
<1>8. W!RegionsReached(w) \subseteq Whole
  <2> HIDE DEF Whole
  <2>1. Whole \in SUBSET W!Region(w)
    BY DEF Whole
  <2> QED
    BY <1>6, <1>7, <2>1, SearchStays
<1>9. W!Region(w) \subseteq Whole
  BY <1>8 DEF W!Accepted, W!Reachable
<1>10. SUFFICES ASSUME NEW p \in U PROVE p \in T
  OBVIOUS
<1>11. PICK r \in W!Region(w) : p \in W!Cells(w, r)
  BY DEF W!AllRooms
<1> QED
  BY <1>9, <1>11

\* Giver and enemy of a mission stand in rooms.
LEMMA MissionHasBoth ==
  ASSUME NEW w, W!Accepted(w), NEW m \in w.missions
  PROVE  /\ \E n \in w.npcs : n.id = m.npc /\ n.at \in W!AllRooms(w)
         /\ \E p \in W!AllRooms(w) : p[2] \in DOMAIN w.enemies[p[1]] /\ w.enemies[p[1]][p[2]] = m.enemy
<1>1. \E n \in w.npcs : n.id = m.npc /\ n.at \in W!AllRooms(w)
  BY DEF W!Accepted, W!MissionOk, W!NpcOk
<1>2. PICK r \in W!Region(w) : m.enemy \in {w.enemies[r][c] : c \in DOMAIN w.enemies[r]}
  BY DEF W!Accepted, W!MissionOk, W!Placed
<1>3. PICK c \in DOMAIN w.enemies[r] : w.enemies[r][c] = m.enemy
  BY <1>2
<1>4. c \in {q[2] : q \in W!AllRooms(w) \cap W!Cells(w, r)}
  BY <1>3 DEF W!Accepted, W!RegionOk
<1>5. PICK q \in W!AllRooms(w) \cap W!Cells(w, r) : q[2] = c
  BY <1>4
<1>6. q[1] = r
  BY <1>5 DEF W!Cells
<1> QED
  BY <1>1, <1>3, <1>5, <1>6

\* What the boot lets through can be played, whatever worlds the author wrote,
\* however many regions, doors and missions they have: a player always stands
\* in a room with a seed, every room can be walked to if no region falls into
\* pieces, and giver and enemy of every mission can then be reached
\* (seed.ts:166-391).
THEOREM AcceptedWorldsAlwaysWork == ContentSpec => []AcceptedWorldsWork
<1>1. BootInv => AcceptedWorldsWork
  <2> SUFFICES ASSUME BootInv PROVE AcceptedWorldsWork
    OBVIOUS
  <2>1. W!TypeOK
    BY DEF BootInv, W!TypeOK
  <2>2. ASSUME mode = "up", \A r \in W!Region(world) : W!InOnePiece(world, r)
        PROVE  W!AllRooms(world) = W!WalkedTo(world, {world.spawn})
    BY <2>2, EveryRoomIsWalkedTo DEF BootInv
  <2>3. W!PiecesMakeOneWorld
    BY <2>2 DEF W!PiecesMakeOneWorld
  <2>4. W!MissionsCanBeDone
    <3> SUFFICES ASSUME mode = "up", \A r \in W!Region(world) : W!InOnePiece(world, r), NEW m \in world.missions
                 PROVE  /\ \E n \in world.npcs : n.id = m.npc /\ n.at \in W!WalkedTo(world, {world.spawn})
                        /\ \E p \in W!WalkedTo(world, {world.spawn}) :
                             p[2] \in DOMAIN world.enemies[p[1]] /\ world.enemies[p[1]][p[2]] = m.enemy
      BY DEF W!MissionsCanBeDone
    <3> QED
      BY <2>2, MissionHasBoth DEF BootInv
  <2> QED
    BY <2>1, <2>3, <2>4 DEF AcceptedWorldsWork
<1> QED
  BY <1>1, ContentInvariance, PTL

\* Behind a door that is not one-way there is a door back to where the player
\* came from, and only that one on its side, open if it asks no more than the
\* first: in every world the boot lets through that has one door at most on a
\* side of a cell (seed.ts:165-180, move.ts).
THEOREM DoorsAlwaysReturn == ContentSpec => DoorsReturn
<1> DEFINE Returns ==
      door' # W!NoDoor /\ door' # door /\ ~door'.oneWay =>
        \E b \in world.exits :
          /\ W!ExitsAt(world, pos', W!Opposite[door'.dir]) = {b}
          /\ b.to = pos /\ W!Walkable(world, b.to)
          /\ b.requires \in {W!NoFlag, door'.requires} /\ b.minRank <= door'.minRank => W!Unlocked(b)
<1>1. BootInv /\ [ContentNext]_<<vars, worldVars, fileVars, part>> => [Returns]_(W!vars)
  <2> SUFFICES ASSUME BootInv, [ContentNext]_<<vars, worldVars, fileVars, part>>,
                      door' # W!NoDoor, door' # door, ~door'.oneWay
               PROVE  Returns
    BY DEF W!vars
  <2>1. [W!Next]_worldVars
    BY DEF ContentNext
  <2> QED
    BY <2>1, TurnLeadsBack
<1> QED
  BY <1>1, ContentInvariance, PTL DEF ContentSpec, DoorsReturn, W!DoorsReturn

\* However often the authoring tool is run and wherever it dies, no seed and
\* no grid of the file is written over, for every row of cells, every brief
\* and every answer of the model (authorRegion.ts:14).
THEOREM NothingIsEverOverwritten == ContentSpec => NothingOverwritten
<1>1. ToolInv /\ [ContentNext]_<<vars, worldVars, fileVars, part>> =>
        [Tool!Tool /\ Tool!HasFile =>
           /\ file'.tiles = file.tiles
           /\ \A c \in file.tiles : file.seeds[c] # Tool!Empty => file'.seeds[c] = file.seeds[c]]_Tool!vars
  <2> SUFFICES ASSUME ToolInv, [ContentNext]_<<vars, worldVars, fileVars, part>>, Tool!Tool, Tool!HasFile,
                      ~ UNCHANGED Tool!vars
               PROVE  KeepsFile
    BY DEF KeepsFile
  <2>1. Tool!Next
    BY DEF Tool!Next
  <2> QED
    BY <2>1, ToolStep
<1> QED
  BY <1>1, ContentInvariance, PTL DEF ContentSpec, NothingOverwritten, Tool!NothingOverwritten

\* What the model was paid for is in the file and every exit of the file has
\* its other side, wherever the tool dies (authorRegion.ts:19, 187).
THEOREM FileIsAlwaysResumable == ContentSpec => []FileIsResumable
<1>1. ToolInv => FileIsResumable
  <2> SUFFICES ASSUME ToolInv PROVE FileIsResumable
    OBVIOUS
  <2>1. Tool!ToSet(brief.doors) \subseteq Tool!Door
    BY DEF ToolInv, ToolTypes, Tool!ToSet
  <2>2. Tool!TypeOK
    BY <2>1 DEF ToolInv, ToolTypes, Tool!TypeOK, FileSet, RunSet
  <2>3. Tool!PaidSeedsKept /\ Tool!HalfDoorHasItsPair
    BY DEF ToolInv, PaidInGrid, DoorsPaired, Tool!PaidSeedsKept, Tool!HalfDoorHasItsPair
  <2> QED
    BY <2>2, <2>3 DEF FileIsResumable
<1> QED
  BY <1>1, ContentInvariance, PTL
=============================================================================
