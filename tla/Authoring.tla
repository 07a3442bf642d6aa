------------------------------ MODULE Authoring ------------------------------
(* The authoring tool (tools/authorRegion.ts, narration/author.ts): a person's *)
(* brief becomes a region file, its seeds written by a model, batch by batch.  *)
(* A run may die at any step, is repeated, and between the runs the person     *)
(* edits what it wrote.  It promises to fill what is empty and nothing else.   *)
EXTENDS Integers, FiniteSets, Sequences

CONSTANTS
  Width,      \* cells 1 .. Width of a row; a region's tiles are some of them
  Drawn,      \* the cells the layout seed of the brief draws
  Good, Bad,  \* doors a brief may name: right ones, and ones the checks refuse
  Batch,
  MaxModel, MaxEdits,   \* bounds: calls for an overview, edits of the person
  Beside                \* whether the person edits while the tool runs

Cells == 1 .. Width
Door == Good \cup Bad
AuthoringAssumption ==
  /\ Width \in Nat /\ Drawn \in SUBSET Cells /\ Batch \in Nat \ {0}
  /\ {MaxModel, MaxEdits} \subseteq Nat /\ Beside \in BOOLEAN /\ Good \cap Bad = {}

NoFile == [tiles |-> {}]
Idle == [step |-> "idle"]
Empty == 0
Hand == -1        \* a seed a person wrote; one of overview n is the number n

VARIABLES
  file,       \* regions/<id>.json : NoFile, or its tiles, seeds and exits
  pairs,      \* the exits of the regions next to it that lead here
  brief,      \* briefs/<id>.json : its overview (Empty: none) and its doors
  run,        \* Idle, or the memory of the run under way
  last,       \* how the last run ended: "none" (or edited since), "done", "dry", "refused", "died"
  overviews,  \* the overviews the model has written so far
  paid,       \* history: cells of the file the model was paid for
  edits
vars == <<file, pairs, brief, run, last, overviews, paid, edits>>

HasFile == file # NoFile
ToSet(s) == {s[i] : i \in DOMAIN s}
NoSeeds == [c \in Cells |-> Empty]
\* connectedComponents = 1: no gap in the row.
OneComponent(tiles) == tiles # {} /\ \A a, b \in tiles : a .. b \subseteq tiles
FirstCells(cells, n) == {c \in cells : Cardinality({d \in cells : d < c}) < n}

\* Mutant: the grid of the brief is written, whatever the file had.
WrittenDrawn(r) == [tiles |-> Drawn, exits |-> r.exits,
                    seeds |-> [c \in Cells |-> IF c \in r.tiles THEN r.seeds[c] ELSE Empty]]
Written(r) == [tiles |-> r.tiles, exits |-> r.exits,
               seeds |-> [c \in Cells |-> IF c \in r.tiles THEN r.seeds[c] ELSE Empty]]
-----------------------------------------------------------------------------
(* A run, from one point where it may die to the next *)

At(step) == run # Idle /\ run.step = step
Go(r, step) == run' = [r EXCEPT !.step = step] /\ UNCHANGED last
Stop(how) == run' = Idle /\ last' = how

\* The brief and the file are read once; a grid in pieces is refused.  Seeds
\* outside the grid are left out of the run's memory.
Open(mode) ==
  /\ run = Idle
  /\ LET tiles == IF file = NoFile THEN Drawn ELSE file.tiles
         kept == IF file = NoFile THEN NoSeeds
                 ELSE [c \in Cells |-> IF c \in tiles THEN file.seeds[c] ELSE Empty]
         r == [step |-> "link", mode |-> mode, tiles |-> tiles, fresh |-> file = NoFile,
               seeds |-> kept, exits |-> IF file = NoFile THEN {} ELSE file.exits,
               todo |-> {c \in tiles : kept[c] = Empty}, overview |-> brief.overview, told |-> FALSE,
               doors |-> brief.doors, left |-> brief.doors, filled |-> 0, calls |-> 0]
     IN IF OneComponent(tiles)
        THEN Go(r, IF r.overview = Empty /\ mode = "full" THEN "overview" ELSE "link")
        ELSE Stop("refused")
  /\ UNCHANGED <<file, pairs, brief, overviews, paid, edits>>

\* The model writes the overview; it reaches the brief when the run is over.
Overview ==
  /\ At("overview") /\ overviews < MaxModel
  /\ overviews' = overviews + 1
  /\ Go([run EXCEPT !.overview = overviews + 1, !.told = TRUE, !.calls = 1], "link")
  /\ UNCHANGED <<file, pairs, brief, paid, edits>>

\* A door of the brief, checked and put on both sides: the other region's file
\* is written at once, this one's exits stay in memory until it is saved.
Link ==
  /\ At("link") /\ run.mode # "dry" /\ run.left # <<>>
  /\ LET door == Head(run.left)
     IN IF door \in Bad THEN Stop("refused") /\ UNCHANGED pairs
        ELSE /\ pairs' = pairs \cup {door}
             /\ Go([run EXCEPT !.exits = @ \cup {door}, !.left = Tail(@)], "link")
  /\ UNCHANGED <<file, brief, overviews, paid, edits>>
DoorsLinked ==
  /\ At("link") /\ run.mode # "dry" /\ run.left = <<>>
  /\ Go(run, IF run.mode = "layout" THEN "end" ELSE "seeds")
  /\ UNCHANGED <<file, pairs, brief, overviews, paid, edits>>
DryRun ==
  /\ At("link") /\ run.mode = "dry" /\ Stop("dry")
  /\ UNCHANGED <<file, pairs, brief, overviews, paid, edits>>

\* What the model's answer is worth: texts of cells it was asked for, or of
\* some of them; other cells, other types and empty texts are dropped.
Answers(asked) == SUBSET asked

\* Mutant: only the end of the run writes the file.
SeedsUnsaved ==
  /\ At("seeds") /\ run.todo # {}
  /\ LET slice == FirstCells(run.todo, Batch)
     IN \E got \in Answers(slice) :
          LET new == {c \in got : run.seeds[c] = Empty}
              r == [run EXCEPT !.todo = @ \ slice, !.filled = @ + Cardinality(new), !.calls = @ + 1,
                               !.seeds = [c \in Cells |-> IF c \in new THEN run.overview ELSE @[c]]]
          IN Go(r, "seeds") /\ paid' = paid \cup new
  /\ UNCHANGED <<file, pairs, brief, overviews, edits>>
\* A batch: only empty places are filled, and the file is written before the
\* next batch is asked.
Seeds ==
  /\ At("seeds") /\ run.todo # {}
  /\ LET slice == FirstCells(run.todo, Batch)
     IN \E got \in Answers(slice) :
          LET new == {c \in got : run.seeds[c] = Empty}
              r == [run EXCEPT !.todo = @ \ slice, !.filled = @ + Cardinality(new), !.calls = @ + 1,
                               !.seeds = [c \in Cells |-> IF c \in new THEN run.overview ELSE @[c]]]
          IN Go(r, "seeds") /\ file' = Written(r) /\ paid' = paid \cup new
  /\ UNCHANGED <<pairs, brief, overviews, edits>>

\* The last save, of a layout that is new or of a run that filled something.
End ==
  /\ At("end") \/ (At("seeds") /\ run.todo = {})
  /\ file' = IF run.mode = "layout" \/ run.fresh \/ run.filled > 0 THEN Written(run) ELSE file
  /\ Go(run, "brief")
  /\ UNCHANGED <<pairs, brief, overviews, paid, edits>>
\* The brief the run was started with is written back, with its overview.
Brief ==
  /\ At("brief")
  /\ brief' = IF run.told THEN [overview |-> run.overview, doors |-> run.doors] ELSE brief
  /\ Stop("done")
  /\ UNCHANGED <<file, pairs, overviews, paid, edits>>

\* The model answers nothing useful, or too much, or the process is killed.
Die ==
  /\ run # Idle /\ Stop("died")
  /\ UNCHANGED <<file, pairs, brief, overviews, paid, edits>>
-----------------------------------------------------------------------------
(* The person *)

Edit == (run = Idle \/ Beside) /\ edits < MaxEdits /\ edits' = edits + 1 /\ last' = "none"
        /\ UNCHANGED <<run, pairs, overviews>>
\* A seed is written by hand, or removed to be written anew.
EditSeed ==
  /\ Edit /\ HasFile
  /\ \E c \in file.tiles, text \in {Empty, Hand} :
       file' = [file EXCEPT !.seeds[c] = text] /\ paid' = paid \ {c}
  /\ UNCHANGED brief
\* The grid is made smaller by hand; what stood there is no longer of use.
Narrow ==
  /\ Edit /\ HasFile
  /\ \E cells \in SUBSET file.tiles : cells # {} /\ file' = [file EXCEPT !.tiles = cells] /\ paid' = paid \cap cells
  /\ UNCHANGED brief
\* The exits of the region file are emptied: the brief is where doors come from.
ClearExits == Edit /\ HasFile /\ file' = [file EXCEPT !.exits = {}] /\ UNCHANGED <<brief, paid>>
AddDoor ==
  /\ Edit
  /\ \E d \in Door \ ToSet(brief.doors) : brief' = [brief EXCEPT !.doors = Append(@, d)]
  /\ UNCHANGED <<file, paid>>

Init ==
  /\ file = NoFile /\ pairs = {} /\ brief = [overview |-> Empty, doors |-> <<>>]
  /\ run = Idle /\ last = "none" /\ overviews = 0 /\ paid = {} /\ edits = 0

Tool == (\E mode \in {"full", "layout", "dry"} : Open(mode)) \/ Overview \/ Link \/ DoorsLinked \/ DryRun
        \/ Seeds \/ End \/ Brief \/ Die
Next == Tool \/ EditSeed \/ Narrow \/ ClearExits \/ AddDoor
Spec == Init /\ [][Next]_vars
-----------------------------------------------------------------------------
(* Properties *)

TypeOK ==
  /\ HasFile => file.tiles \subseteq Cells /\ file.seeds \in [Cells -> -1 .. MaxModel] /\ file.exits \subseteq Good
  /\ pairs \subseteq Good /\ ToSet(brief.doors) \subseteq Door
  /\ run # Idle => run.exits \subseteq Good /\ run.todo \subseteq run.tiles

\* authorRegion.ts:14: the tool never overwrites: a seed or a grid that is in
\* the file stays, however often the tool is run and wherever it dies.
NothingOverwritten ==
  [][Tool /\ HasFile =>
       /\ file'.tiles = file.tiles
       /\ \A c \in file.tiles : file.seeds[c] # Empty => file'.seeds[c] = file.seeds[c]]_vars

\* authorRegion.ts:19: what the model was paid for is in the file, so a run
\* that dies is taken up where it stopped.
PaidSeedsKept == \A c \in paid : HasFile /\ file.seeds[c] # Empty

\* A half door of a brief is only ever the other region's: where this region
\* has the exit, the way back is there as well, and a walker returns.
HalfDoorHasItsPair == HasFile => file.exits \subseteq pairs

\* README.md:2295: exits that were emptied come back when the tool is run
\* again; after a run every door of the brief has both its sides.
DoorsHaveTwoSides ==
  last = "done" => pairs \subseteq file.exits

\* authorRegion.ts:241: seeds outside the grid go when the tool is run: the
\* server would not start with one.
GhostSeedsGo ==
  last = "done" => \A c \in Cells \ file.tiles : file.seeds[c] = Empty

\* authorRegion.ts:220: the overview is made once; all seeds are of one place.
SeedsShareOverview ==
  HasFile => Cardinality({file.seeds[c] : c \in Cells} \ {Empty, Hand}) <= 1

\* authorRegion.ts:250: a wrong door is found before the model is asked.
WrongDoorIsFree == [][Link /\ last' = "refused" => run.calls = 0]_vars
=============================================================================
