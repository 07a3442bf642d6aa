------------------------------- MODULE Content -------------------------------
(* How a world comes to be: the grid of a region is generated (Layout,       *)
(* "layout"), its file is written by a person and the authoring tool         *)
(* (Authoring, "authoring"), and the boot accepts or refuses the whole of    *)
(* the files, in which somebody then walks (Worlds, "worlds").  The three    *)
(* happen at different times, in different processes: a behaviour is one of  *)
(* them.                                                                     *)
EXTENDS Layout

CONSTANTS Authored, Slain, TopRank, Item                          \* of Worlds
CONSTANTS Width, Drawn, Good, Bad, Batch, MaxModel, MaxEdits      \* of Authoring
VARIABLES world, mode, pos, on, rank, door
VARIABLES file, pairs, brief, run, last, overviews, paid, edits
VARIABLE part       \* which of the three this is

worldVars == <<world, mode, pos, on, rank, door>>
fileVars == <<file, pairs, brief, run, last, overviews, paid, edits>>

W == INSTANCE Worlds
\* Nobody edits the file while the tool runs on it.
Tool == INSTANCE Authoring WITH Beside <- FALSE

ASSUME WorldAssumption == W!WorldsAssumption
ASSUME ToolAssumption == Tool!AuthoringAssumption

\* A part that does not move costs nothing: one world stands for all of them.
SomeWorld == CHOOSE w \in Authored : TRUE
ContentInit ==
  /\ part \in {"layout", "worlds", "authoring"}
  /\ Init /\ Tool!Init /\ W!Init
  /\ part # "worlds" => world = SomeWorld
ContentNext ==
  \/ part = "layout" /\ Next /\ UNCHANGED <<worldVars, fileVars, part>>
  \/ part = "worlds" /\ W!Next /\ UNCHANGED <<vars, fileVars, part>>
  \/ part = "authoring" /\ Tool!Next /\ UNCHANGED <<vars, worldVars, part>>
ContentSpec == ContentInit /\ [][ContentNext]_<<vars, worldVars, fileVars, part>>
-----------------------------------------------------------------------------
(* What the boot lets through can be played: a player always stands in a     *)
(* room that has a seed, every room can be walked to, and every mission has  *)
(* its giver and its enemy where the player can get (seed.ts:166-391).       *)
AcceptedWorldsWork == W!TypeOK /\ W!PiecesMakeOneWorld /\ W!MissionsCanBeDone

(* Behind a two-way door there is a door back to where one came from, and    *)
(* only that one on its side (seed.ts:165-180, move.ts).                     *)
DoorsReturn == W!DoorsReturn

(* However often the authoring tool is run, on which brief, and wherever it  *)
(* dies, no seed and no grid that is in the file is written over             *)
(* (authorRegion.ts:14).                                                     *)
NothingOverwritten == Tool!NothingOverwritten

(* What was paid for is in the file, and a door of the file has its other    *)
(* side in the other region's, wherever the tool dies (authorRegion.ts:19,   *)
(* 187).                                                                     *)
FileIsResumable == Tool!TypeOK /\ Tool!PaidSeedsKept /\ Tool!HalfDoorHasItsPair
=============================================================================
