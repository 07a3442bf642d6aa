-------------------------------- MODULE Stored --------------------------------
(* What the database holds and who works on its file: what the players own   *)
(* and have done (Economy, "economy"), boots, backups and restores of the    *)
(* file (Keeping, "keeping"), and the tool that writes the first sentences   *)
(* beside a running server (Pregen, "pregen").  Each looks at tables of its  *)
(* own or at the file as a whole, so a behaviour is one of them.             *)
EXTENDS Economy

CONSTANTS World, SchemaVersion, Visitor, Forced, DryRun, Files, Backup, MaxStarts \* of Keeping
CONSTANTS Room, Line, Order, Sensitive, Bank, Queues, Limits, MaxFlips, MaxRuns  \* of Pregen
VARIABLES file, code, pc, seen, dest, manifest, bk, starts, rs
VARIABLES row, flag, job, exit, ran, flips, runs
VARIABLE part       \* which of the three this is

keepVars == <<file, code, pc, seen, dest, manifest, bk, starts, rs>>
jobVars == <<row, flag, job, exit, ran, flips, runs>>

Keep == INSTANCE Keeping WITH db <- file, Player <- Visitor, Force <- Forced
Pre == INSTANCE Pregen

ASSUME GoodsAssumption == EconomyAssumption
ASSUME FilesAssumption == Keep!KeepingAssumption
ASSUME JobAssumption == Pre!PregenAssumption

StoredInit ==
  /\ part \in {"economy", "keeping", "pregen"}
  /\ Init /\ Keep!Init /\ Pre!Init
StoredNext ==
  \/ part = "economy" /\ Next /\ UNCHANGED <<keepVars, jobVars, part>>
  \/ part = "keeping" /\ Keep!Next /\ UNCHANGED <<vars, jobVars, part>>
  \/ part = "pregen" /\ Pre!Next /\ UNCHANGED <<vars, keepVars, part>>
StoredSpec == StoredInit /\ [][StoredNext]_<<vars, keepVars, jobVars, part>>
-----------------------------------------------------------------------------
(* A text of the model is paid for once: no boot, backup, restore, world or  *)
(* run of the tool writes over it, but --redo for a place with a sentence    *)
(* written by hand; nor is a backup that was verified written over           *)
(* (restore.ts:138, backup.ts:121, pregen.ts:265).                           *)
PaidWorkStays == Keep!PaidStays /\ Keep!VerifiedStays /\ Pre!SettledStays

(* Wherever a boot died and whoever booted beside it, a file that says it is *)
(* of a version has its tables, and one that says it is of a world has its   *)
(* rooms; where the file has no room the world has lost, what restore has    *)
(* planned can be written (migrate.ts:37, seed.ts:391, restore.ts:103).      *)
FilesAreWhole ==
  Keep!TypeOK /\ Keep!VersionHasItsTables /\ Keep!HashProvesRooms /\ Keep!RestoreRuns

(* A run of the tool that ends has done what it says and what its plan said, *)
(* and one that exits with 0 has left no room to the fallback, however small *)
(* the queue is (pregen.ts:130, 387).                                        *)
RunsDoWhatTheySay == Pre!TypeOK /\ Pre!DoneIsSettled /\ Pre!PlanIsWork /\ Pre!RoomsAreDone
=============================================================================
