------------------------------ MODULE MCStored ------------------------------
(* Stored for TLC.  A behaviour is of a kind that says what it is about: the *)
(* players' goods; two worlds with room for backup and restore; two backups  *)
(* to one destination; boots of new and old files; the first sentences with  *)
(* a queue that has room for all of them, or for next to none.               *)
EXTENDS Stored, TLC

CONSTANTS gate, hall, yard, talk
VARIABLE kind
Kinds == [economy |-> {"economy"}, keeping |-> {"worlds", "race", "boot"}, pregen |-> {"ample", "small"}]

\* A husk that returns and drops a shard, a boss that is slain once.  Two
\* missions, one for each; rank 1 is free, rank 2 costs two shards.
Shards(n) == [item |-> "shard", n |-> n]
Dropped == [husk |-> Shards(1), boss |-> NoDrop]
Wanted == [clean |-> "husk", slayer |-> "boss"]
Times == [clean |-> 2, slayer |-> 1]
Paying == [clean |-> <<[item |-> "ampoule", n |-> 1]>>, slayer |-> <<Shards(1)>>]
FromRank == [clean |-> 1, slayer |-> 0]
Open == [clean |-> NoFlag, slayer |-> NoFlag]
FlagOf == [husk |-> NoFlag, boss |-> "slain"]
ComesBack == [husk |-> TRUE, boss |-> FALSE]
Prices == <<<<>>, <<Shards(2)>>>>

Samples == INSTANCE MCKeeping WITH
  db <- file, Player <- Visitor, Force <- Forced, World <- {}, Files <- {}
WorldsOf == [worlds |-> Samples!Both, race |-> Samples!Both, boot |-> Samples!Worded]
Worlds == Samples!Both \cup Samples!Worded
FilesOf == [worlds |-> Samples!Lived, race |-> Samples!Lived, boot |-> Samples!NewOrOld]
SomeFiles == Samples!Lived \cup Samples!NewOrOld

MCOrder == <<gate, hall, yard, talk>>
MCBank == {<<hall, "any">>, <<talk, "off">>}
Ample == [maxPending |-> 4, concurrency |-> 2]
Tight == [maxPending |-> 1, concurrency |-> 1]
MCQueues == {Ample, Tight}
QueueOf == [ample |-> Ample, small |-> Tight]

\* Another world comes on a new file ("worlds", "race"), or on whatever there is
\* and with nobody about ("boot"); two backups at once are of "race".
OfItsKind ==
  /\ kind \in Kinds.keeping =>
       /\ code'.world \in WorldsOf[kind]
       /\ IF kind = "race" THEN rs' = Keep!NoReport
          ELSE Cardinality({b \in Backup : bk'[b].stage # "off"}) <= 1
       /\ kind # "boot" => code'.world = code.world \/ file' = Keep!NoFile
       /\ kind = "boot" => file'.players = {} /\ file'.text = << >> /\ ~ rs'.force
  /\ kind \in {"ample", "small"} /\ job' # Pre!Idle => job'.queue = QueueOf[kind]
KindInit ==
  /\ StoredInit /\ kind \in Kinds[part]
  /\ IF kind \in Kinds.keeping
     THEN file \in FilesOf[kind] /\ code.world \in WorldsOf[kind] /\ (kind # "boot" => code.world = file.hash)
     ELSE file \in Samples!Lived /\ code.world = file.hash
KindSpec == KindInit /\ [][StoredNext /\ OfItsKind /\ UNCHANGED kind]_<<vars, keepVars, jobVars, part, kind>>

\* No rank of the content asks twice for one item: what RanksPaid is proved from.
ASSUME OneAsk == RanksAskOnce

Symmetry == Permutations(Player) \cup Permutations(Backup)
=============================================================================
