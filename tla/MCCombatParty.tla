--------------------------- MODULE MCCombatParty ---------------------------
(* Four parts of the behaviours of Combat in one run: two players who      *)
(* fight, fall and drink ("fight"), who heal each other ("heal"), who      *)
(* guard each other ("guard"), and one alone with a boss and an enemy that *)
(* winds up and returns, two overlapping respawn timers, a failing write   *)
(* and a crash ("solo").  part never changes.                              *)
EXTENDS MCCombat

CONSTANTS p3, town, den, cave, lair
VARIABLE part

\* What a behaviour of the part is confined to.
Confined ==
  /\ present \subseteq IF part = "solo" THEN {p3} ELSE {p1, p2}
  /\ \A p \in Player :
       /\ pos[p] \in {town} \cup IF part = "solo" THEN {cave, lair} ELSE {den}
       /\ queued[p].what \in {"none", "item", IF part = "solo" THEN "strike" ELSE part}
       /\ part \in {"heal", "guard"} => potions[p] = 0
  /\ part # "solo" => faults = 0 /\ crashes = 0 /\ \A t \in DOMAIN respawn : respawn[t] <= 1

PartyInit ==
  /\ part \in {"fight", "heal", "guard", "solo"}
  /\ Init /\ Confined /\ (part \in {"fight", "solo"} => \A p \in Player : potions[p] = MaxPotions)
PartyNext == Next /\ UNCHANGED part /\ Confined'
PartySpec == PartyInit /\ [][PartyNext]_<<vars, part>>
=============================================================================
