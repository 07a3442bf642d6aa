----------------------------- MODULE MCUpgrade -----------------------------
(* Two parts of the behaviours of Upgrade in one run: two readers of a     *)
(* room that declares the flag, while nobody asks for the topics and the   *)
(* rendering of the one that the flag opens does not end ("room"), and one *)
(* reader of all of them, with a second process that settles a topic       *)
(* ("queue").  The other reader of that part never connects, so that     *)
(* exchanging the two changes nothing.  part never changes.                *)
EXTENDS Upgrade, TLC

CONSTANTS s1, s2
VARIABLE part

MCOther == {<<"secret", "on">>}
Symmetry == Permutations({s1, s2})

\* What a behaviour of the part is confined to.
Confined ==
  /\ part = "room" => /\ row[<<"secret", "on">>] = None /\ row[<<"lore", "any">>] = None
                      /\ \A s \in Session : ~ Reading(s, "secret") /\ ~ Reading(s, "lore")
                      /\ epoch[s1] + epoch[s2] <= 3
                      /\ epoch[s1] + epoch[s2] = 3 => phase = "up" /\ \A k \in Key : attempts[k] <= 1
  /\ part = "queue" => /\ epoch[s1] <= 1 /\ epoch[s2] = 0
                       /\ \A k \in Key : attempts[k] = 0

PartsInit == part \in {"room", "queue"} /\ Init
PartsNext == Next /\ UNCHANGED part /\ Confined'
PartsSpec == PartsInit /\ [][PartsNext]_<<vars, part>>
=============================================================================
