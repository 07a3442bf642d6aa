------------------------------ MODULE MCPlayers ------------------------------
(* Players with two sockets of one address and one of another.  A door that  *)
(* is watched for births has the first two, and no actions; one watched for  *)
(* buckets has one socket of each address, one character and a clock that    *)
(* may jump, and stops before the first ping.                                *)
EXTENDS Players

CONSTANTS c1, c2, c3, ip1, ip2, q1
MCFrom == [c \in Conn |-> IF c = c3 THEN ip2 ELSE ip1]
MCCap == [frames |-> 3, actions |-> 2, resync |-> 1, yell |-> 1]
MCPer == [frames |-> 1, actions |-> 1, resync |-> 1, yell |-> 3]

Confined ==
  /\ part = "births" => /\ state[c3] = "free" /\ jumps = 0
                        /\ \A c \in Conn : asked[c] = 0
  /\ part = "buckets" => /\ state[c2] = "free" /\ doorClock <= 2 /\ known \subseteq {q1}
                         /\ \A c \in Conn : unanswered[c] = 0
ConfinedSpec == PlayersInit /\ [][PlayersNext /\ Confined']_<<vars, doorVars, part>>
=============================================================================
