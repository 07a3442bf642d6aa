-------------------------------- MODULE Seats --------------------------------
(***************************************************************************)
(* What a player's presence in the world depends on, as the header of      *)
(* net/session.ts states it, without epochs, timers or password checks.    *)
(*                                                                         *)
(* A present player has a seat.  The newest connection that asks for the   *)
(* seat holds it.  Only the closing of the holder itself frees the seat,   *)
(* and only a player whose seat is free may disappear.                     *)
(***************************************************************************)
CONSTANTS
  Player,
  Conn,
  NoConn      \* undefined in session.socket: no connection holds the seat

ASSUME SeatsAssumption == NoConn \notin Conn

VARIABLES
  present,   \* players every observer takes to be in the world
  holder,    \* the connection that holds a player's seat
  used,      \* connections that have been given a seat, then or now
  gone,      \* connections that have closed
  stopped    \* the server is shutting down

seatVars == <<present, holder, used, gone, stopped>>

SeatInit ==
  /\ present = {}
  /\ holder = [p \in Player |-> NoConn]
  /\ used = {}
  /\ gone = {}
  /\ stopped = FALSE

\* A connection is given a seat once in its life.
Take(p, c) ==
  /\ c \notin used
  /\ used' = used \cup {c}
  /\ present' = present \cup {p}
  /\ holder' = [holder EXCEPT ![p] = c]
  /\ UNCHANGED <<gone, stopped>>

\* A connection closes and frees the seat it holds, and no other.
Close(c) ==
  /\ c \notin gone
  /\ gone' = gone \cup {c}
  /\ holder' = IF stopped THEN holder
               ELSE [p \in Player |-> IF holder[p] = c THEN NoConn ELSE holder[p]]
  /\ UNCHANGED <<present, used, stopped>>

Depart(p) ==
  /\ p \in present
  /\ holder[p] = NoConn
  /\ present' = present \ {p}
  /\ UNCHANGED <<holder, used, gone, stopped>>

Stop ==
  /\ stopped' = TRUE
  /\ UNCHANGED <<present, holder, used, gone>>

SeatNext ==
  \/ \E p \in Player, c \in Conn : Take(p, c)
  \/ \E c \in Conn : Close(c)
  \/ \E p \in Player : Depart(p)
  \/ Stop

SeatSpec == SeatInit /\ [][SeatNext]_seatVars
=============================================================================
