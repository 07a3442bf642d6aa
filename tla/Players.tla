------------------------------- MODULE Players -------------------------------
(* Who comes in, in one run: who a connection plays as (Accounts) and what   *)
(* the door lets in (Gate).  They share no state here; part says which of    *)
(* them moves, and whether the door is watched for births or for buckets.    *)
EXTENDS Accounts

CONSTANTS Conn, Address, From, Char, MaxPerIp, MaxSockets, NewCharsPerIp, NewCharWindow, Cap, Per,
          DoorClock, MaxJumps, MaxFrames, MaxSilent
VARIABLES doorClock, jumps, state, frames, seenAt, bound, socketsPerIp, newCharsPerIp, known,
          sess, silent, unanswered, asked, acked, yelled, passed, made
VARIABLE part

doorVars == <<doorClock, jumps, state, frames, seenAt, bound, socketsPerIp, newCharsPerIp, known,
              sess, silent, unanswered, asked, acked, yelled, passed, made>>

Door == INSTANCE Gate WITH clock <- doorClock, MaxClock <- DoorClock
ASSUME DoorAssumption == Door!GateAssumption

PlayersInit == part \in {"accounts", "births", "buckets"} /\ Init /\ Door!Init
PlayersNext ==
  \/ part = "accounts" /\ Next /\ UNCHANGED <<doorVars, part>>
  \/ part # "accounts" /\ Door!Next /\ UNCHANGED <<vars, part>>
PlayersSpec == PlayersInit /\ [][PlayersNext]_<<vars, doorVars, part>>
-----------------------------------------------------------------------------
(* The sockets of an address are counted until their close event, with the  *)
(* heartbeat's sweep in between an address creates no more characters in a   *)
(* window than it may, and whatever the clock does and whichever socket      *)
(* takes a session over, buckets stay in range, yells are paid for and every *)
(* action is answered once (server.ts:196-222, handlers.ts:385-400).         *)
DoorKeepsCount ==
  /\ Door!TypeOK /\ Door!SocketsAreCounted /\ Door!NewCharsAreBounded
  /\ Door!YellsArePaid /\ Door!OneAckEach
=============================================================================
