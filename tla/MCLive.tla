-------------------------------- MODULE MCLive --------------------------------
(* What must happen in the end, in one run of small instances: the page and  *)
(* its moves (Reconcile, "moves"), its connection (Page's Link, "link"), the *)
(* server's sessions (Sessions, "sessions"), fights (Combat, "fights"),      *)
(* texts (Upgrade, "texts"), accounts (Accounts, "accounts") and door (Gate, *)
(* "door").                                                                  *)
(* part says which of them moves; in the initial state of the others no      *)
(* action is enabled that anything is assumed of, so each part has exactly   *)
(* the fairness of its own module.                                           *)
EXTENDS MCPage

CONSTANTS NoFight, Nowhere   \* for NoBattle and NoRoom of Combat
VARIABLES present, holder, used, gone, stopped, conn, stands, hp, potions, battle, inCombat,
          engaged, chosen, guarded, skillsCooling, fallenFoes, slain, ticking, respawn, screen,
          stranded, yanked, faults, crashes
VARIABLES socks, mute, cut, verifying, holds, connEpoch, sent, registered, connId, socket, linger,
          missed, numbered, nextConnId, openSockets, shuttingDown
VARIABLES textPhase, flagRow, flag, row, filling, chain, queued, running, attempts, cooling,
          targets, watchers, at, epoch, lines
VARIABLES secret, character, tokens, held, waits, jobs, waiting, tokenClock, issued, tries,
          failures, founded, lost
VARIABLES clock, jumps, state, frames, seenAt, bound, socketsPerIp, newCharsPerIp, known, sess,
          silent, unanswered, asks, acked, yelled, passed, made

moveVars == vars
fightVars == <<present, holder, used, gone, stopped, conn, stands, hp, potions, battle, inCombat,
               engaged, chosen, guarded, skillsCooling, fallenFoes, slain, ticking, respawn,
               screen, stranded, yanked, faults, crashes>>
textVars == <<textPhase, flagRow, flag, row, filling, chain, queued, running, attempts, cooling,
              targets, watchers, at, epoch, lines>>
sessionsVars == <<socks, mute, cut, verifying, holds, connEpoch, sent, registered, connId, socket,
                  linger, missed, numbered, nextConnId, openSockets, shuttingDown>>
accountVars == <<secret, character, tokens, held, waits, jobs, waiting, tokenClock, issued, tries,
                 failures, founded, lost>>
doorVars == <<clock, jumps, state, frames, seenAt, bound, socketsPerIp, newCharsPerIp, known, sess,
              silent, unanswered, asks, acked, yelled, passed, made>>
allVars == <<moveVars, linkVars, windowVars, fightVars, textVars, accountVars, doorVars,
             sessionsVars, part>>

F == INSTANCE Combat WITH
  Player <- {"p1"}, Conn <- {"c1", "c2"}, NoConn <- "no conn", NoRoom <- Nowhere,
  NoPlayer <- "nobody", NoBattle <- NoFight, Room <- {"town", "den"}, Spawn <- "town",
  Den <- {"den"}, Boss <- {}, MaxHp <- 2, EnemyHp <- 1, Damage <- {1}, Mend <- 1,
  EveryNth <- [r \in {"den"} |-> 0], Skill <- {}, ShareNeeded <- 1, MaxPotions <- 1,
  MaxTimers <- 1, MaxFaults <- 1, MaxCrashes <- 0,
  pos <- stands, queued <- chosen, cooling <- skillsCooling, fallen <- fallenFoes
S == INSTANCE Sessions WITH
  Player <- {"p1"}, Conn <- {"c1", "c2"}, NoPlayer <- "nobody", NoConn <- "no conn",
  MaxSockets <- 2, MaxSeq <- 0, sock <- socks, dead <- cut, owner <- holds, epoch <- connEpoch,
  outSeq <- sent, lastSeq <- numbered
T == INSTANCE Upgrade WITH
  Session <- {"s1"}, Target <- {"room"}, RoomTarget <- "room", Sensitive <- {"room"}, Locked <- {},
  Concurrency <- 1, MaxPending <- 2, MaxAttempts <- 2, MaxWatchers <- 1, MaxEpochs <- 1,
  MaxLines <- 1, OtherProcess <- {}, phase <- textPhase, page <- lines
A == INSTANCE Accounts WITH
  Device <- {"d1", "d2"}, Browser <- {{"d1", "d2"}}, Name <- {"n1"}, Old <- {"n1"}, Slots <- 1, MaxDevices <- 2,
  MaxClock <- 0, MaxAttempts <- 3, MaxCharacters <- 2, MaxFailures <- 0,
  running <- jobs, clock <- tokenClock, attempts <- tries, dead <- lost
D == INSTANCE Gate WITH
  Conn <- {"c1", "c2"}, Address <- {"ip"}, From <- [c \in {"c1", "c2"} |-> "ip"], Char <- {"p1"},
  MaxPerIp <- 2, MaxSockets <- 2, NewCharsPerIp <- 1, NewCharWindow <- 2,
  Cap <- [frames |-> 3, actions |-> 2, resync |-> 1, yell |-> 1],
  Per <- [frames |-> 1, actions |-> 1, resync |-> 1, yell |-> 3],
  MaxClock <- 0, MaxJumps <- 0, MaxFrames <- 0, MaxSilent <- 2, asked <- asks

LiveInit ==
  /\ part \in {"moves", "link", "fights", "texts", "accounts", "door", "sessions"}
  /\ Init /\ Link!Init /\ Window!Init /\ F!Init /\ T!Init /\ A!Init /\ D!Init /\ S!Init
  /\ (part # "moves" => pos = Spawn)
  /\ potions = [p \in {"p1"} |-> 1]
LiveNext ==
  /\ UNCHANGED <<part, windowVars>>   \* nothing of the window has to happen
  /\ \/ /\ part = "moves" /\ Next
        /\ UNCHANGED <<linkVars, fightVars, textVars, accountVars, doorVars, sessionsVars>>
     \/ /\ part = "link" /\ Link!Next
        /\ UNCHANGED <<moveVars, fightVars, textVars, accountVars, doorVars, sessionsVars>>
     \/ /\ part = "fights" /\ F!Next
        /\ UNCHANGED <<moveVars, linkVars, textVars, accountVars, doorVars, sessionsVars>>
     \/ /\ part = "texts" /\ T!Next
        /\ UNCHANGED <<moveVars, linkVars, fightVars, accountVars, doorVars, sessionsVars>>
     \/ /\ part = "accounts" /\ A!Next
        /\ UNCHANGED <<moveVars, linkVars, fightVars, textVars, doorVars, sessionsVars>>
     \/ /\ part = "door" /\ D!Next
        /\ UNCHANGED <<moveVars, linkVars, fightVars, textVars, accountVars, sessionsVars>>
     \/ /\ part = "sessions" /\ S!Next
        /\ UNCHANGED <<moveVars, linkVars, fightVars, textVars, accountVars, doorVars>>
LiveSpecs ==
  /\ LiveInit /\ [][LiveNext]_allVars
  /\ MoveFairness /\ Link!Fairness /\ F!Fairness /\ T!Fairness /\ A!Fairness /\ D!Fairness
  /\ S!Fairness
-----------------------------------------------------------------------------
(* Timers and beats that the code arms do their work: a repeating enemy      *)
(* comes back even if nobody fights (combat.ts), who is down stands up or    *)
(* leaves, no session stays for ever with a socket nobody is behind          *)
(* (server.ts:384) or without one (handlers.ts:789-798), and two tabs with   *)
(* one token do not evict each other for ever, nor does a page stay at       *)
(* "reconnecting" (socket.ts:102-135).                                       *)
TimersDoTheirWork ==
  /\ F!EnemyComesBack /\ F!DownStandsUp /\ D!GhostsEnd /\ S!VanishedPeerIsDropped
  /\ S!GraceEnds /\ Link!OwnerSettles /\ Link!ComesBack

(* What waits for an answer gets one: a key in the queue its turn            *)
(* (queue.ts:59-90), a predicted move its ack or the end of the connection   *)
(* (reconcile.ts:35), and a password hashed anew stays that way in the end,  *)
(* whatever older rehash is still under way (accounts.ts:145).               *)
WaitingEnds == T!TurnComes /\ PendingClears /\ A!StrongInTheEnd
=============================================================================
