----------------------------- MODULE ClientLink -----------------------------
(* The connection as the page sees it (client/net/socket.ts, the handlers  *)
(* App gives it and what state/store.ts shows of it), for browser tabs     *)
(* that share one stored token, against a server on which the newest       *)
(* connection of a character wins.  A tab may have more than one WebSocket *)
(* at a time; `ws` names only the newest.                                  *)
EXTENDS Integers, FiniteSets, SequencesExt

CONSTANTS
  Tab, Slot,     \* tabs; the WebSocket objects of a tab
  MaxBreaks,     \* bound: failures of the network or of the server
  MaxLogins      \* bound: logins

\* A browser can always open a WebSocket.
ClientLinkAssumption ==
  Slot # {} /\ MaxBreaks \in Nat /\ MaxLogins \in Nat

Character == {"guest", "account"}
NoSocket == <<>>

VARIABLES
  loaded,            \* the tabs that run the page
  sock, ws,          \* sock[t][k] : readyState; ws[t] : the newest socket
  timer,             \* timer[t] : how many retries are scheduled
  allowRetry, pendingAuth,
  status, notice,    \* UiState.status, UiState.notice
  greeted,           \* the tabs that have had a snapshot: UiState.self
  token,             \* whose token localStorage holds
  up, down,          \* hellos and messages under way on each socket
  peer,              \* the server's side: "none", "new", "verifying", "dead" or a character
  owner,             \* owner[c] : the socket whose session plays c
  asked, logins, breaks, \* history: credentials sent; counters for the bounds
  doubled            \* history: logins of a tab that had a connection under way, not open

page == <<loaded, greeted, ws, timer, allowRetry, pendingAuth, status, notice, token>>
wire == <<sock, up, down, peer, owner>>
bounds == <<logins, breaks>>
vars == <<page, wire, asked, bounds, doubled>>

Sockets == Tab \X Slot
-----------------------------------------------------------------------------
(* The page *)

\* open(): it does not look whether a socket is there already.
OpenSocket(t) ==
  \E k \in Slot :
    /\ sock[t][k] = "free"
    /\ sock' = [sock EXCEPT ![t][k] = "connecting"]
    /\ ws' = [ws EXCEPT ![t] = k]
    /\ peer' = [peer EXCEPT ![t][k] = "none"]
    /\ UNCHANGED <<up, down, owner>>

Load(t) ==
  /\ t \notin loaded /\ loaded' = loaded \cup {t}
  /\ OpenSocket(t)
  /\ UNCHANGED <<greeted, timer, allowRetry, pendingAuth, status, notice, token, asked, bounds, doubled>>

Retry(t) ==
  /\ timer[t] > 0 /\ timer' = [timer EXCEPT ![t] = @ - 1]
  /\ OpenSocket(t)
  /\ UNCHANGED <<loaded, greeted, allowRetry, pendingAuth, status, notice, token, asked, bounds, doubled>>

HelloOf(t) == [auth |-> pendingAuth[t], char |-> token]

\* ws.onopen of socket k: the hello goes to `ws`, whichever socket that is
\* (on one that is still connecting, send throws), the credentials only once.
OnOpen(t, k) ==
  /\ sock[t][k] = "connecting"
  /\ sock' = [sock EXCEPT ![t][k] = "open"] /\ peer' = [peer EXCEPT ![t][k] = "new"]
  /\ up' = [up EXCEPT ![t][ws[t]] = IF sock'[t][ws[t]] = "open" THEN Append(@, HelloOf(t)) ELSE @]
  /\ asked' = asked + Cardinality({s \in {t} : pendingAuth[s] /\ up' # up})
  /\ pendingAuth' = [pendingAuth EXCEPT ![t] = FALSE]
  /\ UNCHANGED <<loaded, greeted, ws, timer, allowRetry, status, notice, token, down, owner, bounds, doubled>>

\* reduce: welcome, error; socket.ts: saveToken, allowRetry.
OnMessage(t, k) ==
  /\ down[t][k] # <<>>
  /\ down' = [down EXCEPT ![t][k] = Tail(@)]
  /\ LET m == Head(down[t][k])
     IN  IF m.t = "welcome"
         THEN /\ token' = m.char /\ greeted' = greeted \cup {t}
              /\ status' = [status EXCEPT ![t] = "live"] /\ notice' = [notice EXCEPT ![t] = "none"]
              /\ UNCHANGED allowRetry
         ELSE /\ allowRetry' = [allowRetry EXCEPT ![t] = m.reconnect]
              /\ status' = [status EXCEPT ![t] = "closed"] /\ notice' = [notice EXCEPT ![t] = "reason"]
              /\ UNCHANGED <<token, greeted>>
  /\ UNCHANGED <<loaded, ws, timer, pendingAuth, sock, up, peer, owner, asked, bounds, doubled>>

\* Mutant: the close overwrites the reason the server gave.
LostOverwrites(t) == "lost"

\* reduce: __conn keeps the notice of an error.
LostNotice(t) == IF status[t] = "closed" /\ notice[t] # "none" THEN notice[t] ELSE "lost"

\* What a socket that ends leaves on both sides.
Gone(t, k) ==
  /\ sock' = [sock EXCEPT ![t][k] = "free"] /\ peer' = [peer EXCEPT ![t][k] = "none"]
  /\ up' = [up EXCEPT ![t][k] = <<>>] /\ down' = [down EXCEPT ![t][k] = <<>>]
  /\ owner' = [c \in Character |-> IF owner[c] = <<t, k>> THEN NoSocket ELSE owner[c]]

\* Mutant: the handler is not told, the screen stays as it was.
OnCloseUnseen(t, k) ==
  /\ Gone(t, k)
  /\ timer' = [timer EXCEPT ![t] = IF allowRetry[t] THEN @ + 1 ELSE @]
  /\ UNCHANGED <<loaded, greeted, ws, allowRetry, pendingAuth, status, notice, token, asked, logins, doubled>>

\* ws.onclose
OnClose(t, k) ==
  /\ Gone(t, k)
  /\ timer' = [timer EXCEPT ![t] = IF allowRetry[t] THEN @ + 1 ELSE @]
  /\ status' = [status EXCEPT ![t] = IF allowRetry[t] THEN "connecting" ELSE "closed"]
  /\ notice' = [notice EXCEPT ![t] = LostNotice(t)]
  /\ UNCHANGED <<loaded, greeted, ws, allowRetry, pendingAuth, token, asked, logins, doubled>>

\* The peer has closed, or the page has; what was sent before arrives first.
Closed(t, k) ==
  /\ \/ peer[t][k] = "dead" /\ down[t][k] = <<>>
     \/ sock[t][k] = "closing"
  /\ OnClose(t, k)
  /\ UNCHANGED breaks

\* The attempt fails, or the network breaks.
Break(t, k) ==
  /\ sock[t][k] \in {"connecting", "open"} /\ breaks < MaxBreaks
  /\ breaks' = breaks + 1
  /\ OnClose(t, k)

\* A retry is scheduled, or a WebSocket connects, listens or closes.
UnderWay(t) == timer[t] > 0 \/ \E k \in Slot : sock[t][k] # "free"

\* authenticate: the login form was sent; the page offers it once it has a
\* character, whatever its connection does.  Only an open socket is closed for
\* it: after a refusal a new one is due, but a retry that waits, or a socket
\* still connecting or closing, then makes a second one.
Authenticate(t) ==
  /\ t \in greeted /\ logins < MaxLogins
  /\ logins' = logins + 1
  /\ pendingAuth' = [pendingAuth EXCEPT ![t] = TRUE]
  /\ allowRetry' = [allowRetry EXCEPT ![t] = TRUE]
  /\ \/ /\ sock[t][ws[t]] = "open"
        /\ sock' = [sock EXCEPT ![t][ws[t]] = "closing"]
        /\ UNCHANGED <<ws, up, down, peer, owner, doubled>>
     \/ /\ sock[t][ws[t]] # "open"
        /\ OpenSocket(t)
        /\ doubled' = [doubled EXCEPT ![t] = IF UnderWay(t) THEN @ + 1 ELSE @]
  /\ UNCHANGED <<loaded, greeted, timer, status, notice, token, asked, breaks>>
-----------------------------------------------------------------------------
(* The server *)

Told(d, s, m) == [d EXCEPT ![s[1]][s[2]] = Append(@, m)]
Cut(p, s) == [p EXCEPT ![s[1]][s[2]] = "dead"]
Error(reconnect) == [t |-> "error", reconnect |-> reconnect]

Replaced == Error(FALSE)

\* handleHello: the new socket wins, the old one is told and closed.
Adopt(t, k, c) ==
  LET old == owner[c]
      there == old # NoSocket /\ old # <<t, k>>
  IN  /\ owner' = [owner EXCEPT ![c] = <<t, k>>]
      /\ peer' = [(IF there THEN Cut(peer, old) ELSE peer) EXCEPT ![t][k] = c]
      /\ down' = Told(IF there THEN Told(down, old, Replaced) ELSE down,
                      <<t, k>>, [t |-> "welcome", char |-> c])

Refused(t, k, reconnect) ==
  /\ peer' = Cut(peer, <<t, k>>)
  /\ down' = Told(down, <<t, k>>, Error(reconnect))
  /\ owner' = [c \in Character |-> IF owner[c] = <<t, k>> THEN NoSocket ELSE owner[c]]

ServerHello(t, k) ==
  /\ up[t][k] # <<>>
  /\ up' = [up EXCEPT ![t][k] = Tail(@)]
  /\ LET hello == Head(up[t][k])
     IN  CASE peer[t][k] = "new" /\ hello.auth -> peer' = [peer EXCEPT ![t][k] = "verifying"] /\ UNCHANGED <<down, owner>>
           [] peer[t][k] = "new" /\ ~hello.auth -> Adopt(t, k, hello.char)
           [] peer[t][k] = "dead" -> UNCHANGED <<peer, down, owner>>
           [] OTHER -> Refused(t, k, FALSE)
  /\ UNCHANGED <<page, sock, asked, bounds, doubled>>

AuthSettles(t, k) ==
  /\ peer[t][k] = "verifying"
  /\ Adopt(t, k, "account") \/ Refused(t, k, FALSE)
  /\ UNCHANGED <<page, sock, up, asked, bounds, doubled>>

\* An error that allows another try: a failing hello, a flood, a bad frame.
ServerCuts(t, k) ==
  /\ peer[t][k] \in {"new", "verifying"} \cup Character /\ breaks < MaxBreaks
  /\ breaks' = breaks + 1
  /\ Refused(t, k, TRUE)
  /\ UNCHANGED <<page, sock, up, asked, logins, doubled>>
-----------------------------------------------------------------------------
Init ==
  /\ loaded = {} /\ greeted = {} /\ timer = [t \in Tab |-> 0]
  /\ sock = [t \in Tab |-> [k \in Slot |-> "free"]] /\ ws \in [Tab -> {CHOOSE k \in Slot : TRUE}]
  /\ allowRetry = [t \in Tab |-> TRUE] /\ pendingAuth = [t \in Tab |-> FALSE]
  /\ status = [t \in Tab |-> "connecting"] /\ notice = [t \in Tab |-> "none"] /\ token = "guest"
  /\ up = [t \in Tab |-> [k \in Slot |-> <<>>]] /\ down = up
  /\ peer = [t \in Tab |-> [k \in Slot |-> "none"]] /\ owner = [c \in Character |-> NoSocket]
  /\ asked = 0 /\ logins = 0 /\ breaks = 0 /\ doubled = [t \in Tab |-> 0]

Next ==
  \/ \E t \in Tab : Load(t) \/ Retry(t) \/ Authenticate(t)
  \/ \E t \in Tab, k \in Slot :
       \/ OnOpen(t, k) \/ OnMessage(t, k) \/ Closed(t, k) \/ Break(t, k)
       \/ ServerHello(t, k) \/ AuthSettles(t, k) \/ ServerCuts(t, k)

Spec == Init /\ [][Next]_vars

\* Timers fire, attempts succeed once nothing breaks them, frames arrive.
Fairness ==
  /\ \A t \in Tab : WF_vars(Retry(t))
  /\ \A t \in Tab, k \in Slot :
       /\ WF_vars(OnOpen(t, k)) /\ WF_vars(OnMessage(t, k)) /\ WF_vars(Closed(t, k))
       /\ WF_vars(ServerHello(t, k)) /\ WF_vars(AuthSettles(t, k))
LiveSpec == Spec /\ Fairness
-----------------------------------------------------------------------------
TypeOK ==
  /\ loaded \subseteq Tab /\ timer \in [Tab -> Nat] /\ doubled \in [Tab -> Nat]
  /\ sock \in [Tab -> [Slot -> {"free", "connecting", "open", "closing"}]]
  /\ ws \in [Tab -> Slot]
  /\ status \in [Tab -> {"connecting", "live", "closed"}]
  /\ notice \in [Tab -> {"none", "lost", "reason"}]
  /\ peer \in [Tab -> [Slot -> {"none", "new", "verifying", "dead"} \cup Character]]
  /\ \A c \in Character : owner[c] # NoSocket => owner[c] \in Sockets

(* A tab has one socket or one scheduled retry, and one more for each      *)
(* login it sent while one was under way: nothing else multiplies them, no *)
(* late close, no refusal, no reconnection of another tab.                 *)
Busy(t) == Cardinality({k \in Slot : sock[t][k] # "free"}) + timer[t]
OneSocketPerTab == \A t \in Tab : Busy(t) <= 1 + doubled[t]

(* The screen tells the truth about the connection.  A tab that shows      *)
(* "live", whatever it did, has a socket up that plays its character or    *)
(* that the server has ended and whose end it is about to read.  A tab     *)
(* whose session listens shows "live" once it has read its messages,       *)
(* unless a login of it met a connection under way (doubled): then it has  *)
(* two sockets, and the close of one is shown though the other lives       *)
(* (LiveWheneverPlaying).                                                  *)
HasSession(t, k) == \E c \in Character : owner[c] = <<t, k>>
ShowsLiveTruly(t) ==
  status[t] = "live" =>
    \E k \in Slot : /\ sock[t][k] \in {"open", "closing"}
                    /\ HasSession(t, k) \/ peer[t][k] = "dead"
ShowsItsSession(t) ==
  /\ \E k \in Slot : sock[t][k] = "open" /\ HasSession(t, k)
  /\ \A k \in Slot : down[t][k] = <<>> /\ peer[t][k] # "dead"
  => status[t] = "live"
StatusIsTrue == \A t \in Tab : ShowsLiveTruly(t) /\ (doubled[t] = 0 => ShowsItsSession(t))

(* The reason the server gave for ending a connection stays on the screen  *)
(* through the close that follows, and for good on a tab that does not try *)
(* again; only a new connection takes it away.                             *)
ReasonStays ==
  [][\A t \in Tab :
       notice[t] = "reason" /\ notice'[t] # "reason"
         => status'[t] = "live" \/ status[t] = "connecting"]_vars

(* Credentials leave the page at most once per login, whatever retries     *)
(* follow: a wrong password is not offered again and again.                *)
CredentialsOnce == asked <= logins

(* Two tabs with one token do not evict each other for ever: the character *)
(* ends up with one of them.                                               *)
OwnerSettles == \E s \in Sockets \cup {NoSocket} : <>[](owner["guest"] = s)

(* A tab that says it is reconnecting does come back, or is told why not.  *)
ComesBack == \A t \in Tab : (t \in loaded /\ status[t] = "connecting") ~> status[t] # "connecting"

(* client/net/socket.ts: authenticate sends the credentials with the next  *)
(* connection.  Refuted: of the two sockets of a doubled tab the one that  *)
(* opens first throws them at the one that still connects.                 *)
LoginReachesServer ==
  (\A t \in Tab : ~pendingAuth[t]) => asked = logins

(* The second half of StatusIsTrue without its exemption: refuted too.     *)
LiveWheneverPlaying == \A t \in Tab : ShowsItsSession(t)
=============================================================================
