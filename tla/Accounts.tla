------------------------------ MODULE Accounts ------------------------------
(* Who a connection plays as: net/accounts.ts and net/secret.ts, with the  *)
(* part of handleHello that turns a token or an account into a character.  *)
(* Only the scrypt calls take time, at most Slots of them at once; what    *)
(* follows one runs without interruption up to the welcome, but on what it *)
(* had read before.                                                        *)
EXTENDS Integers, FiniteSets, SequencesExt

CONSTANTS
  Device,      \* the tabs of all browsers
  Browser,     \* the browsers, each the set of its tabs: they share a localStorage
  Name,        \* account names
  Old,         \* accounts whose secret has weaker parameters than today's
  Slots,       \* secret.ts CONCURRENCY
  MaxDevices,  \* accounts.ts MAX_DEVICES
  MaxClock, MaxAttempts, MaxCharacters, MaxFailures  \* bounds

NoToken == 0
NoOwner == "nobody"

ASSUME AccountsAssumption ==
  /\ Old \subseteq Name /\ IsFiniteSet(Old)
  /\ NoOwner \notin Name
  /\ UNION Browser = Device /\ \A b, c \in Browser : b = c \/ b \cap c = {}
  /\ {Slots, MaxDevices} \subseteq Nat \ {0}
  /\ {MaxClock, MaxAttempts, MaxCharacters, MaxFailures} \subseteq Nat

VARIABLES
  secret,      \* accounts.secret: "none", "stale" or "strong"
  character,   \* the players rows, oldest first: [owner, anon]
  tokens,      \* player_tokens: [tok, char, used]
  held,        \* the token each device finds in its browser; NoToken for none
  waits,       \* the devices whose hello waits for scrypt
  running, waiting,   \* secret.ts: the jobs in a slot, and those in line
  clock, issued, attempts, failures,  \* ctx.clock, the tokens made so far, bounds
  founded,     \* history: how often a name was registered successfully
  dead         \* history: devices that were handed a token that opens nothing

rows == <<secret, character, tokens>>
slots == <<running, waiting>>
vars == <<rows, held, waits, slots, clock, issued, attempts, failures, founded, dead>>
-----------------------------------------------------------------------------
(* secret.ts: withSlot *)
Enter(job, r, w) ==
  IF Cardinality(r) >= Slots THEN [running |-> r, waiting |-> Append(w, job)]
                             ELSE [running |-> r \cup {job}, waiting |-> w]

\* Mutant: a job that throws leaves without waking anybody.
LeaveSilently(job) == [running |-> running \ {job}, waiting |-> waiting]

\* The slot goes to the first in line.
Leave(job) ==
  IF waiting = <<>> THEN [running |-> running \ {job}, waiting |-> <<>>]
  ELSE [running |-> (running \ {job}) \cup {Head(waiting)}, waiting |-> Tail(waiting)]

Begin(job) ==
  LET s == Enter(job, running, waiting) IN running' = s.running /\ waiting' = s.waiting

\* Whatever follows scrypt finds the slot passed on already.
End(job) ==
  LET s == Leave(job) IN running' = s.running /\ waiting' = s.waiting
EndThen(job, next) ==
  LET s == Leave(job)
      t == Enter(next, s.running, s.waiting)
  IN  running' = t.running /\ waiting' = t.waiting
-----------------------------------------------------------------------------
(* The rows *)

CharactersOf(n) == {c \in DOMAIN character : character[c].owner = n}
Oldest(cs) == CHOOSE c \in cs : \A d \in cs : c <= d
ByAnon(tok) == {c \in DOMAIN character : tok # NoToken /\ character[c].anon = tok}
ByDevice(tok) == {r.char : r \in {x \in tokens : x.tok = tok}}
Opens(tok) == ByAnon(tok) \cup ByDevice(tok)

\* ORDER BY last_used_at DESC reads the index (player_id, last_used_at)
\* backwards: of two rows used at the same time the one inserted last comes first.
Newer(s, r) == s.used > r.used \/ (s.used = r.used /\ s.tok > r.tok)

\* issueDeviceToken: the first MaxDevices of that order stay.
Kept(ts, c) ==
  {r \in ts : r.char # c \/ Cardinality({s \in ts : s.char = c /\ Newer(s, r)}) < MaxDevices}

Issued(ts, c, tok, time) == Kept(ts \cup {[tok |-> tok, char |-> c, used |-> time]}, c)

\* A device token that comes with a hello is used now, whoever it ends up as.
Touched(ts, tok) == {IF r.tok = tok THEN [r EXCEPT !.used = clock] ELSE r : r \in ts}

\* resolveAuth issues a token for c, and handleHello runs unless the connection is dead.
IssueAndGreet(job, c, there) ==
  /\ issued' = issued + 1
  /\ LET ts == Issued(tokens, c, issued + 1, job.time)
     IN  tokens' = IF there THEN Touched(ts, job.bearer) ELSE ts

\* saveToken: the other tabs of the browser find it there too.
Saved(d, tok) == [e \in Device |-> IF \E b \in Browser : {d, e} \subseteq b THEN tok ELSE held[e]]

\* The welcome reaches the device, unless its connection is dead by then.
Handed(d, tok, there) ==
  /\ held' = IF there THEN Saved(d, tok) ELSE held
  /\ dead' = IF there /\ ~(\E r \in tokens' : r.tok = tok)
                      /\ ~(\E c \in DOMAIN character' : character'[c].anon = tok)
             THEN dead \cup {d} ELSE dead

\* Mutant: the anonymous token of a claimed character goes on working.
BuriedNot(c, n) == [character EXCEPT ![c].owner = n]

\* bindPlayerToAccount, buryPlayerToken: the row's token becomes one nobody knows.
Buried(c, n) == [character EXCEPT ![c] = [owner |-> n, anon |-> NoToken]]

\* handleHello for an account without a character: insert, bind, bury, issue.
\* The statements are no transaction: `failing` of them is the first to throw.
NewOwnCharacter(job) ==
  \E mayCreate \in BOOLEAN, failing \in 0..4 :
    /\ failing > 0 => failures < MaxFailures
    /\ failures' = IF failing > 0 THEN failures + 1 ELSE failures
    /\ IF ~mayCreate \/ failing = 1
       THEN /\ tokens' = Touched(tokens, job.bearer)
            /\ UNCHANGED <<character, held, issued, dead>>
       ELSE /\ Len(character) < MaxCharacters
            /\ issued' = issued + 2
            /\ character' = Append(character,
                 [owner |-> IF failing = 2 THEN NoOwner ELSE job.name,
                  anon |-> IF failing \in {2, 3} THEN issued + 1 ELSE NoToken])
            /\ IF failing = 0
               THEN /\ tokens' = Issued(Touched(tokens, job.bearer), Len(character'), issued + 2, clock)
                    /\ Handed(job.dev, issued + 2, TRUE)
               ELSE tokens' = Touched(tokens, job.bearer) /\ UNCHANGED <<held, dead>>
-----------------------------------------------------------------------------
(* resolveAuth *)

Attempt(d) ==
  /\ d \notin waits /\ attempts < MaxAttempts
  /\ attempts' = attempts + 1

Job(what, d, n) ==
  [what |-> what, id |-> attempts, dev |-> d, name |-> n, time |-> clock,
   secret |-> secret[n], bearer |-> held[d]]

\* register: refused at once when the name is known.
Register(d, n) ==
  /\ Attempt(d)
  /\ IF secret[n] # "none" THEN UNCHANGED <<waits, slots>>
     ELSE waits' = waits \cup {d} /\ Begin(Job("hash", d, n))
  /\ UNCHANGED <<rows, held, clock, issued, failures, founded, dead>>

\* login: an unknown name is checked against a dummy.
Login(d, n) ==
  /\ Attempt(d)
  /\ waits' = waits \cup {d} /\ Begin(Job("verify", d, n))
  /\ UNCHANGED <<rows, held, clock, issued, failures, founded, dead>>

Done(job) == job \in running /\ waits' = waits \ {job.dev} /\ UNCHANGED <<clock, attempts>>

\* The scrypt call or the transaction throws, or the password is wrong.
Refused(job) ==
  /\ job.what \in {"hash", "verify"} /\ Done(job) /\ End(job)
  /\ UNCHANGED <<rows, held, issued, failures, founded, dead>>

Claimable(tok) == {c \in ByAnon(tok) : character[c].owner = NoOwner}

\* UNIQUE (name_key) at the insert.
Taken(n) == secret[n] # "none"

Registered(job, there) ==
  /\ job.what = "hash" /\ Done(job) /\ End(job) /\ ~Taken(job.name)
  /\ secret' = [secret EXCEPT ![job.name] = "strong"]
  /\ founded' = [founded EXCEPT ![job.name] = @ + 1]
  /\ IF Claimable(job.bearer) # {}
     THEN LET c == Oldest(Claimable(job.bearer))
          IN  /\ character' = Buried(c, job.name)
              /\ IssueAndGreet(job, c, there)
              /\ Handed(job.dev, issued + 1, there) /\ UNCHANGED failures
     ELSE IF there THEN NewOwnCharacter(job)
     ELSE UNCHANGED <<character, tokens, held, issued, failures, dead>>

\* verifySecret: the secret it was given, read before the wait.
Stale(job) == job.secret = "stale"

\* The login writes back the secret it had read, and a stale one is hashed again.
LoggedIn(job, there) ==
  /\ job.what = "verify" /\ job.secret # "none" /\ Done(job)
  /\ secret' = [secret EXCEPT ![job.name] = job.secret]
  /\ IF Stale(job) THEN EndThen(job, [job EXCEPT !.what = "rehash"]) ELSE End(job)
  /\ IF CharactersOf(job.name) # {}
     THEN LET c == Oldest(CharactersOf(job.name))
          IN  /\ UNCHANGED <<character, failures>>
              /\ IssueAndGreet(job, c, there)
              /\ Handed(job.dev, issued + 1, there)
     ELSE IF there THEN NewOwnCharacter(job)
     ELSE UNCHANGED <<character, tokens, held, issued, failures, dead>>
  /\ UNCHANGED founded

Rehashed(job) ==
  /\ job \in running /\ job.what = "rehash" /\ End(job)
  /\ secret' = [secret EXCEPT ![job.name] = "strong"]
  /\ UNCHANGED <<character, tokens, held, waits, clock, issued, attempts, failures, founded, dead>>

\* The rehash throws: the login has succeeded all the same.
RehashFails(job) ==
  /\ job \in running /\ job.what = "rehash" /\ End(job) /\ failures < MaxFailures
  /\ failures' = failures + 1
  /\ UNCHANGED <<rows, held, waits, clock, issued, attempts, founded, dead>>

\* A hello without credentials: the row's own token first, a device token
\* second (a use of it is noted); a token that opens nothing makes a character.
Hello(d) ==
  /\ Attempt(d)
  /\ tokens' = Touched(tokens, held[d])
  /\ IF Opens(held[d]) # {} THEN UNCHANGED <<character, held, issued, dead>>
     ELSE \/ UNCHANGED <<character, held, issued, dead>>   \* mayCreate says no
          \/ /\ Len(character) < MaxCharacters
             /\ issued' = issued + 1
             /\ character' = Append(character, [owner |-> NoOwner, anon |-> issued + 1])
             /\ Handed(d, issued + 1, TRUE)
  /\ UNCHANGED <<secret, waits, slots, clock, failures, founded>>

Tick == clock < MaxClock /\ clock' = clock + 1
        /\ UNCHANGED <<rows, held, waits, slots, issued, attempts, failures, founded, dead>>
-----------------------------------------------------------------------------
Init ==
  /\ secret = [n \in Name |-> IF n \in Old THEN "stale" ELSE "none"]
  /\ character = SetToSeq({[owner |-> n, anon |-> NoToken] : n \in Old})
  /\ tokens = {} /\ held = [d \in Device |-> NoToken] /\ waits = {}
  /\ running = {} /\ waiting = <<>>
  /\ clock = 0 /\ issued = 0 /\ attempts = 0 /\ failures = 0
  /\ founded = [n \in Name |-> 0] /\ dead = {}

Next ==
  \/ \E d \in Device, n \in Name : Register(d, n) \/ Login(d, n)
  \/ \E d \in Device : Hello(d)
  \/ \E job \in running : Refused(job) \/ Rehashed(job) \/ RehashFails(job)
  \/ \E job \in running, there \in BOOLEAN : Registered(job, there) \/ LoggedIn(job, there)
  \/ Tick

Spec == Init /\ [][Next]_vars

\* scrypt ends, one way or the other.
Fairness == WF_vars(\E job \in running :
  Refused(job) \/ Rehashed(job) \/ \E there \in BOOLEAN : Registered(job, there) \/ LoggedIn(job, there))
LiveSpec == Spec /\ Fairness
-----------------------------------------------------------------------------
(* A device never holds a token of the future, rows name known owners, and *)
(* a character has at most MaxDevices device tokens.                       *)
TypeOK ==
  /\ secret \in [Name -> {"none", "stale", "strong"}]
  /\ \A c \in DOMAIN character : character[c].owner \in Name \cup {NoOwner} /\ character[c].anon \in 0..issued
  /\ held \in [Device -> 0..issued]
  /\ \A r \in tokens : r.char \in DOMAIN character /\ r.tok \in 1..issued
  /\ \A c \in DOMAIN character : Cardinality({r \in tokens : r.char = c}) <= MaxDevices

(* Two registrations of a name overlap in scrypt: one of them at most      *)
(* succeeds.                                                               *)
RegisteredOnce == \A n \in Name : founded[n] <= 1

(* Once a character belongs to an account no device can open it with the   *)
(* token it had before: only device tokens and the password do.            *)
OldTokensAreDead ==
  \A d \in Device : \A c \in ByAnon(held[d]) : character[c].owner = NoOwner

(* The limit on scrypt calls holds whatever fails or is started by another *)
(* one's end, and nobody waits while a slot is free.                       *)
SlotsAreUsed ==
  /\ Cardinality(running) <= Slots
  /\ waiting # <<>> => Cardinality(running) = Slots

(* An account has one character, however many logins find it without one   *)
(* and whichever statement fails.                                          *)
OneCharacterEach ==
  \A n \in Name : Cardinality({c \in DOMAIN character : character[c].owner = n}) <= 1

(* A device that waits has exactly one job, so it gets exactly one answer. *)
OneAnswerEach ==
  \A d \in waits :
    Cardinality({j \in running \cup ToSet(waiting) : j.dev = d /\ j.what # "rehash"}) = 1

(* Registrations and logins that overlap in scrypt leave one winner per name *)
(* and one character per account, and no anonymous token opens a character   *)
(* that belongs to an account (accounts.ts:91-145, handlers.ts:271).         *)
AccountsAreOwned == TypeOK /\ RegisteredOnce /\ OneCharacterEach /\ OldTokensAreDead

(* Nobody waits for scrypt while a slot is free, more than the slots never   *)
(* run, and who waits gets one answer (secret.ts:39).                        *)
WaitsAreAnswered == SlotsAreUsed /\ OneAnswerEach

(* A character never changes hands.                                        *)
BoundForGood ==
  [][\A c \in DOMAIN character :
       character[c].owner # NoOwner => character'[c].owner = character[c].owner]_vars

(* A login that overlaps with another one's rehash writes the old secret   *)
(* back; all the same, an account hashed anew ends up that way for good.   *)
StrongInTheEnd == \A n \in Name : (secret[n] = "strong") ~> [](secret[n] = "strong")

(* accounts.ts:26: beyond the limit the device tokens not used for longest *)
(* are evicted, so the one a welcome hands out, which is the newest of     *)
(* all, opens something.  It carries the time before scrypt, and a token   *)
(* another device uses meanwhile sorts before it.                          *)
WelcomeTokenWorks == dead = {}
=============================================================================
