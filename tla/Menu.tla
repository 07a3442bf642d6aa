-------------------------------- MODULE Menu --------------------------------
(* The command window (client/input/menu.ts, App.tsx and the parts of      *)
(* state/store.ts it is built from) on a live link.  The menu is a pure    *)
(* function of the client's facts, rebuilt at every render; the facts      *)
(* arrive in order, and late, from a server that goes on changing.  A step *)
(* of the page is one event with its render and its effects.               *)
EXTENDS Integers, FiniteSets, SequencesExt

CONSTANTS
  Listing,        \* everything that can be listed, in the order it is listed
  Skills, Healing, Items, Usable, Missions, Npcs, Topics, Mates, Rooms,
  Home,         \* Home[n] : the room of NPC n
  Guild,        \* the NPCs that register and promote
  Lairs,        \* the rooms in which an enemy lives
  Spawn,
  Lines,        \* the lines the log is followed for: those of a room, "revived"
  Autos,        \* the values the auto-battle setting may have (localStorage)
  MaxUp, MaxWire,  \* bounds: actions and messages under way
  MaxTurns      \* bound: changes of the world

MenuAssumption ==
  /\ Healing \subseteq Skills /\ Usable \subseteq Items /\ Guild \subseteq Npcs
  /\ Home \in [Npcs -> Rooms] /\ Lairs \subseteq Rooms /\ Spawn \in Rooms /\ Lines \subseteq Rooms \cup {"revived"}
  /\ Autos \subseteq BOOLEAN
  /\ MaxUp \in Nat /\ MaxWire \in Nat /\ MaxTurns \in Nat
  /\ Listing \in Seq(ToSet(Listing)) /\ IsInjective(Listing)
  /\ Skills \cup Items \cup Missions \cup Npcs \cup Topics \cup Mates \subseteq ToSet(Listing)

NoAct == <<>>
NoTalk == [npc |-> NoAct]
NoLine == "-"

VARIABLES
  srv,         \* the character and its surroundings on the server
  up, down,    \* actions and messages under way
  ui,          \* UiState, as far as the menu reads it
  log,         \* the rooms the lines in the log speak of, and "revived"
  mode, path, cursor, settings, auto,   \* App's own state
  turns        \* counter for the bound

page == <<mode, path, cursor, settings, auto>>
vars == <<srv, up, down, ui, log, page, turns>>

\* The members of S in the order they are listed.
Listed(S) ==
  LET at == {i \in DOMAIN Listing : Listing[i] \in S}
  IN [n \in 1 .. Cardinality(at) |-> Listing[CHOOSE i \in at : Cardinality({j \in at : j <= i}) = n]]
Min2(a, b) == IF a < b THEN a ELSE b
Max2(a, b) == IF a > b THEN a ELSE b
-----------------------------------------------------------------------------
(* rootItems: what can be done now.  A leaf has an action or hands the     *)
(* keyboard to the text field; a node opens a list, which may be empty.    *)

Leaf(id, act) == [id |-> id, act |-> act, opens |-> FALSE, sub |-> <<>>, off |-> FALSE]
Node(id, act, sub) == [Leaf(id, act) EXCEPT !.opens = TRUE, !.sub = sub]
Greyed(item, cond) == [item EXCEPT !.off = cond]
Each(S, F(_)) == LET list == Listed(S) IN [i \in DOMAIN list |-> F(list[i])]
If(cond, list) == IF cond THEN list ELSE <<>>

SkillItem(u, s) ==
  LET targets == IF s \in Healing THEN u.allies ELSE {}
      at(p) == Leaf(<<"at", p>>, <<"skill", s, p>>)
  IN Greyed(IF targets = {} THEN Leaf(<<"skill", s>>, <<"skill", s, "self">>)
            ELSE Node(<<"skill", s>>, NoAct,
                   <<Leaf(<<"self">>, <<"skill", s, "self">>)>> \o Each(targets, at)),
            s \in u.cool)

FightItem(u) ==
  LET skill(s) == SkillItem(u, s)
      list == <<Leaf(<<"attack">>, <<"attack">>)>>
                \o If(u.fight # "none", Each(Skills, skill))
                \o If(u.fight = "on", <<Leaf(<<"stop">>, <<"stop">>)>>)
  IN IF Len(list) = 1 THEN Leaf(<<"fight">>, <<"attack">>) ELSE Node(<<"fight">>, NoAct, list)

TalkList(u, n) ==
  LET topic(t) == Leaf(<<"topic", t>>, <<"ask", n, t>>)
      mission(m) == Greyed(Leaf(<<"mission", m>>,
                                <<IF u.talk.offers[m] = "complete" THEN "turn_in" ELSE "accept", n, m>>),
                           u.talk.offers[m] = "taken")
  IN IF u.talk = NoTalk \/ u.talk.npc # n THEN <<>>
     ELSE Each(u.talk.topics, topic) \o Each(DOMAIN u.talk.offers, mission)
            \o If(n \in Guild, <<Leaf(<<"promote">>, <<"promote", n>>)>>)

\* Mutant: a bag of one item is folded, as a lone "attack" is.
BagItemFolded(u) ==
  LET item(i) == Greyed(Leaf(<<"item", i>>, <<"use_item", i>>), i \notin Usable)
      list == Each(u.bag, item)
  IN IF Len(list) = 1 THEN [list[1] EXCEPT !.id = <<"bag">>] ELSE Node(<<"bag">>, NoAct, list)

BagItem(u) ==
  LET item(i) == Greyed(Leaf(<<"item", i>>, <<"use_item", i>>), i \notin Usable)
  IN Node(<<"bag">>, NoAct, Each(u.bag, item))

GiveItem(u) ==
  LET gift(p, i) == Leaf(<<"give", p, i>>, <<"give", p, i>>)
      to(p) == LET item(i) == gift(p, i) IN Node(<<"to", p>>, NoAct, Each(u.bag, item))
  IN Node(<<"give">>, NoAct, Each(u.mates, to))

JournalItem(u) ==
  LET entry(m) == Node(<<"j", m>>, NoAct,
                       <<Greyed(Leaf(<<"jb", m>>, NoAct), TRUE), Leaf(<<"jd", m>>, <<"abandon", m>>)>>)
  IN Node(<<"journal">>, NoAct, Each(DOMAIN u.journal, entry))

NpcsOf(r) == {n \in Npcs : Home[n] = r}

RootItems(u) ==
  LET npc(n) == Node(<<"npc", n>>, <<"talk", n>>, TalkList(u, n))
  IN <<Leaf(<<"look">>, <<"look">>)>>
       \o If(u.fight # "none" \/ u.foe, <<FightItem(u)>>)
       \o If(NpcsOf(u.room) # {}, <<Node(<<"talk">>, NoAct, Each(NpcsOf(u.room), npc))>>)
       \o If(u.bag # {}, <<BagItem(u)>>)
       \o If(u.mates # {} /\ u.bag # {}, <<GiveItem(u)>>)
       \o If(DOMAIN u.journal # {}, <<JournalItem(u)>>)
       \o <<Leaf(<<"say">>, <<"focus">>)>>

\* resolve: the set of the list the path leads to; empty when a branch is gone.
Below(lists, seg) == {it.sub : it \in {i \in UNION {ToSet(l) : l \in lists} : i.id = seg /\ i.opens}}
Resolve(root, way) ==
  LET at[n \in 0 .. Len(way)] == IF n = 0 THEN {root} ELSE Below(at[n - 1], way[n]) IN at[Len(way)]

MenuOf(u, way) ==
  LET found == Resolve(RootItems(u), way)
  IN IF found = {} THEN RootItems(u) ELSE CHOOSE l \in found : TRUE
Menu == MenuOf(ui, path)
Shown(list, c) == Min2(c, Max2(0, Len(list) - 1))

MoveCursor(list, from, delta) ==
  LET at(n) == (from + delta * n) % Len(list)
      open == {n \in 1 .. Len(list) : ~ list[at(n) + 1].off}
  IN IF list = <<>> THEN 0
     ELSE IF open = {} THEN from
     ELSE at(CHOOSE n \in open : \A k \in open : n <= k)
-----------------------------------------------------------------------------
(* The server.  srv.slot is the one order a fighter may have waiting, with *)
(* `by` (history): who chose it, a hand or the auto-battle timer.          *)

Msg(t, set) == [t |-> t, set |-> set, line |-> NoLine]
Said(line) == [t |-> "log", set |-> <<>>, line |-> line]
NoOrder == [act |-> NoAct, by |-> "hand"]
Here(s) == {p \in Mates : s.at[p] = s.pos}
RoomPart(s) == [room |-> s.pos, foe |-> s.pos \in s.foes, mates |-> Here(s)]
FightPart(s) == [fight |-> s.fight, slot |-> s.slot.act, cool |-> s.cool, allies |-> s.allies]
MissionPart(s) ==
  [journal |-> [m \in {x \in Missions : s.mission[x] \in {"taken", "complete"}} |-> s.mission[m]]]
\* The screen of a page that has been told everything.
Facts(s, talk) ==
  [room |-> s.pos, foe |-> s.pos \in s.foes, mates |-> Here(s),
   fight |-> s.fight, slot |-> s.slot.act, cool |-> s.cool, allies |-> s.allies,
   journal |-> MissionPart(s).journal, bag |-> s.bag, talk |-> talk]
Describe(s) == Msg("room.describe", RoomPart(s))
Update(s) == Msg("combat.update", FightPart(s))
Offers(s, n) ==
  Msg("npc.dialogue", [talk |->
    [npc |-> n, topics |-> s.topics,
     offers |-> [m \in {x \in Missions : s.mission[x] # "gone"} |-> s.mission[m]]]])

\* combat.leave and endCombat.
Left(s) == [s EXCEPT !.fight = "none", !.slot = NoOrder, !.allies = {}]
EndOf(s) == If(s.fight # "none", <<Msg("combat.end", FightPart(Left(s)))>>)

Order1(s, act, by) == [s EXCEPT !.slot = [act |-> act, by |-> by], !.fight = "on"]

\* What the server does with an action: the new state and what it tells.
Handled(s, a, by) ==
  LET refused == {<<s, <<>>>>}
      spent(i) == [s EXCEPT !.bag = @ \ {i}]
      told(t, msgs) == {<<t, msgs>>}
      verb == a[1]
  IN CASE verb \in {"look", "describe"} -> told(s, <<[Describe(s) EXCEPT !.line = s.pos]>>)
       [] verb = "move" ->
            LET t == [Left(s) EXCEPT !.pos = a[2]]
            IN refused \cup told(t, EndOf(s) \o <<[Describe(t) EXCEPT !.line = t.pos]>>)
       [] verb = "attack" ->
            IF s.fallen \/ s.pos \notin s.foes \/ s.fight = "on" THEN refused
            ELSE IF s.fight = "idle" THEN LET t == [s EXCEPT !.fight = "on"] IN told(t, <<Update(t)>>)
            ELSE {<<t, <<Msg("combat.start", FightPart(t))>>>> :
                     t \in {[s EXCEPT !.fight = "on", !.allies = f] : f \in SUBSET Here(s)}}
       [] verb = "skill" ->
            IF s.fallen \/ s.fight = "none" \/ a[2] \in s.cool
                 \/ (a[3] # "self" /\ (a[2] \notin Healing \/ a[3] \notin s.allies)) THEN refused
            ELSE LET t == Order1(s, a, by) IN told(t, <<Update(t)>>)
       [] verb = "stop" ->
            IF s.fight = "none" THEN refused
            ELSE LET t == [s EXCEPT !.fight = "idle", !.slot = NoOrder] IN told(t, <<Update(t)>>)
       [] verb = "use_item" ->
            IF a[2] \notin s.bag \cap Usable THEN refused
            ELSE IF s.fight # "on" THEN told(spent(a[2]), <<Msg("items", [bag |-> spent(a[2]).bag])>>)
            ELSE IF s.fallen THEN refused
            ELSE LET t == Order1(s, a, by) IN told(t, <<Update(t)>>)
       [] verb = "give" ->
            IF a[2] \notin Here(s) \/ a[3] \notin s.bag THEN refused
            ELSE refused \cup told(spent(a[3]), <<Msg("items", [bag |-> spent(a[3]).bag])>>)
       [] verb = "talk" -> IF Home[a[2]] # s.pos THEN refused ELSE told(s, <<Offers(s, a[2])>>)
       [] verb = "ask" ->
            IF Home[a[2]] # s.pos \/ a[3] \notin s.topics THEN refused ELSE told(s, <<Offers(s, a[2])>>)
       [] verb \in {"accept", "turn_in"} ->
            LET t == [s EXCEPT !.mission[a[3]] = IF verb = "accept" THEN "taken" ELSE "gone"]
            IN IF Home[a[2]] # s.pos \/ s.mission[a[3]] # (IF verb = "accept" THEN "open" ELSE "complete")
               THEN refused ELSE refused \cup told(t, <<Msg("missions", MissionPart(t))>>)
       [] verb = "abandon" ->
            LET t == [s EXCEPT !.mission[a[2]] = "open"]
            IN IF s.mission[a[2]] \notin {"taken", "complete"} THEN refused
               ELSE told(t, <<Msg("missions", MissionPart(t))>>)
       [] OTHER -> refused    \* say, yell, promote: told in lines only

Serve ==
  /\ up # <<>> /\ up' = Tail(up)
  /\ \E out \in Handled(srv, Head(up).act, Head(up).by) :
       /\ srv' = out[1] /\ down' = down \o out[2]
       /\ Len(down') <= MaxWire
  /\ UNCHANGED <<ui, log, page, turns>>

\* Something happens to the character or around it, and the server tells it.
Happens(t, msgs) ==
  /\ turns < MaxTurns /\ turns' = turns + 1
  /\ srv' = t /\ down' = down \o msgs
  /\ Len(down') <= MaxWire
  /\ UNCHANGED <<up, ui, log, page>>

\* tick: the order waiting is carried out.  Its skill cools, its item is spent.
Swing ==
  /\ srv.fight = "on" /\ ~ srv.fallen
  /\ LET a == srv.slot.act
         t == [srv EXCEPT !.slot = NoOrder,
                          !.cool = IF a # NoAct /\ a[1] = "skill" THEN @ \cup {a[2]} ELSE @,
                          !.bag = IF a # NoAct /\ a[1] = "use_item" THEN @ \ {a[2]} ELSE @]
     IN Happens(t, If(t.bag # srv.bag, <<Msg("items", [bag |-> t.bag])>>) \o <<Update(t)>>)
\* A cooldown runs out; the next swing of the fight shows it.
Cools == srv.fight # "none" /\ \E s \in srv.cool :
  LET t == [srv EXCEPT !.cool = @ \ {s}] IN Happens(t, <<Update(t)>>)

\* By its own swing, or by that of another who is there, if it has a fight or not.
Victory ==
  /\ srv.pos \in srv.foes /\ (srv.fight = "on" \/ Here(srv) # {})
  /\ LET t == [Left(srv) EXCEPT !.foes = @ \ {srv.pos}] IN Happens(t, EndOf(srv) \o <<Describe(t)>>)
EnemyReturns == \E r \in Lairs \ srv.foes :
  LET t == [srv EXCEPT !.foes = @ \cup {r}] IN Happens(t, If(r = srv.pos, <<Describe(t)>>))
Defeat == srv.fight # "none" /\ LET t == [Left(srv) EXCEPT !.fallen = TRUE] IN Happens(t, EndOf(srv))
Revive ==
  /\ srv.fallen
  /\ LET t == [srv EXCEPT !.fallen = FALSE, !.pos = Spawn]
     IN Happens(t, <<Said("revived"), [Describe(t) EXCEPT !.line = Spawn]>>)

\* Mutant: the leaving of a room is not told.
MateMovesUntold == \E p \in Mates : \E r \in Rooms \ {srv.at[p]} :
  LET t == [srv EXCEPT !.at[p] = r, !.allies = srv.allies \ {p}]
  IN Happens(t, If(p \in srv.allies, <<Update(t)>>)
                  \o If(r = srv.pos, <<Msg("room.enter", [who |-> p])>>))
MateMoves == \E p \in Mates : \E r \in Rooms \ {srv.at[p]} :
  LET t == [srv EXCEPT !.at[p] = r, !.allies = srv.allies \ {p}]
  IN Happens(t, If(p \in srv.allies, <<Update(t)>>)
                  \o (IF r = srv.pos THEN <<Msg("room.enter", [who |-> p])>>
                      ELSE If(p \in Here(srv), <<Msg("room.leave", [who |-> p])>>)))
AllyJoins == srv.fight # "none" /\ \E p \in Here(srv) \ srv.allies :
  LET t == [srv EXCEPT !.allies = @ \cup {p}] IN Happens(t, <<Update(t)>>)
Progress == \E m \in Missions : srv.mission[m] = "taken" /\
  LET t == [srv EXCEPT !.mission[m] = "complete"] IN Happens(t, <<Msg("missions", MissionPart(t))>>)
TopicOpens == \E x \in Topics \ srv.topics : Happens([srv EXCEPT !.topics = @ \cup {x}], <<>>)

\* The link breaks and is made again; a fallen character is revived by the hello.
Reconnect ==
  LET t == IF srv.fallen THEN [srv EXCEPT !.fallen = FALSE, !.pos = Spawn] ELSE srv
  IN /\ turns < MaxTurns /\ turns' = turns + 1
     /\ srv' = t /\ up' = <<>>
     /\ down' = <<[Msg("snapshot", Facts(t, NoTalk)) EXCEPT !.line = t.pos]>>
     /\ UNCHANGED <<ui, log, page>>
-----------------------------------------------------------------------------
(* The page *)

KeepDialogue(d, room) == IF d # NoTalk /\ Home[d.npc] = room THEN d ELSE NoTalk

\* reduce: the facts u after a message.
WithFight(u, x) == [u EXCEPT !.fight = x.fight, !.slot = x.slot, !.cool = x.cool, !.allies = x.allies]
Reduced(u, m) ==
  LET x == m.set
  IN CASE m.t = "snapshot" -> [x EXCEPT !.talk = KeepDialogue(u.talk, x.room)]
       [] m.t = "room.describe" ->
            [u EXCEPT !.room = x.room, !.foe = x.foe, !.mates = x.mates, !.talk = KeepDialogue(@, x.room)]
       [] m.t = "room.enter" -> [u EXCEPT !.mates = @ \cup {x.who}]
       [] m.t = "room.leave" -> [u EXCEPT !.mates = @ \ {x.who}]
       [] m.t \in {"combat.start", "combat.end"} -> WithFight(u, x)
       [] m.t = "combat.update" -> IF u.fight = "none" THEN u ELSE WithFight(u, x)
       [] m.t = "items" -> [u EXCEPT !.bag = x.bag]
       [] m.t = "missions" -> [u EXCEPT !.journal = x.journal]
       [] m.t = "npc.dialogue" -> [u EXCEPT !.talk = x.talk]
       [] m.t = "log" -> u

LogAfter(m) ==
  (IF m.t = "room.describe" /\ m.set.room # ui.room THEN {} ELSE log) \cup ({m.line} \cap Lines)

\* Mutant: a path that has lost a branch is kept.
FallBackNever(u) == UNCHANGED <<path, cursor>>
\* The effect after the render: a path that has lost a branch goes back to the top.
FallBack(u) ==
  IF Resolve(RootItems(u), path) = {} THEN path' = <<>> /\ cursor' = 0
  ELSE UNCHANGED <<path, cursor>>

Read ==
  /\ down # <<>> /\ down' = Tail(down)
  /\ ui' = Reduced(ui, Head(down)) /\ log' = LogAfter(Head(down))
  /\ FallBack(ui')
  /\ UNCHANGED <<srv, up, mode, settings, auto, turns>>

\* act: everything the page sends goes through here.
Act(a, by) ==
  IF a = NoAct \/ a[1] = "focus" THEN up' = up
  ELSE Len(up) < MaxUp /\ up' = Append(up, [act |-> a, by |-> by])

\* activate: item i of the list shown, in a window that is then in mode m.
Activate(list, i, m) ==
  IF i >= Len(list) \/ list[i + 1].off
  THEN mode' = m /\ UNCHANGED <<path, cursor, up>>
  ELSE LET it == list[i + 1]
       IN /\ Act(it.act, "hand")
          /\ path' = IF it.opens THEN Append(path, it.id) ELSE path
          /\ cursor' = IF it.opens THEN 0 ELSE i
          /\ mode' = IF it.act # NoAct /\ it.act[1] = "focus" THEN "field" ELSE m

outside == <<srv, down, ui, log, turns>>
Keys(m) == ~ settings /\ mode = m

Open == Keys("field") /\ mode' = "menu" /\ path' = <<>> /\ cursor' = 0
        /\ UNCHANGED <<outside, up, settings, auto>>
Up == Keys("menu") /\ cursor' = MoveCursor(Menu, cursor, -1)
      /\ UNCHANGED <<outside, up, mode, path, settings, auto>>
Down == Keys("menu") /\ cursor' = MoveCursor(Menu, cursor, 1)
        /\ UNCHANGED <<outside, up, mode, path, settings, auto>>
Enter == Keys("menu") /\ (LET list == Menu IN Activate(list, Shown(list, cursor), "menu"))
         /\ UNCHANGED <<outside, settings, auto>>
\* Escape, the left arrow, and the button of the window.
Back ==
  /\ ~ settings /\ (mode = "menu" \/ path # <<>>)
  /\ cursor' = 0
  /\ IF path = <<>> THEN mode' = "field" /\ path' = path ELSE path' = Front(path) /\ mode' = mode
  /\ UNCHANGED <<outside, up, settings, auto>>
\* A click opens the window where it is and activates; the pointer moves the cursor.
Click == ~ settings /\ LET list == Menu IN \E i \in DOMAIN list :
  ~ list[i].off /\ Activate(list, i - 1, "menu") /\ UNCHANGED <<outside, settings, auto>>
Hover == ~ settings /\ LET list == Menu IN \E i \in DOMAIN list :
  ~ list[i].off /\ cursor' = i - 1 /\ UNCHANGED <<outside, up, mode, path, settings, auto>>

\* Arrow keys in the field, the D-pad, the minimap and the swipe.
Walk == ~ settings /\ (\E r \in Rooms \ {ui.room} : Act(<<"move", r>>, "hand"))
        /\ UNCHANGED <<outside, page>>
Glance == Keys("field") /\ Act(<<"look">>, "hand") /\ UNCHANGED <<outside, page>>

\* parse, for the kinds of text that differ; what is not a command is sent as it is.
Parse(text) ==
  CASE text = "look" -> <<"look">>
    [] text = "say hello" -> <<"say">>
    [] OTHER -> <<"unparsed">>
Submit == ~ settings /\ (\E text \in {"look", "say hello", "say"} : Act(Parse(text), "hand"))
          /\ UNCHANGED <<outside, page>>

OpenSettings == ~ settings /\ settings' = TRUE /\ mode' = "field"
                /\ UNCHANGED <<outside, up, path, cursor, auto>>
CloseSettings == settings /\ settings' = FALSE /\ mode' = "field"
                 /\ UNCHANGED <<outside, up, path, cursor, auto>>
ToggleAuto == settings /\ auto' \in Autos \ {auto}
              /\ UNCHANGED <<outside, up, mode, path, cursor, settings>>

\* nextAutoSkill: the first skill that does not cool, while no order is shown.
AutoTick ==
  /\ auto /\ ui.fight = "on" /\ ui.slot = NoAct
  /\ Skills \ ui.cool # {}
  /\ Act(<<"skill", Head(Listed(Skills \ ui.cool)), "self">>, "auto")
  /\ UNCHANGED <<outside, page>>

Init ==
  /\ \E foes \in SUBSET Lairs, at \in [Mates -> Rooms], bag \in SUBSET Items, cool \in SUBSET Skills :
       srv = [pos |-> Spawn, foes |-> foes, at |-> at, bag |-> bag, fallen |-> FALSE,
              mission |-> [m \in Missions |-> "open"], topics |-> {},
              fight |-> "none", slot |-> NoOrder, cool |-> cool, allies |-> {}]
  /\ ui = Facts(srv, NoTalk)
  /\ up = <<>> /\ down = <<>> /\ log = {Spawn} \cap Lines
  /\ mode = "field" /\ path = <<>> /\ cursor = 0 /\ settings = FALSE /\ auto \in Autos
  /\ turns = 0

ServerNext == Serve \/ Swing \/ Cools \/ Victory \/ EnemyReturns \/ Defeat \/ Revive
              \/ MateMoves \/ AllyJoins \/ Progress \/ TopicOpens \/ Reconnect
PageNext == Read \/ Open \/ Up \/ Down \/ Enter \/ Back \/ Click \/ Hover \/ Walk \/ Glance
            \/ Submit \/ OpenSettings \/ CloseSettings \/ ToggleAuto \/ AutoTick
Next == ServerNext \/ PageNext
Spec == Init /\ [][Next]_vars
-----------------------------------------------------------------------------
(* Properties *)

\* The client's facts, its window and the server's state have their types.
TypeOK ==
  /\ ui.room \in Rooms /\ ui.foe \in BOOLEAN /\ ui.mates \subseteq Mates
  /\ ui.fight \in {"none", "idle", "on"} /\ ui.cool \subseteq Skills /\ ui.allies \subseteq Mates
  /\ ui.bag \subseteq Items /\ DOMAIN ui.journal \subseteq Missions
  /\ (ui.talk = NoTalk \/ ui.talk.npc \in Npcs)
  /\ srv.pos \in Rooms /\ srv.bag \subseteq Items /\ srv.allies \subseteq Here(srv)
  /\ mode \in {"field", "menu"} /\ settings \in BOOLEAN /\ auto \in BOOLEAN
  /\ Len(path) <= 3 /\ cursor \in 0 .. Len(Listing) + 5
  /\ Len(up) <= MaxUp /\ Len(down) <= MaxWire

\* menu.ts: the window stands on a list that exists, whatever has vanished
\* from the facts while it was open (App.tsx:117, the path goes back to the top).
PathResolves == Resolve(RootItems(ui), path) # {}

\* An open dialogue is with an NPC of the room on the screen, although the
\* answer of the server and the next room travel one after the other.
DialogueIsOfHere == ui.talk # NoTalk => Home[ui.talk.npc] = ui.room

\* With nothing under way the window offers what the server would accept:
\* every change of the character and its room has been told.
QuietScreenIsTrue ==
  up = <<>> /\ down = <<>> => ui = [Facts(srv, ui.talk) EXCEPT !.cool = ui.cool]

\* While the settings cover the screen the arrows are never the cursor's
\* (App.tsx:45): otherwise the keyboard wakes up in a menu nobody sees.
SettingsOwnKeys == settings => mode = "field"

\* menu.ts:97: drinking and giving cannot be undone, so no single choice at
\* the top of the window ever sends them, however short the lists get.
IrreversibleTakesTwo ==
  [][Len(up') > Len(up) /\ Last(up').act[1] \in {"use_item", "give"} => path # <<>>]_vars

\* menu.ts:21: an item keeps its id "so that the cursor stays": the cursor
\* stays on the item it is on while that item is still in the list.
CursorStays ==
  [][LET old == Menu
         new == MenuOf(ui', path')
         item == old[Shown(old, cursor) + 1].id
     IN (ui' # ui /\ path' = path /\ old # <<>> /\ \E i \in DOMAIN new : new[i].id = item)
          => new[Shown(new, cursor') + 1].id = item]_vars

\* menu.ts:31: the cursor skips what is disabled; so does the first place it
\* is put in when a list is entered, unless all of the list is disabled.
EnterSkipsDisabled ==
  [][LET new == MenuOf(ui', path')
     IN Len(path') > Len(path) /\ (\E i \in DOMAIN new : ~ new[i].off)
          => ~ new[Shown(new, cursor') + 1].off]_vars

\* App.tsx:135: the timer never replaces an order a hand has chosen.
AutoNeverOverrides ==
  [][srv.slot.act # NoAct /\ srv.slot.by = "hand" => srv'.slot.by = "hand"]_vars

\* prefs.ts:59: the timer does nothing for somebody who has disengaged: only
\* a hand takes a fighter who has stopped back into the fight.
StopStays == [][srv.fight = "idle" /\ srv'.fight = "on" => srv'.slot.by = "hand"]_vars

\* store.ts:149: a description that comes with a revival does not clear the
\* log: the line that tells of it is still there when the new room is shown.
RevivalLineStays == [][("revived" \in log /\ "revived" \notin log') => ui.room = Spawn]_vars

\* store.ts:137: the log only has lines of the room on the screen.
LogIsOfThisRoom == log \subseteq {ui.room, "revived"}
=============================================================================
