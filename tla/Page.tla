-------------------------------- MODULE Page --------------------------------
(* The page: where it draws its player (Reconcile, "walk"), how it keeps   *)
(* its connection (ClientLink, "link"), and what its window offers (Menu,  *)
(* "window").  They share no state here; part says which of them moves.    *)
EXTENDS Reconcile

CONSTANTS Tab, Slot, MaxBreaks, MaxLogins
VARIABLES loaded, sock, ws, timer, allowRetry, pendingAuth, status, notice, greeted,
          token, linkUp, linkDown, peer, owner, asked, logins, breaks, doubled
CONSTANTS Listing, Skills, Healing, Items, Usable, Missions, Npcs, Topics, Mates, Rooms, Home,
          Guild, Lairs, Hall, Lines, Autos, MaxUp, MaxWire, MaxTurns
VARIABLES srv, orders, news, ui, log, mode, path, cursor, settings, auto, turns
VARIABLE part

linkVars == <<loaded, sock, ws, timer, allowRetry, pendingAuth, status, notice, greeted,
              token, linkUp, linkDown, peer, owner, asked, logins, breaks, doubled>>

Link == INSTANCE ClientLink WITH up <- linkUp, down <- linkDown
ASSUME LinkAssumption == Link!ClientLinkAssumption

windowVars == <<srv, orders, news, ui, log, mode, path, cursor, settings, auto, turns>>

Window == INSTANCE Menu WITH up <- orders, down <- news, Spawn <- Hall
ASSUME WindowAssumption == Window!MenuAssumption

PageInit ==
  /\ part \in {"walk", "link", "window"}
  /\ Init /\ Link!Init /\ Window!Init
  /\ part # "walk" => pos = Spawn
PageNext ==
  \/ part = "walk" /\ Next /\ UNCHANGED <<linkVars, windowVars, part>>
  \/ part = "link" /\ Link!Next /\ UNCHANGED <<vars, windowVars, part>>
  \/ part = "window" /\ Window!Next /\ UNCHANGED <<vars, linkVars, part>>
PageSpec == PageInit /\ [][PageNext]_<<vars, linkVars, windowVars, part>>
-----------------------------------------------------------------------------
(* Whenever the login form is sent: a tab has one socket at most, and one  *)
(* more for each login that met a connection under way (`doubled`); what   *)
(* it shows as live is live or about to end; without such a login it shows *)
(* its session; and the credentials are sent once (socket.ts, App.tsx).    *)
LinkIsTrue ==
  Link!TypeOK /\ Link!OneSocketPerTab /\ Link!StatusIsTrue /\ Link!CredentialsOnce

(* The server's reason for ending a connection is not overwritten by the   *)
(* close that follows it (App.tsx:77, store.ts:81).                        *)
ReasonStays == Link!ReasonStays

(* The window stands on a list that exists, whatever has vanished from the *)
(* facts while it was open, and while the settings cover it the arrows are *)
(* not its cursor's: the keyboard never wakes up in a menu nobody sees     *)
(* (App.tsx:45, 117).                                                      *)
WindowHasAList == Window!SettingsOwnKeys /\ Window!PathResolves

(* With nothing under way the window offers what the server would accept,  *)
(* and a dialogue is with somebody in the room shown (store.ts:105-219).   *)
WindowIsTrue == Window!QuietScreenIsTrue /\ Window!DialogueIsOfHere

(* What cannot be undone takes two choices (menu.ts:97).                   *)
IrreversibleTakesTwo == Window!IrreversibleTakesTwo
=============================================================================
