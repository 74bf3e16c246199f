-------------------------- MODULE CampaignSessions --------------------------
(***************************************************************************)
(* Who plays which campaign level: game/CampaignGameManager.ts, the        *)
(* campaign handlers of socket.ts and its disconnect handler, and of       *)
(* game/CampaignGame.ts what starts, pauses, leaves and ends a level.      *)
(*                                                                         *)
(*   mgr.map, mgr.key   sessions and playerSessions: key[p] is the level   *)
(*                   that p is looked up in                                *)
(*   mgr.game[s]     the level itself: its loop and its `finished` flag,   *)
(*                   and departedPlayers                                   *)
(*   mgr.robbed, mgr.revived   auxiliary: endSession took a key that named *)
(*                   another session; a level was started after its end    *)
(*   info[s]         what the level was made with, and by which tabs       *)
(*   sock[t]         a connection; "leaving" is its disconnect handler     *)
(*   active[t]       socket.data.activeCampaignSession                     *)
(*   starts[t]       a campaign:start of this tab, at its next await       *)
(*   ending[s]       onLevelComplete under way: it writes, then cleans up  *)
(*   crossed         auxiliary: a start or an end has told a tab that was  *)
(*                   gone or played another level by then                  *)
(*                                                                         *)
(* The second player of a local co-op level has an id of its own, invented *)
(* when the level starts; it is written here as the session.  The buddy of *)
(* buddy mode is such a player in a level that counts as solo, and nothing *)
(* tells the two apart.  Left out: what happens on the board, which is in  *)
(* CampaignLevel, which rooms hear a level, what is stored, and a second   *)
(* player of local co-op who has logged in.  Parties are external: who     *)
(* leads one of two does not change.                                       *)
(***************************************************************************)
EXTENDS Naturals, FiniteSets

CONSTANTS
  User,
  Tab, Owner,        \* connections, Owner \in [Tab -> User]
  Session, None,
  Kinds,             \* of levels: "solo", "coop", "local"
  Leader             \* users who lead a party of two

ASSUME CampaignAssumption ==
  /\ Owner \in [Tab -> User]
  /\ None \notin Session /\ None \notin Tab
  /\ User \cap Session = {}
  /\ Leader \subseteq User

VARIABLES mgr, info, sock, active, starts, ending, crossed

vars == <<mgr, info, sock, active, starts, ending, crossed>>

Holder == User \cup Session

Info == [kind : Kinds \cup {"none"}, users : SUBSET User, host : Tab \cup {None}, partner : Tab \cup {None}]

NoInfo == [kind |-> "none", users |-> {}, host |-> None, partner |-> None]

Game == [loop : {"off", "on", "paused"}, finished : BOOLEAN, departed : SUBSET Holder]

NewGame == [loop |-> "off", finished |-> FALSE, departed |-> {}]

Manager == [map : SUBSET Session, key : [Holder -> Session \cup {None}], game : [Session -> Game],
            robbed : BOOLEAN, revived : SUBSET Session]

Start == [at : {"idle", "load", "ready", "recording"}, kind : Kinds \cup {"none"},
          partner : Tab \cup {None}, session : Session \cup {None}]

NoStart == [at |-> "idle", kind |-> "none", partner |-> None, session |-> None]

TypeOK ==
  /\ mgr \in Manager
  /\ info \in [Session -> Info]
  /\ sock \in [Tab -> {"on", "leaving", "off"}]
  /\ active \in [Tab -> Session \cup {None}]
  /\ starts \in [Tab -> Start]
  /\ ending \in [Session -> {"no", "writing", "failed"}]
  /\ crossed \in BOOLEAN

Init ==
  /\ mgr = [map |-> {}, key |-> [p \in Holder |-> None], game |-> [s \in Session |-> NewGame],
            robbed |-> FALSE, revived |-> {}]
  /\ info = [s \in Session |-> NoInfo]
  /\ sock = [t \in Tab |-> "on"]
  /\ active = [t \in Tab |-> None]
  /\ starts = [t \in Tab |-> NoStart]
  /\ ending = [s \in Session |-> "no"]
  /\ crossed = FALSE

-----------------------------------------------------------------------------
(* The manager: each operator takes and returns it *)

\* userIds: the second player of a local level besides the users.
Players(s) == info[s].users \cup (IF info[s].kind = "local" THEN {s} ELSE {})

CoopMode(s) == info[s].kind \in {"coop", "local"}

\* Mutant: only the level the key names is looked after.
EndedKept(m, s) ==
  IF s \notin m.map THEN m
  ELSE [m EXCEPT !.map = @ \ {s},
                 !.game = [m.game EXCEPT ![s] = [loop |-> "off", finished |-> TRUE, departed |-> m.game[s].departed]]]

\* Mutant: the level is forgotten and its loop goes on.
EndedRunning(m, s) ==
  IF s \notin m.map THEN m
  ELSE [m EXCEPT !.map = @ \ {s},
                 !.key = [p \in Holder |-> IF p \in Players(s) THEN None ELSE m.key[p]],
                 !.robbed = m.robbed \/ \E p \in Players(s) : m.key[p] \notin {s, None}]

\* endSession: stops the level and frees whoever it began with, whatever
\* their key names by now.
Ended(m, s) ==
  IF s \notin m.map THEN m
  ELSE [m EXCEPT !.map = @ \ {s},
                 !.game = [m.game EXCEPT ![s] = [loop |-> "off", finished |-> TRUE, departed |-> m.game[s].departed]],
                 !.key = [p \in Holder |-> IF p \in Players(s) THEN None ELSE m.key[p]],
                 !.robbed = m.robbed \/ \E p \in Players(s) : m.key[p] \notin {s, None}]

\* A player is taken out of a level, which then runs on if it was paused.
Departed(g, p) == [g EXCEPT !.departed = @ \cup {p}, !.loop = IF g.loop = "paused" THEN "on" ELSE @]

\* Mutant: the level goes on with nobody to look it up.
RemovedOnly(m, s, p) ==
  IF s \notin m.map THEN m
  ELSE [m EXCEPT !.key = [m.key EXCEPT ![p] = None],
                      !.game = [m.game EXCEPT ![s] = Departed(m.game[s], p)]]

\* removePlayer: the level ends with its last player.
Removed(m, s, p) ==
  IF s \notin m.map THEN m
  ELSE LET left == [m EXCEPT !.key = [m.key EXCEPT ![p] = None],
                      !.game = [m.game EXCEPT ![s] = Departed(m.game[s], p)]]
       IN IF \E q \in Players(s) : left.key[q] = s THEN left ELSE Ended(left, s)

\* endSession for the session that p's key names, if any.
EndedFor(m, p) == IF m.key[p] = None THEN m ELSE Ended(m, m.key[p])

Registered(m, s, P) ==
  [m EXCEPT !.map = @ \cup {s}, !.key = [p \in Holder |-> IF p \in P THEN s ELSE m.key[p]],
            !.game = [m.game EXCEPT ![s] = NewGame]]

\* start() does not look whether the level has ended already.
Started(m, s) ==
  [m EXCEPT !.game = [m.game EXCEPT ![s].loop = IF @ = "off" THEN "on" ELSE @],
            !.revived = IF m.game[s].finished THEN @ \cup {s} ELSE @]

Running(s) == mgr.game[s].loop = "on" /\ ~mgr.game[s].finished

-----------------------------------------------------------------------------
(* campaign:start *)

\* The level this tab plays is ended at once; the rest waits for the level's data.
Begin(t, k) ==
  /\ sock[t] = "on"
  /\ starts[t] = NoStart
  /\ k = "coop" => Owner[t] \in Leader
  /\ mgr' = IF active[t] = None THEN mgr ELSE Ended(mgr, active[t])
  /\ active' = [active EXCEPT ![t] = None]
  /\ starts' = [starts EXCEPT ![t] = [at |-> "load", kind |-> k, partner |-> None, session |-> None]]
  /\ UNCHANGED <<info, sock, ending, crossed>>

\* An answer that refuses, or a read that fails.
Refuse(t) ==
  /\ starts[t].at \in {"load", "ready"}
  /\ starts' = [starts EXCEPT ![t] = NoStart]
  /\ UNCHANGED <<mgr, info, sock, active, ending, crossed>>

Partners(t) == {p \in Tab : Owner[p] # Owner[t] /\ sock[p] = "on"}

\* The party is read, and the first of the partner's tabs taken along.
FindPartner(t) ==
  /\ starts[t].at = "load"
  /\ starts[t].kind = "coop"
  /\ \E p \in Partners(t) :
       starts' = [starts EXCEPT ![t] = [at |-> "ready", kind |-> "coop", partner |-> p, session |-> None]]
  /\ UNCHANGED <<mgr, info, sock, active, ending, crossed>>

Users(t) == {Owner[p] : p \in {t, starts[t].partner} \ {None}}

\* Mutant: only whoever asked is taken out of the level they are in.
FreedOne(m, t) == EndedFor(m, Owner[t])

\* Whatever the users' keys name is ended, one user after the other.
Freed(m, t) ==
  LET own == EndedFor(m, Owner[t])
  IN IF starts[t].partner = None THEN own ELSE EndedFor(own, Owner[starts[t].partner])

\* startLevel: the level is registered, and not running yet.
StartLevel(t) ==
  LET st == starts[t] IN
  /\ st.at = IF st.kind = "coop" THEN "ready" ELSE "load"
  /\ \E s \in Session :
       /\ info[s] = NoInfo
       /\ info' = [info EXCEPT ![s] = [kind |-> st.kind, users |-> Users(t), host |-> t, partner |-> st.partner]]
       /\ mgr' = Registered(Freed(mgr, t), s, Users(t) \cup (IF st.kind = "local" THEN {s} ELSE {}))
       /\ starts' = [starts EXCEPT ![t] = [at |-> "recording", kind |-> st.kind, partner |-> st.partner, session |-> s]]
  /\ UNCHANGED <<sock, active, ending, crossed>>

Told(t) == [p \in Tab |-> IF p \in {t, starts[t].partner} THEN starts[t].session ELSE active[p]]

\* News of level s for tab p, which has gone or plays another one by now, or s has ended.
Late(p, s) == sock[p] # "on" \/ active[p] \in mgr.map \ {s} \/ s \notin mgr.map

\* Whether to record is known: the sockets are told, and the level starts.
Play(t) ==
  /\ starts[t].at = "recording"
  /\ active' = Told(t)
  /\ mgr' = Started(mgr, starts[t].session)
  /\ starts' = [starts EXCEPT ![t] = NoStart]
  /\ crossed' = (crossed \/ \E p \in {t, starts[t].partner} \ {None} : Late(p, starts[t].session))
  /\ UNCHANGED <<info, sock, ending>>

\* The settings could not be read: the level stays registered.
Stall(t) ==
  /\ starts[t].at = "recording"
  /\ starts' = [starts EXCEPT ![t] = NoStart]
  /\ UNCHANGED <<mgr, info, sock, active, ending, crossed>>

-----------------------------------------------------------------------------
(* While it is played *)

Steers(t, s) == sock[t] = "on" /\ active[t] = s /\ s \in mgr.map /\ ~mgr.game[s].finished

Pause(t) ==
  /\ \E s \in Session :
       /\ Steers(t, s) /\ mgr.game[s].loop = "on"
       /\ mgr' = [mgr EXCEPT !.game = [mgr.game EXCEPT ![s].loop = "paused"]]
  /\ UNCHANGED <<info, sock, active, starts, ending, crossed>>

Resume(t) ==
  /\ \E s \in Session :
       /\ Steers(t, s) /\ mgr.game[s].loop = "paused"
       /\ mgr' = [mgr EXCEPT !.game = [mgr.game EXCEPT ![s].loop = "on"]]
  /\ UNCHANGED <<info, sock, active, starts, ending, crossed>>

\* Quitting and dropping: a co-op level loses a player, any other ends.
Left(t) ==
  LET s == active[t] IN
  mgr' = IF s = None THEN mgr
         ELSE IF CoopMode(s) THEN Removed(mgr, s, Owner[t]) ELSE Ended(mgr, s)

Quit(t) ==
  /\ sock[t] = "on" /\ active[t] # None
  /\ Left(t)
  /\ active' = [active EXCEPT ![t] = None]
  /\ UNCHANGED <<info, sock, starts, ending, crossed>>

\* The handler awaits the room and the party before it looks at the campaign.
Drop(t) ==
  /\ sock[t] = "on"
  /\ sock' = [sock EXCEPT ![t] = "leaving"]
  /\ UNCHANGED <<mgr, info, active, starts, ending, crossed>>

\* Mutant: whoever drops is forgotten, and the level not told.
DisconnectSilent(t) ==
  /\ sock[t] = "leaving"
  /\ sock' = [sock EXCEPT ![t] = "off"]
  /\ active' = [active EXCEPT ![t] = None]
  /\ UNCHANGED <<mgr, info, starts, ending, crossed>>

Disconnect(t) ==
  /\ sock[t] = "leaving"
  /\ sock' = [sock EXCEPT ![t] = "off"]
  /\ Left(t)
  /\ active' = [active EXCEPT ![t] = None]
  /\ UNCHANGED <<info, starts, ending, crossed>>

-----------------------------------------------------------------------------
(* The end of a level *)

Over(m, s) == [m EXCEPT !.game = [m.game EXCEPT ![s].finished = TRUE, ![s].loop = "off"]]

\* The tabs it was made for are told nothing more, whatever they play by now.
Untold(s) == [t \in Tab |-> IF t \in {info[s].host, info[s].partner} THEN None ELSE active[t]]

Cross(s) == crossed' = (crossed \/ \E t \in Tab : active[t] # Untold(s)[t] /\ active[t] \in mgr.map \ {s})

GameOver(s) ==
  /\ Running(s)
  /\ mgr' = Ended(Over(mgr, s), s)
  /\ active' = Untold(s)
  /\ Cross(s)
  /\ UNCHANGED <<info, sock, starts, ending>>

\* Whoever is still there has the result written first.
Complete(s) ==
  /\ Running(s)
  /\ mgr' = Over(mgr, s)
  /\ ending' = [ending EXCEPT ![s] = "writing"]
  /\ UNCHANGED <<info, sock, active, starts, crossed>>

CleanUp(s) ==
  /\ ending[s] = "writing"
  /\ ending' = [ending EXCEPT ![s] = "no"]
  /\ active' = Untold(s)
  /\ mgr' = Ended(mgr, s)
  /\ Cross(s)
  /\ UNCHANGED <<info, sock, starts>>

\* recordCompletion throws: what follows it does not happen.
WriteFails(s) ==
  /\ ending[s] = "writing"
  /\ ~info[s].users \subseteq mgr.game[s].departed
  /\ ending' = [ending EXCEPT ![s] = "failed"]
  /\ UNCHANGED <<mgr, info, sock, active, starts, crossed>>

-----------------------------------------------------------------------------
Next ==
  \/ \E t \in Tab, k \in Kinds : Begin(t, k)
  \/ \E t \in Tab : Refuse(t) \/ FindPartner(t) \/ StartLevel(t) \/ Play(t) \/ Stall(t)
  \/ \E t \in Tab : Pause(t) \/ Resume(t) \/ Quit(t) \/ Drop(t) \/ Disconnect(t)
  \/ \E s \in Session : GameOver(s) \/ Complete(s) \/ CleanUp(s) \/ WriteFails(s)

Spec == Init /\ [][Next]_vars

-----------------------------------------------------------------------------
(* Properties *)

\* Who is looked up in a level is one of its players and has not left it,
\* and the level has not been ended: an answer of getPlayerSession is a level.
KeysNameSessions ==
  \A p \in Holder : mgr.key[p] # None =>
    LET s == mgr.key[p] IN s \in mgr.map /\ p \in Players(s) \ mgr.game[s].departed

\* A loop that runs is one the manager can stop, unless it was started
\* after its end.
LoopsAreManaged ==
  \A s \in Session : mgr.game[s].loop # "off" => s \in mgr.map \/ s \in mgr.revived

Plays(u, s) == s \in mgr.map /\ u \in info[s].users \ mgr.game[s].departed

\* Nobody plays two levels, whoever starts, quits, leaves or is taken along
\* in between, unless another level's end has taken their key.
OneLevelEach ==
  ~mgr.robbed => \A u \in User, s, z \in Session : Plays(u, s) /\ Plays(u, z) => s = z

\* A level with nobody left is ended, but for one whose second player has no
\* connection of its own to leave with.
SomebodyPlays ==
  ~mgr.robbed => \A s \in mgr.map : info[s].kind # "local" => \E u \in User : Plays(u, s)

\* A level that goes on has a tab that can steer, pause and quit it, unless
\* a start or an end has told a tab that was gone or played another level.
SomebodySteers ==
  ~mgr.robbed /\ ~crossed => \A s \in mgr.map : info[s].kind # "local" /\ mgr.game[s].loop # "off" =>
    \E t \in Tab : active[t] = s /\ sock[t] # "off" /\ Plays(Owner[t], s)

\* What docs/campaign.md says: starting a new level ends the existing one.
\* Here for the levels one client plays alone.
OneLevelPerClient ==
  \A s, z \in mgr.map : info[s].host = info[z].host /\ {info[s].kind, info[z].kind} \subseteq {"solo", "local"} => s = z
=============================================================================
