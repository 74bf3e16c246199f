----------------------------- MODULE RoomSession -----------------------------
(***************************************************************************)
(* The room handlers of one server process: backend/src/socket.ts with     *)
(* game/RoomManager.ts and the life of a game/GameRoom.ts, over the Redis  *)
(* keys of RoomStore.                                                      *)
(*                                                                         *)
(* JavaScript runs to the next await without interruption, so an action is *)
(* one such stretch.  A stretch that awaits Redis ends by issuing its      *)
(* command: one connection carries them all, so commands take effect and   *)
(* replies come back in the order of issue.  `wire` is the queue of what   *)
(* the handlers do when their replies arrive; only its head can go on,     *)
(* while new requests, timers, loop ticks and database answers come in     *)
(* between.  What waits for the database is in the phase of its match.     *)
(*                                                                         *)
(*   sock[t]      a browser tab's socket: connects once, drops once        *)
(*   active[t]    socket.data.activeRoomCode                               *)
(*   joined[t]    the socket rooms room:<code> it is in                    *)
(*   parting[t]   the room the tab's disconnect handler is to give up      *)
(*                (roomCode, unless roomHeldElsewhere) once it has left    *)
(*                the party: how many awaits that takes is the party's     *)
(*                affair, here any number                                  *)
(*   games[g]     the GameRoom objects made so far                         *)
(*   managed[c]   RoomManager.rooms                                        *)
(*   votes[c]     rematchVotes                                             *)
(*   budget       requests still to come, from MaxRequests down            *)
(*   hurried, cut   auxiliary: who asked for something, or closed the tab, *)
(*                while a request of that tab was under way                *)
(*   putBack, reopened   auxiliary: the players a reset has put back into  *)
(*                a room they had left, and the rooms it has reopened that *)
(*                were not finished any more                               *)
(*   astray       auxiliary: who was let into a room while in another, or  *)
(*                on the way into it, or was away when a reset brought the *)
(*                room back                                                *)
(*                                                                         *)
(* Left out: failures of Redis and the database, teams, presence, what     *)
(* parties do, what happens on the board.  createRoom cuts its code out of *)
(* a UUID and does not look whether a room has it (services/lobby.ts 23):  *)
(* here a code is made once (`minted`), as it is but for one in 2^24.      *)
(***************************************************************************)
EXTENDS RoomStore, Sequences

CONSTANTS
  Tab,          \* browser tabs
  Owner,        \* [Tab -> User]
  Game,         \* GameRoom objects that may be made
  NoGame,
  HasBots,      \* config.botCount > 0
  Kinds,        \* the kinds of request and event a run includes
  MaxRequests   \* bound on the number of requests

ASSUME RoomSessionAssumption ==
  /\ Owner \in [Tab -> User]
  /\ NoGame \notin Game
  /\ MaxRequests \in Nat
  /\ HasBots \in BOOLEAN

VARIABLES minted, sock, active, joined, parting, games, managed, votes, wire, budget, hurried, cut, putBack, reopened, astray

tabVars == <<sock, active, joined, parting>>
gameVars == <<games, managed, votes>>
asks == <<budget, hurried, cut>>
marks == <<putBack, reopened, astray>>
vars == <<storeVars, minted, tabVars, gameVars, wire, asks, marks>>

MaybeRoom == Room \cup {NoRoom}
MaybeCode == Code \cup {NoCode}

\* What a handler does next, and what it remembers until then.
Frame ==
  [at : {"cleanup", "cleaned"}, kind : {"create", "join"}, tab : Tab, code : MaybeCode, seen : MaybeCode]
    \cup [at : {"createMapping", "createIndex", "enter", "left"}, tab : Tab, code : Code]
    \cup [at : {"checkStart", "restart", "voteYes", "voteNo"}, tab : Tab, code : Code, copy : MaybeRoom]
    \cup [at : {"started"}, code : Code, copy : Room]
    \cup [at : {"setCallbacks"}, game : Game]
    \cup [at : {"restoreParty"}, tab : Tab]
    \cup [at : {"restoreRoom", "lookup"}, tab : Tab, seen : MaybeCode]
    \cup [at : {"kicked"}, user : User, code : Code]
    \cup [at : {"closed"}, tabs : SUBSET Tab, code : Code]
    \cup [at : {"deleteKeys"}, code : Code, copy : MaybeRoom]
    \cup [at : {"deleteIndex"}, code : Code]

\* "loading" waits for the custom map, "starting" for the match record,
\* "saving" for the results; "running" is gameLoop.isRunning().
Match == [phase : {"unmade", "loading", "starting", "running", "saving", "stopped"},
          code : MaybeCode, players : SUBSET User, alive : SUBSET User,
          grace : SUBSET User,      \* disconnectedPlayers
          departed : SUBSET User,   \* departedHumans
          fast : BOOLEAN,           \* at BOT_ONLY_TICK_RATE
          hides : BOOLEAN]          \* setBotsOnlyCallback has run

Unmade == [phase |-> "unmade", code |-> NoCode, players |-> {}, alive |-> {}, grace |-> {},
           departed |-> {}, fast |-> FALSE, hides |-> FALSE]

\* humanPlayerIds, who has voted, who voted yes
Ballot == [ids : SUBSET User, cast : SUBSET User, yes : SUBSET User]

NoVote == [ids |-> {}, cast |-> {}, yes |-> {}]

TypeOK ==
  /\ StoreTypeOK
  /\ minted \in SUBSET Code
  /\ sock \in [Tab -> {"new", "on", "gone"}]
  /\ active \in [Tab -> MaybeCode]
  /\ joined \in [Tab -> SUBSET Code]
  /\ parting \in [Tab -> MaybeCode]
  /\ games \in [Game -> Match]
  /\ managed \in [Code -> Game \cup {NoGame}]
  /\ votes \in [Code -> Ballot]
  /\ wire \in Seq(Frame)
  /\ budget \in 0 .. MaxRequests
  /\ hurried \in SUBSET User /\ cut \in SUBSET User
  /\ putBack \in SUBSET User /\ reopened \in SUBSET Code /\ astray \in SUBSET User

Init ==
  /\ StoreInit
  /\ minted = {}
  /\ sock = [t \in Tab |-> "new"]
  /\ active = [t \in Tab |-> NoCode]
  /\ joined = [t \in Tab |-> {}]
  /\ parting = [t \in Tab |-> NoCode]
  /\ games = [g \in Game |-> Unmade]
  /\ managed = [c \in Code |-> NoGame]
  /\ votes = [c \in Code |-> NoVote]
  /\ wire = <<>>
  /\ budget = MaxRequests
  /\ hurried = {} /\ cut = {}
  /\ putBack = {} /\ reopened = {} /\ astray = {}

-----------------------------------------------------------------------------
(* Requests and replies *)

Spend(kind) ==
  /\ kind \in Kinds
  /\ budget > 0
  /\ budget' = budget - 1

Asking(t) ==
  \E i \in DOMAIN wire :
    /\ wire[i].at \notin {"started", "setCallbacks", "restoreParty", "restoreRoom", "lookup",
                          "kicked", "closed", "deleteKeys", "deleteIndex"}
    /\ wire[i].tab = t

\* A request is handled whether or not the tab's last one is still under way.
Ask(t, kind) ==
  /\ sock[t] = "on"
  /\ Spend(kind)
  /\ hurried' = IF Asking(t) THEN hurried \cup {Owner[t]} ELSE hurried
  /\ UNCHANGED cut

Pending(steps, c) == \E i \in DOMAIN wire : wire[i].at \in steps /\ wire[i].code = c

\* Others learn a code from the index or from createRoom's answer.
Known(c) == c \in minted /\ ~Pending({"createMapping", "createIndex"}, c)

Issue(frame) == wire' = Append(wire, frame)

\* The reply that the frame at the head of the wire waits for arrives.
Reply == Head(wire)
Resumes(step) == wire # <<>> /\ Reply.at = step

Return == wire' = Tail(wire)
Then(frame) == wire' = Append(Tail(wire), frame)

-----------------------------------------------------------------------------
(* Tabs, GameRoom and RoomManager as the handlers use them *)

Others(t) == {s \in Tab \ {t} : Owner[s] = Owner[t] /\ sock[s] = "on"}

SeatedIn(u, c) == \E t \in Tab : Owner[t] = u /\ sock[t] = "on" /\ active[t] = c

\* Another connected tab of the same user sits in room c.
HeldElsewhere(t, c) == \E s \in Others(t) : active[s] = c

Managed(c) == managed[c] # NoGame

Running(c) == Managed(c) /\ games[managed[c]].phase = "running"

\* handlePlayerDisconnect: only somebody alive gets a grace period.
Dropped(m, u) == IF u \in m.alive THEN [m EXCEPT !.grace = @ \cup {u}] ELSE m

\* A human gone for good: killPlayer, departedHumans, checkBotOnlySpeedup.
Departed(m, u) ==
  LET left == [m EXCEPT !.grace = @ \ {u}, !.alive = @ \ {u},
                        !.departed = @ \cup ({u} \cap m.players)] IN
  [left EXCEPT !.fast = @ \/ (m.phase = "running" /\ left.alive \subseteq left.departed)]

\* handlePlayerReconnect
Returned(m, u) ==
  [m EXCEPT !.departed = @ \ {u}, !.grace = IF u \in m.alive THEN @ \ {u} ELSE @]

\* onBotsOnly runs deleteRoom up to its GET when the match speeds up.
Hiding(m, after) ==
  IF after.fast /\ ~m.fast /\ m.hides
  THEN <<[at |-> "deleteKeys", code |-> m.code, copy |-> rooms[m.code]]>>
  ELSE <<>>

\* gameRoom?.handlePlayerLeave(u), then the leave script and its frame.
LeaveFor(c, u, frame) ==
  LET m == games[managed[c]]
      after == Departed(m, u)  IN
  /\ LeaveScript(c, {u})
  /\ IF Managed(c)
     THEN /\ games' = [games EXCEPT ![managed[c]] = after]
          /\ wire' = wire \o Hiding(m, after) \o <<frame>>
     ELSE /\ Issue(frame)
          /\ UNCHANGED games

\* if (gameRoom?.isRunning()) handlePlayerDisconnect(u)
DropFromMatch(c, u) ==
  games' = IF Running(c) THEN [games EXCEPT ![managed[c]] = Dropped(@, u)] ELSE games

\* removeRoom: stop the loop if it runs, forget the object.
RemoveGame(c) ==
  /\ games' = IF Running(c) THEN [games EXCEPT ![managed[c]].phase = "stopped"] ELSE games
  /\ managed' = [managed EXCEPT ![c] = NoGame]

\* Only who has voted is taken out of the tally on leaving.
WithoutVoter(b, u) ==
  IF u \notin b.cast THEN b
  ELSE IF b.ids = {u} THEN NoVote
  ELSE [ids |-> b.ids \ {u}, cast |-> b.cast \ {u}, yes |-> b.yes \ {u}]

ForgetVotes(u) == votes' = [c \in Code |-> WithoutVoter(votes[c], u)]

-----------------------------------------------------------------------------
(* room:create and room:join *)

\* Bound: a room is asked for, a match started, while a code or a match is left.
Count(test(_)) == Cardinality({i \in DOMAIN wire : test(wire[i])})
CodeLeft == Count(LAMBDA f : f.at \in {"cleanup", "cleaned"} /\ f.kind = "create") < Cardinality(Code \ minted)
GameLeft ==
  Count(LAMBDA f : f.at \in {"checkStart", "started"})
    < Cardinality({g \in Game : games[g].phase = "unmade"})

\* cleanupStaleRoom starts with the player's mapping.
AskCreate(t) ==
  /\ CodeLeft
  /\ Ask(t, "create")
  /\ Issue([at |-> "cleanup", kind |-> "create", tab |-> t, code |-> NoCode,
            seen |-> playerRoom[Owner[t]]])
  /\ UNCHANGED <<storeVars, minted, marks, tabVars, gameVars>>

AskJoin(t, c) ==
  /\ Ask(t, "join")
  /\ Known(c)
  /\ Issue([at |-> "cleanup", kind |-> "join", tab |-> t, code |-> c,
            seen |-> playerRoom[Owner[t]]])
  /\ UNCHANGED <<storeVars, minted, marks, tabVars, gameVars>>

RefuseElsewhere ==
  /\ Resumes("cleanup")
  /\ Reply.seen # NoCode
  /\ HeldElsewhere(Reply.tab, Reply.seen)
  /\ Return
  /\ UNCHANGED <<storeVars, minted, marks, tabVars, gameVars, asks>>

\* Mutant: the old room is left only in the match, not in the store.
LeaveStaleKeepSeat ==
  /\ Resumes("cleanup")
  /\ Reply.seen # NoCode
  /\ ~HeldElsewhere(Reply.tab, Reply.seen)
  /\ DropFromMatch(Reply.seen, Owner[Reply.tab])
  /\ Then([Reply EXCEPT !.at = "cleaned"])
  /\ UNCHANGED <<storeVars, minted, marks, tabVars, managed, votes, asks>>

LeaveStale ==
  LET u == Owner[Reply.tab]  IN
  /\ Resumes("cleanup")
  /\ Reply.seen # NoCode
  /\ ~HeldElsewhere(Reply.tab, Reply.seen)
  /\ DropFromMatch(Reply.seen, u)
  /\ LeaveScript(Reply.seen, {u})
  /\ Then([Reply EXCEPT !.at = "cleaned"])
  /\ UNCHANGED <<minted, marks, tabVars, managed, votes, asks>>

CleanedUp(kind) ==
  /\ Resumes("cleaned") \/ (Resumes("cleanup") /\ Reply.seen = NoCode)
  /\ Reply.kind = kind
  /\ joined' = [joined EXCEPT ![Reply.tab] = @ \ {Reply.seen}]

Players(c) == IF Exists(c) THEN rooms[c].players ELSE {}

\* Let into room c, and not seated yet.
OnTheWay(u, c) ==
  \E i \in DOMAIN wire :
    wire[i].at \in {"createMapping", "createIndex", "enter"} /\ Owner[wire[i].tab] = u /\ wire[i].code = c

\* The user is let into room c: in another one, or on the way into it, too?
LetIn(u, c) ==
  /\ astray' = IF \E d \in Code \ {c} : u \in Players(d) \/ OnTheWay(u, d) THEN astray \cup {u} ELSE astray
  /\ UNCHANGED <<putBack, reopened>>

CreateRoom(c) ==
  /\ CleanedUp("create")
  /\ c \notin minted
  /\ minted' = minted \cup {c}
  /\ SetRoom(c, NewRoom(Owner[Reply.tab]))
  /\ Then([at |-> "createMapping", tab |-> Reply.tab, code |-> c])
  /\ LetIn(Owner[Reply.tab], c)
  /\ UNCHANGED <<sock, parting, active, gameVars, asks>>

CreateMapping ==
  /\ Resumes("createMapping")
  /\ SetPlayerRoom(Owner[Reply.tab], Reply.code)
  /\ Then([Reply EXCEPT !.at = "createIndex"])
  /\ UNCHANGED <<minted, marks, tabVars, gameVars, asks>>

CreateIndex ==
  /\ Resumes("createIndex")
  /\ AddToIndex(Reply.code)
  /\ Then([Reply EXCEPT !.at = "enter"])
  /\ UNCHANGED <<minted, marks, tabVars, gameVars, asks>>

JoinRoom ==
  /\ CleanedUp("join")
  /\ \/ /\ JoinScript(Reply.code, Owner[Reply.tab])
        /\ Then([at |-> "enter", tab |-> Reply.tab, code |-> Reply.code])
        /\ LetIn(Owner[Reply.tab], Reply.code)
     \/ /\ ~CanJoin(Reply.code, Owner[Reply.tab])
        /\ Return
        /\ UNCHANGED <<storeVars, marks>>
  /\ UNCHANGED <<minted, sock, parting, active, gameVars, asks>>

\* Both end by seating the socket, connected or not.
Enter ==
  /\ Resumes("enter")
  /\ active' = [active EXCEPT ![Reply.tab] = Reply.code]
  /\ joined' = [joined EXCEPT ![Reply.tab] = @ \cup {Reply.code}]
  /\ Return
  /\ UNCHANGED <<storeVars, minted, marks, sock, parting, gameVars, asks>>

-----------------------------------------------------------------------------
(* room:leave and room:ready *)

AskLeave(t) ==
  /\ Ask(t, "leave")
  /\ active[t] # NoCode
  /\ LeaveFor(active[t], Owner[t], [at |-> "left", tab |-> t, code |-> active[t]])
  /\ UNCHANGED <<minted, marks, tabVars, managed, votes>>

Left ==
  /\ Resumes("left")
  /\ active' = [active EXCEPT ![Reply.tab] = NoCode]
  /\ joined' = [joined EXCEPT ![Reply.tab] = @ \ {Reply.code}]
  /\ ForgetVotes(Owner[Reply.tab])
  /\ Return
  /\ UNCHANGED <<storeVars, minted, marks, sock, parting, games, managed, asks>>

AskReady(t, b) ==
  /\ Ask(t, "ready")
  /\ active[t] # NoCode
  /\ ReadyScript(active[t], Owner[t], b)
  /\ UNCHANGED <<minted, marks, tabVars, gameVars, wire>>

-----------------------------------------------------------------------------
(* room:start *)

\* room:start, room:restart and rematch:vote begin with getRoom.
AskAbout(t, kind, step) ==
  /\ Ask(t, kind)
  /\ active[t] # NoCode
  /\ Issue([at |-> step, tab |-> t, code |-> active[t], copy |-> rooms[active[t]]])
  /\ UNCHANGED <<storeVars, minted, marks, tabVars, gameVars>>

AskStart(t) == GameLeft /\ AskAbout(t, "start", "checkStart")

MayStart ==
  LET r == Reply.copy  IN
  /\ r # NoRoom
  /\ r.host = Owner[Reply.tab]
  /\ r.players \ {r.host} \subseteq r.ready
  /\ Cardinality(r.players) >= 2 \/ HasBots
  /\ ~Managed(Reply.code)

\* The checks look at the copy; the script compares only the status.
CheckStart ==
  /\ Resumes("checkStart")
  /\ \/ /\ MayStart
        /\ StartScript(Reply.code)
        /\ Then([at |-> "started", code |-> Reply.code, copy |-> rooms'[Reply.code]])
     \/ /\ ~(MayStart /\ CanStart(Reply.code))
        /\ Return
        /\ UNCHANGED storeVars
  /\ UNCHANGED <<minted, marks, tabVars, gameVars, asks>>

MatchOf(phase, c, players) ==
  [Unmade EXCEPT !.phase = phase, !.code = c, !.players = players, !.alive = players]

\* createGame: RoomManager.rooms.set, then start() up to its first INSERT.
CreateGame(g) ==
  /\ Resumes("started")
  /\ games[g].phase = "unmade"
  /\ games' = [games EXCEPT ![g] = MatchOf("starting", Reply.code, Reply.copy.players)]
  /\ managed' = [managed EXCEPT ![Reply.code] = g]
  /\ Return
  /\ UNCHANGED <<storeVars, minted, marks, tabVars, votes, asks>>

\* With a custom map the map is read first.
LoadMap(g) ==
  /\ "map" \in Kinds
  /\ Resumes("started")
  /\ games[g].phase = "unmade"
  /\ games' = [games EXCEPT ![g] = MatchOf("loading", Reply.code, Reply.copy.players)]
  /\ Return
  /\ UNCHANGED <<storeVars, minted, marks, tabVars, managed, votes, asks>>

MapLoaded(g) ==
  /\ games[g].phase = "loading"
  /\ games' = [games EXCEPT ![g].phase = "starting"]
  /\ managed' = [managed EXCEPT ![games[g].code] = g]
  /\ UNCHANGED <<storeVars, minted, marks, tabVars, votes, wire, asks>>

\* Mutant: the status is not taken back.
MapMissingKeepStatus(g) ==
  /\ games[g].phase = "loading"
  /\ games' = [games EXCEPT ![g].phase = "stopped"]
  /\ UNCHANGED <<storeVars, minted, marks, tabVars, managed, votes, wire, asks>>

\* The map is gone: back to waiting, if this start's countdown still stands.
MapMissing(g) ==
  /\ games[g].phase = "loading"
  /\ games' = [games EXCEPT ![g].phase = "stopped"]
  /\ StatusScript(games[g].code, "waiting", {"countdown"})
  /\ UNCHANGED <<minted, marks, tabVars, managed, votes, wire, asks>>

StartLoop(g) ==
  /\ games[g].phase = "starting"
  /\ games' = [games EXCEPT ![g].phase = "running"]
  /\ StatusScript(games[g].code, "playing", Status)
  /\ Issue([at |-> "setCallbacks", game |-> g])
  /\ UNCHANGED <<minted, marks, tabVars, managed, votes, asks>>

SetCallbacks ==
  /\ Resumes("setCallbacks")
  /\ games' = [games EXCEPT ![Reply.game].hides = TRUE]
  /\ Return
  /\ UNCHANGED <<storeVars, minted, marks, tabVars, managed, votes, asks>>

-----------------------------------------------------------------------------
(* room:restart and rematch:vote *)

AskRestart(t) == AskAbout(t, "restart", "restart")

Finished(c) == Exists(c) /\ rooms[c].status = "finished"

\* Clear the votes, drop the finished match, write the reset copy back, as it
\* was read: who left meanwhile is in it, and the room may have gone on or be
\* closed.
ResetRoom ==
  LET c == Reply.code IN
  /\ votes' = [votes EXCEPT ![c] = NoVote]
  /\ RemoveGame(c)
  /\ SetRoom(c, Reset(Reply.copy))
  /\ putBack' = putBack \cup (Reply.copy.players \ Players(c))
  /\ reopened' = IF Finished(c) THEN reopened ELSE reopened \cup {c}
  /\ astray' = astray \cup {u \in Reply.copy.players : ~SeatedIn(u, c)}

CopyFinished == Reply.copy # NoRoom /\ Reply.copy.status = "finished"

\* Alone in the room; with other humans it takes a vote.
Restart ==
  LET may == CopyFinished /\ Reply.copy.players = {Owner[Reply.tab]}  IN
  /\ Resumes("restart")
  /\ IF may THEN ResetRoom ELSE UNCHANGED <<storeVars, gameVars, marks>>
  /\ Return
  /\ UNCHANGED <<minted, tabVars, asks>>

AskVote(t, yes) == AskAbout(t, "vote", IF yes THEN "voteYes" ELSE "voteNo")

\* The room's ballot, or a new one for the players in the copy.
OpenBallot ==
  IF votes[Reply.code] # NoVote THEN votes[Reply.code]
  ELSE [NoVote EXCEPT !.ids = Reply.copy.players]

Tally ==
  LET u == Owner[Reply.tab]  IN
  IF u \notin OpenBallot.ids THEN OpenBallot
  ELSE [OpenBallot EXCEPT !.cast = @ \cup {u},
                          !.yes = IF Reply.at = "voteYes" THEN @ \cup {u} ELSE @ \ {u}]

Carried(b) == Cardinality(b.yes) >= (Cardinality(b.ids) \div 2) + 1

Vote ==
  LET won == CopyFinished /\ Owner[Reply.tab] \in Tally.ids /\ Carried(Tally)  IN
  /\ Resumes("voteYes") \/ Resumes("voteNo")
  /\ IF won THEN ResetRoom
     ELSE /\ votes' = IF CopyFinished THEN [votes EXCEPT ![Reply.code] = Tally] ELSE votes
          /\ UNCHANGED <<storeVars, games, managed, marks>>
  /\ Return
  /\ UNCHANGED <<minted, tabVars, asks>>

\* REMATCH_VOTE_TIMEOUT_MS
VoteTimeout(c) ==
  /\ votes[c] # NoVote
  /\ votes' = [votes EXCEPT ![c] = NoVote]
  /\ UNCHANGED <<storeVars, minted, marks, tabVars, games, managed, wire, asks>>

-----------------------------------------------------------------------------
(* admin:kick and admin:closeRoom *)

InSocketRoom(c) == {t \in Tab : sock[t] = "on" /\ c \in joined[t]}

\* The sockets ts forget room c.
Evict(ts, c) ==
  /\ joined' = [t \in Tab |-> IF t \in ts THEN joined[t] \ {c} ELSE joined[t]]
  /\ active' = [t \in Tab |-> IF t \in ts /\ active[t] = c THEN NoCode ELSE active[t]]

AskKick(c, u) ==
  /\ Known(c)
  /\ Spend("kick")
  /\ UNCHANGED <<hurried, cut>>
  /\ LeaveFor(c, u, [at |-> "kicked", user |-> u, code |-> c])
  /\ UNCHANGED <<minted, marks, tabVars, managed, votes>>

Kicked ==
  /\ Resumes("kicked")
  /\ Evict({t \in InSocketRoom(Reply.code) : Owner[t] = Reply.user}, Reply.code)
  /\ Return
  /\ UNCHANGED <<storeVars, minted, marks, sock, parting, gameVars, asks>>

\* One leave script per socket in the room, all issued before one is awaited.
AskClose(c) ==
  /\ Known(c)
  /\ Spend("close")
  /\ UNCHANGED <<hurried, cut>>
  /\ LeaveScript(c, {Owner[t] : t \in InSocketRoom(c)})
  /\ Issue([at |-> "closed", tabs |-> InSocketRoom(c), code |-> c])
  /\ UNCHANGED <<minted, marks, tabVars, gameVars>>

\* The sockets, the votes, the match, then deleteRoom with its GET.
Closed ==
  /\ Resumes("closed")
  /\ Evict(Reply.tabs, Reply.code)
  /\ votes' = [votes EXCEPT ![Reply.code] = NoVote]
  /\ RemoveGame(Reply.code)
  /\ Then([at |-> "deleteKeys", code |-> Reply.code, copy |-> rooms[Reply.code]])
  /\ UNCHANGED <<storeVars, minted, marks, sock, parting, asks>>

\* deleteRoom, for an admin or for a match that only bots still play.
DeleteRoomKeys ==
  /\ Resumes("deleteKeys")
  /\ DeleteKeys(Reply.code, IF Reply.copy = NoRoom THEN {} ELSE Reply.copy.players)
  /\ Then([at |-> "deleteIndex", code |-> Reply.code])
  /\ UNCHANGED <<minted, marks, tabVars, gameVars, asks>>

DeleteRoomIndex ==
  /\ Resumes("deleteIndex")
  /\ RemoveFromIndex({Reply.code})
  /\ Return
  /\ UNCHANGED <<minted, marks, tabVars, gameVars, asks>>

-----------------------------------------------------------------------------
(* connection with restoreSession, and disconnect *)

\* restoreSession reads the party first, then the room.
Connect(t) ==
  /\ sock[t] = "new"
  /\ sock' = [sock EXCEPT ![t] = "on"]
  /\ Issue([at |-> "restoreParty", tab |-> t])
  /\ UNCHANGED <<storeVars, minted, marks, active, joined, parting, gameVars, asks>>

RestoreParty ==
  /\ Resumes("restoreParty")
  /\ Then([at |-> "restoreRoom", tab |-> Reply.tab, seen |-> playerRoom[Owner[Reply.tab]]])
  /\ UNCHANGED <<storeVars, minted, marks, tabVars, gameVars, asks>>

InGrace(c, u) == c # NoCode /\ Running(c) /\ u \in games[managed[c]].grace

RestoreRoom ==
  LET t == Reply.tab
      c == Reply.seen  IN
  /\ Resumes("restoreRoom")
  /\ IF InGrace(c, Owner[t])
     THEN /\ active' = [active EXCEPT ![t] = c]
          /\ joined' = [joined EXCEPT ![t] = @ \cup {c}]
          /\ games' = [games EXCEPT ![managed[c]] = Returned(@, Owner[t])]
     ELSE UNCHANGED <<active, joined, games>>
  /\ Return
  /\ UNCHANGED <<storeVars, minted, marks, sock, parting, managed, votes, asks>>

GoOffline(t) ==
  /\ Spend("drop")
  /\ sock[t] = "on"
  /\ sock' = [sock EXCEPT ![t] = "gone"]
  /\ active' = [active EXCEPT ![t] = NoCode]
  /\ joined' = [joined EXCEPT ![t] = {}]
  /\ cut' = IF Asking(t) THEN cut \cup {Owner[t]} ELSE cut
  /\ UNCHANGED <<storeVars, minted, marks, games, managed, hurried>>

\* Mutant: only the last tab of a user gives its room up.
DropSeatedIfLast(t) ==
  /\ active[t] # NoCode
  /\ GoOffline(t)
  /\ IF Others(t) # {}
     THEN UNCHANGED <<parting, votes>>
     ELSE ForgetVotes(Owner[t]) /\ parting' = [parting EXCEPT ![t] = active[t]]
  /\ UNCHANGED wire

\* Seated: its room is to be given up, unless another tab of the user holds it
\* now.
DropSeated(t) ==
  LET c == active[t]  IN
  /\ c # NoCode
  /\ GoOffline(t)
  /\ IF HeldElsewhere(t, c)
     THEN UNCHANGED <<parting, votes>>
     ELSE ForgetVotes(Owner[t]) /\ parting' = [parting EXCEPT ![t] = c]
  /\ UNCHANGED wire

\* Not seated: the last tab looks the mapping up.
DropUnseated(t) ==
  /\ active[t] = NoCode
  /\ GoOffline(t)
  /\ IF Others(t) = {}
     THEN /\ Issue([at |-> "lookup", tab |-> t, seen |-> playerRoom[Owner[t]]])
          /\ UNCHANGED votes
     ELSE ForgetVotes(Owner[t]) /\ UNCHANGED wire
  /\ UNCHANGED parting

DropLookup ==
  /\ Resumes("lookup")
  /\ ForgetVotes(Owner[Reply.tab])
  /\ parting' = [parting EXCEPT ![Reply.tab] = Reply.seen]
  /\ Return
  /\ UNCHANGED <<storeVars, minted, marks, sock, active, joined, games, managed, asks>>

\* The end of the disconnect handler, after handlePartyDisconnect: whatever
\* has become of the room and of the user's other tabs, a grace period if the
\* match runs, the seat in the room if not.
GiveUp(t) ==
  LET c == parting[t]  IN
  /\ c # NoCode
  /\ parting' = [parting EXCEPT ![t] = NoCode]
  /\ IF Running(c) THEN DropFromMatch(c, Owner[t]) /\ UNCHANGED storeVars
                   ELSE LeaveScript(c, {Owner[t]}) /\ UNCHANGED games
  /\ UNCHANGED <<minted, marks, sock, active, joined, managed, votes, wire, asks>>

-----------------------------------------------------------------------------
(* The match, from its loop *)

PlayerDies(g, u) ==
  /\ "die" \in Kinds
  /\ games[g].phase = "running"
  /\ u \in games[g].alive
  /\ games' = [games EXCEPT ![g].alive = @ \ {u}]
  /\ UNCHANGED <<storeVars, minted, marks, tabVars, managed, votes, wire, asks>>

GraceExpires(g, u) ==
  LET after == Departed(games[g], u)  IN
  /\ games[g].phase = "running"
  /\ u \in games[g].grace
  /\ games' = [games EXCEPT ![g] = after]
  /\ wire' = wire \o Hiding(games[g], after)
  /\ UNCHANGED <<storeVars, minted, marks, tabVars, managed, votes, asks>>

\* The loop stops itself; onGameOver saves the results, then marks the room.
GameOver(g) ==
  /\ games[g].phase = "running"
  /\ games' = [games EXCEPT ![g].phase = "saving"]
  /\ UNCHANGED <<storeVars, minted, marks, tabVars, managed, votes, wire, asks>>

\* Mutant: a compare-and-set with the status of before the match.
MarkFinishedExpecting(g) ==
  /\ games[g].phase = "saving"
  /\ games' = [games EXCEPT ![g].phase = "stopped"]
  /\ StatusScript(games[g].code, "finished", {"countdown"})
  /\ UNCHANGED <<minted, marks, tabVars, managed, votes, wire, asks>>

MarkFinished(g) ==
  /\ games[g].phase = "saving"
  /\ games' = [games EXCEPT ![g].phase = "stopped"]
  /\ StatusScript(games[g].code, "finished", Status)
  /\ UNCHANGED <<minted, marks, tabVars, managed, votes, wire, asks>>

\* RoomManager.cleanup, every 30 s: whatever is not running is dropped.
Reap ==
  /\ "reap" \in Kinds
  /\ \E c \in Code : Managed(c) /\ ~Running(c)
  /\ managed' = [c \in Code |-> IF Running(c) THEN managed[c] ELSE NoGame]
  /\ UNCHANGED <<storeVars, minted, marks, tabVars, games, votes, wire, asks>>

ExpireMapping(u) ==
  /\ Spend("expire")
  /\ UNCHANGED <<hurried, cut>>
  /\ ExpirePlayerRoom(u)
  /\ UNCHANGED <<minted, marks, tabVars, gameVars, wire>>

-----------------------------------------------------------------------------
Request(t) ==
  \/ AskCreate(t) \/ AskLeave(t) \/ AskStart(t) \/ AskRestart(t)
  \/ \E c \in Code : AskJoin(t, c)
  \/ \E b \in BOOLEAN : AskReady(t, b) \/ AskVote(t, b)

AdminRequest == \E c \in Code : AskClose(c) \/ \E u \in User : AskKick(c, u)

Resume ==
  \/ RefuseElsewhere \/ LeaveStale \/ \E c \in Code : CreateRoom(c)
  \/ CreateMapping \/ CreateIndex \/ JoinRoom \/ Enter \/ Left
  \/ CheckStart \/ (\E g \in Game : CreateGame(g) \/ LoadMap(g)) \/ SetCallbacks
  \/ Restart \/ Vote \/ Kicked \/ Closed \/ DeleteRoomKeys \/ DeleteRoomIndex
  \/ RestoreParty \/ RestoreRoom \/ DropLookup

ResumeMatch(g) == MapLoaded(g) \/ MapMissing(g) \/ StartLoop(g) \/ MarkFinished(g)

Next ==
  \/ \E t \in Tab : Request(t) \/ Connect(t) \/ DropSeated(t) \/ DropUnseated(t) \/ GiveUp(t)
  \/ AdminRequest
  \/ Resume
  \/ \E g \in Game :
       \/ ResumeMatch(g) \/ GameOver(g)
       \/ \E u \in User : PlayerDies(g, u) \/ GraceExpires(g, u)
  \/ \E c \in Code : VoteTimeout(c)
  \/ Reap
  \/ \E u \in User : ExpireMapping(u)

Spec == Init /\ [][Next]_vars

\* Redis and the database answer, so what has begun goes on, and a match ends.
Fairness ==
  /\ WF_vars(Resume)
  /\ \A g \in Game : WF_vars(ResumeMatch(g)) /\ WF_vars(GameOver(g))

FairSpec == Spec /\ Fairness

-----------------------------------------------------------------------------
(* What the properties speak of *)

Member(u, c) == Exists(c) /\ u \in rooms[c].players

\* A tab of the user has dropped, and is about to give room c up.
Parting(u, c) == \E t \in Tab : Owner[t] = u /\ parting[t] = c

MatchIn(c, phases) == \E g \in Game : games[g].code = c /\ games[g].phase \in phases

-----------------------------------------------------------------------------
(* Properties that hold *)

\* Two game loops never play the same room at the same time, whatever its
\* players, their votes, a close and the 30-second reaper do: the script that
\* moves a room out of "waiting" is the only way to a loop, and a room comes
\* back to "waiting" only when its loop has ended (room:start, room:restart).
\* It excepts rooms that a late restart or vote has reopened after another
\* had: their next match may have begun by then.
OneLoopPerRoom ==
  \A g, h \in Game :
    /\ games[g].phase = "running" /\ games[h].phase = "running"
    /\ games[g].code = games[h].code /\ games[g].code \notin reopened
    => g = h

\* The lobby shows no room as starting or in play unless a start is under way
\* or a match is being played or saved: no room is stuck with nobody in charge.
StatusHonest ==
  \A c \in Code : Exists(c) =>
    /\ rooms[c].status = "countdown" =>
         Pending({"started"}, c) \/ MatchIn(c, {"loading", "starting"})
    /\ rooms[c].status = "playing" =>
         MatchIn(c, {"running", "saving"}) \/ Pending({"deleteKeys"}, c)

\* Nobody stays in a room that waits for players or is about to start after
\* the last of their tabs has left it: each is seated in it, on the way, or
\* being given up by a tab that has dropped, in whatever order their tabs join,
\* leave, are kicked and drop, and although the mapping may have expired, the
\* room may have gone on while the party was left (the disconnect handler), or
\* a start has just failed.  It excepts what a reset has brought back without
\* looking who is there, who was let into two rooms (a tab leaves only the one
\* it points at), and who asked for more, or dropped, within a request.
NoGhost ==
  \A u \in User \ (putBack \cup astray \cup hurried \cup cut), c \in Code \ reopened :
    Member(u, c) /\ rooms[c].status \in {"waiting", "countdown"}
      => SeatedIn(u, c) \/ OnTheWay(u, c) \/ Parting(u, c)

\* A user with one tab, whose mapping has not lapsed, is never a player of two
\* rooms: joining or creating a room leaves the one before it, also when a kick
\* or a close by an admin comes between (cleanupStaleRoom).  It excepts users
\* whom a reset has put back into a room they had left while it was under way,
\* and users who asked for something while their last request was under way.
OneRoomPerUser ==
  \A u \in User \ (putBack \cup hurried) : \A c, d \in Code : Member(u, c) /\ Member(u, d) => c = d

\* A start that took the room out of "waiting" never leaves it in "countdown".
CountdownEnds ==
  \A c \in Code : (Exists(c) /\ rooms[c].status = "countdown")
                    ~> ~(Exists(c) /\ rooms[c].status = "countdown")

-----------------------------------------------------------------------------
(* What the documentation says and the handlers do not do *)

\* "If game is running, player is killed immediately": whoever is alive in a
\* running match is still a player of the room, or disconnected within grace.
AliveAreMembers ==
  \A g \in Game : games[g].phase = "running" /\ Exists(games[g].code) =>
     games[g].alive \subseteq games[g].grace \cup rooms[games[g].code].players

\* "Reap rooms whose loop has stopped": a running loop stays in the manager,
\* where it can be found and stopped.
LoopIsManaged == \A g \in Game : games[g].phase = "running" => managed[games[g].code] = g

=============================================================================
