------------------------------ MODULE OpenWorld ------------------------------
(***************************************************************************)
(* The open world: backend/src/game/OpenWorldManager.ts, the handlers of   *)
(* socket.ts that reach it, the settings route that switches it on and     *)
(* off, and the start and the orderly stop of the process (index.ts).      *)
(*                                                                         *)
(* An action is a stretch of code up to the next await.  What interleaves  *)
(* with the ticks of the loop are reads of the settings and writes of      *)
(* statistics, which a pool of database connections answers in any order.  *)
(*                                                                         *)
(*   setting         the row open_world_enabled                            *)
(*   calls[a]        a request of an admin: what it has read and awaits    *)
(*   phase           of the process; `found` is what init() has read       *)
(*   enabled, state, loop, frozen    the manager's enabled, gameState,     *)
(*                   gameLoop, and freezeTick # null; a round is a game    *)
(*                   state with the loop that was made for it              *)
(*   running         the rounds whose interval is armed                    *)
(*   stopping        shutdownPromise # null                                *)
(*   events          tickEvents of the current state: who killed           *)
(*   players[u], seat[s]             players and socketToPlayer            *)
(*   sock[s], inWorld[s]             a socket, and its data.inOpenWorld    *)
(*   stats[u]        kills of u: queued in pendingStats, being written by  *)
(*                   the loop (sent) or by a shutdown (closing), saved,    *)
(*                   lost; `earned` counts what happened on the board      *)
(*   overlap, crossed, tripped       auxiliary: a world was opened while   *)
(*                   another ran or was being closed; two requests, or one *)
(*                   and init() or the stop of the process, were under way *)
(*                   together; a loop was stopped by its circuit breaker   *)
(*                                                                         *)
(* Times are choices: a tick may find the flush, the AFK check or the end  *)
(* of the round or of the freeze due.  Left out: guests (a fresh id for    *)
(* each join, no statistics), movement and input, scores of the round, all *)
(* settings but `enabled`, deaths and XP (written with the kills).         *)
(***************************************************************************)
EXTENDS Naturals, FiniteSets

CONSTANTS
  User,             \* accounts
  Socket, Owner,    \* Owner \in [Socket -> User]
  Admin,            \* requests of administrators that may be in flight
  Round, None,
  MaxPlayers,       \* the setting maxPlayers
  MaxKills,         \* bound on kills per player
  MaxChanges,       \* bound on requests of administrators
  MaxRestarts       \* bound on stops and crashes of the process

ASSUME OpenWorldAssumption ==
  /\ IsFiniteSet(User)
  /\ Owner \in [Socket -> User]
  /\ None \notin Round /\ None \notin Socket /\ None \notin User
  /\ {MaxPlayers, MaxKills, MaxChanges, MaxRestarts} \subseteq Nat

VARIABLES setting, calls, phase, found, enabled, state, loop, frozen, running,
          stopping, events, players, seat, sock, inWorld, stats, overlap,
          crossed, tripped, changes, restarts

admin   == <<setting, calls, changes, crossed>>
process == <<phase, found, restarts>>
world   == <<enabled, state, loop, frozen, running, stopping, overlap, tripped>>
people  == <<players, seat, sock, inWorld>>
vars    == <<admin, process, world, people, events, stats>>

Alive == phase # "down"

Call == [at : {"idle", "read", "stop"}, value : {FALSE}] \cup [at : {"apply"}, value : BOOLEAN]
Idle == [at |-> "idle", value |-> FALSE]

Kills == [earned : Nat, queued : Nat, sent : Nat, closing : Nat, saved : Nat, lost : Nat]

Zero == [earned |-> 0, queued |-> 0, sent |-> 0, closing |-> 0, saved |-> 0, lost |-> 0]

TypeOK ==
  /\ setting \in BOOLEAN /\ calls \in [Admin -> Call] /\ changes \in 0 .. MaxChanges
  /\ crossed \in BOOLEAN
  /\ phase \in {"boot", "up", "exit", "down"} /\ found \in {"none", "unread", "on", "off"} /\ restarts \in 0 .. MaxRestarts
  /\ enabled \in BOOLEAN /\ frozen \in BOOLEAN /\ stopping \in BOOLEAN
  /\ overlap \in BOOLEAN /\ tripped \in BOOLEAN
  /\ state \in Round \cup {None} /\ loop \in Round \cup {None} /\ running \in SUBSET Round
  /\ events \in SUBSET User
  /\ players \in [User -> Socket \cup {None}] /\ seat \in [Socket -> User \cup {None}]
  /\ sock \in [Socket -> {"off", "on"}] /\ inWorld \in [Socket -> BOOLEAN]
  /\ stats \in [User -> Kills]

Init ==
  /\ setting \in BOOLEAN /\ calls = [a \in Admin |-> Idle] /\ changes = 0 /\ crossed = FALSE
  /\ phase = "boot" /\ found = "unread" /\ restarts = 0
  /\ enabled = FALSE /\ state = None /\ loop = None /\ frozen = FALSE /\ running = {} /\ stopping = FALSE
  /\ overlap = FALSE /\ tripped = FALSE
  /\ events = {}
  /\ players = [u \in User |-> None] /\ seat = [s \in Socket |-> None]
  /\ sock = [s \in Socket |-> "off"] /\ inWorld = [s \in Socket |-> FALSE]
  /\ stats = [u \in User |-> Zero]

-----------------------------------------------------------------------------
(* Statistics: each operator takes and returns the kills of one account *)

\* A batch leaves the queue before it is written.
Detached(k, how) == [k EXCEPT !.queued = 0, ![how] = @ + k.queued]

Flushed(st, U, how) == [u \in User |-> IF u \in U THEN Detached(st[u], how) ELSE st[u]]

Queued(st, K) == [u \in User |-> IF u \in K THEN [st[u] EXCEPT !.queued = @ + 1] ELSE st[u]]

Earned(st, K) == [u \in User |-> IF u \in K THEN [st[u] EXCEPT !.earned = @ + 1] ELSE st[u]]

\* The process is gone and what it had not written with it.
Forgotten(k) == [k EXCEPT !.queued = 0, !.sent = 0, !.closing = 0, !.lost = @ + k.queued + k.sent + k.closing]

Moved(k, how, to, n) == [k EXCEPT ![how] = @ - n, ![to] = @ + n]

\* A write of one account's part of a batch is answered; a failure is logged only.
Written(u, how) ==
  \E n \in 1 .. stats[u][how], to \in {"saved", "lost"} :
    stats' = [stats EXCEPT ![u] = Moved(@, how, to, n)]

WriteStats(u) ==
  /\ Alive
  /\ Written(u, "sent") \/ Written(u, "closing")
  /\ UNCHANGED <<admin, process, world, people, events>>

-----------------------------------------------------------------------------
(* Rounds *)

Present == {u \in User : players[u] # None}

\* The round whose objects nothing holds any more may be used again.
Unused == Round \ (running \cup {state, loop})

Fresh == CHOOSE r \in Unused : TRUE

\* startNewRound: whoever is in the world is added to the new state.
NewRound(stopped) ==
  /\ Unused # {}
  /\ state' = Fresh /\ loop' = Fresh
  /\ running' = (running \ stopped) \cup {Fresh}
  /\ frozen' = FALSE
  /\ events' = {}

\* Started by an administrator or by init(), with no regard to what still runs.
Open ==
  /\ NewRound({})
  /\ overlap' = (overlap \/ running # {} \/ stopping \/ phase = "exit")

\* doShutdown after its await.
ClosedWorld ==
  /\ loop' = None /\ state' = None /\ frozen' = FALSE /\ enabled' = FALSE /\ stopping' = FALSE
  /\ players' = [u \in User |-> None] /\ seat' = [s \in Socket |-> None]
  /\ events' = {}

NothingQueued == \A u \in User : stats[u].queued = 0

\* shutdown(), with `enabled` as its caller leaves it until the end: a second
\* caller awaits the first.  With nothing to write there
\* is no await in between.
Shutdown(on) ==
  \/ /\ stopping
     /\ enabled' = on
     /\ UNCHANGED <<state, loop, frozen, running, stopping, overlap, tripped, players, seat, events, stats>>
  \/ /\ ~stopping
     /\ running' = running \ {loop}
     /\ stats' = Flushed(stats, User, "closing")
     /\ \/ /\ NothingQueued
           /\ ClosedWorld
           /\ UNCHANGED <<overlap, tripped>>
        \/ /\ ~NothingQueued
           /\ stopping' = TRUE /\ enabled' = on
           /\ UNCHANGED <<state, loop, frozen, overlap, tripped, players, seat, events>>

\* Mutant: the flush is started and not awaited.
FinishShutdownEarly ==
  /\ Alive
  /\ stopping
  /\ ClosedWorld
  /\ calls' = [a \in Admin |-> IF calls[a].at = "stop" THEN Idle ELSE calls[a]]
  /\ UNCHANGED <<setting, changes, crossed, process, running, overlap, tripped, sock, inWorld, stats>>

\* The shutdown's own batch is written; the requests that awaited it return.
FinishShutdown ==
  /\ Alive
  /\ stopping
  /\ \A u \in User : stats[u].closing = 0
  /\ ClosedWorld
  /\ calls' = [a \in Admin |-> IF calls[a].at = "stop" THEN Idle ELSE calls[a]]
  /\ UNCHANGED <<setting, changes, crossed, process, running, overlap, tripped, sock, inWorld, stats>>

-----------------------------------------------------------------------------
(* The settings route *)

\* The row is written; handleSettingsChange is then called, and awaits its read.
PutSetting(a, v) ==
  /\ Alive /\ changes < MaxChanges
  /\ calls[a] = Idle
  /\ setting' = v /\ changes' = changes + 1
  /\ calls' = [calls EXCEPT ![a].at = "read"]
  /\ crossed' = (crossed \/ phase # "up" \/ \E b \in Admin : calls[b] # Idle)
  /\ UNCHANGED <<process, world, people, events, stats>>

ReadSetting(a) ==
  /\ Alive
  /\ calls[a].at = "read"
  /\ calls' = [calls EXCEPT ![a] = [at |-> "apply", value |-> setting]]
  /\ UNCHANGED <<setting, changes, crossed, process, world, people, events, stats>>

Answered(a) == calls' = [calls EXCEPT ![a] = Idle]

SwitchOn(a) ==
  /\ ~enabled /\ calls[a].value
  /\ enabled' = TRUE
  /\ Open
  /\ Answered(a)
  /\ UNCHANGED <<stopping, tripped, players, seat, stats>>

\* `enabled` is switched off before the shutdown, and by it.
SwitchOff(a) ==
  /\ enabled /\ ~calls[a].value
  /\ Shutdown(FALSE)
  /\ calls' = [calls EXCEPT ![a] = IF stopping' THEN [at |-> "stop", value |-> FALSE] ELSE Idle]

Keep(a) ==
  /\ enabled = calls[a].value
  /\ Answered(a)
  /\ UNCHANGED <<world, players, seat, events, stats>>

HandleSettingsChange(a) ==
  /\ Alive
  /\ calls[a].at = "apply"
  /\ SwitchOn(a) \/ SwitchOff(a) \/ Keep(a)
  /\ UNCHANGED <<setting, changes, crossed, process, sock, inWorld>>

-----------------------------------------------------------------------------
(* The process *)

\* init(): whether the world is on is read first, the other settings after it.
InitRead ==
  /\ found = "unread"
  /\ found' = IF setting THEN "on" ELSE "off"
  /\ UNCHANGED <<phase, restarts, admin, world, people, events, stats>>

Initialised ==
  /\ found' = "none"
  /\ phase' = IF phase = "boot" THEN "up" ELSE phase
  /\ UNCHANGED <<restarts, admin, stopping, tripped, people, stats>>

InitOff ==
  /\ found = "off"
  /\ enabled' = FALSE
  /\ overlap' = (overlap \/ state # None)
  /\ UNCHANGED <<state, loop, frozen, running, events>>
  /\ Initialised

InitOn ==
  /\ found = "on"
  /\ enabled' = TRUE
  /\ Open
  /\ Initialised

\* A signal: the open world is closed before anything else.
Terminate ==
  /\ phase \in {"boot", "up"} /\ restarts < MaxRestarts
  /\ phase' = "exit" /\ restarts' = restarts + 1
  /\ crossed' = (crossed \/ phase = "boot" \/ \E a \in Admin : calls[a] # Idle)
  /\ Shutdown(enabled)
  /\ UNCHANGED <<found, setting, calls, changes, sock, inWorld>>

\* Everything in memory is gone.
Gone ==
  /\ phase' = "down"
  /\ calls' = [a \in Admin |-> Idle]
  /\ enabled' = FALSE /\ state' = None /\ loop' = None /\ frozen' = FALSE /\ running' = {}
  /\ stopping' = FALSE /\ events' = {} /\ tripped' = FALSE
  /\ players' = [u \in User |-> None] /\ seat' = [s \in Socket |-> None]
  /\ sock' = [s \in Socket |-> "off"] /\ inWorld' = [s \in Socket |-> FALSE]
  /\ stats' = [u \in User |-> Forgotten(stats[u])]
  /\ found' = "none"
  /\ UNCHANGED <<setting, changes, crossed, overlap>>

Exit ==
  /\ phase = "exit" /\ ~stopping
  /\ Gone
  /\ UNCHANGED restarts

Crash ==
  /\ Alive /\ restarts < MaxRestarts
  /\ restarts' = restarts + 1
  /\ Gone

Restart ==
  /\ phase = "down"
  /\ phase' = "boot" /\ found' = "unread"
  /\ UNCHANGED <<restarts, admin, world, people, events, stats>>

-----------------------------------------------------------------------------
(* Players *)

Connect(s) ==
  /\ Alive
  /\ sock[s] = "off"
  /\ sock' = [sock EXCEPT ![s] = "on"]
  /\ UNCHANGED <<admin, process, world, players, seat, inWorld, events, stats>>

\* A second socket of a player takes the player over from the first.
Seated(s, u) == seat' = [t \in Socket |-> IF t = s THEN u ELSE IF t = players[u] THEN None ELSE seat[t]]

\* handleJoin: refused when off, when this socket plays already, and when full.
Join(s) ==
  /\ Alive /\ sock[s] = "on"
  /\ enabled /\ state # None
  /\ seat[s] = None
  /\ Cardinality(Present) < MaxPlayers
  /\ Seated(s, Owner[s])
  /\ players' = [players EXCEPT ![Owner[s]] = s]
  /\ inWorld' = [inWorld EXCEPT ![s] = TRUE]
  /\ UNCHANGED <<admin, process, world, sock, events, stats>>

\* handleLeave, for each of the sockets S: who sits there goes, and what is
\* queued for them is written at once.
Leaving(S) == {u \in User : \E s \in S : seat[s] = u /\ players[u] # None}

Leave(S) ==
  /\ players' = [u \in User |-> IF u \in Leaving(S) THEN None ELSE players[u]]
  /\ seat' = [s \in Socket |-> IF s \in S /\ seat[s] \in Leaving(S) THEN None ELSE seat[s]]

LeaveWorld(s) ==
  /\ Alive /\ sock[s] = "on"
  /\ inWorld[s]
  /\ Leave({s})
  /\ stats' = Flushed(stats, Leaving({s}), "sent")
  /\ inWorld' = [inWorld EXCEPT ![s] = FALSE]
  /\ UNCHANGED <<admin, process, world, sock, events>>

\* Mutant: a tab that drops leaves its player standing.
DropStanding(s) ==
  /\ Alive /\ sock[s] = "on"
  /\ sock' = [sock EXCEPT ![s] = "off"]
  /\ inWorld' = [inWorld EXCEPT ![s] = FALSE]
  /\ UNCHANGED <<admin, process, world, players, seat, events, stats>>

Drop(s) ==
  /\ Alive /\ sock[s] = "on"
  /\ sock' = [sock EXCEPT ![s] = "off"]
  /\ inWorld' = [inWorld EXCEPT ![s] = FALSE]
  /\ IF inWorld[s]
       THEN /\ Leave({s})
            /\ stats' = Flushed(stats, Leaving({s}), "sent")
       ELSE UNCHANGED <<players, seat, stats>>
  /\ UNCHANGED <<admin, process, world, events>>

-----------------------------------------------------------------------------
(* Ticks *)

Total(u) == LET k == stats[u] IN k.queued + k.sent + k.closing + k.saved + k.lost

\* What the handler finds in tickEvents: a loop that is not the current one
\* finds those of the current one's last tick, once more.
Happens(r, K) ==
  IF r = state THEN K \subseteq Present /\ \A u \in K : stats[u].earned < MaxKills
               ELSE K = events

\* Those of them that are counted: by players who are still here.
Counted(K) == K \cap Present

AfterKills(r, K) == Queued(IF r = state THEN Earned(stats, K) ELSE stats, Counted(K))

\* Mutant: the queue is written and kept.
AfterFlushKept(st, due, away) ==
  [u \in User |-> IF due THEN [st[u] EXCEPT !.sent = @ + st[u].queued] ELSE st[u]]

\* Mutant: the queue waits for the end of the round.
AfterFlushNone(st, due, away) == st

\* The periodic flush, then one for each player that is removed as idle.
AfterFlush(st, due, away) == Flushed(st, IF due THEN User ELSE away, "sent")

\* The round goes on, is over, or stays frozen.
SameRound ==
  /\ frozen' \in {frozen, TRUE}
  /\ UNCHANGED <<state, loop, running>>

\* Mutant: the loop of the old round goes on.
NextRoundBeside ==
  /\ frozen
  /\ NewRound({})

\* completeRoundTransition: the loop is stopped and a new one started.
NextRound ==
  /\ frozen
  /\ NewRound({loop})

Tick(r) ==
  /\ Alive /\ r \in running /\ state # None
  /\ \E K \in SUBSET User, due \in BOOLEAN, away \in SUBSET Present :
       /\ Happens(r, K) /\ \A u \in Counted(K) : Total(u) < MaxKills
       /\ Leave({players[u] : u \in away})
       /\ inWorld' = [s \in Socket |-> inWorld[s] /\ ~\E u \in away : players[u] = s]
       /\ \/ /\ SameRound
             /\ events' = K
             /\ stats' = AfterFlush(AfterKills(r, K), due, away)
          \/ /\ NextRound
             /\ stats' = AfterFlush(AfterKills(r, K), TRUE, away)
  /\ UNCHANGED <<admin, process, enabled, stopping, overlap, tripped, sock>>

\* Ten ticks in a row threw; the manager is not told.
Breaker(r) ==
  /\ Alive /\ r \in running
  /\ running' = running \ {r} /\ tripped' = TRUE
  /\ events' = IF r = state THEN {} ELSE events
  /\ UNCHANGED <<admin, process, enabled, state, loop, frozen, stopping, overlap, people, stats>>

-----------------------------------------------------------------------------
Next ==
  \/ \E a \in Admin, v \in BOOLEAN : PutSetting(a, v)
  \/ \E a \in Admin : ReadSetting(a) \/ HandleSettingsChange(a)
  \/ InitRead \/ InitOff \/ InitOn \/ Terminate \/ Exit \/ Crash \/ Restart
  \/ \E s \in Socket : Connect(s) \/ Join(s) \/ LeaveWorld(s) \/ Drop(s)
  \/ \E r \in Round : Tick(r) \/ Breaker(r)
  \/ \E u \in User : WriteStats(u)
  \/ FinishShutdown

Spec == Init /\ [][Next]_vars

-----------------------------------------------------------------------------
(* Properties *)

\* The two maps agree through takeovers, idle kicks, drops and new rounds:
\* each player is found by exactly the socket that plays them.  And nobody
\* stands in the world without a connection that knows it plays: a tab that
\* closes, or is kicked, takes its player with it.
NobodyStrands ==
  \A u \in User :
    /\ \A s \in Socket : players[u] = s <=> seat[s] = u
    /\ players[u] # None =>
         LET s == players[u] IN Owner[s] = u /\ sock[s] = "on" /\ inWorld[s]

\* The world is on with exactly one loop, that of its state, or off with
\* none, unless one was opened beside another or the breaker stopped it.  It
\* is on if and only if the setting says so once the requests, made one at a
\* time, have returned.
OneWorld ==
  /\ ~overlap =>
       /\ running \subseteq {loop} /\ loop = state
       /\ enabled => state # None
       /\ state # None => enabled \/ stopping
       /\ running # {} => enabled
       /\ enabled /\ phase # "exit" => running = {loop} \/ tripped
  /\ phase = "up" /\ ~crossed /\ (\A a \in Admin : calls[a] = Idle) => enabled = setting

\* Each kill is queued, under way, saved or known to be lost, exactly once,
\* through flushes, leaves, rounds, shutdowns and restarts.
KillsAddUp ==
  ~overlap => \A u \in User : stats[u].earned = Total(u)

\* When the process may exit, no kill is left that nobody tried to write.
StopsClean ==
  phase = "exit" /\ ~stopping /\ ~overlap =>
    \A u \in User : stats[u].queued = 0 /\ stats[u].closing = 0

\* A kill does not stay in the queue: the world that goes on flushes it, and
\* one that closes, or a player who leaves, takes it along.
KillsAreWritten ==
  \A u \in User : stats[u].queued > 0 ~> stats[u].queued = 0 \/ tripped \/ overlap

\* Of the ticks of a running loop some find the flush due.
FlushTick == (\E r \in Round : Tick(r)) /\ NothingQueued'

FairSpec == Spec /\ WF_vars(FlushTick)
=============================================================================
