----------------------------- MODULE MatchSession -----------------------------
(***************************************************************************)
(* One match: backend/src/game/GameLoop.ts driving the rules of            *)
(* game/GameState.ts about life, placement and the end of a match, inside  *)
(* game/GameRoom.ts, which keeps who has dropped and who has left, and     *)
(* closes the match when the loop stops.                                   *)
(*                                                                         *)
(*   mode       the mode of play; "ffa" stands for every elimination mode  *)
(*   match      what GameState keeps                                       *)
(*   loop       what GameLoop keeps; fast at BOT_ONLY_TICK_RATE            *)
(*   grace[u]   disconnectedPlayers: the tick at which u dropped           *)
(*   departed   departedHumans                                             *)
(*   link[u]    the human's tie to the match: a connected tab, none while  *)
(*              Redis still maps them to the room, or none for good        *)
(*   record     matches.status as onGameOver writes it                     *)
(*                                                                         *)
(* The board is left out: any player the rules do not protect may die in a *)
(* tick, by anybody's bomb or by none, and anyone alive may hold the hill. *)
(* A tick, a request and a connection event each run to their end.         *)
(***************************************************************************)
EXTENDS Integers, FiniteSets, FiniteSetsExt, Functions

CONSTANTS
  Player,       \* in the order of GameState.players, humans and bots
  Human,
  Team,         \* [Player -> {0, 1}], what "teams" plays with
  None,
  Bomber,       \* bound: whose bombs kill
  Modes,        \* the modes a run includes
  KillTarget,   \* DEATHMATCH_KILL_TARGET
  HillTarget,   \* KOTH_SCORE_TARGET
  HoldTicks,    \* ticks of control for a point of the hill
  RoundTime,    \* length of a round, in ticks
  FinishDelay,  \* FINISH_DELAY_TICKS
  RespawnTicks, \* DEATHMATCH_RESPAWN_TICKS
  GraceTicks,   \* DISCONNECT_GRACE_TICKS
  Countdown,    \* COUNTDOWN_TICKS
  MaxErrors     \* MAX_CONSECUTIVE_ERRORS

ASSUME MatchSessionAssumption ==
  /\ Player \in SUBSET Nat
  /\ IsFiniteSet(Player)
  /\ Human \in SUBSET Player
  /\ Team \in [Player -> {0, 1}]
  /\ None \notin Nat
  /\ Modes \in SUBSET {"ffa", "teams", "deathmatch", "koth"}
  /\ {KillTarget, HillTarget, HoldTicks, RoundTime, FinishDelay, RespawnTicks,
      GraceTicks, Countdown, MaxErrors} \in SUBSET (Nat \ {0})

VARIABLES mode, match, loop, grace, departed, link, record

roomVars == <<grace, departed, link>>
vars == <<mode, match, loop, roomVars, record>>

Match ==
  [tick : Nat, status : {"countdown", "playing", "finished"},
   finish : Nat \cup {None},               \* finishTick
   alive : SUBSET Player,
   placement : [Player -> (1 .. Cardinality(Player)) \cup {None}],
   kills : [Player -> Int],                \* a bomb of one's own costs one
   held : [Player -> Nat],                 \* kothControlTicks
   respawn : [Player -> Nat \cup {None}],  \* respawnTick
   winner : Player \cup {None}, winnerTeam : {0, 1, None}]

Loop == [state : {"idle", "running", "stopped"}, countdown : Nat, errors : Nat, fast : BOOLEAN]

TypeOK ==
  /\ mode \in Modes
  /\ match \in Match
  /\ loop \in Loop
  /\ grace \in [Human -> Nat \cup {None}]
  /\ departed \in SUBSET Human
  /\ link \in [Human -> {"tied", "dropped", "gone"}]
  /\ record \in {"playing", "finished", "aborted"}

Init ==
  /\ mode \in Modes
  /\ match = [tick |-> 0, status |-> "countdown", finish |-> None, alive |-> Player,
              placement |-> [p \in Player |-> None], kills |-> [p \in Player |-> 0],
              held |-> [p \in Player |-> 0], respawn |-> [p \in Player |-> None],
              winner |-> None, winnerTeam |-> None]
  /\ loop = [state |-> "idle", countdown |-> Countdown, errors |-> 0, fast |-> FALSE]
  /\ grace = [u \in Human |-> None]
  /\ departed = {}
  /\ link = [u \in Human |-> "tied"]
  /\ record = "playing"

-----------------------------------------------------------------------------
(* The rules: what one call of processTick makes of a match *)

Undecided(m) == m.finish = None
TeamOf(p) == IF mode = "teams" THEN Team[p] ELSE None
Champions(m) ==
  {p \in Player : p = m.winner \/ (m.winnerTeam # None /\ TeamOf(p) = m.winnerTeam)}

\* While the end is shown, explosions and the zone spare the winners.
Mortal(m) == IF Undecided(m) THEN m.alive ELSE m.alive \ Champions(m)

\* Mutant: the list of the living is the one from before the deaths.
PlacesStale(m, dead) == {[p \in dead |-> Cardinality(m.alive) + 1]}

\* The k deaths of a tick count down from the number alive.
Places(m, dead) == Bijection(dead, (Cardinality(m.alive \ dead) + 1) .. Cardinality(m.alive))

Placed(m, places) ==
  [p \in Player |-> IF p \in DOMAIN places THEN places[p] ELSE m.placement[p]]

\* Everyone in `dead` dies, by the bomb of killer[p] if it is anybody's.
Died(m, dead, places, killer) ==
  [m EXCEPT !.alive = @ \ dead,
            !.placement = Placed(m, places),
            !.kills = [p \in Player |-> @[p] + Cardinality({q \in dead \ {p} : killer[q] = p})
                                             - Cardinality({q \in dead \cap {p} : killer[q] = p})]]

\* King of the hill: who is alone in the zone scores.
Score(m, p) == m.held[p] \div HoldTicks

Controlled(m, p) ==
  LET counted == [m EXCEPT !.held[p] = @ + 1] IN
  IF Score(counted, p) < HillTarget THEN counted
  ELSE [counted EXCEPT !.winner = p, !.placement[p] = 1, !.finish = m.tick]

\* Mutant: the hill goes on scoring while the end is shown.
HillGoesOn(m) == IF mode = "koth" THEN {m} \cup {Controlled(m, p) : p \in m.alive} ELSE {m}

\* What the hill may do to a match; before the end is decided only.
Hill(m) ==
  IF mode = "koth" /\ Undecided(m) THEN {m} \cup {Controlled(m, p) : p \in m.alive} ELSE {m}

Respawned(m) ==
  LET due == [p \in Player |-> IF p \notin m.alive /\ m.respawn[p] = None
                               THEN m.tick + RespawnTicks ELSE m.respawn[p]]
      back == {p \in Player \ m.alive : m.tick >= due[p]}  IN
  IF mode = "deathmatch" /\ Undecided(m)
  THEN [m EXCEPT !.alive = @ \cup back,
                 !.respawn = [p \in Player |-> IF p \in back THEN None ELSE due[p]]]
  ELSE m

\* Mutant: each keeps the place of the moment of death.
SharedNot(m, dead) == m

\* Who dies in the same tick shares a place.
Shared(m, dead) ==
  IF Cardinality(dead) > 1
  THEN [m EXCEPT !.placement = [p \in Player |-> IF p \in dead \ m.alive
                                                 THEN Cardinality(m.alive) + 1 ELSE @[p]]]
  ELSE m

\* Standard competition ranking: how many have more points.
Behind(score(_), p) == Cardinality({q \in Player : score(q) > score(p)})

\* The one with the most points, if there is one.
Leaders(S, score(_)) == {p \in S : \A q \in S \ {p} : score(q) < score(p)}

OneOf(S) == IF S = {} THEN None ELSE Min(S)

TeamKills(m, t) == MapThenSumSet(LAMBDA p : m.kills[p], {p \in Player : TeamOf(p) = t})

\* resolveTimeUp with every player ranked by points
RankedByScore(m) ==
  LET score(p) == IF mode = "koth" THEN Score(m, p) ELSE m.kills[p] IN
  [m EXCEPT !.placement = [p \in Player |-> 1 + Behind(score, p)],
            !.winner = OneOf(Leaders(Player, score))]

\* resolveTimeUp with the survivors ranked by kills, before the fallen
RankedByKills(m) ==
  LET kills(p) == m.kills[p]
      teamKills(t) == TeamKills(m, t)
      above(q, p) == kills(q) > kills(p) \/ (kills(q) = kills(p) /\ q < p)
      ranks == [p \in m.alive |-> 1 + Cardinality({q \in m.alive : above(q, p)})]
      teams == {TeamOf(p) : p \in Player}  IN
  [m EXCEPT
     !.placement = Placed(m, ranks),
     !.winner = IF Cardinality(m.alive) = 1 \/ mode # "teams"
                THEN OneOf(Leaders(m.alive, kills)) ELSE None,
     !.winnerTeam = IF Cardinality(m.alive) > 1 /\ mode = "teams"
                    THEN OneOf(Leaders(teams, teamKills)) ELSE None]

TimeUp(m) ==
  IF ~Undecided(m) \/ m.tick < RoundTime THEN m
  ELSE [(IF mode \in {"deathmatch", "koth"} THEN RankedByScore(m) ELSE RankedByKills(m))
          EXCEPT !.finish = m.tick]

\* checkWinCondition
Won(m) ==
  LET reached == {p \in Player : m.kills[p] >= KillTarget}
      teams == {TeamOf(p) : p \in m.alive}
      first(S) == Placed(m, [p \in S |-> 1])  IN
  IF ~Undecided(m) THEN m
  ELSE IF mode = "deathmatch" THEN
         IF reached = {} THEN m
         ELSE [m EXCEPT !.winner = Min(reached), !.placement = first({Min(reached)}), !.finish = m.tick]
  ELSE IF mode = "teams" THEN
         IF Cardinality(teams) > 1 THEN m
         ELSE [m EXCEPT !.winnerTeam = OneOf(teams), !.placement = first(m.alive), !.finish = m.tick]
  ELSE IF Cardinality(m.alive) > 1 THEN m
       ELSE [m EXCEPT !.winner = OneOf(m.alive), !.placement = first(m.alive), !.finish = m.tick]

Begun(m) == [m EXCEPT !.tick = @ + 1]

\* The end has been shown for long enough.
Shown(m) == ~Undecided(m) /\ m.tick >= m.finish + FinishDelay

\* What the rules may make of a tick that has begun.
Burials(m) ==
  UNION {{[dead |-> dead, after |-> Died(m, dead, places, killer)] :
            places \in Places(m, dead), killer \in [dead -> Bomber \cup {None}]} :
         dead \in SUBSET Mortal(m)}

Steps(m) ==
  IF m.status # "playing" THEN {m}
  ELSE IF Shown(Begun(m)) THEN {[Begun(m) EXCEPT !.status = "finished"]}
  ELSE LET held == UNION {{[b EXCEPT !.after = h] : h \in Hill(b.after)} : b \in Burials(Begun(m))}
           back == {[b EXCEPT !.after = Respawned(@)] : b \in held}
           ranked == {Shared(b.after, b.dead) : b \in back}  IN
       {Won(t) : t \in {TimeUp(r) : r \in ranked}}

\* A tick that throws on its way has begun, and its deaths may have happened.
Prefixes(m) ==
  IF m.status # "playing" \/ Shown(Begun(m)) THEN {}
  ELSE {Begun(m)} \cup {b.after : b \in Burials(Begun(m))}

-----------------------------------------------------------------------------
(* GameRoom: who has dropped, who has left *)

Respawns == mode = "deathmatch"

\* Mutant: who has only dropped does not hold the match back.
HumanActiveUnlessDropped(m, gone) ==
  \E u \in Human \ gone : grace[u] = None /\ (u \in m.alive \/ Respawns)

\* A human who still plays, or will again.
HumanActive(m, gone) == \E u \in Human \ gone : u \in m.alive \/ Respawns

\* checkBotOnlySpeedup, for a loop that runs
Speed(m, gone) == loop.fast \/ ~HumanActive(m, gone)

Killed(m, dead, places) == [m EXCEPT !.alive = @ \ dead, !.placement = Placed(m, places)]

Expired(m) == {u \in Human : grace[u] # None /\ m.tick - grace[u] >= GraceTicks}

\* A broadcast of m begins with the grace periods that are over; those that
\* end together are taken one by one, in the order of the drops.
Broadcast(m) ==
  LET expired == Expired(m)
      dead == expired \cap m.alive  IN
  \E places \in Places(m, dead) :
    /\ match' = Killed(m, dead, places)
    /\ grace' = [u \in Human |-> IF u \in expired THEN None ELSE grace[u]]
    /\ departed' = departed \cup expired

\* The loop after a tick that broadcast, and after one that did not.
Broadcasting == [loop EXCEPT !.fast = IF Expired(match') = {} THEN @ ELSE Speed(match', departed')]

\* handlePlayerDisconnect
Drop(u) ==
  grace' = IF u \in match.alive THEN [grace EXCEPT ![u] = match.tick] ELSE grace

\* A tab closes.  Before the loop runs, and after, the seat is given up.
Disconnect(u) ==
  /\ link[u] = "tied"
  /\ IF loop.state = "running"
     THEN Drop(u) /\ link' = [link EXCEPT ![u] = "dropped"]
     ELSE UNCHANGED grace /\ link' = [link EXCEPT ![u] = "gone"]
  /\ UNCHANGED <<mode, match, loop, departed, record>>

\* restoreSession and handlePlayerReconnect
Reconnect(u) ==
  /\ link[u] = "dropped"
  /\ loop.state = "running"
  /\ grace[u] # None
  /\ link' = [link EXCEPT ![u] = "tied"]
  /\ departed' = departed \ {u}
  /\ grace' = IF u \in match.alive THEN [grace EXCEPT ![u] = None] ELSE grace
  /\ UNCHANGED <<mode, match, loop, record>>

\* cleanupStaleRoom: the account comes back, for another room.
MoveOn(u) ==
  /\ link[u] = "dropped"
  /\ IF loop.state = "running" THEN Drop(u) ELSE UNCHANGED grace
  /\ link' = [link EXCEPT ![u] = "gone"]
  /\ UNCHANGED <<mode, match, loop, departed, record>>

\* room:leave and admin:kick, through handlePlayerLeave
Leave(u) ==
  LET dead == {u} \cap match.alive IN
  /\ link[u] # "gone"
  /\ link' = [link EXCEPT ![u] = "gone"]
  /\ grace' = [grace EXCEPT ![u] = None]
  /\ \E places \in Places(match, dead) : match' = Killed(match, dead, places)
  /\ departed' = departed \cup {u}
  /\ loop' = IF loop.state = "running" THEN [loop EXCEPT !.fast = Speed(match', departed')] ELSE loop
  /\ UNCHANGED <<mode, record>>

-----------------------------------------------------------------------------
(* GameLoop *)

Start ==
  /\ loop.state = "idle"
  /\ loop' = [loop EXCEPT !.state = "running"]
  /\ UNCHANGED <<mode, match, roomVars, record>>

\* onGameOver follows when the loop stops by itself; stop() alone records nothing.
Settle(next) ==
  /\ loop' = next
  /\ record' = IF next.state # "stopped" THEN record
               ELSE IF Human # {} /\ Human \subseteq departed' THEN "aborted" ELSE "finished"

Passed(l) ==
  [l EXCEPT !.errors = 0, !.state = IF match'.status = "finished" THEN "stopped" ELSE @]

\* Mutant: errors are counted, but nothing trips.
FailedForever(l) == [l EXCEPT !.errors = IF @ + 1 >= MaxErrors THEN 0 ELSE @ + 1]

\* A tick that throws is counted, and trips the breaker in the end.
Failed(l) ==
  [l EXCEPT !.errors = @ + 1, !.state = IF l.errors + 1 >= MaxErrors THEN "stopped" ELSE @]

Due == loop.state = "running" /\ UNCHANGED <<mode, link>>

\* During the countdown the broadcast goes out, and may throw.
CountdownTick ==
  LET left == loop.countdown - 1
      waiting == [match EXCEPT !.status = IF left = 0 THEN "playing" ELSE @]  IN
  /\ Due
  /\ loop.countdown > 0
  /\ \/ /\ Broadcast(waiting)
        /\ \E next \in {Broadcasting, Failed(Broadcasting)} : Settle([next EXCEPT !.countdown = left])
     \/ /\ match' = waiting
        /\ UNCHANGED <<grace, departed>>
        /\ Settle([Failed(loop) EXCEPT !.countdown = left])

PlayTick ==
  /\ Due
  /\ loop.countdown = 0
  /\ \E m \in Steps(match) : Broadcast(m)
  /\ Settle(Passed(Broadcasting))

\* processTick throws on its way, or the state does not serialize.
FailedTick ==
  /\ Due
  /\ loop.countdown = 0
  /\ match' \in Prefixes(match) \cup Steps(match)
  /\ UNCHANGED <<grace, departed>>
  /\ Settle(Failed(loop))

\* Sending or recording the tick throws.
FailedBroadcast ==
  /\ Due
  /\ loop.countdown = 0
  /\ \E m \in Steps(match) : Broadcast(m)
  /\ Settle(Failed(Broadcasting))

Tick == CountdownTick \/ PlayTick \/ FailedTick \/ FailedBroadcast

\* RoomManager.removeRoom
Stop ==
  /\ loop.state = "running"
  /\ loop' = [loop EXCEPT !.state = "stopped"]
  /\ UNCHANGED <<mode, match, roomVars, record>>

Next ==
  \/ Start
  \/ Tick
  \/ Stop
  \/ loop.state # "stopped" /\ \E u \in Human : Disconnect(u) \/ Reconnect(u) \/ MoveOn(u) \/ Leave(u)

Spec == Init /\ [][Next]_vars

\* The interval timer goes off as long as the loop runs.  This is WF_vars(Tick):
\* ticks are the steps of a running loop that leave the players' links alone,
\* but for Stop, which ends the loop as well; TLC need not work out what a tick
\* may do to tell one.
Ticks == loop.state = "running" /\ link' = link
FairSpec == Spec /\ ([]<>(loop.state # "running") \/ []<><<Ticks>>_vars)

-----------------------------------------------------------------------------
(* Properties *)

\* What the players are promised: see MatchPromise.  The verdict is the
\* winner and the winning team, from the tick that sets finishTick.
Promise == INSTANCE MatchPromise WITH
  Verdict <- (Player \cup {None}) \X {0, 1, None},
  NoVerdict <- <<None, None>>,
  stage <- IF loop.state = "stopped" THEN "closed" ELSE IF Undecided(match) THEN "open" ELSE "decided",
  verdict <- <<match.winner, match.winnerTeam>>,
  gone <- departed,
  record <- record

\* The verdict does not change while the end is shown, the match is closed
\* once, and it is recorded as aborted just when every human has departed.
KeepsPromise == Promise!Spec

\* As many are ahead of one of the fallen as the place says.
Ranks(m) == \A p \in Player \ m.alive :
  m.placement[p] = 1 + Cardinality({q \in Player : q \in m.alive \/ m.placement[q] < m.placement[p]})

\* Whose grace period ends in this step.
GraceEnds == {u \in Human : grace[u] # None /\ grace'[u] = None}

\* Until the end is decided, in a mode without respawns, the placements of
\* the fallen are a competition ranking by the time of death.  In every mode
\* those who die in one tick are level (GameState.ts:1346), if the tick does
\* not throw and does not decide the match, which may rank everybody anew.
\* Grace periods that run out are not deaths of the tick: they come after it,
\* one by one, and give each a place.
FallenAreRanked ==
  /\ [](mode # "deathmatch" /\ Undecided(match) => Ranks(match))
  /\ [][ match'.tick # match.tick /\ loop'.errors = 0 /\ (Undecided(match) => Undecided(match'))
        => \A p, q \in (match.alive \ match'.alive) \ GraceEnds :
             match'.placement[p] = match'.placement[q] ]_vars

\* Without respawns the match is fast only while no human has anything left
\* to do in it: everyone has departed or is dead, whatever drops, returns and
\* deaths came before.  (Deathmatch fails in this: see DepartedAreAway.)
FastIsForBots == loop.fast /\ mode # "deathmatch" => Human \subseteq departed \cup (Player \ match.alive)

\* The loop stops: a round ends, and ticks that throw cannot go on for ever.
MatchEnds == (loop.state = "running") ~> (loop.state = "stopped")

\* Who sits at the match again has not left it: departedHumans holds those
\* who left, and those whose grace period ran out while they were away.
DepartedAreAway == \A u \in departed : link[u] # "tied"

=============================================================================
