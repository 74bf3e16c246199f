---------------------------- MODULE CampaignLevel ----------------------------
(***************************************************************************)
(* One level of the campaign: game/CampaignGame.ts, from its first tick to *)
(* its one verdict.  A tick is the engine's processTick and campaignTick;  *)
(* between ticks a co-op player may leave, or the session be stopped.      *)
(*                                                                         *)
(*   level           goal, time limit, lives to begin with, the buddy      *)
(*   tick, start     gameState.tick (-1 before the countdown ends) and     *)
(*                   startTick; `errors` is the loop's consecutiveErrors   *)
(*   here, alive, frozen, at    the players in the game state; at[p] says  *)
(*                   that p stands on the exit or goal                     *)
(*   locked, respawn            lockedInPlayers and respawnTicks           *)
(*   lives, deaths, fallen      lives, playerDeaths, and (auxiliary) how   *)
(*                   often a player really fell who did not leave unnoticed*)
(*   foes, exit      enemies and exitOpen                                  *)
(*   completion, finished       completionTick and finished                *)
(*   verdicts        auxiliary: the calls of onLevelComplete and onGameOver*)
(*                                                                         *)
(* Who is hit by what is the board's business: any player who is not safe  *)
(* may fall in any tick, any enemy die.  Left out: shields and hit points, *)
(* tiles and how they change, power-ups, enemies' moves, the replay.  A    *)
(* tick may throw anywhere: what it has done by then stays.                *)
(***************************************************************************)
EXTENDS Integers, FiniteSets, Sequences

CONSTANTS
  Player, Foe, Boss,       \* Boss \subseteq Foe: placed by some level; the others are spawned
  Levels,                  \* the levels that are played
  RespawnTicks,            \* CAMPAIGN_RESPAWN_TICKS
  GraceTicks,              \* GRACE_TICKS
  Cap,                     \* the 60 minutes, in ticks
  MaxErrors, Never

ASSUME LevelAssumption ==
  /\ Player \subseteq Int /\ IsFiniteSet(Player) /\ IsFiniteSet(Foe) /\ Boss \subseteq Foe
  /\ Never \notin Int
  /\ {RespawnTicks, GraceTicks, Cap, MaxErrors} \subseteq Nat \ {0}
  /\ Levels \subseteq [goal : {"kill_all", "find_exit", "reach_goal", "survive_time"}, limit : Nat,
                       target : Nat, lives : Nat \ {0}, buddy : SUBSET Player, boss : SUBSET Boss]

VARIABLES level, tick, start, errors, departed, game

levelVars == <<level, tick, start, errors, departed, game>>

\* Bound: the cap ends every level before it, whatever ticks throw.
LastTick == Cap + 2 * MaxErrors

Tick == -1 .. LastTick

LevelGame == [here : SUBSET Player, alive : SUBSET Player, frozen : SUBSET Player, at : SUBSET Player,
              locked : SUBSET Player, respawn : [Player -> Int \cup {Never}],
              lives : Int, deaths : Nat, fallen : Int,
              foes : [Foe -> {"alive", "dead", "unborn"}], exit : BOOLEAN,
              completion : Int \cup {Never}, finished : BOOLEAN, verdicts : Seq({"won", "lost"})]

LevelTypeOK ==
  /\ level \in Levels /\ tick \in Tick /\ start \in 0 .. LastTick
  /\ errors \in 0 .. MaxErrors /\ departed \in SUBSET Player
  /\ game \in LevelGame

LevelInit ==
  /\ level \in Levels
  /\ tick = -1 /\ start = 0 /\ errors = 0 /\ departed = {}
  /\ game = [here |-> Player, alive |-> Player, frozen |-> {}, at |-> {}, locked |-> {},
             respawn |-> [p \in Player |-> Never], lives |-> level.lives, deaths |-> 0, fallen |-> 0,
             foes |-> [f \in Foe |-> IF f \in level.boss THEN "alive" ELSE "unborn"], exit |-> FALSE,
             completion |-> Never, finished |-> FALSE, verdicts |-> <<>>]

-----------------------------------------------------------------------------
(* The end: each operator takes and returns the game *)

\* completeLevelInternal and gameOverInternal: the first of them counts.
Verdict(g, v) ==
  IF g.finished THEN g ELSE [g EXCEPT !.finished = TRUE, !.verdicts = Append(@, v)]

\* triggerCompletion, at tick n.
Triggered(g, n) == IF g.completion = Never THEN [g EXCEPT !.completion = n] ELSE g

-----------------------------------------------------------------------------
(* Deaths *)

\* The engine lets players fall and leaves the rest to campaignTick.
Fell(g, P) == [g EXCEPT !.alive = @ \ P, !.fallen = @ + Cardinality(P)]

\* Mutant: whoever is locked in stays so.
NewlyDeadLocked(g, P, n) ==
  [g EXCEPT !.deaths = @ + Cardinality(P), !.lives = @ - Cardinality(P),
            !.respawn = [p \in Player |-> IF p \in P THEN n + RespawnTicks ELSE @[p]]]

\* Mutant: a death while another player waits to come back is not charged.
NewlyDeadFree(g, P, n) ==
  [g EXCEPT !.deaths = @ + Cardinality(P),
            !.lives = IF \E p \in Player : g.respawn[p] # Never THEN @ ELSE @ - Cardinality(P),
            !.respawn = [p \in Player |-> IF p \in P THEN n + RespawnTicks ELSE @[p]],
            !.locked = @ \ P, !.frozen = @ \ (P \cap g.locked)]

\* handlePlayerDeath at tick n for each of the players P, none of whom has a
\* respawn pending, in the order of the game's players: out of the lock and a
\* life less, and a time to come back at for as long as lives last.
NewlyDead(g, P, n) ==
  LET back == {p \in P : Cardinality({q \in P : q < p}) + 1 < g.lives}
  IN [g EXCEPT !.deaths = @ + Cardinality(P), !.lives = @ - Cardinality(P),
               !.respawn = [p \in Player |-> IF p \in back THEN n + RespawnTicks ELSE @[p]],
               !.locked = @ \ P, !.frozen = @ \ (P \cap g.locked)]

HandleDeaths(g, P, n) ==
  LET dead == NewlyDead(g, P, n)
  IN IF P # {} /\ dead.lives <= 0 THEN Verdict(dead, "lost") ELSE dead

\* Contact with an enemy, and hazards: the players P fall here.
Killed(g, P, n) == HandleDeaths(Fell(g, P), P, n)

\* Those the engine let fall, and whoever else is dead with nothing pending.
Unhandled(g) == {p \in g.here : p \notin g.alive /\ g.respawn[p] = Never}

\* Who is not a buddy.
Mortal(g) == g.alive \ level.buddy

\* Those whose time has come at tick n.
Due(g, n) == {p \in Player : g.respawn[p] # Never /\ g.respawn[p] <= n}

\* The players D come back.
Respawned(g, D) ==
  [g EXCEPT !.alive = @ \cup (D \cap g.here), !.at = @ \ D,
            !.respawn = [p \in Player |-> IF p \in D THEN Never ELSE @[p]]]

-----------------------------------------------------------------------------
(* The goal *)

\* Who stands on the target and is not held yet.
Arrived(g) == {p \in Mortal(g) : p \in g.at /\ p \notin g.frozen}

LockedIn(g, P) == [g EXCEPT !.locked = @ \cup P, !.frozen = @ \cup P]

\* checkLockIn: whoever has arrived is held there; with all that live held
\* there the level is won.
LockIn(g, n) ==
  LET h == LockedIn(g, Arrived(g))
  IN IF Mortal(h) # {} /\ Mortal(h) \subseteq h.locked THEN Triggered(h, n) ELSE h

Living(g) == {f \in Foe : g.foes[f] = "alive"}

AllDead(g) == Living(g) = {}

Spawned(g) == {f \in Foe : g.foes[f] # "unborn"}

KilledEnough(g) ==
  IF level.target = 0 THEN AllDead(g)
  ELSE Cardinality({f \in Foe : g.foes[f] = "dead"}) >= level.target

\* The exit opens.
Opening(g) == [g EXCEPT !.exit = @ \/ KilledEnough(g)]

\* checkWinCondition, by the level's goal.
Checked(g, n) ==
  CASE g.completion # Never -> g
    [] g.completion = Never /\ level.goal = "kill_all" ->
         IF Spawned(g) # {} /\ AllDead(g) THEN Triggered(g, n) ELSE g
    [] g.completion = Never /\ level.goal = "find_exit" ->
         LET h == Opening(g) IN IF h.exit THEN LockIn(h, n) ELSE h
    [] g.completion = Never /\ level.goal = "reach_goal" -> LockIn(g, n)
    [] OTHER -> IF n - start' >= level.limit THEN Triggered(g, n) ELSE g

\* The players S up to one of them, in the order of the game's players.
Firsts(S) == {S} \cup {{q \in S : q < p} : p \in S}

\* checkWinCondition broken off on the way: some who have arrived are held,
\* and nothing is decided.
HalfChecked(g) ==
  LET h == IF level.goal = "find_exit" THEN Opening(g) ELSE g
  IN IF g.completion = Never /\ (level.goal = "reach_goal" \/ (level.goal = "find_exit" /\ h.exit))
     THEN {LockedIn(h, P) : P \in Firsts(Arrived(h))} ELSE {g}

Graced(g, n) ==
  IF g.completion # Never /\ n >= g.completion + GraceTicks THEN Verdict(g, "won") ELSE g

\* Mutant: a boss calls for others as it dies.
CalledAtLast(g, F) == [g EXCEPT !.foes = [f \in Foe |-> IF f \in F /\ @[f] = "unborn" THEN "alive" ELSE @[f]]]

\* A boss that lives may call for others.
Called(g, F) == IF \E b \in Boss : g.foes[b] = "alive"
                THEN [g EXCEPT !.foes = [f \in Foe |-> IF f \in F /\ @[f] = "unborn" THEN "alive" ELSE @[f]]]
                ELSE g

Slain(g, F) == [g EXCEPT !.foes = [f \in Foe |-> IF f \in F /\ @[f] = "alive" THEN "dead" ELSE @[f]]]

-----------------------------------------------------------------------------
(* A tick *)

\* Nobody who is held moves.
Moved(g, P) == [g EXCEPT !.at = (@ \cap (g.frozen \cup (Player \ g.alive))) \cup P]

\* Mutant: the cap is for levels with a time limit.
OutOfTimeLimited(n) == level.limit > 0 /\ start' > 0 /\ n - start' >= Cap

OutOfTime(n) == start' > 0 /\ n - start' >= Cap

TooLate(g, n) == level.limit > 0 /\ level.goal # "survive_time" /\ g.completion = Never /\ n >= level.limit

\* campaignTick up to contact with enemies: the dead come back, enemies die.
Struck(g, n) ==
  LET back == Respawned(g, Due(g, n))
      hunted == {Slain(back, F) : F \in SUBSET (IF n = 0 THEN {} ELSE Living(g))}
  IN UNION {{Killed(h, C, n) : C \in SUBSET (IF Living(h) = {} THEN {} ELSE Mortal(h) \ h.frozen)} : h \in hunted}

\* campaignTick up to the goal: whoever the engine let fall, hazards, the boss.
Roused(g, n) ==
  LET charged == {HandleDeaths(c, Unhandled(c), n) : c \in Struck(g, n)}
      hurt == UNION {{Killed(c, H, n) : H \in SUBSET (Mortal(c) \ c.frozen)} : c \in charged}
  IN UNION {{Called(h, E) : E \in SUBSET (Foe \ Spawned(h))} : h \in hurt}

\* What campaignTick may make of the game at tick n.
CampaignTick(g, n) ==
  IF OutOfTime(n) \/ TooLate(g, n) THEN {Verdict(g, "lost")}
  ELSE {Graced(Checked(h, n), n) : h \in Roused(g, n)}

\* What it leaves when it throws: among the respawns, among the deaths of the
\* engine, on the way to the goal, or at the first line.
BrokenAtRespawns(g, n) == {Respawned(g, D) : D \in SUBSET Due(g, n)}

BrokenAtDeaths(g, n) == UNION {{HandleDeaths(c, P, n) : P \in Firsts(Unhandled(c))} : c \in Struck(g, n)}

BrokenAtGoal(g, n) == UNION {HalfChecked(h) : h \in Roused(g, n)}

BrokenTick(g, n) ==
  IF OutOfTime(n) \/ TooLate(g, n) THEN {g}
  ELSE BrokenAtRespawns(g, n) \cup BrokenAtDeaths(g, n) \cup BrokenAtGoal(g, n)

\* The engine moves players and lets some of them fall; when the countdown
\* ends campaignTick comes alone.
Played(g, n) ==
  IF n = 0 THEN {g}
  ELSE {Fell(Moved(g, P), X) : P \in SUBSET (g.alive \ g.frozen), X \in SUBSET Mortal(g)}

\* The next tick is reached, and the first that campaignTick sees is the start.
Begins ==
  /\ ~game.finished
  /\ tick < LastTick
  /\ tick' = tick + 1

Starts == start' = IF start = 0 THEN tick' ELSE start

\* A tick of the countdown does not reset the errors.
RunTick ==
  /\ Begins /\ Starts
  /\ \E m \in Played(game, tick') : game' \in CampaignTick(m, tick')
  /\ errors' = IF tick' = 0 THEN errors ELSE 0
  /\ UNCHANGED <<level, departed>>

\* A tick has thrown.  The last one that may ends the level as if its time
\* were up, which a survivor has won by then.
Broken(g) ==
  IF errors' < MaxErrors THEN g
  ELSE Verdict(g, IF level.goal = "survive_time" THEN "won" ELSE "lost")

\* A tick throws: before the countdown has ended, in the engine, in
\* campaignTick, or when all is done but the state does not go out.
FailTick ==
  /\ ~game.finished
  /\ errors < MaxErrors
  /\ errors' = errors + 1
  /\ \/ tick = -1 /\ game' = Broken(game) /\ UNCHANGED <<tick, start>>
     \/ /\ Begins
        /\ \E m \in Played(game, tick') :
             \/ tick' > 0 /\ game' = Broken(m) /\ UNCHANGED start
             \/ /\ Starts
                /\ \E b \in BrokenTick(m, tick') \cup CampaignTick(m, tick') : game' = Broken(b)
  /\ UNCHANGED <<level, departed>>

\* removePlayer: gone from the level, not respawned, not waited for.
Leave(p) ==
  /\ p \in game.here \ level.buddy
  /\ departed' = departed \cup {p}
  /\ game' = [game EXCEPT !.here = @ \ {p}, !.alive = @ \ {p}, !.frozen = @ \ {p}, !.at = @ \ {p},
                          !.fallen = IF p \in Unhandled(game) THEN @ - 1 ELSE @,
                          !.locked = @ \ {p}, !.respawn = [@ EXCEPT ![p] = Never]]
  /\ UNCHANGED <<level, tick, start, errors>>

\* stop(), by the end of the session.
Stop ==
  /\ ~game.finished
  /\ game' = [game EXCEPT !.finished = TRUE]
  /\ UNCHANGED <<level, tick, start, errors, departed>>

LevelNext ==
  \/ RunTick \/ FailTick \/ Stop
  \/ \E p \in Player : Leave(p)

LevelSpec == LevelInit /\ [][LevelNext]_levelVars

\* The loop's interval fires for as long as it is armed.
LevelFairSpec == LevelSpec /\ WF_levelVars(RunTick \/ FailTick)

-----------------------------------------------------------------------------
(* Properties *)

\* A fall, whichever of the four places notices it, costs one life, in this
\* tick or, if this one throws, in a later one; never two, and never none for a
\* player who stays.  After a tick that got through every fall is paid for, and
\* whoever is still in the level and down has a time to come back at, which is
\* ahead (CampaignGame.ts:709).
FallsAreHandled ==
  ~game.finished =>
    /\ game.lives = level.lives - game.fallen + Cardinality(Unhandled(game)) /\ game.lives > 0
    /\ errors = 0 => \A p \in game.here \ game.alive : game.respawn[p] # Never /\ game.respawn[p] > tick

\* Whoever is held is on the target and counted as locked in, so nobody who
\* has left counts; and is alive, unless ticks that throw have kept a fall from
\* being noticed.  Nobody is left frozen for good.
HeldAreThere ==
  ~game.finished =>
    /\ game.locked = game.frozen
    /\ game.locked \subseteq ((game.alive \cup Unhandled(game)) \cap game.at) \ departed
    /\ errors = 0 => game.locked \subseteq game.alive

\* A level is decided once at most, and a kill-all level that is won, or is
\* about to be, has no enemy left, whoever is spawned meanwhile.
VerdictStands ==
  /\ Len(game.verdicts) <= 1 /\ (game.verdicts # <<>> => game.finished)
  /\ level.goal = "kill_all" /\ game.completion # Never => AllDead(game)

\* Every level ends.
LevelEnds == <>game.finished
=============================================================================
