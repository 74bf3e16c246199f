# BlastArena: specifications, model checks and proofs

BlastArena is a multiplayer bomb game: a Node.js server (Express and
Socket.IO) that keeps rooms and parties in Redis, accounts and results in
MariaDB, and running matches in memory, and a browser client. This directory
holds TLA+ models of the server's coordination logic, the TLC runs that check
them, and TLAPS proofs of the invariants that matter most.

Paths below are relative to `backend/src/` unless they start otherwise.
A module's header comment says what each of its variables stands for;
`PROJECT.json` maps every definition to the lines it translates.

1. [The system](#1-the-system)
2. [The modules](#2-the-modules)
3. [The runs](#3-the-runs)
4. [The proofs](#4-the-proofs)
5. [Where code and documentation disagree](#5-where-code-and-documentation-disagree)
6. [Plan](#6-plan)
7. [Not modelled](#7-not-modelled)

## 1. The system

One server process runs everything on one JavaScript thread. A handler runs
without interruption to its next `await`, so what interleaves are the stretches
between awaits of different handlers, timers (`setInterval` loops, 30-second
reapers) and the answers of Redis and MariaDB. A user may have several tabs,
each with a socket of its own, and the server may die at any point.

| Component | State it keeps | Operations | What is hard | What makes it correct |
|---|---|---|---|---|
| **Lobby service** `services/lobby.ts` | Redis: `room:<code>`, `player:<id>:room` with a time to live, the set `rooms:index` | create, join, leave, ready, start, status, read-modify-write update, delete, list | functions of several commands interleave; a restart in between; keys that expire; `updateRoom` writes back a copy read earlier | rooms have their host among their players and respect the seats; mapping, index and rooms agree |
| **Room sessions** `socket.ts`, `game/RoomManager.ts` | `socket.data.activeRoomCode`, Socket.IO rooms, the map of running `GameRoom`s, the ballots for a rematch | connection and session restore, disconnect, create/join/leave/ready/start/restart/vote, admin kick and close, the reaper | every handler awaits Redis or the database several times; two tabs; admin and player at once; reaper at any moment | one loop per room; status tells the truth; nobody left behind in a room; one room per user; starts and matches end |
| **Match** `game/GameLoop.ts`, `game/GameState.ts`, `game/GameRoom.ts` | players alive, placements, scores, finish tick; loop rate and error count; grace periods, departures | tick, countdown, drop, return, leave, end | ticks that throw half-way; players who drop and die within one grace period; the end is shown for seconds while the board goes on | the verdict stands; placements rank the fallen; only bots are fast-forwarded; a match ends and is recorded once |
| **Parties** `services/party.ts`, `handlers/partyHandlers.ts` | Redis: `party:<id>`, `player:party:<id>`, `invite:<user>:<id>`; `socket.data.activePartyId` | create, invite, accept, decline, leave, kick, disband, sync, restore, disconnect | several tabs of one user; the leader disbands while others accept; keys with different times to live | one party per user; a key names a party that lists its user; each open tab is in its party's room |
| **Open world** `game/OpenWorldManager.ts` | one permanent world: players by user and by socket, round, freeze, statistics not yet written | enable and disable, rounds, join, leave, input, AFK removal, flush | enabling while a disable awaits the flush; settings read and applied out of order; a tab that takes over another's player | at most one loop, running iff enabled; each kill is counted at most once; who is in the world has a live socket |
| **Simulations** `simulation/` | runners, a queue of ten, an index of the disk with a generation number | start, queue, cancel, delete, advance, list | deletion of a running batch; a runner whose construction throws; scans in flight | one known batch at a time; every queued batch is run or removed; the index is never behind the end of a batch |
| **Match results** `game/GameRoom.ts` 525–728, `services/elo.ts`, `achievements.ts`, `season.ts`, `challenges.ts`, `cosmetics.ts` | MariaDB: matches, ratings, statistics, achievements, challenge scores | the sequence of transactions at the end of a match; season end | one step of several fails; ratings read without a lock and written absolutely | all systems agree on the winner; no rating change is lost; rating before statistics before achievements |
| **Campaign** `game/CampaignGameManager.ts`, `game/CampaignGame.ts`, `services/campaign*.ts` | sessions by id, session id by user, `activeCampaignSession` of each socket | start (solo, local, online co-op, buddy), input, pause, quit, disconnect, end | a start awaits a dozen reads; the partner starts, quits or drops meanwhile | a user is in one session; every running loop can be stopped; a session has somebody who plays it; each fall costs one life; a level is decided once and ends |
| **Authentication** `services/auth.ts`, `totp.ts` | MariaDB: users, refresh tokens | register, login, two-factor, refresh with rotation, logout | two tabs refresh with one cookie; a rotation in flight during a revocation | a token is exchanged once; after reuse no token of the user is valid |
| **Friends, blocks, presence** `services/friends.ts`, `presence.ts` | MariaDB: two directional rows per friendship, blocks; Redis: presence keys | request, accept, decline, cancel, remove, block; set, remove, refresh | mutual requests; the cap at its limit; a block during a request; reload | friendship is symmetric; no friendship or request across a block; the cap holds on both sides |
| **Board** `game/GameState.ts` with `Bomb`, `Explosion`, `CollisionSystem`, `Map`, `Player`, `BattleRoyale`, `InputBuffer` | grid, bombs, fire, power-ups, input buffers | movement, placing, kicking, throwing, detonation with chains, map events, hazards | chains against a snapshot of the walls; bombs whose owner is dead, gone or back; walls that come and go under bombs and fire | a batch of bombs goes off as one; each owner has as many bombs as they placed; nothing ends up in a wall |
| **Bots and enemy AI** `game/BotAI.ts`, `EnemyAI.ts`, `services/IsolatedAIRunner.ts`, registries and compilers | code of uploaded AIs, isolates | decide, compile, load, unload, dispose | code that loops or throws | a failing AI never takes the match with it |
| **The rest** | chat and direct messages, custom maps, replays and logs, settings, administration, rate limits, migrations, e-mail, translations, client, deployment | | | |

How they interact:

- `socket.ts` calls the lobby service (Redis), creates `GameRoom`s through
  `RoomManager`, and keeps what it knows of a tab in `socket.data`. The lobby
  learns of a match only through the status written by `start`, by
  `onGameOver` and by the ballot, so the status of a room in Redis and the loop
  in memory are two copies of one fact.
- `GameRoom` owns a `GameLoop`, which calls `GameState.processTick` and then
  `GameRoom`'s broadcast callback. The broadcast expires grace periods and may
  change the rate of the loop; the end of the loop calls `onGameOver`, which
  writes the results and then marks the room finished.
- On disconnect `socket.ts` asks in turn the open world, presence, the party,
  the campaign session and the room. Each belongs to the account, so each first
  looks whether another tab of the user still holds it.
- The party decides who may start a co-op level and who follows into a room;
  it does not change with rooms.
- Redis commands of the process go through one connection: they take effect,
  and their answers come, in the order of issue. The database is a pool: its
  answers come in any order.

The hazards this has, each at its line with the properties that cover it or
the reason why none does, are listed in `PROJECT.json` under `hazards`.

## 2. The modules

| Module | Models | Uses |
|---|---|---|
| `RoomStore` | the three kinds of Redis keys of the lobby, and each command or Lua script as one atomic action | |
| `LobbyService` | `services/lobby.ts`, called by several handlers at once, with restarts and expiry | EXTENDS `RoomStore` |
| `RoomSession` | the room handlers of `socket.ts` with `RoomManager`, over the same keys | EXTENDS `RoomStore` |
| `MatchPromise` | abstract: verdict given once, match closed once, recorded by who was gone | |
| `MatchSession` | loop, rules and bookkeeping of one match | INSTANCE `MatchPromise` |
| `Board` | a tick of the board: movement, bombs, chains, fire, map events, spectators | |
| `PartySession` | scripts, handlers and tabs of parties | |
| `OpenWorld` | the permanent world, its settings, rounds, players and statistics, start and stop of the process | |
| `CampaignSessions` | who plays which campaign level | |
| `CampaignLevel` | one level, from its first tick to its verdict | |
| `SimulationQueue` | batches of simulated matches, their queue and the index of the disk | |
| `Friends` | friend requests, friendships and blocks, statement by statement | |
| `LobbyServiceProofs`, `RoomSessionProofs`, `MatchSessionProofs`, `PartySessionProofs`, `OpenWorldProofs`, `CampaignProofs`, `FriendsProofs`, `BoardProofs` | theorems (section 4) | EXTEND the module and `TLAPS`; `CampaignProofs` EXTENDS both campaign modules, `MatchSessionProofs` `SimulationQueue` too |
| `MC…` | values, symmetry and views for TLC | EXTEND the module |

In all of them an action is one stretch of JavaScript from an event or an
answer to the next `await`, and what a handler keeps across the await is a
variable. Auxiliary variables, marked so in the headers, record that a race the
code does not prevent has happened; the properties then say that *nothing else*
goes wrong, and section 5 names the race.

### RoomStore and LobbyService

A function of the service that is one command is one action; `createRoom`
(SET, SET, SADD), `deleteRoom`, `listActiveRooms` and `getRoom … updateRoom`
are several, with the call's local variables in `calls[p]`: what it read before
an await stays there, stale, until it is written back. `Crash` drops every call
in flight; `Expire` lets the mapping or the room lapse. `torn` is auxiliary: it
records the rooms that a broken-off sequence or a stale write left
inconsistent.

The players array is a set. The one place its order is seen is the host that
follows a host who leaves, which is any remaining player here. Teams are left
out: no property tells them apart.

A code is drawn once, here and in `RoomSession`. The code takes six hexadecimal
digits of a UUID and writes the room without looking whether another has them
(`services/lobby.ts` 23, 61): two rooms get one code once in 2^24, and the second
then replaces the first. No property is about that.

### RoomSession

`wire` is the queue of commands issued and not answered: only its head may
resume, which is the order Redis and the single connection guarantee, while
requests, timers, loop ticks and database answers may happen between any two. A
match goes through the phases *loading* (custom map), *starting* (match row
being inserted), *running*, *saving* and *stopped*: `RoomManager` holds it from
*loading* on, and its loop exists from *running* on. What happens on the board
is the action `PlayerDies`.

A tab may ask again while its last request is under way: nothing on the server
keeps it from that. A tab that drops first settles which room it is to give up,
unless another tab of the user sits in it then (`DropSeated`, `DropLookup`); the
handler then leaves the party, if any, which takes awaits, and what it gives up after
that is the room it settled on (`parting`, `GiveUp`), whatever the user and their
other tabs have done meanwhile.

Ghost ballots, stale copies of rooms, tabs that dropped during an await,
mappings that lapsed, and the reaper that runs at any moment are all in; failing
Redis calls inside these handlers are not. `putBack` and `reopened` are
auxiliary: they mark the players and the rooms that a reset has written back as
they were read, after they had moved on (section 5). So is `astray`: who was let
into a room while in another or on the way into one, and who was away when a
reset brought their room back. `hurried` and `cut` are the users who asked for
something, or lost the tab, while a request of that tab was under way. No guard
reads any of the five.

### MatchPromise and MatchSession

`MatchSession` follows `processTick` through its order: clock and countdown,
deaths, hill, respawns, win condition, time-up, finish delay; then the
broadcast with grace periods and the speed-up. The board is abstracted to
which mortal players die in a tick, in groups and by whose bomb, and who holds
the hill: every behaviour of bombs, bots and players is one of these choices.
A tick that throws has done some prefix of its steps (`Prefixes`), and the loop
counts it. `mode` ranges over elimination (free-for-all and the modes like it),
teams, deathmatch and king of the hill.

`MatchPromise` is what a reader of the results expects of a match. The
refinement maps an undecided match to *open*, one with a finish tick to
*decided* and a stopped loop to *closed*, and `KeepsPromise` is that
specification as a property.

### Board

The other half of `processTick`: what is a choice in `MatchSession` happens
here. `phase` walks through the parts of a tick in their order (inputs of each
player, sliding bombs and fuses, the batch of detonations, fire and deaths,
frozen tiles, map events and their landings, respawns), and `todo` through the
players within a part, so that the moves of several players in one tick see
each other's bombs as the code lets them (`occ` is `TickOccupancy`). Bombs have
numbers, which are their order in the `Map`. What the code does to one after the
other is a function over an interval: `Explode` the walk of `detonateBomb` over a
snapshot of the walls, as many steps as there are bombs; `AllSlid`, `AllGlided`
and `AllSlidOnIce` the passes over bombs and players, each of which sees what the
ones before have done. A map is any graph of cells with a direction on each edge
in which no two cells have the same neighbour on one side; on such a graph a
blast stops where it comes round to its own bomb, as in the code.

### PartySession

The same style as `RoomSession`: `wire` for Redis, plus `asked` for the
friendship query, which goes to the database and is answered in any order. The
Lua scripts are actions on `parties` and `playerParty`. Tabs connect, restore
their party, are moved into and out of its room, and drop. Expiry is a choice
that is a little wider than the clock allows: any key may lapse at any time; a
party record only once nobody's key names it, since every join refreshes the
record.

Disbanding and kicking fetch the sockets of the party's room and put them out
one await later (`Fetch`, `Sweep`). The adapter is the one in memory, so that
await is a few turns of the microtask queue: answers of Redis already read may
go first (`ready` of them, chosen when the fetch is issued), whereas nothing that
comes from outside does (`Idle`). A tab may ask while its user's last request is
under way; the users who did are in `hurried`, and the tabs that were in a new
party when a sweep of the old one took their `activePartyId` are in `overtaken`.

### OpenWorld

One action per stretch of `OpenWorldManager`: `Join`, `LeaveWorld`, `Drop`,
`Tick`, `Shutdown` and `FinishShutdown` on either side of the flush that
`doShutdown` awaits, `ReadSetting` and `HandleSettingsChange` on either side of
the read of the settings, `InitRead` and `InitOn`/`InitOff` likewise, and
`WriteStats` for each answer of the pool. A round is an identity that its game
state and its loop share, so a loop that goes on without its state, or two
loops, can be told from the one that should run. `stats` follows each kill from
the board to the database. `overlap` and `crossed` mark the two races of
section 5; `tripped` the circuit breaker, of which the manager is not told.

### CampaignSessions and CampaignLevel

`CampaignSessions` is the manager's two maps, the handlers of `socket.ts` with
each tab's `activeCampaignSession`, and the start of a level, which awaits a
dozen reads (`starts[t]`) while the partner starts, quits or drops.
`CampaignLevel` is what a started level then does: `RunTick` is the engine's
tick and `campaignTick` in their order, written as the set of games a tick may
make of one. `FailTick` is a tick that throws: before the countdown has ended,
in the engine, in `campaignTick` among the respawns, the deaths or the players
who have arrived, or when all is done; what it has done by then stays, and the
falls nobody has noticed wait for the next tick that gets so far. Falls come from
four places of the code (fire, contact, hazards, missing ground), which share one
bookkeeping.

### SimulationQueue

The manager's queue and runners, the run of a batch at the grain of its games
and pauses, `processQueue` inside the event that ends a batch, and the index:
a scan reads directories one at a time while batches end and are deleted, and
may be kept only if `diskGeneration` is still its own. Each of its reads may
fail: a batch whose directory or configuration is not read is left out of the
index, one whose summary is not read is listed as unfinished, and the index is
kept all the same (`misread`).

### Friends

A transaction is the sequence of its statements (`LockOwn`, `LockOther`,
`Count`, `InsertRequest`, `InsertFriendship`, `Delete`), each of which may wait
for a lock, and may be rolled back at any time. The database is external: the
locks are what the code's `SELECT … FOR UPDATE` and its comment on the gap lock
ask of InnoDB, per directed pair; a real gap may cover more keys, which only
removes behaviours.

## 3. The runs

Each passing run is exhaustive within its bounds.

| Run | Instance | Distinct states | Shows |
|---|---|---|---|
| `lobby_calls` | 2 users, 1 code, 2 callers, 2 seats, 1 restart | 853,248 | `RoomsWellFormed`; `MappedIsMember` and `LiveRoomIndexed` unless a torn sequence is on record |
| `room_match` | 2 users, 2 codes, 2 matches, 5 requests, overlapping or not: create, join, leave, start, restart, vote, close, reap | 5,363,636 | `OneLoopPerRoom`, unless a late reset is on record; `OneRoomPerUser`, unless that or overlapping requests are; `StatusHonest` |
| `room_seats` | 2 users, 3 tabs, 4 requests and drops: create, join, leave, ready, start with a missing map, kick, drop, expiry; fair | 2,402,713 | `NoGhost`: every player of a room that waits or is about to start sits in it, is on the way or is being given up; `CountdownEnds` |
| `match_rules` | 2 humans and a bot, four modes, ticks that may throw; fair | 1,942,909 | `KeepsPromise` (refinement); `FallenAreRanked`; `FastIsForBots`; `MatchEnds` |
| `party_tabs` | 2 users, 3 tabs, 2 parties, 5 requests, everything may lapse | 1,764,158 | `KeyMeansMember`; `PartyIsHeard` |
| `open_world` | 1 account with 2 tabs, 2 administrators, 2 changes, 3 rounds, 1 kill, 1 stop or crash; fair | 636,787 | `OneWorld`; `KillsAddUp`; `StopsClean`; `NobodyStrands`; `KillsAreWritten` |
| `campaign_sessions` | 2 users, a tab each, 3 levels: solo, co-op, local | about 1.7 million | `KeysNameSessions`; `LoopsAreManaged`; `OneLevelEach`; `SomebodyPlays`; `SomebodySteers` |
| `campaign_level` | 2 players, a boss and a minion, five levels over the four goals, ticks that throw anywhere; fair | 88,876 | `FallsAreHandled`; `HeldAreThere`; `VerdictStands`; `LevelEnds` |
| `sim_queue` | 3 batches of up to 2 games, queue of 2, 1 deletion at a time, reads that fail; fair | 970,353 | `OneKnownRuns`; `QueueIsServed`; `IndexKnowsEnds`; `QueueMoves` |
| `friends` | 3 users, 2 calls under way, lists of 1 | 998,954 | `FriendshipIsMutual`; `OneRequestPerPair`; `CapHolds`; `BlockedAreApart` |
| `board` | 2 players, 2 bombs, a wall on a corridor of 6 tiles, 1 map event, request or departure | 5,951,471 | `BombsAreCounted`; `Footing`; `TemporaryGoes`; `BatchIsOneBlast` |

`campaign_local` ends in a counterexample, on purpose: see section 5.

What a property says is in the comment above it. Each has been seen to fail
when the code's care is taken away: `PROJECT.json` lists, for each, the mutated
definition that breaks it. The type invariant `TypeOK` of each module
holds in its instances too; adding it to the cfg repeats that.

**Bounds.** The number of requests (`MaxRequests`, `MaxChanges`, `MaxDeletes`,
`MaxPlaced`, `MaxEvents`), restarts (`MaxCrashes`, `MaxRestarts`), matches
(`Game`), levels (`Session`), rounds (`Round`), codes and ids are bounds; each
is a guard with a constant. They were raised until the interesting cases happen:
two callers are enough for every race of read and write on one room; two matches
in a room let a late handler of the first meet the second; three tabs give a
user a second tab while somebody else is the host; two administrators cross each
other's shutdown; three levels let a level be started beside one that ends and
one that goes on; three batches leave one in the queue while the two before it
run unknown and known. In `friends` two calls are enough for each pair of
statements to cross, and the third user makes the list full. Requests come in
`Kinds`, and each room run includes the kinds that bear on its properties,
because all of them at once need more requests than can be searched. Round time,
grace period, respawn, finish delay, fuses and warnings are a few ticks: their
order relative to each other is what matters, and every order occurs (a grace
period that ends before, with and after a death; a bomb that goes off before,
with and after a wall falls or rises). Lists are full at one friend, and the
board's players start with the two bombs they would otherwise have to collect.

**Symmetry** is used for users, codes, callers, games, levels, parties, players
and calls where the run has no liveness property and the constants do not tell
the members apart. `campaign_sessions` also identifies states that differ only
in the remains of levels that have ended (`VIEW Live`): nothing reads them any
more but whether the level was there and whether its loop runs, both of which
the view keeps. With a view the number of states found varies a little with the
order of the search.

**Deadlock** is off where budgets run out or every room and tab is gone: the
models stop there because the bound does, or because nothing is left to do. The
board always goes on, and is checked for it.

**Fairness.** Nothing is assumed of requests, drops, votes, moves or expiry.

- `RoomSession`: an issued command is answered (`Resume`), the database answers
  (`ResumeMatch`), and a running match ends (`GameOver`), which is what
  `match_rules` checks of the match itself.
- `MatchSession`, `CampaignLevel`: the interval timer fires while the loop runs.
  Ticks may throw, every time.
- `OpenWorld`: of the ticks of a running loop some find the periodic flush due;
  it is due every thirty seconds.
- `SimulationQueue`: a game that is played ends, or fails, and a pause between
  two is over in the end.

## 4. The proofs

`tlapm` checks every leaf; no theorem has an open obligation. The assumptions
are those the modules name: finitely many users, at least one seat, absent
values that are no room, code, tab or level. All are statements about every
value of the constants: any number of users, tabs, callers, rounds or levels.

| Module | Theorem | Property |
|---|---|---|
| `LobbyServiceProofs` | `TypeCorrect`, `RoomsAlwaysWellFormed`, `MappedAlwaysMember`, `LiveRoomAlwaysIndexed` | types; `RoomsWellFormed`; `MappedIsMember`; `LiveRoomIndexed` |
| `RoomSessionProofs` | `TypeCorrect`, `LoopsAreSingle`, `StatusIsHonest`, `RoomsAreSingle`, `NobodyIsLeftBehind` | types; `OneLoopPerRoom`; `StatusHonest`; `OneRoomPerUser`; `NoGhost` |
| `MatchSessionProofs` | `TypeCorrect`, `TheFallenAreRanked`, `SpeedIsForBots`, `TheMatchKeepsItsPromise` | types; `FallenAreRanked`; `FastIsForBots`; `KeepsPromise` |
| the same, of `SimulationQueue` | `BatchesTypeCorrect`, `BatchesRunAlone`, `TheQueueIsServed`, `TheIndexKnowsEnds` | types; `OneKnownRuns`; `QueueIsServed`; `IndexKnowsEnds` |
| `PartySessionProofs` | `TypeCorrect`, `KeysNameMembers`, `PartyAlwaysHeard` | types; `KeyMeansMember`; `PartyIsHeard` |
| `OpenWorldProofs` | `TypeCorrect`, `NobodyEverStrands`, `EveryKillCountsOnce`, `NothingIsLeftBehind`, `ThereIsOneWorld` | types; `NobodyStrands`; `KillsAddUp`; `StopsClean`; `OneWorld` |
| `CampaignProofs` | `TypeCorrect`, `KeysAlwaysNameSessions`, `LoopsAlwaysManaged`, `OneLevelAtATime`, `LevelsHavePlayers`, `SomebodyAlwaysSteers` | types; `KeysNameSessions`; `LoopsAreManaged`; `OneLevelEach`; `SomebodyPlays`; `SomebodySteers` |
| the same, of `CampaignLevel` | `LevelTypeCorrect`, `EveryFallIsHandled`, `WhoeverIsHeldIsThere`, `TheVerdictStands` | types; `FallsAreHandled`; `HeldAreThere`; `VerdictStands` |
| `FriendsProofs` | `FriendshipAlwaysMutual`, `OneRequestAlways`, `BlocksAlwaysApart`, `CapAlwaysHolds` | `FriendshipIsMutual`; `OneRequestPerPair`; `BlockedAreApart`; `CapHolds` |
| `BoardProofs` | `TypeCorrect`, `OnTheFloor`, `NothingTemporaryStays`, `EveryBombIsCounted`, `BatchesAreBlasts` | types; `Footing`; `TemporaryGoes`; `BombsAreCounted`; `BatchIsOneBlast` |

**LobbyServiceProofs.** `RoomsWellFormed` is not inductive: `updateRoom` stores
the copy a call read earlier. The invariant is `RoomsWellFormed /\
CopiesWellFormed`, where every copy in flight is well formed too. One lemma per
operation on a single room shows what it returns; the cardinality facts (a join
fits because the script counts in the same step) come from
`FiniteSetTheorems`.

What makes the agreement of the three kinds of keys hard is what calls still
have to write. The invariant `Agree` adds to the two properties that
codes are drawn once (`Minted`), that a room being created is as its creator
wrote it or has lapsed, with no other call at work on it (`Private`), and that
what some call is about to take out of the index has no room any more, or one
that a late write has torn (`Gone`).

**RoomSessionProofs.** Four invariants. `Basic` has the types, that a tab whose
user waits for answers has one request under way, that nothing speaks of a code before it is drawn, and that
the manager finds a match under the code of its room. `Loops` says, of a room
that no late reset has reopened, that there is one start of it from the script
that lets it pass to the end of its match (a reply to the script or a match,
never two), and none while the room waits or has finished (`OneStartAt`); and of
every room that its status has somebody in charge (`HonestAt`). Both theorems on
loops and status hold without a hypothesis. `Seats`, for `OneRoomPerUser`, adds
what replies under way still do: the mapping names the room a user sits in,
unless its creation is about to write it; who is about to enter a room sits in
none but the one to be left first; and a deletion that will clear mappings hits
nobody who sits elsewhere by then. All of it is said of users who have not asked
for something within a request, and who were not put back by a reset. The hypotheses of `RoomsAreSingle` are the
instance of `room_match`: a tab each, and no mapping that lapses. They cannot be
dropped (section 5).

`Order`, for `NoGhost`, needs neither: it holds for any number of tabs per user.
Its first part, `TabOrder`, is about one tab: whose request is under way is
connected, or marked (`cut`); a tab has a room to give up only once it has dropped,
and looks for one once (`Partings`); a tab whose session is being restored sits nowhere and asks for
nothing but a room to enter, and enters it only after the restoring is over. Its
second, `RoomOrder`, is about one user: on the way into a room they are in no
other and on the way into no other (`OneWay`); and when a reply is about to make
their tabs forget a room they are a player of, another reply behind it will seat
them again (`Evicted`), so that the order of the wire decides. What the
disconnect handler adds is that the room a tab sat in is either held by another tab
when it drops or given up in the end, by whichever tab was the last: a handler that
gave it up for the user's very last tab only would leave them in it. When it is
given up, the player is out of it, or its match runs and the room does not wait
(`RunningIsLate`, from `Loops`). The theorem has no hypothesis: those whom it does
not hold of are marked in the property.

Most of the thirty-odd actions leave what an invariant is
about alone; `StatusQuiet`, `SeatsQuiet`, `TabsQuiet` and `GamesQuiet` say so
once, and lemmas on quiet steps do the rest.

**MatchSessionProofs.** One relation carries the argument: `Follows(m, n)` says
what the rules may make of a match (what is decided stands; without respawns
nobody comes back and the ranking of the fallen is kept). Every rule keeps it
and it composes, so a tick does, and so does any prefix of one that throws. Each
action is then shown to be one of three kinds (`Sound`): the match goes on, or
the loop closes it, or the room is removed. From that follow the invariant
`IInv` (the ranking holds before the end is decided, who has departed has
fallen, `FastIsForBots`) and the refinement, whose steps are the three kinds.
The lemmas about placements (`DeathsKeepOrder`, `SharingKeepsOrder`) are the
hardest: counting a tick's deaths down from the number alive, and letting those
who die together share the best place, gives a competition ranking. That
those who fall in one tick are level is a second, shorter argument, about the steps
of a tick that gets through (`PlayTickIsLevel`): `Shared` levels everybody it finds
dead, and nobody dies after it but those whose grace period ends in the broadcast.

The module ends with the batches in which matches are simulated: it EXTENDS
`SimulationQueue` too, whose specification is named `SimSpec` for that. The
invariant `SimInv` adds to its three properties what the last one needs: a scan
that will be kept has read the summary of every batch that has one where it has
been, or knows that it has not (`ScanKnowsEnds`), and the index that deletions hold is as good as the cached
one (`HeldIsCached`). That an end always passes through `processQueue` is what
serves the queue, whether or not the manager still knows the batch that ends.

**PartySessionProofs.** A user's key always names a party that lists them,
whatever interleaves. The invariant `IInv == Sound /\ Typed` adds that a party
that exists was given its id once (`randomUUID` never repeats): without it,
creating a party could take an old one from under its members' keys. There is
one lemma per script, then one step per handler, most of which leave Redis
alone. `PartyIsHeard` speaks of a quiet moment, so its invariant `HInv` says what
the replies under way will come to, for every user who was never in a hurry:
a tab that is not in the room of its user's party will be told of it (`Told`);
what was issued before the key was written, and what the sockets were fetched
for, is followed by the reply of that writing (`InOrder`, `Later`), which moves
the tab into the room after anything that takes it out. Users whose requests
overlap are excepted, as in the property: a create and a leave of theirs can cross.

**OpenWorldProofs.** Three invariants on top of each other. `NobodyStrands` is
inductive with the types. `Quiet` says that no shutdown has anything under way
unless one is in progress, and that `init()` has ended when the process is up.
`Single` says, as long as no world has been opened beside another, that the
only running loop is that of the current state, that none runs while a shutdown
awaits its flush, that nothing is queued then (so the process may exit), and
that the kills add up: a tick counts a kill once only because its loop is the
current one. Lemmas on the record of one account's kills (`DetachedKeeps`,
`MovedKeeps`, `ForgottenKeeps`) carry the arithmetic. `Heeds` adds, for
requests one at a time, that the request under way knows the setting and that
whoever awaits a shutdown has switched the world off.

**CampaignProofs.** The invariant of `CampaignSessions` relates what the manager holds
(`Sound`: keys name levels of the map and players who have not left them, and,
unless a key was robbed, each player's key names the level they play) to what
levels were made with (`Made`), to the starts under way, whose level nobody has
left yet (`Starting`), and to what tabs were told (`Heard`: whoever is told of a
level is part of it and has not left it). Without the last, leaving a level
would take the key of another one played meanwhile. `Steered` is what
`SomebodySteers` needs: *each* player of a running level has a tab that was told
of it, or has left it. Steps of the manager that let no level start and bring
nobody back (`Subdued`) keep it.

The module goes on with `CampaignLevel`. Within a tick, and after one that throws,
falls wait to be handled. `SoundLevel(g, n)` says what holds of the game all the
same, with the falls that wait counted in (`Paid`, `Held`), and that whoever
comes back does so after tick n (`Ahead`); there is one lemma for each part of a
tick. The invariant is `SoundLevel(game, -1)` always, and after a tick that got
through `SoundLevel(game, tick)` with no fall that waits: `CampaignTickKeeps`
leads from the first to the second, so that one good tick mends what any number of
broken ones have left (`BrokenTickKeeps`). That lives last for as many respawns as are granted in
one tick is a count of the players before each (`Before`), for which players are
numbers, in the order of the game's players.

**FriendsProofs.** Two calls hold the same lock only of a row that is missing
(`LocksExclude`: a gap). So the row a transaction has found pending is pending
when it is changed, and the row it has found missing is missing when it is
inserted (`Found`). Mutual friendship follows because both directions are written
by one transaction that holds the lock of the pending row; blocks because theirs
deletes what it finds, except for the pairs in `slipped`. The cap is counted in
one statement and the rows written in a later one: `CapInv` says that a count nobody
has outdated still leaves room on both sides, and `CapHolds` that only an
acceptance written on an outdated one (`crossed`) exceeds it; the cardinalities
come from `FiniteSetTheorems`.

**BoardProofs.** First the recursion. The induction theorems of the library
take an operator, which the provers cannot instantiate; its well-founded
induction on sets does as well: `LeastNatural` comes from `WFMin`, and from that
`Recursion` (a function over an interval exists and is what it is defined to be)
and `Reaches` (a set that the first value is in and no step leaves holds them
all). Every recursive definition of `Board` is then a few lemmas that say what
comes out.

- *Rays*: a ray that meets itself meets its start first (`RayMeetsStart`), so what
  a blast covers is what its bomb sees, and the other way round for tiles with
  nothing on them (`Covered`, `Uncovered`). This is where neighbours have to be
  unique.
- *Detonations*: `Chained` holds between any two: who is due and who has gone is
  what the first bombs lead to, and a bomb that has gone has reached only these.
  Each step takes a bomb off the list for good, so after as many as there are
  bombs nobody is due (`ExplodeEnds`), whatever the order.
- *Passes*: no bomb and no player moves onto a wall or onto a bomb (`Rolled`,
  `Strolled`).
- *Counts*: the cardinalities of `OwnedRest` and `OwnedMore`, from
  `FiniteSetTheorems`.

Then an invariant each, with a lemma per action that can disturb it. `Typed` is
`TypeOK` and that nobody's turn is pending outside the two phases with turns. Its
part that `bombs[i].left` is positive outside the phase that detonates says that
every bomb goes off in the tick in which its fuse is out: what a surge, a remote
fuse or a chain does to fuses never makes one negative. `Footing` is not
inductive: that a bomb is not placed on another depends on the copy that inputs go
by (`Taken`: it has every tile with a bomb), and that a respawn lands on the floor
depends on nothing being built on the tiles where players begin (`SpawnsFree`,
for the tiles and for the requests under way). `TemporaryGoes` and
`BombsAreCounted` are inductive with the types. `BatchIsOneBlast` needs
`FootingInv`: a bomb inside a wall would be hit by a blast that ends there and not
be seen. Nothing is assumed of the constants but `BoardAssumption`: any map,
finitely many players, any number of bombs and events.

**Only model-checked**: liveness (`CountdownEnds`, `MatchEnds`,
`KillsAreWritten`, `LevelEnds`, `QueueMoves`), which is out of the prover's
reach, as is ENABLED. Every invariant, action property and refinement that a
run checks is proved.

## 5. Where code and documentation disagree

**A run.** `campaign_local` checks "one active session per user. Starting a new
level ends existing session" (`docs/campaign.md` 64) for the levels one client
plays alone. In local co-op the invented second player has a key and no
connection: a client that quits and starts again leaves the old level running,
kept alive by that key. Quit and start is what the restart of the pause menu
does.

**Stated beside the properties, without a run.** TLC finds each of these
violated when it is added to the cfg named.

| Definition | cfg | Statement | What the code does |
|---|---|---|---|
| `AliveAreMembers` | `room_seats` | who leaves a running game is killed at once (`docs/socket-events.md` 69) | who leaves between the start script and `createGame` is on the board, alive, with nobody to play them |
| `LoopIsManaged` | `room_match` | the reaper takes rooms whose loop has stopped (`game/RoomManager.ts` 58, 69) | it takes a match whose loop has not started yet; the loop then runs where nothing can stop it |
| `DepartedAreAway` | `match_rules` | a return cancels the grace period (`docs/infrastructure.md` 96) | not for a player who returns while dead (`game/GameRoom.ts` 329): they later count as departed |
| `OnePartyPerUser` | `party_tabs` | nobody is in two parties (`services/party.ts` 93) | leaving or being kicked deletes the user's key whatever party it names (185); the next party is then made beside the one the user is still listed in |
| `OneBatchRuns` | `sim_queue` | one batch runs at a time (`docs/admin-guide.md` 204) | a running batch that is deleted goes on to its next check; the next start does not see it (`simulation/SimulationManager.ts` 287) |

**Other things the models reach.** The auxiliary variables mark those that a
property excepts; the others follow from one or two lines.

*Rooms.* A refused join leaves the tab pointing at the room its user has just
been taken out of (`socket.ts` 365); somebody who joins between the readiness
check and the start script is started unready (687); a restart or a vote that
crosses an admin's close writes the closed room back, outside the index. With two
tabs, or a mapping that expired, a user can be in two rooms; so can one tab that
sends two `room:create` in a row, for both look the mapping up before either writes
it, and a `room:leave` that overlaps a join can unseat the tab from the room just
joined (`hurried`). A tab that drops before its request is through is seated after
it has gone, and its user stays in the room (541, `cut`). The disconnect handler
gives a room up some awaits after it has looked whether another tab holds it
(2080, 2141): whoever has joined that room again in between, from a new tab, is taken
out of it, and sits in a room that does not list them. The reset of a
restart or a carried vote writes the room back as it was read (819, 902): who has
left meanwhile is a player again, with no mapping, and may create another room
(`putBack`); and if another reset came before it and the next start has passed
its script, the room waits once more, and two loops can come to play it
(`reopened`). Both take several requests in one round trip to Redis. A user who is
let into a second room, with two tabs or after the mapping has lapsed, leaves only
the one their tab points at when it drops, and a reset brings a room back to
*waiting* with players who are away by then: both stay in it (`astray`).

*Matches.* A player who drops while waiting for a respawn gets no grace period,
cannot come back, and their body respawns (`game/GameRoom.ts` 296). When the
last human is killed by a bomb, the bots play on at normal speed; the speed-up is
looked for after a leave or an expired grace period only (365;
`docs/infrastructure.md` 108 also names deaths). In teams, a last death in the
tick in which the clock runs out makes one player the winner and no team
(`game/GameState.ts` 2609); survivors ranked at time-up who die while the end is
shown are ranked again (868). Those whose grace periods end in one broadcast do not share a
place, and neither do those who fall in a tick that throws before the places are
shared, though `game/GameState.ts` 1346 has everybody who dies in one tick share it. A player who is away when the match ends stays in
the room that then waits (`game/GameRoom.ts` 391; `docs/infrastructure.md` 97).

*Board.* The bombs a meteor sets off blast over the map as it is after the
meteor's own destruction, not over the batch's snapshot (`game/GameState.ts`
2419). A power-up a spectator drops may land inside a wall (1632). A level's
respawn does not count the bombs its player still has ticking
(`game/CampaignGame.ts` 645, against `game/GameState.ts` 1331), and neither does
leaving the open world and joining again (`game/OpenWorldManager.ts` 438).

*Open world.* A world switched off and on again during the flush of its
shutdown loses the reference to the loop it has just started (`overlap`), and
two settings read in one order and applied in the other leave it off though the
setting says on (`crossed`) (`game/OpenWorldManager.ts` 504, 626).

*Campaign.* The end of a level deletes its players' keys whatever they name by
then (`robbed`); its late clean-up tells tabs that play another level by then
(`socket.ts` 1694). A level with a time to survive is "won" by the circuit
breaker (`game/CampaignGame.ts` 596), and a contact in the tick of the last
death is charged again. Between ticks that throw, players are down with nothing
pending, and may be held at the goal (`game/GameLoop.ts` 83).

*Simulations.* A runner whose directory cannot be written when it comes off the
queue loses its entry, and the event that would go on to the next
(`stranded`). A queued batch that is deleted is removed and the answer says 404
(`routes/admin.ts` 1541); so is a running one that the cached index does not
list, and its directory stays. One that is cancelled in its last game reports
that it completed. A read that fails while the disk is scanned leaves a batch out
of the index, or shows it unfinished, until the next end or half a minute is over
(`misread`, `simulation/SimulationManager.ts` 377, 400).

*Friends.* Two acceptances of one user's can both be counted before either is
written and exceed the cap (`crossed`, `services/friends.ts` 105). A request that
has looked for blocks is sent across one made meanwhile (`slipped`).

*Parties.* A party key lapses an hour after joining while the party goes on
(`services/party.ts` 107); a tab that closes before the answer to its create or
accept leaves its user in a party no tab will leave
(`handlers/partyHandlers.ts` 85). A tab that moves to another party while the
sockets of its old one are being fetched loses `activePartyId` though it stays
in the new party's room: it hears the party and cannot leave it (`overtaken`,
`handlers/partyHandlers.ts` 198, 234, 370). A user whose requests overlap may
have a tab outside the room of their party (`hurried`).

## 6. Plan

What is left, in order of what could go wrong most:

1. `MatchResults`: the transactions of `GameRoom` 525–728 with failures between
   them, and the unlocked read of the ratings, over two matches of one player.
   Its abstract counterpart: a ledger in which each match counts in all tables or
   in none.
2. `RefreshTokens`: rotation and reuse detection, with two tabs and a rotation in
   flight during a revocation.
3. `Inputs`: the input buffer against a queue of actions.
4. Liveness of the listing of rooms: stale index entries go as long as somebody
   looks.
5. Proofs: abstract specifications of parties and friendships, and the
   refinements that go with them; of the board, that a match of `MatchSession`
   is what a board lets happen.

## 7. Not modelled

The models cover the server's coordination logic. By size the repository is
mostly something else: the browser client (scenes, editors, admin panels, art),
about two thirds of the code, holds no state that others rely on, and the server
admits any request of it at any time; routes are one query per request; bots and
enemies are heuristics. Of these a state machine would only repeat the text.

- **Browser client**: any request may come at any time from any tab.
- **Bots and enemy AI**: a bot's move is any move of `Board`, its effect any
  choice of `MatchSession`.
- **On the board**: teams, shields, power-ups for speed and range, conveyors,
  teleporters, hazards and puzzle tiles, the shrinking zone, map generation, the
  energy of spectators, and the input buffer in front of it.
- **Match results, refresh tokens**: planned, see section 6. Registration,
  login and the second factor are one row per request.
- **Presence**: keys with a time to live, refreshed by a heartbeat; advisory.
- **Settings cache**: `OpenWorld` reads the setting itself; the cache delays a
  read by five seconds at most, and a read in flight may put an old value back
  for as long (`services/settings.ts` 52).
- **Chat, direct messages, custom maps, e-mail, translations, replays, logs,
  administration**: one row, file or message per request, and nothing else
  depends on when.
- **Rate limits and validation**: they only refuse requests, and every request
  in the models is optional.
- **Startup and migrations**: sequential, under one advisory lock.
- **Teams and spectating in rooms; failing Redis calls inside handlers; rate
  limits and room invitations in parties; guests in the open world; a second
  local player who has logged in.**
