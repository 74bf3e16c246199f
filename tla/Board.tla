------------------------------- MODULE Board -------------------------------
(***************************************************************************)
(* The board of a match, tick by tick: game/GameState.ts with Bomb.ts,     *)
(* Explosion.ts, Player.ts, CollisionSystem.ts and shared/utils/grid.ts.   *)
(* Who wins, and what ends a match, is in MatchSession.                    *)
(*                                                                         *)
(*   tiles, pups    the map, and the power-ups that lie on it              *)
(*   order, player  the players in the order of their Map, and each one    *)
(*   bombs          from their number, which is their order in the Map     *)
(*   fire           how long each cell is still covered by an explosion    *)
(*   phase, todo    the part of processTick that comes next, and for which *)
(*                  players it has yet to run                              *)
(*   occ            the tiles that inputs of this tick take for occupied   *)
(*                  by bombs (TickOccupancy)                               *)
(*   coming         map events announced: what, where, in how many ticks   *)
(*   frozen, thaw   frozenTiles, and the ticks until they thaw             *)
(*   walls          temporaryWalls: the ticks left to each                 *)
(*   asked          spectatorActionBuffer                                  *)
(*   glide, prev    iceSliding; where each player was a tick ago           *)
(*   isOpenWorld    the open world; a deathmatch otherwise                 *)
(*   placed         the bombs there have been: each gets the next number   *)
(*   events, returned   auxiliary: a bound, and who has left and come back *)
(*                  while bombs of theirs were ticking                     *)
(*                                                                         *)
(* A map is a graph of cells: Step says which cell is next in a direction, *)
(* across the edge where the map wraps, Outside where there is none; spawn *)
(* tiles are empty ones.  Left out: teams, friendly fire and scores,       *)
(* shields, power-ups for speed and range, conveyors, teleporters and      *)
(* hazards, the shrinking zone, the hill, the energy of spectators and     *)
(* their speed zones, what bots decide, and the seconds after the end.     *)
(***************************************************************************)
EXTENDS Naturals, FiniteSets, SequencesExt

CONSTANTS
  Player, Cell, Dir, Step, Outside, None,
  Start,            \* the map as generated
  Spawn,            \* spawnPoints, a sequence
  Area, Line,       \* the 3x3 blocks; the rows and columns
  Reinforced,       \* reinforcedWalls
  Enabled,          \* enabledPowerUps
  DefaultMaxBombs, MaxBombs, Reach, MeteorReach, ThrowRange, Far,
  Fuse, RemoteFuse, Duration, Fade,    \* Fade: the last, harmless ticks of an explosion
  Cooldown, SpawnSafe, Brief, RespawnTicks,
  Warning,          \* of every kind of event
  FreezeTicks, WallTicks, SurgeTicks,
  MaxPlaced, MaxEvents   \* bounds: bombs placed; events and requests

ASSUME BoardAssumption ==
  /\ IsFiniteSet(Player)
  /\ Outside \notin Cell /\ None \notin Player /\ None \notin Cell /\ None \notin Dir /\ None \notin Enabled
  \* on a grid no two tiles have the same neighbour in a direction
  /\ \A c \in Cell, d \in Dir :
       /\ Step[c][d] \in Cell \cup {Outside}
       /\ Step[c][d] # Outside => \A e \in Cell : Step[e][d] = Step[c][d] => e = c
  /\ Dir # {}
  /\ Start \in [Cell -> {"empty", "wall", "destructible"}]
  /\ Spawn \in Seq(Cell) \ {<<>>} /\ \A i \in DOMAIN Spawn : Start[Spawn[i]] = "empty"
  /\ Area \subseteq SUBSET Cell /\ Line \subseteq SUBSET Cell
  /\ Reinforced \in BOOLEAN
  /\ Far \in Nat /\ Reach \in 0 .. Far /\ MeteorReach \in 0 .. Far /\ ThrowRange \in 0 .. Far
  /\ MaxBombs \in Nat /\ DefaultMaxBombs \in 0 .. MaxBombs
  /\ Fuse \in Nat \ {0} /\ RemoteFuse \in Nat /\ Fuse <= RemoteFuse
  /\ Duration \in Nat /\ Fade \in Nat /\ Cooldown \in Nat /\ SpawnSafe \in Nat /\ Brief \in Nat
  /\ RespawnTicks \in Nat /\ Warning \in Nat
  /\ FreezeTicks \in Nat /\ WallTicks \in Nat /\ SurgeTicks \in Nat
  /\ MaxPlaced \in Nat /\ MaxEvents \in Nat

VARIABLES tiles, pups, order, player, bombs, fire, phase, todo, occ,
          coming, frozen, thaw, walls, asked, glide, prev, placed, events, returned, isOpenWorld

iceVars   == <<glide, prev>>
mapVars   == <<frozen, thaw, walls, asked>>
countVars == <<placed, events, returned, isOpenWorld>>
vars == <<tiles, pups, order, player, bombs, fire, phase, todo, occ, coming, mapVars, iceVars, countVars>>

NewPlayer(c) ==
  [alive |-> TRUE, at |-> c, facing |-> CHOOSE d \in Dir : TRUE, count |-> 0, max |-> DefaultMaxBombs, powers |-> {},
   fifo |-> isOpenWorld, cool |-> 0, safe |-> SpawnSafe, back |-> None]

Init ==
  /\ isOpenWorld \in BOOLEAN
  /\ tiles = Start /\ pups = {}
  /\ order \in SetToSeqs(Player)
  /\ player = [p \in Player |-> NewPlayer(Spawn[(((CHOOSE i \in DOMAIN order : order[i] = p) - 1) % Len(Spawn)) + 1])]
  /\ bombs = [i \in {} |-> None] /\ fire = [c \in Cell |-> 0]
  /\ phase = "idle" /\ todo = <<>> /\ occ = {}
  /\ coming = <<>> /\ frozen = {} /\ thaw = 0 /\ walls = [c \in {} |-> 0] /\ asked = <<>>
  /\ glide = [p \in Player |-> None] /\ prev = [p \in Player |-> None]
  /\ placed = 0 /\ events = 0 /\ returned = {}

-----------------------------------------------------------------------------
(* Geometry *)

Breakable == {"destructible", "cracked"}

Walkable(c) == c # Outside /\ tiles[c] \in {"empty", "ice"}

\* The cells in a direction, walls or not.
Ray(c, d) == LET r[n \in 0 .. Far] == IF n = 0 THEN c ELSE IF r[n - 1] = Outside THEN Outside ELSE Step[r[n - 1]][d] IN r

\* getExplosionCells
ExplosionCells(c, range, pierce, T) ==
  {c} \cup
  {e \in Cell : \E d \in Dir, n \in 1 .. range : LET r == Ray(c, d) IN
     /\ r[n] = e
     /\ \A k \in 1 .. n : r[k] \notin {Outside, c} /\ T[r[k]] # "wall"
     /\ pierce \/ \A k \in 1 .. n - 1 : T[r[k]] \notin Breakable}

BombCells(bs) == {bs[i].at : i \in DOMAIN bs}

Alive == {p \in Range(order) : player[p].alive}

At(c) == {p \in Alive : player[p].at = c}

Owned(p, bs) == Cardinality({i \in DOMAIN bs : bs[i].owner = p})

-----------------------------------------------------------------------------
(* Detonation *)

\* destroyTile, of every cell of a blast.
Broken(T, cells) ==
  [c \in Cell |-> IF c \notin cells \/ T[c] \notin Breakable THEN T[c]
                  ELSE IF T[c] = "destructible" /\ Reinforced THEN "cracked" ELSE "empty"]

\* Fire does not stay on the walls a blast destroys.
Lit(F, cells, T) == [c \in Cell |-> IF c \in cells /\ T[c] \notin Breakable THEN Duration ELSE F[c]]

\* The bombs in a set of cells.
Inside(bs, cells) == {i \in DOMAIN bs : bs[i].at \in cells}

\* The first of a set of bombs.
First(S) == CHOOSE i \in S : \A j \in S : i <= j

\* Mutant: a blast goes by the walls that are left, not by the snapshot.
GoesOffLive(a, i, bs, T) ==
  LET cells == ExplosionCells(bs[i].at, Reach, bs[i].kind = "pierce", a.tiles) IN
  [due |-> (a.due \cup Inside(bs, cells)) \ (a.gone \cup {i}), gone |-> a.gone \cup {i},
   tiles |-> Broken(a.tiles, cells), fire |-> Lit(a.fire, cells, T)]

\* detonateBomb: T is the snapshot of the batch, and what the bomb reaches
\* is due, unless it has gone.
GoesOff(a, i, bs, T) ==
  LET cells == ExplosionCells(bs[i].at, Reach, bs[i].kind = "pierce", T) IN
  [due |-> (a.due \cup Inside(bs, cells)) \ (a.gone \cup {i}), gone |-> a.gone \cup {i},
   tiles |-> Broken(a.tiles, cells), fire |-> Lit(a.fire, cells, T)]

NextGoesOff(a, bs, T) == IF a.due = {} THEN a ELSE GoesOff(a, First(a.due), bs, T)

\* A set of bombs, and whatever they reach, one after the other until none is
\* due; in which order makes no difference, as each goes by the snapshot.
Explode(first, bs, T, F) ==
  LET a[n \in 0 .. Cardinality(DOMAIN bs)] ==
        IF n = 0 THEN [due |-> first, gone |-> {}, tiles |-> T, fire |-> F] ELSE NextGoesOff(a[n - 1], bs, T)
  IN a[Cardinality(DOMAIN bs)]

Without(bs, gone) == [i \in DOMAIN bs \ gone |-> bs[i]]

\* A bomb that goes off is given back to its owner.
GivenBack(pl, bs, gone) ==
  [p \in Player |-> LET n == Cardinality({i \in gone : bs[i].owner = p}) IN
     IF p \in Range(order) THEN [pl[p] EXCEPT !.count = IF @ > n THEN @ - n ELSE 0] ELSE pl[p]]

\* A batch of bombs goes off on the map T, its fire on top of F; each wall
\* that falls may leave a power-up.
Batch(first, bs, pl, T, F) ==
  \E a \in {Explode(first, bs, T, F)} :
    /\ bombs' = Without(bs, a.gone)
    /\ tiles' = a.tiles
    /\ fire' = a.fire
    /\ player' = GivenBack(pl, bs, a.gone)
    /\ \E fallen \in SUBSET {c \in Cell : T[c] \in Breakable /\ a.tiles[c] = "empty"} :
         \E type \in [fallen -> Enabled] : pups' = pups \cup {[at |-> c, type |-> type[c]] : c \in fallen}

-----------------------------------------------------------------------------
(* Between ticks *)

\* A tick begins: every count of ticks is one less.
Begin ==
  LET Less(n) == IF n > 0 THEN n - 1 ELSE 0 IN
  /\ phase = "idle"
  /\ phase' = "input" /\ todo' = order /\ occ' = BombCells(bombs)
  /\ coming' = [i \in DOMAIN coming |-> [coming[i] EXCEPT !.in = Less(@)]]
  /\ thaw' = Less(thaw)
  /\ walls' = [c \in DOMAIN walls |-> Less(walls[c])]
  /\ UNCHANGED <<tiles, pups, order, player, bombs, fire, frozen, asked, iceVars, countVars>>

\* addSpectatorAction.  Energy and pauses may refuse a request at any time.
Ask(p, what, c) ==
  /\ phase = "idle" /\ ~isOpenWorld /\ events < MaxEvents
  /\ p \in Range(order) \ Alive
  /\ c \notin Range(Spawn) /\ At(c) = {} /\ c \notin BombCells(bombs)
  /\ what = "wall" => tiles[c] = "empty"
  /\ asked' = Append(asked, [what |-> what, at |-> c])
  /\ events' = events + 1
  /\ UNCHANGED <<tiles, pups, order, player, bombs, fire, phase, todo, occ, coming, frozen, thaw, walls, iceVars, placed, returned, isOpenWorld>>

\* findSafeSpawnPosition: a hundred random attempts may all miss.
SafeSpawn(c) ==
  LET safe == {e \in Cell : fire[e] = 0 /\ At(e) = {} /\ e \notin BombCells(bombs)} IN
  IF safe \cap Range(Spawn) # {} THEN c \in safe \cap Range(Spawn)
  ELSE c = Spawn[1] \/ (c \in safe /\ Walkable(c))

\* addPlayerLive and removePlayer: the bombs of who leaves stay.
Join(p, c) ==
  /\ phase = "idle" /\ isOpenWorld
  /\ p \notin Range(order) /\ SafeSpawn(c)
  /\ order' = Append(order, p)
  /\ player' = [player EXCEPT ![p] = NewPlayer(c)]
  /\ returned' = IF Owned(p, bombs) > 0 THEN returned \cup {p} ELSE returned
  /\ UNCHANGED <<tiles, pups, bombs, fire, phase, todo, occ, coming, mapVars, iceVars, placed, events, isOpenWorld>>

LeaveWorld(p) ==
  /\ phase = "idle" /\ isOpenWorld /\ events < MaxEvents
  /\ p \in Range(order)
  /\ \E i \in DOMAIN order : order[i] = p /\ order' = RemoveAt(order, i)
  /\ glide' = [glide EXCEPT ![p] = None]
  /\ prev' = [prev EXCEPT ![p] = None]
  /\ events' = events + 1
  /\ UNCHANGED <<tiles, pups, player, bombs, fire, phase, todo, occ, coming, mapVars, placed, returned, isOpenWorld>>

-----------------------------------------------------------------------------
(* Inputs: processPlayerInput, of one player after the other *)

\* canMoveTo
CanEnter(p, c, taken) == Walkable(c) /\ c \notin taken /\ At(c) \subseteq {p}

\* The player and the bombs after the movement of an input; a player who
\* cannot enter a tile may kick the bomb on it.
Moved(p, d) ==
  LET q == player[p]
      c == Step[q.at][d]
      there == {i \in DOMAIN bombs : bombs[i].at = c /\ bombs[i].slide = None} IN
  IF d = None \/ q.cool > 0 THEN [pl |-> q, bs |-> bombs]
  ELSE IF CanEnter(p, c, occ) THEN [pl |-> [q EXCEPT !.facing = d, !.at = c, !.cool = Cooldown], bs |-> bombs]
  ELSE IF "kick" \in q.powers /\ there # {}
       THEN [pl |-> [q EXCEPT !.facing = d, !.cool = Cooldown],
             bs |-> [bombs EXCEPT ![First(there)].slide = d]]
  ELSE [pl |-> [q EXCEPT !.facing = d], bs |-> bombs]

NewBomb(p, q, c) ==
  LET kind == IF "remote" \in q.powers THEN "remote" ELSE IF "pierce" \in q.powers THEN "pierce" ELSE "normal" IN
  [owner |-> p, at |-> c, kind |-> kind, slide |-> None, left |-> IF kind = "remote" THEN RemoteFuse ELSE Fuse]

\* Where a line of bombs goes, from the player onwards.
LineCells(p, q) ==
  LET here == IF q.at \in occ THEN <<>> ELSE <<q.at>>
      r == Ray(q.at, q.facing)
      Free(c) == Walkable(c) /\ c \notin occ \cup {q.at} /\ At(c) \subseteq {p}
      room == q.max - q.count - Len(here)
      n == CHOOSE n \in 0 .. Far : (\A k \in 1 .. n : Free(r[k])) /\ (n = room \/ n = Far \/ ~Free(r[n + 1]))
  IN here \o [k \in 1 .. n |-> r[k]]

\* Where a thrown bomb lands: the farthest tile in range, else the nearest
\* beyond, else at one's feet; over walls and over players.
Landing(q) ==
  LET r == Ray(q.at, q.facing)
      Free(c) == Walkable(c) /\ c \notin occ
      inRange == {k \in 1 .. ThrowRange : Free(r[k])}
      beyond  == {k \in ThrowRange + 1 .. Far : Free(r[k])} IN
  IF inRange # {} THEN <<r[CHOOSE k \in inRange : \A j \in inRange : j <= k]>>
  ELSE IF beyond # {} THEN <<r[CHOOSE k \in beyond : \A j \in beyond : k <= j]>>
  ELSE IF q.at \notin occ THEN <<q.at>> ELSE <<>>

Targets(p, q, act) ==
  CASE act = "throw" /\ "throw" \in q.powers -> Landing(q)
    [] act = "bomb" /\ "line" \in q.powers   -> LineCells(p, q)
    [] act = "bomb" /\ "line" \notin q.powers -> IF q.at \in occ THEN <<>> ELSE <<q.at>>
    [] OTHER -> <<>>

\* player.tick
Ticked(q) == [q EXCEPT !.safe = IF @ > 0 THEN @ - 1 ELSE 0, !.cool = IF @ > 0 THEN @ - 1 ELSE 0]

Skip(p) ==
  /\ p \notin Alive
  /\ UNCHANGED <<tiles, pups, player, bombs, fire, occ, placed>>

\* Moves and places bombs, as many as canPlaceBomb allows.
Place(p, m, act) ==
  LET q == m.pl
      cells == IF q.count < q.max THEN Targets(p, q, act) ELSE <<>> IN
  /\ placed + Len(cells) <= MaxPlaced
  /\ bombs' = [i \in DOMAIN m.bs \cup placed + 1 .. placed + Len(cells) |->
                  IF i > placed THEN NewBomb(p, q, cells[i - placed]) ELSE m.bs[i]]
  /\ player' = [player EXCEPT ![p] = Ticked([q EXCEPT !.count = @ + Len(cells)])]
  /\ occ' = occ \cup Range(cells)
  /\ placed' = placed + Len(cells)
  /\ UNCHANGED <<tiles, pups, fire>>

\* All the player's remote bombs, or the oldest of them.
Remote(p, bs, fifo) ==
  LET mine == {i \in DOMAIN bs : bs[i].owner = p /\ bs[i].kind = "remote"} IN
  IF fifo THEN {i \in mine : \A j \in mine : bs[i].left < bs[j].left \/ (bs[i].left = bs[j].left /\ i <= j)}
  ELSE mine

\* Nothing to set off: the mode changes.
Detonate(p, m) ==
  LET due == Remote(p, m.bs, m.pl.fifo)
      toggled == IF "remote" \in m.pl.powers THEN [m.pl EXCEPT !.fifo = ~@] ELSE m.pl IN
  IF due # {}
  THEN Batch(due, m.bs, [player EXCEPT ![p] = Ticked(m.pl)], tiles, fire) /\ UNCHANGED <<occ, placed>>
  ELSE /\ player' = [player EXCEPT ![p] = Ticked(toggled)]
       /\ bombs' = m.bs
       /\ UNCHANGED <<tiles, pups, fire, occ, placed>>

Input ==
  /\ phase = "input" /\ todo # <<>>
  /\ LET p == Head(todo) IN
     \/ Skip(p)
     \/ \E d \in Dir \cup {None} : \E m \in {Moved(p, d)} :
          /\ p \in Alive
          /\ \/ \E act \in {"none", "bomb", "throw"} : Place(p, m, act)
             \/ Detonate(p, m)
  /\ todo' = Tail(todo)
  /\ UNCHANGED <<order, phase, coming, mapVars, iceVars, events, returned, isOpenWorld>>

-----------------------------------------------------------------------------
(* Bombs, explosions, players *)

Slid(bs, i) ==
  LET c == Step[bs[i].at][bs[i].slide] IN
  IF i \notin DOMAIN bs \/ bs[i].slide = None THEN bs
  ELSE IF Walkable(c) /\ c \notin BombCells(bs) /\ At(c) = {} THEN [bs EXCEPT ![i].at = c]
  ELSE [bs EXCEPT ![i].slide = None]

\* One bomb after the other.
AllSlid ==
  LET slid[n \in 0 .. placed] == IF n = 0 THEN bombs ELSE Slid(slid[n - 1], n) IN slid[placed]

Slide ==
  /\ phase = "input" /\ todo = <<>>
  /\ phase' = "blow" /\ occ' = {}
  /\ \E bs \in {AllSlid} : bombs' = [i \in DOMAIN bs |-> [bs[i] EXCEPT !.left = @ - 1]]
  /\ UNCHANGED <<tiles, pups, order, player, fire, todo, coming, mapVars, iceVars, countVars>>

Blow ==
  /\ phase = "blow" /\ phase' = "burn"
  /\ Batch({i \in DOMAIN bombs : bombs[i].left = 0}, bombs, player, tiles, fire)
  /\ UNCHANGED <<order, todo, occ, coming, mapVars, iceVars, countVars>>

\* What a player who dies may leave behind.
Droppable(q) == q.powers \cup (IF q.max > DefaultMaxBombs THEN {"bomb_up"} ELSE {})

PickedUp(q, types) ==
  [q EXCEPT !.max = IF "bomb_up" \in types /\ @ < MaxBombs THEN @ + 1 ELSE @, !.powers = @ \cup (types \ {"bomb_up"})]

\* Explosions age, whoever stands in one dies and drops a power-up, and
\* whoever lives takes what lies where they stand, the first if two do.
Burn ==
  LET aged  == [c \in Cell |-> IF fire[c] > 0 THEN fire[c] - 1 ELSE 0]
      dying == {p \in Alive : aged[player[p].at] > Fade /\ player[p].safe = 0}
      Foremost(p) == \A i, j \in DOMAIN order : order[i] = p /\ order[j] \in Alive \ dying /\ player[order[j]].at = player[p].at => i <= j
  IN
  /\ phase = "burn" /\ phase' = IF frozen = {} THEN "events" ELSE "ice"
  /\ fire' = aged
  /\ \E drop \in [dying -> Enabled \cup {None}] :
       /\ \A p \in dying : LET D == Droppable(player[p]) IN IF D = {} THEN drop[p] = None ELSE drop[p] \in D
       /\ \E lying \in {pups \cup {[at |-> player[p].at, type |-> drop[p]] : p \in {p \in dying : drop[p] # None}}} :
            LET takers == {p \in Alive \ dying : Foremost(p)}
                Types(p) == {u.type : u \in {u \in lying : u.at = player[p].at}} IN
            /\ pups' = {u \in lying : \A p \in takers : u.at # player[p].at}
            /\ player' = [p \in Player |-> IF p \in dying THEN [player[p] EXCEPT !.alive = FALSE]
                                           ELSE IF p \in takers THEN PickedUp(player[p], Types(p)) ELSE player[p]]
  /\ UNCHANGED <<tiles, order, bombs, todo, occ, coming, mapVars, iceVars, countVars>>

-----------------------------------------------------------------------------
(* Frozen tiles: processIceSliding *)

\* A player slides one tile further, and goes on as long as there is ice.
Glided(acc, p, d) ==
  LET q == acc.pl[p]
      c == Step[q.at][d]
      free == /\ Walkable(c) /\ c \notin BombCells(bombs)
              /\ \A o \in Alive \ {p} : acc.pl[o].at # c IN
  IF q.alive /\ free
  THEN [pl |-> [acc.pl EXCEPT ![p].at = c, ![p].cool = Cooldown],
        glide |-> IF tiles[c] = "ice" THEN acc.glide ELSE [acc.glide EXCEPT ![p] = None]]
  ELSE [acc EXCEPT !.glide[p] = None]

\* A bomb that slides moves another tile, whoever stands there.
SlidOnIce(bs, i) ==
  LET c == Step[bs[i].at][bs[i].slide] IN
  IF i \in DOMAIN bs /\ bs[i].slide # None /\ tiles[bs[i].at] = "ice" /\ Walkable(c) /\ c \notin BombCells(bs)
  THEN [bs EXCEPT ![i].at = c] ELSE bs

AllSlidOnIce ==
  LET slid[n \in 0 .. placed] == IF n = 0 THEN bombs ELSE SlidOnIce(slid[n - 1], n) IN slid[placed]

\* The players of a sequence, one after the other.
AllGlided(begun, s) ==
  LET glided[n \in 0 .. Len(s)] ==
        IF n = 0 THEN [pl |-> player, glide |-> begun] ELSE Glided(glided[n - 1], s[n], begun[s[n]])
  IN glided[Len(s)]

Ice ==
  LET begun == [p \in Player |-> IF p \in Alive /\ glide[p] = None /\ tiles[player[p].at] = "ice" /\ prev[p] # player[p].at
                                 THEN player[p].facing ELSE glide[p]]
  IN
  /\ phase = "ice" /\ phase' = "events"
  /\ \E s \in SetToSeqs({p \in Player : begun[p] # None}) :
       \E a \in {AllGlided(begun, s)} : player' = a.pl /\ glide' = a.glide
  /\ bombs' = AllSlidOnIce
  /\ UNCHANGED <<tiles, pups, order, fire, todo, occ, coming, mapVars, prev, countVars>>

-----------------------------------------------------------------------------
(* Map events *)

Event(what, where, who) == [what |-> what, where |-> where, who |-> who, in |-> Warning]

\* The timers of the kinds of events are independent: any may be due.
Announce(what, where, who) ==
  /\ coming' = Append(coming, Event(what, where, who))
  /\ UNCHANGED <<pups, bombs>>

\* One power-up of a rain.
Rain(c, type) ==
  /\ pups' = pups \cup {[at |-> c, type |-> type]}
  /\ UNCHANGED <<coming, bombs>>

Surge ==
  /\ bombs' = [i \in DOMAIN bombs |-> [bombs[i] EXCEPT !.left = IF @ > SurgeTicks THEN @ - SurgeTicks ELSE 1]]
  /\ UNCHANGED <<coming, pups>>

Happen ==
  LET empty == {c \in Cell : tiles[c] = "empty"} IN
  /\ phase = "events" /\ ~isOpenWorld /\ events < MaxEvents
  /\ \/ \E c \in empty : Announce("meteor", {c}, None) \/ \E type \in Enabled : Rain(c, type)
     \/ \E A \in Area : (\E c \in A : tiles[c] \in Breakable) /\ Announce("collapse", A, None)
     \/ \E L \in Line : Announce("freeze", L, None)
     \/ \E p \in Alive : player[p].safe = 0 /\ Announce("ufo", {player[p].at}, p)
     \/ Surge
  /\ events' = events + 1
  /\ UNCHANGED <<tiles, order, player, fire, phase, todo, occ, mapVars, iceVars, placed, returned, isOpenWorld>>

Thaw ==
  /\ phase = "events" /\ phase' = "land"
  /\ IF frozen # {} /\ thaw = 0
     THEN /\ tiles' = [c \in Cell |-> IF c \in frozen THEN "empty" ELSE tiles[c]]
          /\ frozen' = {} /\ glide' = [p \in Player |-> None]
     ELSE UNCHANGED <<tiles, frozen, glide>>
  /\ UNCHANGED <<pups, order, player, bombs, fire, todo, occ, coming, thaw, walls, asked, prev, countVars>>

\* Events are gone through from the last to the first.
Due(i) == coming[i].in = 0 /\ \A j \in DOMAIN coming : coming[j].in = 0 => j <= i

\* Bombs caught chain, on the map that the meteor leaves.
LandMeteor(e) ==
  \E cells \in {ExplosionCells(CHOOSE c \in e.where : TRUE, MeteorReach, FALSE, tiles)} :
    /\ Batch(Inside(bombs, cells), bombs, player, Broken(tiles, cells), Lit(fire, cells, tiles))
    /\ UNCHANGED <<frozen, thaw>>

LandCollapse(e) ==
  /\ tiles' = Broken(tiles, e.where)
  /\ UNCHANGED <<pups, player, bombs, fire, frozen, thaw>>

LandFreeze(e) ==
  LET ice == {c \in e.where : tiles[c] = "empty"} IN
  /\ frozen = {}
  /\ tiles' = [c \in Cell |-> IF c \in ice THEN "ice" ELSE tiles[c]]
  /\ frozen' = ice /\ thaw' = FreezeTicks
  /\ UNCHANGED <<pups, player, bombs, fire>>

\* The target is put on another free tile, if there is one.
LandUfo(e) ==
  LET to == {c \in Cell : tiles[c] = "empty" /\ c # player[e.who].at} IN
  /\ IF e.who \in Alive /\ to # {}
     THEN \E c \in to : player' = [player EXCEPT ![e.who].at = c, ![e.who].cool = Cooldown, ![e.who].safe = Brief]
     ELSE UNCHANGED player
  /\ UNCHANGED <<tiles, pups, bombs, fire, frozen, thaw>>

Land ==
  /\ phase = "land"
  /\ \E i \in DOMAIN coming : LET e == coming[i] IN
       /\ Due(i)
       /\ IF e.what = "freeze" /\ frozen # {}
          THEN \* not before the last one has thawed: it is announced again
               coming' = [coming EXCEPT ![i].in = Warning] /\ UNCHANGED <<tiles, pups, player, bombs, fire, frozen, thaw>>
          ELSE /\ \/ e.what = "meteor" /\ LandMeteor(e)
                  \/ e.what = "collapse" /\ LandCollapse(e)
                  \/ e.what = "freeze" /\ LandFreeze(e)
                  \/ e.what = "ufo" /\ LandUfo(e)
               /\ coming' = RemoveAt(coming, i)
  /\ UNCHANGED <<order, phase, todo, occ, walls, asked, iceVars, countVars>>

-----------------------------------------------------------------------------
(* Requests of spectators, respawns, the end of a tick *)

\* Mutant: whether somebody stands there is only looked for when it is asked.
MayStandAsked(c) == tiles[c] = "empty"

\* applySpectatorWall
MayStand(c) == tiles[c] = "empty" /\ At(c) = {} /\ c \notin BombCells(bombs)

Haunt ==
  /\ phase = "land" /\ \A i \in DOMAIN coming : coming[i].in > 0
  /\ asked # <<>>
  /\ LET a == Head(asked) IN
     \/ /\ a.what = "wall"
        /\ IF MayStand(a.at)
           THEN /\ tiles' = [tiles EXCEPT ![a.at] = "destructible"]
                /\ walls' = [c \in DOMAIN walls \cup {a.at} |-> IF c = a.at THEN WallTicks ELSE walls[c]]
           ELSE UNCHANGED <<tiles, walls>>
        /\ UNCHANGED <<pups, coming>>
     \/ /\ a.what = "meteor"
        /\ coming' = Append(coming, Event("meteor", {a.at}, None))
        /\ UNCHANGED <<tiles, walls, pups>>
     \/ /\ a.what = "power-up"
        /\ \E type \in Enabled : pups' = pups \cup {[at |-> a.at, type |-> type]}
        /\ UNCHANGED <<tiles, walls, coming>>
  /\ asked' = Tail(asked)
  /\ UNCHANGED <<order, player, bombs, fire, phase, todo, occ, frozen, thaw, iceVars, countVars>>

\* Mutant: a wall that a bomb has cracked is taken for one that is gone.
StandingWhole(c) == tiles[c] = "destructible"

Standing(c) == tiles[c] \in Breakable

\* Temporary walls whose time is up are gone, if they still stand.
Expire ==
  LET over == {c \in DOMAIN walls : walls[c] = 0} IN
  /\ phase = "land" /\ \A i \in DOMAIN coming : coming[i].in > 0
  /\ asked = <<>>
  /\ phase' = "return" /\ todo' = order
  /\ tiles' = [c \in Cell |-> IF c \in over /\ Standing(c) THEN "empty" ELSE tiles[c]]
  /\ walls' = [c \in DOMAIN walls \ over |-> walls[c]]
  /\ UNCHANGED <<pups, order, player, bombs, fire, occ, coming, frozen, thaw, asked, iceVars, countVars>>

\* Mutant: whoever comes back may place as many bombs as ever.
RespawnedFresh(p, c) == [NewPlayer(c) EXCEPT !.fifo = player[p].fifo]

\* The bombs from before a death still count.
Respawned(p, c) == [NewPlayer(c) EXCEPT !.fifo = player[p].fifo, !.count = Owned(p, bombs)]

Return ==
  /\ phase = "return" /\ todo # <<>>
  /\ LET p == Head(todo)
         back == IF player[p].back = None THEN RespawnTicks ELSE player[p].back - 1 IN
     \/ player[p].alive /\ UNCHANGED player
     \/ ~player[p].alive /\ back > 0 /\ player' = [player EXCEPT ![p].back = back]
     \/ ~player[p].alive /\ back = 0 /\ \E c \in Cell : SafeSpawn(c) /\ player' = [player EXCEPT ![p] = Respawned(p, c)]
  /\ todo' = Tail(todo)
  /\ UNCHANGED <<tiles, pups, order, bombs, fire, phase, occ, coming, mapVars, iceVars, countVars>>

EndTick ==
  /\ phase = "return" /\ todo = <<>>
  /\ phase' = "idle"
  /\ prev' = IF frozen = {} THEN prev ELSE [p \in Player |-> IF p \in Range(order) THEN player[p].at ELSE prev[p]]
  /\ UNCHANGED <<tiles, pups, order, player, bombs, fire, todo, occ, coming, mapVars, glide, countVars>>

-----------------------------------------------------------------------------
Next ==
  \/ Begin \/ Input \/ Slide \/ Blow \/ Burn \/ Ice \/ Happen \/ Thaw \/ Land \/ Haunt \/ Expire \/ Return \/ EndTick
  \/ \E p \in Player, c \in Cell : Join(p, c) \/ \E what \in {"wall", "meteor", "power-up"} : Ask(p, what, c)
  \/ \E p \in Player : LeaveWorld(p)

Spec == Init /\ [][Next]_vars

-----------------------------------------------------------------------------
(* Properties *)

Tile == {"empty", "ice", "wall"} \cup Breakable

Playing == [alive : BOOLEAN, at : Cell, facing : Dir, count : Nat, max : 0 .. MaxBombs, powers : SUBSET Enabled, fifo : BOOLEAN,
            cool : 0 .. Cooldown, safe : 0 .. SpawnSafe + Brief, back : 1 .. RespawnTicks \cup {None}]

Bomb == [owner : Player, at : Cell, kind : {"normal", "pierce", "remote"}, slide : Dir \cup {None}, left : 0 .. RemoteFuse]

Coming == [what : {"meteor", "collapse", "freeze", "ufo"}, where : SUBSET Cell, who : Player \cup {None}, in : 0 .. Warning]

Request == [what : {"wall", "meteor", "power-up"}, at : Cell]

\* The types of the state; a bomb goes off in the tick in which its fuse is out.
TypeOK ==
  /\ isOpenWorld \in BOOLEAN
  /\ tiles \in [Cell -> Tile] /\ pups \subseteq [at : Cell, type : Enabled]
  /\ order \in Seq(Player) /\ IsInjective(order)
  /\ player \in [Player -> Playing]
  /\ bombs \in [DOMAIN bombs -> Bomb] /\ DOMAIN bombs \subseteq 1 .. placed
  /\ phase # "blow" => \A i \in DOMAIN bombs : bombs[i].left > 0
  /\ fire \in [Cell -> 0 .. Duration]
  /\ phase \in {"idle", "input", "blow", "burn", "ice", "events", "land", "return"}
  /\ todo \in Seq(Player) /\ Range(todo) \subseteq Range(order)
  /\ occ \subseteq Cell
  /\ coming \in Seq(Coming) /\ asked \in Seq(Request)
  /\ frozen \subseteq Cell /\ thaw \in 0 .. FreezeTicks
  /\ walls \in [DOMAIN walls -> 0 .. WallTicks] /\ DOMAIN walls \subseteq Cell
  /\ glide \in [Player -> Dir \cup {None}] /\ prev \in [Player -> Cell \cup {None}]
  /\ placed \in 0 .. MaxPlaced /\ events \in 0 .. MaxEvents /\ returned \subseteq Player

\* Nobody has more or fewer bombs to place than the bombs on the board leave
\* them, through chains, deaths and respawns; who has left and come back may
\* have more (addPlayerLive counts from zero).
BombsAreCounted ==
  \A p \in Range(order) :
    /\ player[p].count <= Owned(p, bombs)
    /\ p \notin returned => player[p].count = Owned(p, bombs)

\* No two bombs are on one tile, whether placed, thrown, kicked or sliding on
\* ice, and no bomb and no living player is inside a wall.
Footing ==
  /\ \A i, j \in DOMAIN bombs : bombs[i].at = bombs[j].at => i = j
  /\ \A i \in DOMAIN bombs : Walkable(bombs[i].at)
  /\ \A p \in Alive : Walkable(player[p].at)

\* In plain sight: nothing but free tiles between the two.
Sees(b, e) ==
  \E d \in Dir, n \in 1 .. Reach :
    /\ Ray(b.at, d)[n] = e
    /\ \A k \in 1 .. n - 1 : Ray(b.at, d)[k] # Outside /\ tiles[Ray(b.at, d)[k]] \in {"empty", "ice"} \cup (IF b.kind = "pierce" THEN Breakable ELSE {})

\* Whatever a bomb of the set sees is in the set.
Whole(S) == \A i \in S, j \in DOMAIN bombs : Sees(bombs[i], bombs[j].at) => j \in S

\* What can be reached, from one bomb to the next, from those whose fuse is out.
InReach ==
  LET due == {i \in DOMAIN bombs : bombs[i].left = 0}
      all == {S \in SUBSET DOMAIN bombs : due \subseteq S /\ Whole(S)}
  IN {i \in DOMAIN bombs : \A S \in all : i \in S}

\* The bombs whose fuse is out take with them exactly those that can be
\* reached from one to the next before any wall has fallen, and nobody who was
\* in cover then is in fire.
BatchIsOneBlast ==
  [][phase = "blow" =>
     /\ bombs' = Without(bombs, InReach)
     /\ \A c \in Cell : fire'[c] > fire[c] => \E i \in InReach : c = bombs[i].at \/ Sees(bombs[i], c)]_vars

\* Nothing temporary stays: ice thaws into what was there, walls of
\* spectators go, cracked ones too, whatever bombs, meteors and waves do to
\* them meanwhile.
TemporaryGoes ==
  \A c \in Cell :
    /\ tiles[c] = "ice" <=> c \in frozen
    /\ tiles[c] \in Breakable /\ Start[c] \notin Breakable => c \in DOMAIN walls
    /\ tiles[c] = "wall" <=> Start[c] = "wall"
=============================================================================
