----------------------------- MODULE BoardProofs -----------------------------
(***************************************************************************)
(* What is proved of the board, for any map, players, bombs and bounds:    *)
(* its types, that nothing ends up in a wall or on another bomb, that what *)
(* is temporary goes, that bombs are counted, and that a batch of          *)
(* detonations is one blast.                                               *)
(*                                                                         *)
(* The operators come first: rays, chains of detonations and the passes    *)
(* over bombs and players are recursive functions over an interval, and    *)
(* Iterates, Recursion and Reaches say what there is to say of these.      *)
(* Then one part per invariant, with a lemma per action that can disturb   *)
(* it:                                                                     *)
(*   Typed          TypeOK and whose turn it is                            *)
(*   FootingInv     Footing, the copy of where the bombs are (Taken), and  *)
(*                  the tiles on which players begin (SpawnsFree)          *)
(*   TemporaryInv, CountInv   inductive with the types as they stand       *)
(* BatchIsOneBlast needs FootingInv: a bomb in a wall, or two on one tile, *)
(* would be hit by what they cannot be seen from.                          *)
(***************************************************************************)
EXTENDS Board, FiniteSetTheorems, SequenceTheorems, WellFoundedInduction, TLAPS

-----------------------------------------------------------------------------
(* What is assumed of the constants, in three parts: a leaf needs one. *)

LEMMA Numbers ==
  /\ Far \in Nat /\ Reach \in 0 .. Far /\ MeteorReach \in 0 .. Far /\ ThrowRange \in 0 .. Far
  /\ MaxBombs \in Nat /\ DefaultMaxBombs \in 0 .. MaxBombs
  /\ Fuse \in Nat \ {0} /\ RemoteFuse \in Nat /\ Fuse <= RemoteFuse
  /\ Duration \in Nat /\ Fade \in Nat /\ Cooldown \in Nat /\ SpawnSafe \in Nat /\ Brief \in Nat
  /\ RespawnTicks \in Nat /\ Warning \in Nat
  /\ FreezeTicks \in Nat /\ WallTicks \in Nat /\ SurgeTicks \in Nat
  /\ MaxPlaced \in Nat /\ MaxEvents \in Nat
BY BoardAssumption

LEMMA Ground ==
  /\ Outside \notin Cell /\ None \notin Player /\ None \notin Cell /\ None \notin Dir /\ None \notin Enabled
  /\ \A c \in Cell, d \in Dir :
       /\ Step[c][d] \in Cell \cup {Outside}
       /\ Step[c][d] # Outside => \A e \in Cell : Step[e][d] = Step[c][d] => e = c
BY BoardAssumption

LEMMA Beginnings ==
  /\ IsFiniteSet(Player) /\ Dir # {}
  /\ Start \in [Cell -> {"empty", "wall", "destructible"}]
  /\ Spawn \in Seq(Cell) \ {<<>>} /\ \A i \in DOMAIN Spawn : Start[Spawn[i]] = "empty"
  /\ Area \subseteq SUBSET Cell /\ Line \subseteq SUBSET Cell
BY BoardAssumption

-----------------------------------------------------------------------------
(* Recursion over an interval: the library states induction for operators, *)
(* which a proof cannot instantiate, and for sets, which it can.           *)

LEMMA LeastNatural ==
  ASSUME NEW S \in SUBSET Nat, S # {}
  PROVE  \E x \in S : \A y \in S : x <= y
<1>. DEFINE less == {ss \in Nat \X Nat : ss[1] < ss[2]}
<1>1. IsWellFoundedOn(less, Nat)
  <2>1. IsWellFoundedOn(OpToRel(<, Nat), Nat)
    BY NatLessThanWellFounded
  <2>. QED
    BY <2>1, Zenon DEF OpToRel
<1>2. PICK x \in S : \A y \in S : ~ (<<y, x>> \in less)
  <2>. HIDE DEF less
  <2>. QED
    BY <1>1, WFMin
<1>3. ASSUME NEW y \in S
      PROVE  x =< y
  <2>1. <<y, x>> \notin less
    BY <1>2
  <2>2. <<y, x>> \in Nat \X Nat /\ <<y, x>>[1] = y /\ <<y, x>>[2] = x
    OBVIOUS
  <2>3. ~(y < x)
    <3>. SUFFICES ASSUME y < x PROVE <<y, x>> \in less
      BY <2>1
    <3>. QED
      BY <2>2
  <2>. QED
    BY <2>3
<1>. QED
  BY <1>3

LEMMA GreatestNatural ==
  ASSUME NEW N \in Nat, NEW S \in SUBSET (0 .. N), S # {}
  PROVE  \E x \in S : \A y \in S : y <= x
<1>. DEFINE U == {n \in Nat : \A y \in S : y <= n}
<1>1. N \in U
  OBVIOUS
<1>2. PICK m \in U : \A y \in U : m <= y
  BY <1>1, LeastNatural
<1>3. m \in S
  <2>. SUFFICES ASSUME m \notin S PROVE FALSE
    OBVIOUS
  <2>1. PICK s \in S : TRUE
    OBVIOUS
  <2>2. \A y \in S : y \in Nat /\ y <= m /\ y # m
    BY <1>2
  <2>3. m - 1 \in U
    BY <2>1, <2>2
  <2>. QED
    BY <1>2, <2>3
<1>. QED
  BY <1>2, <1>3

\* Induction on a set of naturals.
LEMMA UpTo ==
  ASSUME NEW N \in Nat, NEW S, 0 \in S, \A n \in 1 .. N : n - 1 \in S => n \in S
  PROVE  0 .. N \subseteq S
<1>. DEFINE T == {n \in 0 .. N : n \notin S}
<1>. SUFFICES ASSUME T # {} PROVE FALSE
  OBVIOUS
<1>1. PICK m \in T : \A y \in T : m <= y
  <2>1. T \in SUBSET Nat
    OBVIOUS
  <2>. HIDE DEF T
  <2>. QED
    BY <2>1, LeastNatural
<1>2. m \in 1 .. N /\ m \notin S
  BY <1>1
<1>3. m - 1 \in 0 .. N /\ m - 1 \notin T
  BY <1>1, <1>2
<1>. QED
  BY <1>2, <1>3

Iterates(h, N, A, a, G) == h \in [0 .. N -> A] /\ h[0] = a /\ \A n \in 1 .. N : h[n] = G[<<h[n - 1], n>>]

LEMMA Recursion ==
  ASSUME NEW N \in Nat, NEW A, NEW a \in A, NEW G \in [A \X (1 .. N) -> A]
  PROVE  \E h : Iterates(h, N, A, a, G)
<1>. DEFINE Up(n, h) == /\ h \in [0 .. n -> A]
                        /\ h[0] = a
                        /\ \A k \in 1 .. n : h[k] = G[<<h[k - 1], k>>]
            S == {n \in Nat : \E h : Up(n, h)}
<1>1. 0 \in S
  <2>1. Up(0, [k \in 0 .. 0 |-> a])
    OBVIOUS
  <2>. QED
    BY <2>1
<1>2. ASSUME NEW n \in 1 .. N, n - 1 \in S
      PROVE  n \in S
  <2>1. PICK h : Up(n - 1, h)
    BY <1>2
  <2>. DEFINE g == [k \in 0 .. n |-> IF k = n THEN G[<<h[n - 1], n>>] ELSE h[k]]
  <2>2. h[n - 1] \in A
    BY <2>1
  <2>3. G[<<h[n - 1], n>>] \in A
    BY <2>2
  <2>4. g \in [0 .. n -> A]
    BY <2>1, <2>3
  <2>5. ASSUME NEW k \in 1 .. n
        PROVE  g[k] = G[<<g[k - 1], k>>]
    <3>1. k - 1 \in 0 .. n - 1 /\ g[k - 1] = h[k - 1]
      OBVIOUS
    <3>2. CASE k = n
      <4>1. n \in 0 .. n /\ g[n] = G[<<h[n - 1], n>>]
        OBVIOUS
      <4>. QED
        BY <3>1, <3>2, <4>1
    <3>3. CASE k # n
      <4>1. k \in 1 .. n - 1 /\ g[k] = h[k]
        BY <3>3
      <4>. QED
        BY <2>1, <3>1, <4>1
    <3>. QED
      BY <3>2, <3>3
  <2>6. g[0] = a
    BY <2>1
  <2>. HIDE DEF g
  <2>7. Up(n, g)
    BY <2>4, <2>5, <2>6
  <2>8. n \in Nat /\ \E f : Up(n, f)
    BY <2>7
  <2>. QED
    BY <2>8
<1>. HIDE DEF S
<1>3. N \in S
  BY <1>1, <1>2, UpTo
<1>. QED
  BY <1>3 DEF S, Iterates

-----------------------------------------------------------------------------
(* Directions and blasts *)

LEMMA OneNeighbour ==
  ASSUME NEW x \in Cell, NEW y \in Cell, NEW d \in Dir, Step[x][d] # Outside, Step[x][d] = Step[y][d]
  PROVE  x = y
BY Ground

LEMMA RayIs ==
  ASSUME NEW c \in Cell, NEW d \in Dir
  PROVE  /\ Ray(c, d) \in [0 .. Far -> Cell \cup {Outside}]
         /\ Ray(c, d)[0] = c
         /\ \A n \in 1 .. Far :
              Ray(c, d)[n] = IF Ray(c, d)[n - 1] = Outside THEN Outside ELSE Step[Ray(c, d)[n - 1]][d]
<1>. DEFINE A == Cell \cup {Outside}
            G == [z \in A \X (1 .. Far) |-> IF z[1] = Outside THEN Outside ELSE Step[z[1]][d]]
            P(g) == g = [n \in 0 .. Far |-> IF n = 0 THEN c ELSE IF g[n - 1] = Outside THEN Outside ELSE Step[g[n - 1]][d]]
<1>1. G \in [A \X (1 .. Far) -> A]
  BY Numbers, Ground
<1>2. PICK h : Iterates(h, Far, A, c, G)
  <2>1. Far \in Nat /\ c \in A
    BY Numbers
  <2>. HIDE DEF G, A
  <2>. QED
    BY <1>1, <2>1, Recursion
<1>3. \A n \in 1 .. Far : h[n] = IF h[n - 1] = Outside THEN Outside ELSE Step[h[n - 1]][d]
  <2>. TAKE n \in 1 .. Far
  <2>1. <<h[n - 1], n>> \in A \X (1 .. Far)
    BY <1>2, Numbers, Ground DEF Iterates
  <2>. QED
    BY <1>2, <2>1 DEF Iterates
<1>. HIDE DEF A
<1>4. P(h)
  BY <1>2, <1>3, Numbers, Ground DEF Iterates
<1>5. Ray(c, d) = CHOOSE g : P(g)
  BY DEF Ray
<1>6. P(Ray(c, d))
  <2>. HIDE DEF P
  <2>. QED
    BY <1>4, <1>5
<1>. DEFINE r == Ray(c, d)
<1>7. r = [n \in 0 .. Far |-> IF n = 0 THEN c ELSE IF r[n - 1] = Outside THEN Outside ELSE Step[r[n - 1]][d]]
  BY <1>6
<1>. HIDE DEF r
<1>8. r[0] = c /\ \A n \in 1 .. Far : r[n] = IF r[n - 1] = Outside THEN Outside ELSE Step[r[n - 1]][d]
  BY <1>7, Numbers, Ground
<1>. DEFINE S == {n \in 0 .. Far : r[n] \in A}
<1>9. 0 .. Far \subseteq S
  <2>1. 0 \in S
    BY <1>8, Numbers, Ground DEF A
  <2>2. \A n \in 1 .. Far : n - 1 \in S => n \in S
    BY <1>8, Numbers, Ground DEF A
  <2>. HIDE DEF S
  <2>. QED
    BY <2>1, <2>2, UpTo, Numbers
<1>10. r \in [0 .. Far -> A]
  BY <1>7, <1>9
<1>. QED
  BY <1>8, <1>10 DEF r, A

\* Beyond the edge there is nothing, and a direction that comes back to where
\* it starts goes round.
LEMMA RayEnds ==
  ASSUME NEW c \in Cell, NEW d \in Dir, NEW n \in 0 .. Far, NEW k \in 0 .. n, Ray(c, d)[n] # Outside
  PROVE  Ray(c, d)[k] \in Cell
<1>. DEFINE r == Ray(c, d)
            S == {m \in 0 .. n : r[n - m] # Outside}
<1>1. /\ Far \in Nat /\ r \in [0 .. Far -> Cell \cup {Outside}]
      /\ \A m \in 1 .. Far : r[m - 1] = Outside => r[m] = Outside
  BY RayIs, Numbers, Ground
<1>. HIDE DEF r
<1>2. 0 .. n \subseteq S
  <2>1. 0 \in S
    BY <1>1 DEF r
  <2>2. ASSUME NEW m \in 1 .. n, m - 1 \in S
        PROVE  m \in S
    <3>1. r[n - (m - 1)] # Outside /\ n - (m - 1) \in 1 .. Far /\ (n - (m - 1)) - 1 = n - m
      BY <1>1, <2>2
    <3>. QED
      BY <1>1, <3>1
  <2>. HIDE DEF S
  <2>. QED
    BY <2>1, <2>2, UpTo
<1>3. n - k \in S /\ n - (n - k) = k
  BY <1>2
<1>. QED
  BY <1>1, <1>3 DEF r

LEMMA RayGoesRound ==
  ASSUME NEW c \in Cell, NEW d \in Dir, NEW n \in 0 .. Far, NEW k \in 0 .. n, Ray(c, d)[k] = c
  PROVE  Ray(c, d)[n] = Ray(c, d)[n - k]
<1>. DEFINE r == Ray(c, d)
            S == {m \in 0 .. n - k : r[m + k] = r[m]}
<1>1. /\ Far \in Nat /\ r[0] = c
      /\ \A m \in 1 .. Far : r[m] = IF r[m - 1] = Outside THEN Outside ELSE Step[r[m - 1]][d]
  BY RayIs, Numbers, Ground
<1>. HIDE DEF r
<1>2. 0 .. n - k \subseteq S
  <2>1. 0 \in S
    BY <1>1 DEF r
  <2>2. ASSUME NEW m \in 1 .. n - k, m - 1 \in S
        PROVE  m \in S
    <3>1. /\ r[(m - 1) + k] = r[m - 1] /\ (m - 1) + k = (m + k) - 1
          /\ m \in 1 .. Far /\ m + k \in 1 .. Far
      BY <1>1, <2>2
    <3>. QED
      BY <1>1, <3>1
  <2>. HIDE DEF S
  <2>3. n - k \in Nat
    OBVIOUS
  <2>. QED
    BY <2>1, <2>2, <2>3, UpTo
<1>3. n - k \in S /\ (n - k) + k = n
  BY <1>2
<1>. QED
  BY <1>3 DEF r

\* A tile is met twice only by way of the first one.
LEMMA RayMeetsStart ==
  ASSUME NEW c \in Cell, NEW d \in Dir, NEW k \in 0 .. Far, NEW j \in 0 .. k,
         Ray(c, d)[k] # Outside, Ray(c, d)[j] = Ray(c, d)[k]
  PROVE  Ray(c, d)[k - j] = c
<1>. DEFINE r == Ray(c, d)
            S == {m \in 0 .. j : r[j - m] = r[k - m]}
<1>1. /\ Far \in Nat /\ r[0] = c
      /\ \A m \in 1 .. Far : r[m] = IF r[m - 1] = Outside THEN Outside ELSE Step[r[m - 1]][d]
      /\ \A m \in 0 .. k : r[m] \in Cell
  BY RayIs, RayEnds, Numbers, Ground
<1>2. Outside \notin Cell
  BY Ground
<1>. HIDE DEF r
<1>3. 0 .. j \subseteq S
  <2>1. 0 \in S
    BY <1>1 DEF r
  <2>2. ASSUME NEW m \in 1 .. j, m - 1 \in S
        PROVE  m \in S
    <3>1. /\ r[j - (m - 1)] = r[k - (m - 1)]
          /\ j - (m - 1) \in 1 .. Far /\ (j - (m - 1)) - 1 = j - m /\ j - m \in 0 .. k
          /\ k - (m - 1) \in 1 .. Far /\ (k - (m - 1)) - 1 = k - m /\ k - m \in 0 .. k
          /\ k - (m - 1) \in 0 .. k
      BY <1>1, <2>2
    <3>2. /\ r[j - (m - 1)] = Step[r[j - m]][d] /\ r[k - (m - 1)] = Step[r[k - m]][d]
          /\ r[j - m] \in Cell /\ r[k - m] \in Cell /\ r[k - (m - 1)] # Outside
      BY <1>1, <1>2, <3>1
    <3>3. r[j - m] = r[k - m]
      BY <3>1, <3>2, OneNeighbour
    <3>. QED
      BY <3>3
  <2>. HIDE DEF S
  <2>. QED
    BY <2>1, <2>2, UpTo
<1>4. j \in S /\ j - j = 0
  BY <1>3
<1>. QED
  BY <1>1, <1>4 DEF r

\* What an explosion covers, but for walls, is what is in plain sight.
LEMMA Covered ==
  ASSUME NEW b, b.at \in Cell, NEW e \in Cell, tiles \in [Cell -> Tile],
         e \in ExplosionCells(b.at, Reach, b.kind = "pierce", tiles)
  PROVE  e = b.at \/ Sees(b, e)
<1>. SUFFICES ASSUME e # b.at PROVE Sees(b, e)
  OBVIOUS
<1>1. PICK d \in Dir, n \in 1 .. Reach :
        LET r == Ray(b.at, d) IN
        /\ r[n] = e
        /\ \A k \in 1 .. n : r[k] \notin {Outside, b.at} /\ tiles[r[k]] # "wall"
        /\ b.kind = "pierce" \/ \A k \in 1 .. n - 1 : tiles[r[k]] \notin Breakable
  BY DEF ExplosionCells
<1>2. \A k \in 1 .. n - 1 : k \in 1 .. n /\ k \in 0 .. Far
  BY Numbers
<1>3. \A k \in 1 .. n - 1 : Ray(b.at, d)[k] \in Cell
  <2>. TAKE k \in 1 .. n - 1
  <2>1. k \in 1 .. n /\ k \in 0 .. Far
    BY <1>2
  <2>2. Ray(b.at, d) \in [0 .. Far -> Cell \cup {Outside}]
    BY RayIs
  <2>3. Ray(b.at, d)[k] # Outside
    BY <1>1, <2>1
  <2>. QED
    BY <2>1, <2>2, <2>3
<1>4. \A k \in 1 .. n - 1 : tiles[Ray(b.at, d)[k]] \in {"empty", "ice"} \cup (IF b.kind = "pierce" THEN Breakable ELSE {})
  BY <1>1, <1>2, <1>3 DEF Tile
<1>. QED
  BY <1>1, <1>2, <1>4 DEF Sees

LEMMA Uncovered ==
  ASSUME NEW b, b.at \in Cell, NEW e \in Cell, Sees(b, e), tiles[e] \in {"empty", "ice"}
  PROVE  e \in ExplosionCells(b.at, Reach, b.kind = "pierce", tiles)
<1>. SUFFICES ASSUME e # b.at PROVE e \in ExplosionCells(b.at, Reach, b.kind = "pierce", tiles)
  BY DEF ExplosionCells
<1>1. Far \in Nat /\ Reach \in 0 .. Far /\ Outside \notin Cell
  BY Numbers, Ground
<1>. DEFINE Open(r, n) == /\ r[n] = e
                          /\ \A k \in 1 .. n - 1 : r[k] # Outside /\ tiles[r[k]] \in {"empty", "ice"} \cup (IF b.kind = "pierce" THEN Breakable ELSE {})
<1>2. PICK d \in Dir : \E n \in 1 .. Reach : Open(Ray(b.at, d), n)
  BY DEF Sees
<1>. DEFINE r == Ray(b.at, d)
            S == {n \in 1 .. Reach : Open(r, n)}
<1>3. PICK n \in S : \A m \in S : n <= m
  <2>1. S \in SUBSET Nat /\ S # {}
    BY <1>2
  <2>. HIDE DEF S
  <2>. QED
    BY <2>1, LeastNatural
<1>4. n \in 1 .. Reach /\ n \in 0 .. Far /\ r[n] = e /\ r[n] # Outside
  BY <1>1, <1>3
<1>5. ASSUME NEW k \in 1 .. n - 1
      PROVE  r[k] # b.at
  <2>. SUFFICES ASSUME r[k] = b.at PROVE FALSE
    OBVIOUS
  <2>1. r[n] = r[n - k]
    BY <1>4, RayGoesRound
  <2>2. n - k \in 1 .. Reach /\ \A m \in 1 .. (n - k) - 1 : m \in 1 .. n - 1
    BY <1>1, <1>4
  <2>3. n - k \in S
    BY <1>3, <1>4, <2>1, <2>2
  <2>4. ~(n <= n - k)
    BY <1>4
  <2>. QED
    BY <1>3, <2>3, <2>4
<1>6. \A k \in 1 .. n : k = n \/ k \in 1 .. n - 1
  BY <1>4
<1>7. \A k \in 1 .. n : r[k] \notin {Outside, b.at} /\ tiles[r[k]] # "wall"
  BY <1>3, <1>4, <1>5, <1>6 DEF Breakable
<1>8. b.kind = "pierce" \/ \A k \in 1 .. n - 1 : tiles[r[k]] \notin Breakable
  BY <1>3 DEF Breakable
<1>. QED
  BY <1>4, <1>7, <1>8 DEF ExplosionCells

-----------------------------------------------------------------------------
(* Chains of detonations *)

Bombs(bs) ==
  /\ DOMAIN bs \subseteq Nat /\ IsFiniteSet(DOMAIN bs)
  /\ bs \in [DOMAIN bs -> Bomb]

Hit(bs, i, T) == ExplosionCells(bs[i].at, Reach, bs[i].kind = "pierce", T)

\* Whatever a bomb of the set reaches is in the set.
Closed(bs, T, S) == \A i \in S, j \in DOMAIN bs : bs[j].at \in Hit(bs, i, T) => j \in S

\* A map after some walls have been hit, once or more.
Worn(T, U) == \A c \in Cell : U[c] = T[c] \/ (T[c] \in Breakable /\ U[c] \in {"cracked", "empty"})

BatchState(bs) ==
  [due : SUBSET DOMAIN bs, gone : SUBSET DOMAIN bs, tiles : [Cell -> Tile], fire : [Cell -> 0 .. Duration]]

\* Between two detonations of a batch: who is due and who has gone is what the
\* first bombs lead to, and what has gone has reached only these.
Chained(a, first, bs, T, F) ==
  /\ a.due \cap a.gone = {}
  /\ first \subseteq a.due \cup a.gone
  /\ \A i \in a.gone, j \in DOMAIN bs : bs[j].at \in Hit(bs, i, T) => j \in a.due \cup a.gone
  /\ \A S \in SUBSET DOMAIN bs : first \subseteq S /\ Closed(bs, T, S) => a.due \cup a.gone \subseteq S
  /\ Worn(T, a.tiles)
  /\ \A c \in Cell : a.fire[c] = F[c] \/ (T[c] \notin Breakable /\ \E i \in a.gone : c \in Hit(bs, i, T))

LEMMA FirstIsDue ==
  ASSUME NEW S \in SUBSET Nat, S # {}
  PROVE  First(S) \in S
BY LeastNatural DEF First

LEMMA BrokenIs ==
  ASSUME NEW T \in [Cell -> Tile], NEW cells
  PROVE  Broken(T, cells) \in [Cell -> Tile] /\ Worn(T, Broken(T, cells))
BY DEF Broken, Worn, Tile, Breakable

LEMMA WornTwice ==
  ASSUME NEW T \in [Cell -> Tile], NEW U \in [Cell -> Tile], NEW V, Worn(T, U), Worn(U, V)
  PROVE  Worn(T, V)
BY DEF Worn, Tile, Breakable

LEMMA LitIs ==
  ASSUME NEW F \in [Cell -> 0 .. Duration], NEW cells, NEW T
  PROVE  /\ Lit(F, cells, T) \in [Cell -> 0 .. Duration]
         /\ \A c \in Cell : Lit(F, cells, T)[c] = F[c] \/ (T[c] \notin Breakable /\ c \in cells)
BY Numbers DEF Lit

LEMMA GoesOffChained ==
  ASSUME NEW bs, Bombs(bs), NEW first, NEW T \in [Cell -> Tile], NEW F, NEW a \in BatchState(bs),
         Chained(a, first, bs, T, F), NEW i \in a.due
  PROVE  /\ GoesOff(a, i, bs, T) \in BatchState(bs)
         /\ Chained(GoesOff(a, i, bs, T), first, bs, T, F)
         /\ GoesOff(a, i, bs, T).gone = a.gone \cup {i} /\ i \notin a.gone
<1>. DEFINE b == GoesOff(a, i, bs, T)
            cells == Hit(bs, i, T)
<1>1. /\ b.due = (a.due \cup Inside(bs, cells)) \ (a.gone \cup {i})
      /\ b.gone = a.gone \cup {i}
      /\ b.tiles = Broken(a.tiles, cells)
      /\ b.fire = Lit(a.fire, cells, T)
  BY DEF GoesOff, Hit
<1>2. /\ a.due \subseteq DOMAIN bs /\ a.gone \subseteq DOMAIN bs /\ a.tiles \in [Cell -> Tile]
      /\ a.fire \in [Cell -> 0 .. Duration]
  BY DEF BatchState
<1>3. Inside(bs, cells) = {j \in DOMAIN bs : bs[j].at \in cells}
  BY DEF Inside
<1>4. b \in BatchState(bs)
  <2>1. b.due \in SUBSET DOMAIN bs /\ b.gone \in SUBSET DOMAIN bs
    BY <1>1, <1>2, <1>3
  <2>2. Broken(a.tiles, cells) \in [Cell -> Tile] /\ Lit(a.fire, cells, T) \in [Cell -> 0 .. Duration]
    BY <1>2, BrokenIs, LitIs
  <2>. QED
    BY <1>1, <2>1, <2>2 DEF GoesOff, BatchState, Hit
<1>. HIDE DEF b, cells
<1>5. b.due \cap b.gone = {} /\ first \subseteq b.due \cup b.gone
  BY <1>1 DEF Chained
<1>6. \A k \in b.gone, j \in DOMAIN bs : bs[j].at \in Hit(bs, k, T) => j \in b.due \cup b.gone
  <2>. TAKE k \in b.gone, j \in DOMAIN bs
  <2>1. CASE k \in a.gone
    BY <1>1, <2>1 DEF Chained
  <2>2. CASE k = i
    BY <1>1, <1>3, <2>2 DEF cells
  <2>. QED
    BY <1>1, <2>1, <2>2
<1>7. ASSUME NEW S \in SUBSET DOMAIN bs, first \subseteq S, Closed(bs, T, S)
      PROVE  b.due \cup b.gone \subseteq S
  <2>1. a.due \cup a.gone \subseteq S
    BY <1>7 DEF Chained
  <2>2. Inside(bs, cells) \subseteq S
    BY <1>3, <1>7, <2>1 DEF Closed, cells
  <2>. QED
    BY <1>1, <2>1, <2>2
<1>8. Worn(T, b.tiles)
  BY <1>1, <1>2, BrokenIs, WornTwice DEF Chained
<1>9. ASSUME NEW c \in Cell
      PROVE  b.fire[c] = F[c] \/ (T[c] \notin Breakable /\ \E k \in b.gone : c \in Hit(bs, k, T))
  <2>1. b.fire[c] = a.fire[c] \/ (T[c] \notin Breakable /\ c \in cells)
    BY <1>1, <1>2, LitIs
  <2>2. a.fire[c] = F[c] \/ (T[c] \notin Breakable /\ \E k \in a.gone : c \in Hit(bs, k, T))
    BY DEF Chained
  <2>. QED
    BY <1>1, <2>1, <2>2 DEF cells
<1>10. Chained(b, first, bs, T, F)
  BY <1>5, <1>6, <1>7, <1>8, <1>9 DEF Chained
<1>. QED
  BY <1>1, <1>4, <1>10 DEF b, Chained

\* A batch ends with nobody due, after as many steps as there are bombs at most.
LEMMA ExplodeEnds ==
  ASSUME NEW bs, Bombs(bs), NEW first \in SUBSET DOMAIN bs,
         NEW T \in [Cell -> Tile], NEW F \in [Cell -> 0 .. Duration]
  PROVE  LET e == Explode(first, bs, T, F) IN
         e \in BatchState(bs) /\ e.due = {} /\ Chained(e, first, bs, T, F)
<1>. DEFINE N == Cardinality(DOMAIN bs)
            a0 == [due |-> first, gone |-> {}, tiles |-> T, fire |-> F]
            A == {a \in BatchState(bs) : Chained(a, first, bs, T, F)}
            G == [z \in A \X (1 .. N) |-> NextGoesOff(z[1], bs, T)]
            P(g) == g = [n \in 0 .. N |-> IF n = 0 THEN [due |-> first, gone |-> {}, tiles |-> T, fire |-> F]
                                          ELSE NextGoesOff(g[n - 1], bs, T)]
<1>1. N \in Nat
  BY FS_CardinalityType DEF Bombs
<1>2. a0 \in A
  <2>1. a0 \in BatchState(bs)
    BY DEF BatchState
  <2>2. Chained(a0, first, bs, T, F)
    BY DEF Chained, Closed, Worn
  <2>. QED
    BY <2>1, <2>2
<1>3. ASSUME NEW a \in A
      PROVE  /\ NextGoesOff(a, bs, T) \in A
             /\ a.due # {} => \E i \in DOMAIN bs \ a.gone : NextGoesOff(a, bs, T).gone = a.gone \cup {i}
  <2>1. CASE a.due = {}
    BY <2>1 DEF NextGoesOff
  <2>2. CASE a.due # {}
    <3>1. a.due \in SUBSET Nat /\ a.due \subseteq DOMAIN bs
      BY DEF BatchState, Bombs
    <3>2. First(a.due) \in a.due
      BY <2>2, <3>1, FirstIsDue
    <3>3. NextGoesOff(a, bs, T) = GoesOff(a, First(a.due), bs, T)
      BY <2>2 DEF NextGoesOff
    <3>4. a \in BatchState(bs) /\ Chained(a, first, bs, T, F)
      OBVIOUS
    <3>. DEFINE i == First(a.due)
    <3>5. /\ GoesOff(a, i, bs, T) \in BatchState(bs)
          /\ Chained(GoesOff(a, i, bs, T), first, bs, T, F)
          /\ GoesOff(a, i, bs, T).gone = a.gone \cup {i} /\ i \notin a.gone
      <4>. HIDE DEF A, i
      <4>. QED
        BY <3>2, <3>4, GoesOffChained DEF i
    <3>. QED
      BY <3>1, <3>2, <3>3, <3>5
  <2>. QED
    BY <2>1, <2>2
<1>. HIDE DEF A, N
<1>4. G \in [A \X (1 .. N) -> A]
  BY <1>3
<1>5. PICK h : Iterates(h, N, A, a0, G)
  <2>. HIDE DEF G, a0
  <2>. QED
    BY <1>1, <1>2, <1>4, Recursion
<1>6. \A n \in 1 .. N : h[n] = NextGoesOff(h[n - 1], bs, T)
  <2>. TAKE n \in 1 .. N
  <2>1. <<h[n - 1], n>> \in A \X (1 .. N)
    BY <1>1, <1>5 DEF Iterates
  <2>. QED
    BY <1>5, <2>1 DEF Iterates
<1>7. P(h)
  BY <1>1, <1>5, <1>6 DEF Iterates
<1>8. Explode(first, bs, T, F) = (CHOOSE g : P(g))[N]
  BY DEF Explode, N
<1>. DEFINE r == CHOOSE g : P(g)
<1>9. P(r)
  <2>. HIDE DEF P
  <2>. QED
    BY <1>7
<1>. HIDE DEF r
<1>10. r[0] = a0 /\ \A n \in 1 .. N : r[n] = NextGoesOff(r[n - 1], bs, T)
  <2>1. r = [n \in 0 .. N |-> IF n = 0 THEN a0 ELSE NextGoesOff(r[n - 1], bs, T)]
    BY <1>9
  <2>. HIDE DEF a0, P
  <2>. QED
    BY <1>1, <2>1
<1>. HIDE DEF a0, P
<1>. DEFINE S == {n \in 0 .. N : r[n] \in A /\ (r[n].due = {} \/ Cardinality(r[n].gone) = n)}
<1>11. \A a \in A : IsFiniteSet(a.gone) /\ a.gone \subseteq DOMAIN bs /\ a.due \subseteq DOMAIN bs /\ a.due \cap a.gone = {}
  BY FS_Subset DEF A, BatchState, Bombs, Chained
<1>12. 0 .. N \subseteq S
  <2>1. 0 \in S
    <3>1. r[0] \in A
      BY <1>2, <1>10
    <3>2. r[0].gone = {}
      BY <1>10 DEF a0
    <3>. QED
      BY <1>1, <3>1, <3>2, FS_EmptySet
  <2>2. ASSUME NEW n \in 1 .. N, n - 1 \in S
        PROVE  n \in S
    <3>1. r[n - 1] \in A /\ r[n] = NextGoesOff(r[n - 1], bs, T) /\ r[n] \in A
      BY <1>3, <1>10, <2>2
    <3>2. CASE r[n - 1].due = {}
      BY <3>1, <3>2 DEF NextGoesOff
    <3>3. CASE r[n - 1].due # {}
      <4>1. PICK i \in DOMAIN bs \ r[n - 1].gone : r[n].gone = r[n - 1].gone \cup {i}
        BY <1>3, <3>1, <3>3
      <4>2. Cardinality(r[n].gone) = (n - 1) + 1
        <5>1. Cardinality(r[n - 1].gone) = n - 1
          BY <2>2, <3>3
        <5>2. IsFiniteSet(r[n - 1].gone)
          BY <1>11, <3>1
        <5>3. Cardinality(r[n - 1].gone \cup {i}) = Cardinality(r[n - 1].gone) + 1
          BY <4>1, <5>2, FS_AddElement
        <5>. QED
          BY <4>1, <5>1, <5>3
      <4>. QED
        BY <3>1, <4>2
    <3>. QED
      BY <3>2, <3>3
  <2>. HIDE DEF S
  <2>. QED
    BY <1>1, <2>1, <2>2, UpTo
<1>13. r[N] \in A /\ (r[N].due = {} \/ Cardinality(r[N].gone) = N)
  BY <1>1, <1>12
<1>14. r[N].due = {}
  <2>1. ASSUME Cardinality(r[N].gone) = N
        PROVE  r[N].gone = DOMAIN bs
    BY <1>11, <1>13, <2>1, FS_Subset DEF N, Bombs
  <2>. QED
    BY <1>11, <1>13, <2>1
<1>. QED
  BY <1>8, <1>13, <1>14 DEF r, A

\* What a batch of bombs leaves behind.
LEMMA ExplodeIs ==
  ASSUME NEW bs, Bombs(bs), NEW first \in SUBSET DOMAIN bs,
         NEW T \in [Cell -> Tile], NEW F \in [Cell -> 0 .. Duration]
  PROVE  LET e == Explode(first, bs, T, F) IN
         /\ e.gone \subseteq DOMAIN bs /\ first \subseteq e.gone /\ Closed(bs, T, e.gone)
         /\ \A S \in SUBSET DOMAIN bs : first \subseteq S /\ Closed(bs, T, S) => e.gone \subseteq S
         /\ e.tiles \in [Cell -> Tile] /\ Worn(T, e.tiles)
         /\ e.fire \in [Cell -> 0 .. Duration]
         /\ \A c \in Cell : e.fire[c] = F[c] \/ (T[c] \notin Breakable /\ \E i \in e.gone : c \in Hit(bs, i, T))
<1>. DEFINE e == Explode(first, bs, T, F)
<1>1. e \in BatchState(bs) /\ e.due = {} /\ Chained(e, first, bs, T, F)
  BY ExplodeEnds
<1>. HIDE DEF e
<1>2. e.gone \subseteq DOMAIN bs /\ e.tiles \in [Cell -> Tile] /\ e.fire \in [Cell -> 0 .. Duration]
  BY <1>1 DEF BatchState
<1>3. /\ first \subseteq e.gone /\ Closed(bs, T, e.gone)
      /\ \A S \in SUBSET DOMAIN bs : first \subseteq S /\ Closed(bs, T, S) => e.gone \subseteq S
  BY <1>1 DEF Chained, Closed
<1>. QED
  BY <1>1, <1>2, <1>3 DEF e, Chained

\* What a batch does, in which the bombs of a set go off.
Gone(first, bs, pl, T, F, gone) ==
  /\ first \subseteq gone /\ Closed(bs, T, gone)
  /\ \A S \in SUBSET DOMAIN bs : first \subseteq S /\ Closed(bs, T, S) => gone \subseteq S
  /\ \A c \in Cell : fire'[c] = F[c] \/ (T[c] \notin Breakable /\ \E i \in gone : c \in Hit(bs, i, T))
  /\ bombs' = Without(bs, gone)
  /\ player' = GivenBack(pl, bs, gone)

LEMMA BatchIs ==
  ASSUME NEW bs, Bombs(bs), NEW first \in SUBSET DOMAIN bs, NEW pl,
         NEW T \in [Cell -> Tile], NEW F \in [Cell -> 0 .. Duration],
         pups \subseteq [at : Cell, type : Enabled],
         Batch(first, bs, pl, T, F)
  PROVE  /\ tiles' \in [Cell -> Tile] /\ Worn(T, tiles')
         /\ fire' \in [Cell -> 0 .. Duration]
         /\ pups' \subseteq [at : Cell, type : Enabled]
         /\ \E gone \in SUBSET DOMAIN bs : Gone(first, bs, pl, T, F, gone)
<1>. DEFINE e == Explode(first, bs, T, F)
<1>1. /\ bombs' = Without(bs, e.gone) /\ tiles' = e.tiles /\ fire' = e.fire
      /\ player' = GivenBack(pl, bs, e.gone)
      /\ \E fallen \in SUBSET {c \in Cell : T[c] \in Breakable /\ e.tiles[c] = "empty"} :
           \E type \in [fallen -> Enabled] : pups' = pups \cup {[at |-> c, type |-> type[c]] : c \in fallen}
  BY DEF Batch
<1>2. /\ e.gone \subseteq DOMAIN bs /\ first \subseteq e.gone /\ Closed(bs, T, e.gone)
      /\ \A S \in SUBSET DOMAIN bs : first \subseteq S /\ Closed(bs, T, S) => e.gone \subseteq S
      /\ e.tiles \in [Cell -> Tile] /\ Worn(T, e.tiles)
      /\ e.fire \in [Cell -> 0 .. Duration]
      /\ \A c \in Cell : e.fire[c] = F[c] \/ (T[c] \notin Breakable /\ \E i \in e.gone : c \in Hit(bs, i, T))
  BY ExplodeIs
<1>. HIDE DEF e
<1>3. pups' \subseteq [at : Cell, type : Enabled]
  BY <1>1
<1>4. Gone(first, bs, pl, T, F, e.gone)
  BY <1>1, <1>2 DEF Gone
<1>. QED
  BY <1>1, <1>2, <1>3, <1>4

-----------------------------------------------------------------------------
(* How many bombs are whose *)

LEMMA OwnedIs ==
  ASSUME NEW p, NEW bs, Bombs(bs)
  PROVE  /\ Owned(p, bs) \in Nat
         /\ IsFiniteSet({i \in DOMAIN bs : bs[i].owner = p})
<1>1. IsFiniteSet({i \in DOMAIN bs : bs[i].owner = p})
  BY FS_Subset DEF Bombs
<1>. QED
  BY <1>1, FS_CardinalityType DEF Owned

LEMMA SameOwners ==
  ASSUME NEW p, NEW bs, NEW cs, DOMAIN cs = DOMAIN bs, \A i \in DOMAIN bs : cs[i].owner = bs[i].owner
  PROVE  Owned(p, cs) = Owned(p, bs)
<1>1. {i \in DOMAIN cs : cs[i].owner = p} = {i \in DOMAIN bs : bs[i].owner = p}
  OBVIOUS
<1>. QED
  BY <1>1 DEF Owned

LEMMA OwnedRest ==
  ASSUME NEW p, NEW bs, Bombs(bs), NEW gone \in SUBSET DOMAIN bs
  PROVE  LET n == Cardinality({i \in gone : bs[i].owner = p}) IN
         /\ n \in Nat /\ n <= Owned(p, bs)
         /\ Owned(p, Without(bs, gone)) = Owned(p, bs) - n
<1>. DEFINE S == {i \in DOMAIN bs : bs[i].owner = p}
            T == {i \in gone : bs[i].owner = p}
            R == {i \in DOMAIN Without(bs, gone) : Without(bs, gone)[i].owner = p}
<1>1. T \subseteq S /\ R = S \ T /\ S \cap T = T
  BY DEF Without
<1>2. IsFiniteSet(S)
  BY OwnedIs
<1>. HIDE DEF S, T, R
<1>3. /\ Cardinality(R) = Cardinality(S) - Cardinality(S \cap T)
      /\ IsFiniteSet(T) /\ Cardinality(T) <= Cardinality(S) /\ Cardinality(T) \in Nat
  BY <1>1, <1>2, FS_Difference, FS_Subset, FS_CardinalityType
<1>. QED
  BY <1>1, <1>3 DEF S, T, R, Owned

\* Bombs of one player are added.
\* Another n bombs, all of them q's.
More(bs, cs, k, n, q) ==
  /\ Bombs(bs) /\ k \in Nat /\ n \in Nat /\ DOMAIN bs \subseteq 1 .. k
  /\ DOMAIN cs = DOMAIN bs \cup k + 1 .. k + n
  /\ \A i \in DOMAIN bs : cs[i].owner = bs[i].owner
  /\ \A i \in k + 1 .. k + n : cs[i].owner = q

LEMMA OwnedSame ==
  ASSUME NEW p, NEW bs, NEW cs, NEW k, NEW n, NEW q, More(bs, cs, k, n, q), p # q
  PROVE  Owned(p, cs) = Owned(p, bs)
<1>1. {i \in DOMAIN cs : cs[i].owner = p} = {i \in DOMAIN bs : bs[i].owner = p}
  BY DEF More
<1>. QED
  BY <1>1 DEF Owned

LEMMA OwnedMore ==
  ASSUME NEW p, NEW bs, NEW cs, NEW k, NEW n, More(bs, cs, k, n, p)
  PROVE  Owned(p, cs) = Owned(p, bs) + n
<1>. DEFINE S == {i \in DOMAIN bs : bs[i].owner = p}
            R == {i \in DOMAIN cs : cs[i].owner = p}
            N == k + 1 .. k + n
<1>. k \in Nat /\ n \in Nat /\ Bombs(bs)
  BY DEF More
<1>1. R = S \cup N /\ S \cap N = {}
  BY DEF More
<1>2. IsFiniteSet(S) /\ IsFiniteSet(N) /\ Cardinality(N) = n
  <2>1. IsFiniteSet(S)
    BY OwnedIs
  <2>2. IsFiniteSet(N) /\ Cardinality(N) = IF k + 1 > k + n THEN 0 ELSE (k + n) - (k + 1) + 1
    BY FS_Interval
  <2>. QED
    BY <2>1, <2>2
<1>3. Cardinality(R) = Cardinality(S) + Cardinality(N)
  <2>. HIDE DEF S, R, N
  <2>1. Cardinality(S \cup N) = Cardinality(S) + Cardinality(N) - Cardinality(S \cap N)
    BY <1>2, FS_Union
  <2>2. Cardinality(S \cap N) = 0 /\ Cardinality(S) \in Nat /\ Cardinality(N) \in Nat
    BY <1>1, <1>2, FS_EmptySet, FS_CardinalityType
  <2>. QED
    BY <1>1, <2>1, <2>2
<1>. QED
  BY <1>2, <1>3 DEF Owned

-----------------------------------------------------------------------------
(* Bombs that slide *)

Apart(bs) == \A i, j \in DOMAIN bs : bs[i].at = bs[j].at => i = j

OnFloor(bs) == \A i \in DOMAIN bs : Walkable(bs[i].at)

\* Only where bombs are, and where they go, may have changed; and never onto
\* a wall or onto each other.
Rolled(bs, cs) ==
  /\ DOMAIN cs = DOMAIN bs /\ cs \in [DOMAIN bs -> Bomb]
  /\ \A i \in DOMAIN bs : cs[i].owner = bs[i].owner /\ cs[i].left = bs[i].left
  /\ Apart(bs) => Apart(cs)
  /\ OnFloor(bs) => OnFloor(cs)

LEMMA NeighbourIs ==
  ASSUME NEW c \in Cell, NEW d \in Dir, Walkable(Step[c][d])
  PROVE  Step[c][d] \in Cell
BY Ground DEF Walkable

LEMMA RolledTwice ==
  ASSUME NEW bs, NEW cs, NEW ds, Rolled(bs, cs), Rolled(cs, ds)
  PROVE  Rolled(bs, ds)
BY DEF Rolled

LEMMA MovesOn ==
  ASSUME NEW bs, bs \in [DOMAIN bs -> Bomb], NEW i \in DOMAIN bs, bs[i].slide # None,
         Walkable(Step[bs[i].at][bs[i].slide]), Step[bs[i].at][bs[i].slide] \notin BombCells(bs)
  PROVE  Rolled(bs, [bs EXCEPT ![i].at = Step[bs[i].at][bs[i].slide]])
<1>. DEFINE c  == Step[bs[i].at][bs[i].slide]
            cs == [bs EXCEPT ![i].at = c]
<1>1. bs[i] \in Bomb /\ c \in Cell
  BY NeighbourIs DEF Bomb
<1>2. \A j \in DOMAIN bs : bs[j].at # c
  BY DEF BombCells
<1>. HIDE DEF c
<1>3. DOMAIN cs = DOMAIN bs /\ cs \in [DOMAIN bs -> Bomb]
  BY <1>1 DEF Bomb
<1>4. \A j \in DOMAIN bs : cs[j].owner = bs[j].owner /\ cs[j].left = bs[j].left
  BY <1>1 DEF Bomb
<1>5. \A j \in DOMAIN bs : cs[j].at = IF j = i THEN c ELSE bs[j].at
  BY <1>1 DEF Bomb
<1>. HIDE DEF cs
<1>6. Apart(bs) => Apart(cs)
  BY <1>2, <1>3, <1>5 DEF Apart
<1>7. OnFloor(bs) => OnFloor(cs)
  BY <1>3, <1>5 DEF OnFloor, c
<1>. QED
  BY <1>3, <1>4, <1>6, <1>7 DEF Rolled, cs, c

LEMMA SlidIs ==
  ASSUME NEW bs, bs \in [DOMAIN bs -> Bomb], NEW i
  PROVE  Rolled(bs, Slid(bs, i))
<1>1. Rolled(bs, bs)
  BY DEF Rolled
<1>2. ASSUME i \in DOMAIN bs
      PROVE  Rolled(bs, [bs EXCEPT ![i].slide = None])
  BY <1>2 DEF Rolled, Bomb, Apart, OnFloor
<1>. QED
  BY <1>1, <1>2, MovesOn DEF Slid

LEMMA SlidOnIceIs ==
  ASSUME NEW bs, bs \in [DOMAIN bs -> Bomb], NEW i
  PROVE  Rolled(bs, SlidOnIce(bs, i))
<1>1. Rolled(bs, bs)
  BY DEF Rolled
<1>. QED
  BY <1>1, MovesOn DEF SlidOnIce

\* What a step keeps holds after the last one.
LEMMA Reaches ==
  ASSUME NEW N \in Nat, NEW A, NEW r, r[0] \in A, \A n \in 1 .. N : r[n - 1] \in A => r[n] \in A
  PROVE  r[N] \in A
<1>. DEFINE S == {n \in 0 .. N : r[n] \in A}
<1>1. 0 \in S /\ \A n \in 1 .. N : n - 1 \in S => n \in S
  OBVIOUS
<1>. HIDE DEF S
<1>2. N \in S
  BY <1>1, UpTo
<1>. QED
  BY <1>2 DEF S

LEMMA AllSlidIs ==
  ASSUME bombs \in [DOMAIN bombs -> Bomb], placed \in Nat
  PROVE  Rolled(bombs, AllSlid)
<1>. DEFINE A == {cs \in [DOMAIN bombs -> Bomb] : Rolled(bombs, cs)}
            G == [z \in A \X (1 .. placed) |-> Slid(z[1], z[2])]
            P(g) == g = [n \in 0 .. placed |-> IF n = 0 THEN bombs ELSE Slid(g[n - 1], n)]
<1>1. bombs \in A
  BY DEF Rolled
<1>2. ASSUME NEW cs \in A, NEW n
      PROVE  Slid(cs, n) \in A
  <2>1. cs \in [DOMAIN cs -> Bomb] /\ Rolled(bombs, cs)
    OBVIOUS
  <2>2. Rolled(bombs, Slid(cs, n))
    BY <2>1, SlidIs, RolledTwice
  <2>. QED
    BY <2>2 DEF Rolled
<1>. HIDE DEF A
<1>3. G \in [A \X (1 .. placed) -> A]
  BY <1>2
<1>4. PICK h : Iterates(h, placed, A, bombs, G)
  <2>. HIDE DEF G
  <2>. QED
    BY <1>1, <1>3, Recursion
<1>5. P(h)
  <2>1. ASSUME NEW n \in 1 .. placed
        PROVE  h[n] = Slid(h[n - 1], n)
    <3>1. h[n - 1] \in A /\ h[n] = G[<<h[n - 1], n>>]
      <4>. HIDE DEF G
      <4>. QED
        BY <1>4 DEF Iterates
    <3>. QED
      BY <3>1
  <2>. QED
    BY <1>4, <2>1 DEF Iterates
<1>. DEFINE r == CHOOSE g : P(g)
<1>6. P(r)
  <2>. HIDE DEF P
  <2>. QED
    BY <1>5
<1>7. AllSlid = r[placed]
  BY DEF AllSlid
<1>. HIDE DEF r
<1>8. r[0] = bombs /\ \A n \in 1 .. placed : r[n] = Slid(r[n - 1], n)
  BY <1>6
<1>9. r[placed] \in A
  BY <1>1, <1>2, <1>8, Reaches
<1>. QED
  BY <1>7, <1>9 DEF A

LEMMA AllSlidOnIceIs ==
  ASSUME bombs \in [DOMAIN bombs -> Bomb], placed \in Nat
  PROVE  Rolled(bombs, AllSlidOnIce)
<1>. DEFINE A == {cs \in [DOMAIN bombs -> Bomb] : Rolled(bombs, cs)}
            G == [z \in A \X (1 .. placed) |-> SlidOnIce(z[1], z[2])]
            P(g) == g = [n \in 0 .. placed |-> IF n = 0 THEN bombs ELSE SlidOnIce(g[n - 1], n)]
<1>1. bombs \in A
  BY DEF Rolled
<1>2. ASSUME NEW cs \in A, NEW n
      PROVE  SlidOnIce(cs, n) \in A
  <2>1. cs \in [DOMAIN cs -> Bomb] /\ Rolled(bombs, cs)
    OBVIOUS
  <2>2. Rolled(bombs, SlidOnIce(cs, n))
    BY <2>1, SlidOnIceIs, RolledTwice
  <2>. QED
    BY <2>2 DEF Rolled
<1>. HIDE DEF A
<1>3. G \in [A \X (1 .. placed) -> A]
  BY <1>2
<1>4. PICK h : Iterates(h, placed, A, bombs, G)
  <2>. HIDE DEF G
  <2>. QED
    BY <1>1, <1>3, Recursion
<1>5. P(h)
  <2>1. ASSUME NEW n \in 1 .. placed
        PROVE  h[n] = SlidOnIce(h[n - 1], n)
    <3>1. h[n - 1] \in A /\ h[n] = G[<<h[n - 1], n>>]
      <4>. HIDE DEF G
      <4>. QED
        BY <1>4 DEF Iterates
    <3>. QED
      BY <3>1
  <2>. QED
    BY <1>4, <2>1 DEF Iterates
<1>. DEFINE r == CHOOSE g : P(g)
<1>6. P(r)
  <2>. HIDE DEF P
  <2>. QED
    BY <1>5
<1>7. AllSlidOnIce = r[placed]
  BY DEF AllSlidOnIce
<1>. HIDE DEF r
<1>8. r[0] = bombs /\ \A n \in 1 .. placed : r[n] = SlidOnIce(r[n - 1], n)
  BY <1>6
<1>9. r[placed] \in A
  BY <1>1, <1>2, <1>8, Reaches
<1>. QED
  BY <1>7, <1>9 DEF A

-----------------------------------------------------------------------------
(* Players who slide on ice *)

\* Only where players are, and when they may move, may have changed; and no
\* living player has got into a wall.
Strolled(pl, ql) ==
  /\ ql \in [Player -> Playing]
  /\ \A p \in Player : ql[p].alive = pl[p].alive /\ ql[p].count = pl[p].count
  /\ \A p \in Player : pl[p].alive /\ Walkable(pl[p].at) => Walkable(ql[p].at)

LEMMA SequencesAre ==
  ASSUME NEW S, IsFiniteSet(S), NEW s \in SetToSeqs(S)
  PROVE  s \in Seq(S) /\ IsInjective(s) /\ Range(s) = S /\ Len(s) = Cardinality(S)
<1>. DEFINE N == Cardinality(S)
<1>1. N \in Nat /\ s \in [1 .. N -> S] /\ \A i, j \in 1 .. N : i # j => s[i] # s[j]
  BY FS_CardinalityType DEF SetToSeqs
<1>. HIDE DEF N
<1>2. s \in Seq(S) /\ Len(s) = N
  BY <1>1
<1>3. IsInjective(s)
  BY <1>1 DEF IsInjective
<1>4. s \in Injection(1 .. N, S)
  BY <1>1 DEF Injection, IsInjective
<1>5. s \in Surjection(1 .. N, S)
  <2>1. Cardinality(1 .. N) = N
    BY <1>1, FS_Interval
  <2>. QED
    BY <1>4, <2>1, FS_Injection DEF N
<1>6. Range(s) = S
  BY <1>1, <1>5 DEF Range, Surjection
<1>. QED
  BY <1>2, <1>3, <1>6 DEF N

LEMMA GlidedIs ==
  ASSUME NEW acc \in [pl : [Player -> Playing], glide : [Player -> Dir \cup {None}]],
         NEW p \in Player, NEW d \in Dir
  PROVE  /\ Glided(acc, p, d) \in [pl : [Player -> Playing], glide : [Player -> Dir \cup {None}]]
         /\ Strolled(acc.pl, Glided(acc, p, d).pl)
<1>. DEFINE c == Step[acc.pl[p].at][d]
            g == Glided(acc, p, d)
            K == [pl : [Player -> Playing], glide : [Player -> Dir \cup {None}]]
<1>1. acc.pl \in [Player -> Playing] /\ acc.glide \in [Player -> Dir \cup {None}] /\ acc.pl[p] \in Playing
  OBVIOUS
<1>2. CASE g.pl = acc.pl /\ g.glide = [acc.glide EXCEPT ![p] = None] /\ g = [pl |-> g.pl, glide |-> g.glide]
  <2>. HIDE DEF g
  <2>1. g \in K
    BY <1>1, <1>2
  <2>2. Strolled(acc.pl, g.pl)
    BY <1>1, <1>2 DEF Strolled
  <2>. QED
    BY <2>1, <2>2 DEF g
<1>3. CASE /\ Walkable(c)
           /\ g.pl = [acc.pl EXCEPT ![p].at = c, ![p].cool = Cooldown]
           /\ g.glide \in {acc.glide, [acc.glide EXCEPT ![p] = None]}
           /\ g = [pl |-> g.pl, glide |-> g.glide]
  <2>1. c \in Cell /\ Cooldown \in 0 .. Cooldown
    <3>1. acc.pl[p].at \in Cell
      BY <1>1 DEF Playing
    <3>2. c \in Cell
      BY <1>3, <3>1, NeighbourIs
    <3>. QED
      BY <3>2, Numbers
  <2>. HIDE DEF g, c
  <2>2. g.pl \in [Player -> Playing]
    BY <1>1, <1>3, <2>1 DEF Playing
  <2>3. g.glide \in [Player -> Dir \cup {None}]
    BY <1>1, <1>3
  <2>4. \A q \in Player : /\ g.pl[q].alive = acc.pl[q].alive /\ g.pl[q].count = acc.pl[q].count
                          /\ g.pl[q].at = IF q = p THEN c ELSE acc.pl[q].at
    BY <1>1, <1>3 DEF Playing
  <2>5. Strolled(acc.pl, g.pl)
    BY <1>3, <2>2, <2>4 DEF Strolled
  <2>. QED
    BY <1>3, <2>2, <2>3, <2>5 DEF g
<1>4. CASE acc.pl[p].alive /\ Walkable(c)
  BY <1>2, <1>3, <1>4 DEF Glided
<1>5. CASE ~(acc.pl[p].alive /\ Walkable(c))
  BY <1>2, <1>5 DEF Glided
<1>. QED
  BY <1>4, <1>5

LEMMA AllGlidedIs ==
  ASSUME player \in [Player -> Playing],
         NEW begun \in [Player -> Dir \cup {None}], NEW s \in SetToSeqs({p \in Player : begun[p] # None})
  PROVE  /\ AllGlided(begun, s).glide \in [Player -> Dir \cup {None}]
         /\ Strolled(player, AllGlided(begun, s).pl)
<1>. DEFINE K == [pl : [Player -> Playing], glide : [Player -> Dir \cup {None}]]
            A == {a \in K : Strolled(player, a.pl)}
            N == Len(s)
            a0 == [pl |-> player, glide |-> begun]
            G == [z \in A \X (1 .. N) |-> Glided(z[1], s[z[2]], begun[s[z[2]]])]
            P(g) == g = [n \in 0 .. N |-> IF n = 0 THEN [pl |-> player, glide |-> begun]
                                          ELSE Glided(g[n - 1], s[n], begun[s[n]])]
<1>1. N \in Nat /\ \A n \in 1 .. N : s[n] \in Player /\ begun[s[n]] \in Dir
  <2>. DEFINE R == {p \in Player : begun[p] # None}
  <2>1. IsFiniteSet(R)
    BY FS_Subset, Beginnings
  <2>2. s \in Seq(R)
    BY <2>1, SequencesAre
  <2>. QED
    BY <2>2
<1>2. a0 \in A
  BY DEF Strolled
<1>3. ASSUME NEW a \in A, NEW n \in 1 .. N
      PROVE  Glided(a, s[n], begun[s[n]]) \in A
  <2>1. /\ Glided(a, s[n], begun[s[n]]) \in K
        /\ Strolled(a.pl, Glided(a, s[n], begun[s[n]]).pl)
    BY <1>1, GlidedIs
  <2>2. Strolled(player, Glided(a, s[n], begun[s[n]]).pl)
    BY <2>1 DEF Strolled
  <2>. QED
    BY <2>1, <2>2
<1>. HIDE DEF A, N
<1>4. G \in [A \X (1 .. N) -> A]
  BY <1>3
<1>5. PICK h : Iterates(h, N, A, a0, G)
  <2>. HIDE DEF G, a0
  <2>. QED
    BY <1>1, <1>2, <1>4, Recursion
<1>6. P(h)
  <2>1. ASSUME NEW n \in 1 .. N
        PROVE  h[n] = Glided(h[n - 1], s[n], begun[s[n]])
    <3>1. h[n - 1] \in A /\ h[n] = G[<<h[n - 1], n>>]
      <4>. HIDE DEF G
      <4>. QED
        BY <1>1, <1>5 DEF Iterates
    <3>. QED
      BY <3>1
  <2>. QED
    BY <1>1, <1>5, <2>1 DEF Iterates
<1>. DEFINE r == CHOOSE g : P(g)
<1>7. P(r)
  <2>. HIDE DEF P
  <2>. QED
    BY <1>6
<1>8. AllGlided(begun, s) = r[N]
  BY DEF AllGlided, N
<1>. HIDE DEF r
<1>9. r[0] = a0 /\ \A n \in 1 .. N : r[n] = Glided(r[n - 1], s[n], begun[s[n]])
  BY <1>1, <1>7
<1>. HIDE DEF a0
<1>10. r[N] \in A
  BY <1>1, <1>2, <1>3, <1>9, Reaches
<1>. QED
  BY <1>8, <1>10 DEF A

-----------------------------------------------------------------------------
(* Inputs *)

\* A movement leaves every bomb where it is, and the player on the floor.
LEMMA MovedIs ==
  ASSUME player \in [Player -> Playing], bombs \in [DOMAIN bombs -> Bomb], DOMAIN bombs \subseteq Nat,
         NEW p \in Player, NEW d \in Dir \cup {None}
  PROVE  LET m == Moved(p, d) IN
         /\ m.pl \in Playing /\ m.pl.alive = player[p].alive /\ m.pl.count = player[p].count
         /\ Walkable(player[p].at) => Walkable(m.pl.at)
         /\ DOMAIN m.bs = DOMAIN bombs /\ m.bs \in [DOMAIN bombs -> Bomb]
         /\ \A i \in DOMAIN bombs : /\ m.bs[i].owner = bombs[i].owner /\ m.bs[i].left = bombs[i].left
                                    /\ m.bs[i].at = bombs[i].at
<1>. DEFINE q == player[p]
            c == Step[q.at][d]
            there == {i \in DOMAIN bombs : bombs[i].at = c /\ bombs[i].slide = None}
            m == Moved(p, d)
<1>1. q \in Playing /\ q.at \in Cell
  BY DEF Playing
<1>2. CASE d = None \/ q.cool > 0
  BY <1>1, <1>2 DEF Moved
<1>3. CASE ~(d = None \/ q.cool > 0) /\ CanEnter(p, c, occ)
  <2>1. Walkable(c) /\ d \in Dir
    BY <1>3 DEF CanEnter
  <2>2. c \in Cell
    BY <1>1, <2>1, NeighbourIs
  <2>3. m = [pl |-> [q EXCEPT !.facing = d, !.at = c, !.cool = Cooldown], bs |-> bombs]
    BY <1>3 DEF Moved
  <2>4. Cooldown \in 0 .. Cooldown
    BY Numbers
  <2>. HIDE DEF m, c
  <2>5. m.pl \in Playing /\ m.pl.alive = q.alive /\ m.pl.count = q.count /\ m.pl.at = c
    BY <1>1, <2>1, <2>2, <2>3, <2>4 DEF Playing
  <2>. QED
    BY <2>1, <2>3, <2>5 DEF m
<1>4. CASE ~(d = None \/ q.cool > 0) /\ ~CanEnter(p, c, occ) /\ "kick" \in q.powers /\ there # {}
  <2>1. m = [pl |-> [q EXCEPT !.facing = d, !.cool = Cooldown], bs |-> [bombs EXCEPT ![First(there)].slide = d]]
    BY <1>4 DEF Moved
  <2>2. First(there) \in DOMAIN bombs /\ d \in Dir
    BY <1>4, FirstIsDue
  <2>3. Cooldown \in 0 .. Cooldown
    BY Numbers
  <2>. DEFINE f == First(there)
  <2>. HIDE DEF m, f
  <2>4. m.pl \in Playing /\ m.pl.alive = q.alive /\ m.pl.count = q.count /\ m.pl.at = q.at
    BY <1>1, <2>1, <2>2, <2>3 DEF Playing
  <2>5. m.bs = [bombs EXCEPT ![f].slide = d] /\ f \in DOMAIN bombs
    BY <2>1, <2>2 DEF f
  <2>6. DOMAIN m.bs = DOMAIN bombs /\ m.bs \in [DOMAIN bombs -> Bomb]
    BY <2>2, <2>5 DEF Bomb
  <2>7. \A i \in DOMAIN bombs : /\ m.bs[i].owner = bombs[i].owner /\ m.bs[i].left = bombs[i].left
                                /\ m.bs[i].at = bombs[i].at
    BY <2>2, <2>5 DEF Bomb
  <2>. QED
    BY <2>4, <2>6, <2>7 DEF m
<1>5. CASE ~(d = None \/ q.cool > 0) /\ ~CanEnter(p, c, occ) /\ ~("kick" \in q.powers /\ there # {})
  <2>1. m = [pl |-> [q EXCEPT !.facing = d], bs |-> bombs] /\ d \in Dir
    BY <1>5 DEF Moved
  <2>. HIDE DEF m
  <2>2. m.pl \in Playing /\ m.pl.alive = q.alive /\ m.pl.count = q.count /\ m.pl.at = q.at
    BY <1>1, <2>1 DEF Playing
  <2>. QED
    BY <2>1, <2>2 DEF m
<1>. QED
  BY <1>2, <1>3, <1>4, <1>5

\* Free tiles, each once, or the tile one stands on.
FreeTiles(s, at) ==
  /\ s \in Seq(Cell) /\ IsInjective(s)
  /\ \A k \in DOMAIN s : (Walkable(s[k]) \/ s[k] = at) /\ s[k] \notin occ

LEMMA OneTile ==
  ASSUME NEW c \in Cell, NEW at, Walkable(c) \/ c = at, c \notin occ
  PROVE  FreeTiles(<<c>>, at)
BY DEF FreeTiles, IsInjective

LEMMA NoTile == ASSUME NEW at PROVE FreeTiles(<<>>, at)
BY DEF FreeTiles, IsInjective

LEMMA LineCellsAre ==
  ASSUME NEW p, NEW q \in Playing
  PROVE  FreeTiles(LineCells(p, q), q.at)
<1>. DEFINE here == IF q.at \in occ THEN <<>> ELSE <<q.at>>
            r == Ray(q.at, q.facing)
            Free(c) == Walkable(c) /\ c \notin occ \cup {q.at} /\ At(c) \subseteq {p}
            room == q.max - q.count - Len(here)
            Ends(n) == (\A k \in 1 .. n : Free(r[k])) /\ (n = room \/ n = Far \/ ~Free(r[n + 1]))
            n == CHOOSE n \in 0 .. Far : Ends(n)
            on == [k \in 1 .. n |-> r[k]]
<1>1. /\ Far \in Nat /\ q.at \in Cell /\ q.facing \in Dir
      /\ r \in [0 .. Far -> Cell \cup {Outside}]
  BY RayIs, Numbers, Ground DEF Playing
<1>2. \E x \in 0 .. Far : Ends(x)
  <2>. DEFINE S == {x \in 0 .. Far : x = room \/ x = Far \/ ~Free(r[x + 1])}
  <2>. HIDE DEF r, Free, room
  <2>1. PICK x \in S : \A y \in S : x <= y
    <3>1. S \in SUBSET Nat /\ Far \in S
      BY <1>1
    <3>. HIDE DEF S
    <3>. QED
      BY <3>1, LeastNatural
  <2>2. ASSUME NEW k \in 1 .. x
        PROVE  Free(r[k])
    <3>1. k - 1 \in 0 .. Far /\ k - 1 \notin S
      <4>1. x \in 0 .. Far /\ \A y \in S : x <= y
        BY <2>1
      <4>2. k - 1 \in 0 .. Far /\ ~(x <= k - 1)
        BY <1>1, <4>1
      <4>. HIDE DEF S
      <4>. QED
        BY <4>1, <4>2
    <3>2. Free(r[(k - 1) + 1]) /\ (k - 1) + 1 = k
      BY <3>1
    <3>. QED
      BY <3>2
  <2>. QED
    BY <2>1, <2>2
<1>3. n \in 0 .. Far /\ \A k \in 1 .. n : Free(r[k])
  <2>1. n \in 0 .. Far /\ Ends(n)
    <3>. HIDE DEF Ends
    <3>. QED
      BY <1>2
  <2>. QED
    BY <2>1
<1>4. LineCells(p, q) = here \o on
  BY DEF LineCells
<1>. HIDE DEF n
<1>5. \A k \in 1 .. n : /\ k \in 0 .. Far /\ r[k] \in Cell /\ Walkable(r[k])
                        /\ r[k] \notin occ /\ r[k] # q.at
  BY <1>1, <1>3 DEF Walkable
<1>. HIDE DEF r
<1>6. on \in Seq(Cell) /\ Len(on) = n /\ \A k \in 1 .. n : on[k] = r[k]
  BY <1>3, <1>5
<1>7. ASSUME NEW j \in 1 .. n, NEW k \in 1 .. n, r[j] = r[k], j < k
      PROVE  FALSE
  <2>1. j \in 0 .. k /\ k - j \in 1 .. n
    BY <1>3, <1>7
  <2>2. r[k] # Outside
    BY <1>5, Ground
  <2>3. r[k - j] = q.at
    BY <1>1, <1>5, <1>7, <2>1, <2>2, RayMeetsStart DEF r
  <2>. QED
    BY <1>5, <2>1, <2>3
<1>8. \A j, k \in 1 .. n : r[j] = r[k] => j = k
  <2>. TAKE j, k \in 1 .. n
  <2>1. j < k \/ k < j \/ j = k
    BY <1>3
  <2>. QED
    BY <1>7, <2>1
<1>. HIDE DEF on
<1>9. CASE q.at \in occ
  <2>1. here \o on = on
    BY <1>6, <1>9
  <2>. QED
    BY <1>4, <1>5, <1>6, <1>8, <2>1 DEF FreeTiles, IsInjective
<1>10. CASE q.at \notin occ
  <2>. DEFINE s == <<q.at>> \o on
  <2>1. /\ s \in Seq(Cell) /\ Len(s) = n + 1 /\ s[1] = q.at
        /\ \A k \in 2 .. n + 1 : s[k] = r[k - 1]
    BY <1>1, <1>3, <1>6
  <2>2. here \o on = s
    BY <1>10
  <2>. HIDE DEF s
  <2>3. \A k \in 2 .. n + 1 : k - 1 \in 1 .. n
    BY <1>3
  <2>4. \A j, k \in 1 .. n + 1 : s[j] = s[k] => j = k
    <3>. TAKE j, k \in 1 .. n + 1
    <3>1. (j = 1 \/ j \in 2 .. n + 1) /\ (k = 1 \/ k \in 2 .. n + 1)
      BY <1>3
    <3>2. CASE j \in 2 .. n + 1 /\ k \in 2 .. n + 1
      <4>1. s[j] = s[k] => j - 1 = k - 1
        BY <1>8, <2>1, <2>3, <3>2
      <4>. QED
        BY <3>2, <4>1
    <3>3. CASE j = 1 \/ k = 1
      BY <1>5, <2>1, <2>3, <3>1, <3>3
    <3>. QED
      BY <3>1, <3>2, <3>3
  <2>5. \A k \in 1 .. n + 1 : (Walkable(s[k]) \/ s[k] = q.at) /\ s[k] \notin occ
    <3>. TAKE k \in 1 .. n + 1
    <3>1. k = 1 \/ k \in 2 .. n + 1
      BY <1>3
    <3>. QED
      BY <1>5, <1>10, <2>1, <2>3, <3>1
  <2>6. FreeTiles(s, q.at)
    BY <2>1, <2>4, <2>5 DEF FreeTiles, IsInjective
  <2>. QED
    BY <1>4, <2>2, <2>6
<1>. QED
  BY <1>9, <1>10

LEMMA LandingIs ==
  ASSUME NEW q \in Playing
  PROVE  FreeTiles(Landing(q), q.at)
<1>. DEFINE r == Ray(q.at, q.facing)
            Free(c) == Walkable(c) /\ c \notin occ
            inRange == {k \in 1 .. ThrowRange : Free(r[k])}
            beyond  == {k \in ThrowRange + 1 .. Far : Free(r[k])}
<1>1. /\ Far \in Nat /\ ThrowRange \in 0 .. Far /\ q.at \in Cell /\ q.facing \in Dir
      /\ r \in [0 .. Far -> Cell \cup {Outside}]
  BY RayIs, Numbers, Ground DEF Playing
<1>2. ASSUME NEW k \in 1 .. Far, Free(r[k])
      PROVE  FreeTiles(<<r[k]>>, q.at)
  <2>1. r[k] \in Cell
    BY <1>1, <1>2 DEF Walkable
  <2>. QED
    BY <1>2, <2>1, OneTile
<1>3. CASE inRange # {}
  <2>. DEFINE k == CHOOSE k \in inRange : \A j \in inRange : j <= k
  <2>1. k \in inRange
    <3>1. inRange \in SUBSET (0 .. ThrowRange) /\ ThrowRange \in Nat
      BY <1>1
    <3>. HIDE DEF inRange
    <3>2. \E x \in inRange : \A j \in inRange : j <= x
      BY <1>3, <3>1, GreatestNatural
    <3>. QED
      BY <3>2
  <2>2. Landing(q) = <<r[k]>>
    BY <1>3 DEF Landing
  <2>. HIDE DEF k
  <2>3. k \in 1 .. Far /\ Free(r[k])
    BY <1>1, <2>1
  <2>. QED
    BY <1>2, <2>2, <2>3
<1>4. CASE inRange = {} /\ beyond # {}
  <2>. DEFINE k == CHOOSE k \in beyond : \A j \in beyond : k <= j
  <2>1. k \in beyond
    <3>1. beyond \in SUBSET Nat
      BY <1>1
    <3>. HIDE DEF beyond
    <3>2. \E x \in beyond : \A j \in beyond : x <= j
      BY <1>4, <3>1, LeastNatural
    <3>. QED
      BY <3>2
  <2>2. Landing(q) = <<r[k]>>
    BY <1>4 DEF Landing
  <2>. HIDE DEF k
  <2>3. k \in 1 .. Far /\ Free(r[k])
    BY <1>1, <2>1
  <2>. QED
    BY <1>2, <2>2, <2>3
<1>5. CASE inRange = {} /\ beyond = {}
  <2>1. Landing(q) = IF q.at \notin occ THEN <<q.at>> ELSE <<>>
    BY <1>5 DEF Landing
  <2>. QED
    BY <1>1, <2>1, OneTile, NoTile
<1>. QED
  BY <1>3, <1>4, <1>5

LEMMA TargetsAre ==
  ASSUME NEW p, NEW q \in Playing, NEW act
  PROVE  FreeTiles(Targets(p, q, act), q.at)
<1>1. q.at \in Cell
  BY DEF Playing
<1>2. q.at \notin occ => FreeTiles(<<q.at>>, q.at)
  BY <1>1, OneTile
<1>3. CASE act = "throw" /\ "throw" \in q.powers
  BY <1>3, LandingIs DEF Targets
<1>4. CASE act = "bomb" /\ "line" \in q.powers
  BY <1>4, LineCellsAre DEF Targets
<1>5. CASE act = "bomb" /\ "line" \notin q.powers
  BY <1>2, <1>5, NoTile DEF Targets
<1>6. CASE ~(act = "throw" /\ "throw" \in q.powers) /\ act # "bomb"
  BY <1>6, NoTile DEF Targets
<1>. QED
  BY <1>3, <1>4, <1>5, <1>6

\* Wherever somebody is put, it is on the board; and the spawn tiles are what
\* is left when nothing else is safe.
LEMMA SafeSpawnIs ==
  ASSUME NEW c, SafeSpawn(c)
  PROVE  c \in Cell /\ (c \in Range(Spawn) \/ Walkable(c))
<1>1. Spawn \in Seq(Cell) /\ Spawn # <<>> /\ 1 \in DOMAIN Spawn
  BY Beginnings
<1>2. Spawn[1] \in Range(Spawn) /\ Range(Spawn) \subseteq Cell
  BY <1>1 DEF Range
<1>. QED
  BY <1>2 DEF SafeSpawn

-----------------------------------------------------------------------------
(* The types of the state, action by action *)

\* The players whose turn it is to come are only of the inputs and respawns.
Turns == phase \notin {"input", "return"} => todo = <<>>

Typed == TypeOK /\ Turns

LEMMA PlacedIs ==
  ASSUME Typed
  PROVE  placed \in Nat
<1>1. placed \in 0 .. MaxPlaced
  BY DEF Typed, TypeOK
<1>. QED
  BY <1>1, Numbers

LEMMA TypedBombs ==
  ASSUME NEW bs, bs \in [DOMAIN bs -> Bomb], NEW k \in Nat, DOMAIN bs \subseteq 1 .. k
  PROVE  Bombs(bs)
<1>1. IsFiniteSet(1 .. k)
  BY FS_Interval
<1>. QED
  BY <1>1, FS_Subset DEF Bombs

LEMMA GivenBackIs ==
  ASSUME NEW bs, Bombs(bs), NEW pl \in [Player -> Playing], NEW gone \in SUBSET DOMAIN bs
  PROVE  /\ GivenBack(pl, bs, gone) \in [Player -> Playing]
         /\ \A p \in Player : /\ GivenBack(pl, bs, gone)[p].alive = pl[p].alive
                              /\ GivenBack(pl, bs, gone)[p].at = pl[p].at
         /\ \A p \in Range(order) \cap Player :
              LET n == Cardinality({i \in gone : bs[i].owner = p}) IN
              GivenBack(pl, bs, gone)[p].count = IF pl[p].count > n THEN pl[p].count - n ELSE 0
<1>. DEFINE n(p) == Cardinality({i \in gone : bs[i].owner = p})
            g == GivenBack(pl, bs, gone)
<1>1. \A p \in Player : n(p) \in Nat
  BY OwnedRest
<1>2. g = [p \in Player |-> IF p \in Range(order) THEN [pl[p] EXCEPT !.count = IF @ > n(p) THEN @ - n(p) ELSE 0] ELSE pl[p]]
  BY DEF GivenBack
<1>. HIDE DEF n, g
<1>3. ASSUME NEW p \in Player
      PROVE  /\ g[p] \in Playing /\ g[p].alive = pl[p].alive /\ g[p].at = pl[p].at
             /\ p \in Range(order) => g[p].count = IF pl[p].count > n(p) THEN pl[p].count - n(p) ELSE 0
  <2>1. pl[p] \in Playing /\ n(p) \in Nat
    BY <1>1
  <2>. QED
    BY <1>2, <2>1 DEF Playing
<1>4. g \in [Player -> Playing]
  BY <1>2, <1>3
<1>. QED
  BY <1>3, <1>4 DEF g, n

LEMMA BatchTyped ==
  ASSUME NEW bs, bs \in [DOMAIN bs -> Bomb], placed \in Nat, DOMAIN bs \subseteq 1 .. placed,
         NEW first \in SUBSET DOMAIN bs, NEW pl \in [Player -> Playing],
         NEW T \in [Cell -> Tile], NEW F \in [Cell -> 0 .. Duration],
         pups \subseteq [at : Cell, type : Enabled],
         Batch(first, bs, pl, T, F)
  PROVE  /\ tiles' \in [Cell -> Tile]
         /\ fire' \in [Cell -> 0 .. Duration]
         /\ pups' \subseteq [at : Cell, type : Enabled]
         /\ bombs' \in [DOMAIN bombs' -> Bomb] /\ DOMAIN bombs' \subseteq 1 .. placed
         /\ \A i \in DOMAIN bombs' : i \in DOMAIN bs \ first /\ bombs'[i] = bs[i]
         /\ player' \in [Player -> Playing]
<1>1. Bombs(bs)
  BY TypedBombs
<1>2. PICK gone \in SUBSET DOMAIN bs : Gone(first, bs, pl, T, F, gone)
  BY <1>1, BatchIs
<1>3. /\ tiles' \in [Cell -> Tile]
      /\ fire' \in [Cell -> 0 .. Duration]
      /\ pups' \subseteq [at : Cell, type : Enabled]
  BY <1>1, BatchIs
<1>4. DOMAIN bombs' = DOMAIN bs \ gone /\ \A i \in DOMAIN bombs' : bombs'[i] = bs[i]
  BY <1>2 DEF Without, Gone
<1>5. bombs' \in [DOMAIN bombs' -> Bomb]
  BY <1>2, <1>4 DEF Without, Gone
<1>6. player' \in [Player -> Playing]
  BY <1>1, <1>2, GivenBackIs DEF Gone
<1>7. first \subseteq gone
  BY <1>2 DEF Gone
<1>. QED
  BY <1>7, <1>3, <1>4, <1>5, <1>6

LEMMA NewPlayerIs ==
  ASSUME isOpenWorld \in BOOLEAN, NEW c \in Cell
  PROVE  /\ NewPlayer(c) \in Playing /\ NewPlayer(c).alive /\ NewPlayer(c).at = c
         /\ NewPlayer(c).count = 0
<1>1. (CHOOSE d \in Dir : TRUE) \in Dir
  BY Beginnings
<1>2. /\ DefaultMaxBombs \in 0 .. MaxBombs /\ 0 \in Nat /\ 0 \in 0 .. Cooldown
      /\ SpawnSafe \in 0 .. SpawnSafe + Brief
  BY Numbers
<1>. QED
  BY <1>1, <1>2 DEF NewPlayer, Playing

\* Everybody has a turn in the order, and a tile to begin on.
LEMMA InitPlaces ==
  ASSUME NEW p \in Player, order \in SetToSeqs(Player)
  PROVE  LET i == CHOOSE i \in DOMAIN order : order[i] = p IN
         Spawn[((i - 1) % Len(Spawn)) + 1] \in Range(Spawn)
<1>1. order \in Seq(Player) /\ Range(order) = Player
  BY SequencesAre, Beginnings
<1>2. \E i \in DOMAIN order : order[i] = p
  BY <1>1 DEF Range
<1>. DEFINE i == CHOOSE i \in DOMAIN order : order[i] = p
<1>3. i \in DOMAIN order
  BY <1>2
<1>. HIDE DEF i
<1>4. i \in Nat \ {0}
  BY <1>1, <1>3
<1>5. Len(Spawn) \in Nat \ {0} /\ DOMAIN Spawn = 1 .. Len(Spawn)
  BY Beginnings
<1>6. ((i - 1) % Len(Spawn)) + 1 \in 1 .. Len(Spawn)
  BY <1>4, <1>5
<1>. QED
  BY <1>5, <1>6 DEF Range, i

LEMMA SpawnsAre ==
  Range(Spawn) \subseteq Cell /\ \A c \in Range(Spawn) : Start[c] = "empty"
BY Beginnings DEF Range

LEMMA TypeInit == Init => Typed
<1>. SUFFICES ASSUME Init PROVE Typed
  OBVIOUS
<1>. USE DEF Init
<1>1. order \in Seq(Player) /\ IsInjective(order)
  BY SequencesAre, Beginnings
<1>2. player \in [Player -> Playing]
  <2>. DEFINE at(p) == Spawn[(((CHOOSE i \in DOMAIN order : order[i] = p) - 1) % Len(Spawn)) + 1]
  <2>1. \A p \in Player : at(p) \in Cell
    BY InitPlaces, SpawnsAre
  <2>2. player = [p \in Player |-> NewPlayer(at(p))]
    OBVIOUS
  <2>. HIDE DEF at, Init
  <2>3. isOpenWorld \in BOOLEAN
    BY DEF Init
  <2>. QED
    BY <2>1, <2>2, <2>3, NewPlayerIs
<1>3. tiles \in [Cell -> Tile] /\ fire \in [Cell -> 0 .. Duration]
  BY Numbers, Beginnings DEF Tile, Breakable
<1>4. bombs \in [DOMAIN bombs -> Bomb] /\ DOMAIN bombs = {}
  OBVIOUS
<1>5. todo \in Seq(Player) /\ Range(todo) \subseteq Range(order) /\ coming \in Seq(Coming) /\ asked \in Seq(Request)
  BY DEF Range
<1>6. walls \in [DOMAIN walls -> 0 .. WallTicks] /\ DOMAIN walls \subseteq Cell
  OBVIOUS
<1>7. thaw \in 0 .. FreezeTicks /\ placed \in 0 .. MaxPlaced /\ events \in 0 .. MaxEvents
  BY Numbers
<1>8. glide \in [Player -> Dir \cup {None}] /\ prev \in [Player -> Cell \cup {None}]
  OBVIOUS
<1>. QED
  BY <1>1, <1>2, <1>3, <1>4, <1>5, <1>6, <1>7, <1>8 DEF Typed, TypeOK, Turns

LEMMA CellsOfBombs ==
  ASSUME NEW bs, bs \in [DOMAIN bs -> Bomb]
  PROVE  BombCells(bs) \subseteq Cell
BY DEF BombCells, Bomb

LEMMA TypeBegin == Typed /\ Begin => Typed'
<1>. SUFFICES ASSUME Typed, Begin PROVE Typed'
  OBVIOUS
<1>. USE DEF Typed, TypeOK, Turns, Begin
<1>1. occ' \subseteq Cell
  BY CellsOfBombs
<1>2. coming' \in Seq(Coming)
  <2>1. Warning \in Nat
    BY Numbers
  <2>2. \A i \in DOMAIN coming : [coming[i] EXCEPT !.in = IF @ > 0 THEN @ - 1 ELSE 0] \in Coming
    <3>. TAKE i \in DOMAIN coming
    <3>. DEFINE e == coming[i]
    <3>1. e \in Coming
      OBVIOUS
    <3>. HIDE DEF e, Typed
    <3>2. e.in \in Nat /\ e.in <= Warning
      BY <2>1, <3>1 DEF Coming
    <3>. DEFINE n == IF e.in > 0 THEN e.in - 1 ELSE 0
    <3>3. n \in 0 .. Warning
      BY <2>1, <3>2
    <3>. HIDE DEF n
    <3>4. [e EXCEPT !.in = n] \in Coming
      BY <3>1, <3>3 DEF Coming
    <3>. QED
      BY <3>4 DEF e, n
  <2>. QED
    BY <2>2
<1>3. thaw' \in 0 .. FreezeTicks
  <2>1. FreezeTicks \in Nat /\ thaw \in 0 .. FreezeTicks /\ thaw' = IF thaw > 0 THEN thaw - 1 ELSE 0
    BY Numbers
  <2>. QED
    BY <2>1
<1>4. walls' \in [DOMAIN walls' -> 0 .. WallTicks] /\ DOMAIN walls' = DOMAIN walls
  <2>1. WallTicks \in Nat /\ walls' = [c \in DOMAIN walls |-> IF walls[c] > 0 THEN walls[c] - 1 ELSE 0]
    BY Numbers
  <2>2. \A c \in DOMAIN walls : walls[c] \in 0 .. WallTicks
    OBVIOUS
  <2>. QED
    BY <2>1, <2>2
<1>5. todo' \in Seq(Player) /\ Range(todo') \subseteq Range(order)
  OBVIOUS
<1>. QED
  BY <1>1, <1>2, <1>3, <1>4, <1>5 DEF iceVars, countVars

LEMMA TypeAsk ==
  ASSUME NEW p \in Player, NEW what \in {"wall", "meteor", "power-up"}, NEW c \in Cell
  PROVE  Typed /\ Ask(p, what, c) => Typed'
<1>. SUFFICES ASSUME Typed, Ask(p, what, c) PROVE Typed'
  OBVIOUS
<1>. USE DEF Typed, TypeOK, Turns, Ask
<1>1. asked' \in Seq(Request)
  <2>1. [what |-> what, at |-> c] \in Request
    BY DEF Request
  <2>. QED
    BY <2>1
<1>2. events' \in 0 .. MaxEvents
  <2>1. MaxEvents \in Nat /\ events \in 0 .. MaxEvents /\ events < MaxEvents /\ events' = events + 1
    BY Numbers
  <2>. QED
    BY <2>1
<1>. QED
  BY <1>1, <1>2 DEF iceVars

LEMMA TypeJoin ==
  ASSUME NEW p \in Player, NEW c \in Cell
  PROVE  Typed /\ Join(p, c) => Typed'
<1>. SUFFICES ASSUME Typed, Join(p, c) PROVE Typed'
  OBVIOUS
<1>. USE DEF Typed, TypeOK, Turns, Join
<1>1. order' \in Seq(Player) /\ IsInjective(order')
  <2>1. \A i \in 1 .. Len(order) : order[i] # p
    BY DEF Range
  <2>. QED
    BY <2>1 DEF IsInjective
<1>2. player' \in [Player -> Playing]
  BY NewPlayerIs
<1>3. Range(todo') \subseteq Range(order')
  BY DEF Range
<1>4. returned' \subseteq Player
  OBVIOUS
<1>. QED
  BY <1>1, <1>2, <1>3, <1>4 DEF iceVars, mapVars

LEMMA Removed ==
  ASSUME NEW S, NEW s \in Seq(S), NEW i \in 1 .. Len(s)
  PROVE  /\ RemoveAt(s, i) \in Seq(S) /\ Len(RemoveAt(s, i)) = Len(s) - 1
         /\ \A j \in 1 .. Len(s) - 1 : RemoveAt(s, i)[j] = IF j < i THEN s[j] ELSE s[j + 1]
<1>. DEFINE u == SubSeq(s, 1, i - 1)
            v == SubSeq(s, i + 1, Len(s))
<1>1. u \in Seq(S) /\ Len(u) = i - 1 /\ \A j \in 1 .. i - 1 : u[j] = s[j]
  OBVIOUS
<1>2. v \in Seq(S) /\ Len(v) = Len(s) - i /\ \A j \in 1 .. Len(s) - i : v[j] = s[i + j]
  OBVIOUS
<1>. HIDE DEF u, v
<1>3. u \o v \in Seq(S) /\ Len(u \o v) = Len(s) - 1
  BY <1>1, <1>2
<1>4. ASSUME NEW j \in 1 .. Len(s) - 1
      PROVE  (u \o v)[j] = IF j < i THEN s[j] ELSE s[j + 1]
  <2>1. CASE j < i
    BY <1>1, <1>2, <2>1
  <2>2. CASE ~(j < i)
    <3>1. j - (i - 1) \in 1 .. Len(s) - i /\ i + (j - (i - 1)) = j + 1 /\ j > Len(u)
      BY <1>1, <2>2
    <3>2. (u \o v)[j] = v[j - (i - 1)]
      BY <1>1, <1>2, <2>2
    <3>. QED
      BY <1>2, <2>2, <3>1, <3>2
  <2>. QED
    BY <2>1, <2>2
<1>. QED
  BY <1>3, <1>4 DEF RemoveAt, u, v

LEMMA TypeLeaveWorld ==
  ASSUME NEW p \in Player
  PROVE  Typed /\ LeaveWorld(p) => Typed'
<1>. SUFFICES ASSUME Typed, LeaveWorld(p) PROVE Typed'
  OBVIOUS
<1>. USE DEF Typed, TypeOK, Turns, LeaveWorld
<1>0. order \in Seq(Player) /\ \A j, k \in 1 .. Len(order) : order[j] = order[k] => j = k
  BY DEF IsInjective
<1>1. PICK i \in 1 .. Len(order) : order[i] = p /\ order' = RemoveAt(order, i)
  <2>1. DOMAIN order = 1 .. Len(order)
    BY <1>0
  <2>. QED
    BY <2>1
<1>2. /\ order' \in Seq(Player) /\ Len(order') = Len(order) - 1
      /\ \A j \in 1 .. Len(order) - 1 : order'[j] = IF j < i THEN order[j] ELSE order[j + 1]
  BY <1>0, <1>1, Removed
<1>3. IsInjective(order')
  <2>. HIDE DEF Typed
  <2>1. Len(order) \in Nat /\ DOMAIN order' = 1 .. Len(order) - 1
    BY <1>0, <1>2
  <2>2. ASSUME NEW j \in 1 .. Len(order) - 1, NEW k \in 1 .. Len(order) - 1, order'[j] = order'[k]
        PROVE  j = k
    <3>. DEFINE x == IF j < i THEN j ELSE j + 1
                y == IF k < i THEN k ELSE k + 1
    <3>1. x \in 1 .. Len(order) /\ y \in 1 .. Len(order)
      BY <2>1
    <3>2. order'[j] = order[x] /\ order'[k] = order[y]
      BY <1>2
    <3>3. x = y
      BY <1>0, <2>2, <3>1, <3>2
    <3>. QED
      BY <1>1, <2>1, <3>3
  <2>. QED
    BY <2>1, <2>2 DEF IsInjective
<1>4. glide' \in [Player -> Dir \cup {None}] /\ prev' \in [Player -> Cell \cup {None}]
  OBVIOUS
<1>5. events' \in 0 .. MaxEvents
  <2>1. MaxEvents \in Nat /\ events \in 0 .. MaxEvents /\ events < MaxEvents /\ events' = events + 1
    BY Numbers
  <2>. QED
    BY <2>1
<1>6. Range(todo') \subseteq Range(order')
  BY DEF Range
<1>. QED
  BY <1>2, <1>3, <1>4, <1>5, <1>6 DEF mapVars

LEMMA TickedIs ==
  ASSUME NEW q \in Playing
  PROVE  /\ Ticked(q) \in Playing
         /\ Ticked(q).alive = q.alive /\ Ticked(q).at = q.at /\ Ticked(q).count = q.count
<1>. DEFINE s == IF q.safe > 0 THEN q.safe - 1 ELSE 0
            k == IF q.cool > 0 THEN q.cool - 1 ELSE 0
<1>1. s \in 0 .. SpawnSafe + Brief /\ k \in 0 .. Cooldown
  BY Numbers DEF Playing
<1>2. Ticked(q) = [q EXCEPT !.safe = s, !.cool = k]
  BY DEF Ticked
<1>. HIDE DEF s, k
<1>. QED
  BY <1>1, <1>2 DEF Playing

LEMMA NewBombIs ==
  ASSUME NEW p \in Player, NEW q, NEW c \in Cell
  PROVE  /\ NewBomb(p, q, c) \in Bomb /\ NewBomb(p, q, c).left > 0
         /\ NewBomb(p, q, c).owner = p /\ NewBomb(p, q, c).at = c
<1>1. Fuse \in 0 .. RemoteFuse /\ RemoteFuse \in 0 .. RemoteFuse /\ Fuse > 0 /\ RemoteFuse > 0
  BY Numbers
<1>. QED
  BY <1>1 DEF NewBomb, Bomb

\* The state after an input that places bombs.
Put(p, m, s) ==
  /\ FreeTiles(s, m.pl.at) /\ placed' = placed + Len(s) /\ placed' <= MaxPlaced
  /\ occ' = occ \cup Range(s)
  /\ DOMAIN bombs' = DOMAIN bombs \cup placed + 1 .. placed + Len(s)
  /\ \A i \in DOMAIN bombs :
       /\ bombs'[i] \in Bomb /\ bombs'[i].owner = bombs[i].owner
       /\ bombs'[i].at = bombs[i].at /\ bombs'[i].left = bombs[i].left
  /\ \A i \in placed + 1 .. placed + Len(s) :
       /\ i - placed \in DOMAIN s /\ bombs'[i] \in Bomb
       /\ bombs'[i].owner = p /\ bombs'[i].at = s[i - placed] /\ bombs'[i].left > 0
  /\ bombs' \in [DOMAIN bombs' -> Bomb]
  /\ \E q \in Playing : /\ player' = [player EXCEPT ![p] = q]
                        /\ q.alive = player[p].alive /\ q.at = m.pl.at
                        /\ q.count = player[p].count + Len(s)

LEMMA PlaceIs ==
  ASSUME Typed, NEW p \in Player, NEW d \in Dir \cup {None}, NEW act, Place(p, Moved(p, d), act)
  PROVE  \E s \in Seq(Cell) : Put(p, Moved(p, d), s)
<1>. DEFINE m == Moved(p, d)
            q == m.pl
            s == IF q.count < q.max THEN Targets(p, q, act) ELSE <<>>
            q2 == Ticked([q EXCEPT !.count = @ + Len(s)])
<1>1. /\ player \in [Player -> Playing] /\ bombs \in [DOMAIN bombs -> Bomb] /\ DOMAIN bombs \subseteq 1 .. placed
      /\ placed \in Nat
  <2>1. placed \in 0 .. MaxPlaced
    BY DEF Typed, TypeOK
  <2>2. placed \in Nat
    BY <2>1, Numbers
  <2>. QED
    BY <2>2 DEF Typed, TypeOK
<1>2. /\ q \in Playing /\ q.alive = player[p].alive /\ q.count = player[p].count
      /\ DOMAIN m.bs = DOMAIN bombs /\ m.bs \in [DOMAIN bombs -> Bomb]
      /\ \A i \in DOMAIN bombs : /\ m.bs[i].owner = bombs[i].owner /\ m.bs[i].left = bombs[i].left
                                 /\ m.bs[i].at = bombs[i].at
  BY <1>1, MovedIs
<1>3. /\ placed + Len(s) <= MaxPlaced
      /\ bombs' = [i \in DOMAIN m.bs \cup placed + 1 .. placed + Len(s) |->
                     IF i > placed THEN NewBomb(p, q, s[i - placed]) ELSE m.bs[i]]
      /\ player' = [player EXCEPT ![p] = q2]
      /\ occ' = occ \cup Range(s)
      /\ placed' = placed + Len(s)
  BY DEF Place
<1>. HIDE DEF m
<1>4. FreeTiles(s, q.at)
  BY <1>2, TargetsAre, NoTile
<1>. HIDE DEF s
<1>5. s \in Seq(Cell) /\ Len(s) \in Nat
  BY <1>4 DEF FreeTiles
<1>6. q2 \in Playing /\ q2.alive = q.alive /\ q2.at = q.at /\ q2.count = q.count + Len(s)
  <2>. DEFINE r == [q EXCEPT !.count = @ + Len(s)]
  <2>1. r \in Playing /\ r.alive = q.alive /\ r.at = q.at /\ r.count = q.count + Len(s)
    BY <1>2, <1>5 DEF Playing
  <2>. HIDE DEF r
  <2>2. Ticked(r) \in Playing /\ Ticked(r).alive = r.alive /\ Ticked(r).at = r.at /\ Ticked(r).count = r.count
    BY <2>1, TickedIs
  <2>. QED
    BY <2>1, <2>2 DEF r
<1>. HIDE DEF q2
<1>7. DOMAIN bombs' = DOMAIN bombs \cup placed + 1 .. placed + Len(s)
  BY <1>2, <1>3
<1>8. ASSUME NEW i \in DOMAIN bombs
      PROVE  /\ bombs'[i] \in Bomb /\ bombs'[i].owner = bombs[i].owner
             /\ bombs'[i].at = bombs[i].at /\ bombs'[i].left = bombs[i].left
  <2>1. ~(i > placed) /\ i \in DOMAIN bombs'
    BY <1>1, <1>7
  <2>2. bombs'[i] = m.bs[i]
    BY <1>3, <1>7, <2>1
  <2>. QED
    BY <1>2, <2>2
<1>9. ASSUME NEW i \in placed + 1 .. placed + Len(s)
      PROVE  /\ i - placed \in DOMAIN s /\ bombs'[i] \in Bomb
             /\ bombs'[i].owner = p /\ bombs'[i].at = s[i - placed] /\ bombs'[i].left > 0
  <2>1. i > placed /\ i \in DOMAIN bombs' /\ i - placed \in 1 .. Len(s)
    BY <1>1, <1>5, <1>7
  <2>2. bombs'[i] = NewBomb(p, q, s[i - placed])
    BY <1>3, <1>7, <2>1
  <2>3. s[i - placed] \in Cell
    BY <1>5, <2>1
  <2>. QED
    BY <1>5, <2>1, <2>2, <2>3, NewBombIs
<1>10. bombs' \in [DOMAIN bombs' -> Bomb]
  BY <1>3, <1>7, <1>8, <1>9
<1>11. placed' <= MaxPlaced
  BY <1>3
<1>12. Put(p, m, s)
  BY <1>2, <1>3, <1>4, <1>6, <1>7, <1>8, <1>9, <1>10, <1>11 DEF Put
<1>. QED
  BY <1>5, <1>12 DEF m

LEMMA HeadAndTail ==
  ASSUME NEW S, NEW s \in Seq(S), s # <<>>
  PROVE  /\ Head(s) \in S /\ Head(s) \in Range(s)
         /\ Tail(s) \in Seq(S) /\ Range(Tail(s)) \subseteq Range(s)
<1>1. Len(s) \in Nat \ {0} /\ DOMAIN s = 1 .. Len(s) /\ Head(s) = s[1]
  OBVIOUS
<1>2. Tail(s) \in Seq(S) /\ DOMAIN Tail(s) = 1 .. Len(s) - 1 /\ \A i \in 1 .. Len(s) - 1 : Tail(s)[i] = s[i + 1]
  OBVIOUS
<1>3. Head(s) \in S /\ Head(s) \in Range(s)
  BY <1>1 DEF Range
<1>4. Range(Tail(s)) \subseteq Range(s)
  BY <1>1, <1>2 DEF Range
<1>. QED
  BY <1>2, <1>3, <1>4

LEMMA TypeInput == Typed /\ Input => Typed'
<1>. SUFFICES ASSUME Typed, Input PROVE Typed'
  OBVIOUS
<1>. DEFINE p == Head(todo)
<1>1. /\ p \in Player /\ p \in Range(order) /\ todo' \in Seq(Player) /\ Range(todo') \subseteq Range(order)
      /\ phase = "input" /\ phase' = "input"
  <2>1. todo \in Seq(Player) /\ todo # <<>> /\ Range(todo) \subseteq Range(order) /\ todo' = Tail(todo)
    BY DEF Typed, TypeOK, Input
  <2>2. /\ Head(todo) \in Player /\ Head(todo) \in Range(todo)
        /\ Tail(todo) \in Seq(Player) /\ Range(Tail(todo)) \subseteq Range(todo)
    BY <2>1, HeadAndTail
  <2>. QED
    BY <2>1, <2>2 DEF Input
<1>2. UNCHANGED <<order, phase, coming, mapVars, iceVars, events, returned, isOpenWorld>>
  BY DEF Input
<1>. DEFINE Rest == /\ tiles' \in [Cell -> Tile] /\ pups' \subseteq [at : Cell, type : Enabled]
                    /\ player' \in [Player -> Playing]
                    /\ bombs' \in [DOMAIN bombs' -> Bomb] /\ DOMAIN bombs' \subseteq 1 .. placed'
                    /\ \A i \in DOMAIN bombs' : bombs'[i].left > 0
                    /\ fire' \in [Cell -> 0 .. Duration]
                    /\ occ' \subseteq Cell /\ placed' \in 0 .. MaxPlaced
<1>3. Rest => Typed'
  BY <1>1, <1>2 DEF Typed, TypeOK, Turns, mapVars, iceVars
<1>4. /\ tiles \in [Cell -> Tile] /\ pups \subseteq [at : Cell, type : Enabled] /\ player \in [Player -> Playing]
      /\ bombs \in [DOMAIN bombs -> Bomb] /\ DOMAIN bombs \subseteq 1 .. placed
      /\ \A i \in DOMAIN bombs : bombs[i].left > 0
      /\ fire \in [Cell -> 0 .. Duration] /\ occ \subseteq Cell /\ placed \in 0 .. MaxPlaced /\ placed \in Nat /\ MaxPlaced \in Nat
  <2>1. placed \in 0 .. MaxPlaced
    BY DEF Typed, TypeOK
  <2>2. placed \in Nat /\ MaxPlaced \in Nat
    BY <2>1, Numbers
  <2>. QED
    BY <1>1, <2>2 DEF Typed, TypeOK
<1>5. \/ Skip(p)
      \/ \E d \in Dir \cup {None} : \/ \E act \in {"none", "bomb", "throw"} : Place(p, Moved(p, d), act)
                                    \/ Detonate(p, Moved(p, d))
  BY DEF Input
<1>. HIDE DEF p
<1>6. CASE Skip(p)
  BY <1>3, <1>4, <1>6 DEF Skip
<1>7. ASSUME NEW d \in Dir \cup {None}, NEW act, Place(p, Moved(p, d), act)
      PROVE  Rest
  <2>0. PICK s \in Seq(Cell) : Put(p, Moved(p, d), s)
    BY <1>1, <1>7, PlaceIs
  <2>1. /\ placed' = placed + Len(s) /\ placed' <= MaxPlaced /\ occ' = occ \cup Range(s)
        /\ DOMAIN bombs' = DOMAIN bombs \cup placed + 1 .. placed + Len(s)
        /\ \A i \in DOMAIN bombs : bombs'[i].left = bombs[i].left
        /\ \A i \in placed + 1 .. placed + Len(s) : bombs'[i].left > 0
        /\ bombs' \in [DOMAIN bombs' -> Bomb]
        /\ \E q \in Playing : player' = [player EXCEPT ![p] = q]
    BY <2>0 DEF Put
  <2>2. s \in Seq(Cell) /\ Len(s) \in Nat
    OBVIOUS
  <2>3. occ' \subseteq Cell
    BY <1>4, <2>1, <2>2 DEF Range
  <2>4. placed' \in 0 .. MaxPlaced /\ DOMAIN bombs' \subseteq 1 .. placed'
    BY <1>4, <2>1, <2>2
  <2>5. \A i \in DOMAIN bombs' : bombs'[i].left > 0
    BY <1>4, <2>1
  <2>6. UNCHANGED <<tiles, pups, fire>>
    BY <1>7 DEF Place
  <2>. QED
    BY <1>1, <1>4, <2>1, <2>3, <2>4, <2>5, <2>6
<1>8. ASSUME NEW d \in Dir \cup {None}, Detonate(p, Moved(p, d))
      PROVE  Rest
  <2>. DEFINE m == Moved(p, d)
              due == Remote(p, m.bs, m.pl.fifo)
              toggled == IF "remote" \in m.pl.powers THEN [m.pl EXCEPT !.fifo = ~@] ELSE m.pl
  <2>1. /\ m.pl \in Playing
        /\ DOMAIN m.bs = DOMAIN bombs /\ m.bs \in [DOMAIN bombs -> Bomb]
        /\ \A i \in DOMAIN bombs : m.bs[i].left = bombs[i].left
    BY <1>1, <1>4, MovedIs
  <2>2. \/ /\ due # {}
           /\ Batch(due, m.bs, [player EXCEPT ![p] = Ticked(m.pl)], tiles, fire) /\ UNCHANGED <<occ, placed>>
        \/ /\ player' = [player EXCEPT ![p] = Ticked(toggled)]
           /\ bombs' = m.bs
           /\ UNCHANGED <<tiles, pups, fire, occ, placed>>
    BY <1>8 DEF Detonate
  <2>. HIDE DEF m
  <2>3. due \in SUBSET DOMAIN m.bs
    BY DEF Remote
  <2>4. toggled \in Playing
    BY <2>1 DEF Playing
  <2>. HIDE DEF due, toggled
  <2>5. CASE Batch(due, m.bs, [player EXCEPT ![p] = Ticked(m.pl)], tiles, fire) /\ UNCHANGED <<occ, placed>>
    <3>. DEFINE pl == [player EXCEPT ![p] = Ticked(m.pl)]
    <3>1. pl \in [Player -> Playing]
      BY <1>4, <2>1, TickedIs
    <3>. HIDE DEF pl
    <3>2. Batch(due, m.bs, pl, tiles, fire)
      BY <2>5 DEF pl
    <3>3. m.bs \in [DOMAIN m.bs -> Bomb] /\ DOMAIN m.bs \subseteq 1 .. placed
      BY <1>4, <2>1
    <3>4. /\ tiles' \in [Cell -> Tile]
          /\ fire' \in [Cell -> 0 .. Duration]
          /\ pups' \subseteq [at : Cell, type : Enabled]
          /\ bombs' \in [DOMAIN bombs' -> Bomb] /\ DOMAIN bombs' \subseteq 1 .. placed
          /\ \A i \in DOMAIN bombs' : i \in DOMAIN m.bs \ due /\ bombs'[i] = m.bs[i]
          /\ player' \in [Player -> Playing]
      BY <1>4, <2>3, <3>1, <3>2, <3>3, BatchTyped
    <3>5. \A i \in DOMAIN bombs' : bombs'[i].left > 0
      BY <1>4, <2>1, <3>4
    <3>. QED
      BY <1>4, <2>5, <3>4, <3>5
  <2>6. CASE /\ player' = [player EXCEPT ![p] = Ticked(toggled)]
             /\ bombs' = m.bs
             /\ UNCHANGED <<tiles, pups, fire, occ, placed>>
    <3>1. player' \in [Player -> Playing]
      BY <1>4, <2>4, <2>6, TickedIs
    <3>2. bombs' \in [DOMAIN bombs' -> Bomb] /\ DOMAIN bombs' \subseteq 1 .. placed /\ \A i \in DOMAIN bombs' : bombs'[i].left > 0
      BY <1>4, <2>1, <2>6
    <3>. QED
      BY <1>4, <2>6, <3>1, <3>2
  <2>. QED
    BY <2>2, <2>5, <2>6
<1>. HIDE DEF Rest
<1>. QED
  BY <1>3, <1>5, <1>6, <1>7, <1>8

LEMMA TypeSlide == Typed /\ Slide => Typed'
<1>. SUFFICES ASSUME Typed, Slide PROVE Typed'
  OBVIOUS
<1>1. /\ bombs \in [DOMAIN bombs -> Bomb] /\ DOMAIN bombs \subseteq 1 .. placed
      /\ \A i \in DOMAIN bombs : bombs[i].left > 0 /\ bombs[i].left \in Nat /\ bombs[i].left <= RemoteFuse
  <2>1. /\ bombs \in [DOMAIN bombs -> Bomb] /\ DOMAIN bombs \subseteq 1 .. placed
        /\ \A i \in DOMAIN bombs : bombs[i].left > 0
    BY DEF Slide, Typed, TypeOK
  <2>2. ASSUME NEW i \in DOMAIN bombs
        PROVE  bombs[i].left > 0 /\ bombs[i].left \in Nat /\ bombs[i].left <= RemoteFuse
    <3>1. bombs[i].left \in 0 .. RemoteFuse /\ bombs[i].left > 0
      BY <2>1 DEF Bomb
    <3>2. RemoteFuse \in Nat
      BY Numbers
    <3>. QED
      BY <3>1, <3>2
  <2>. QED
    BY <2>1, <2>2
<1>2. placed \in Nat
  BY PlacedIs
<1>3. Rolled(bombs, AllSlid)
  BY <1>1, <1>2, AllSlidIs
<1>. DEFINE bs == AllSlid
<1>4. bombs' = [i \in DOMAIN bs |-> [bs[i] EXCEPT !.left = @ - 1]]
  BY DEF Slide
<1>. HIDE DEF bs
<1>5. DOMAIN bs = DOMAIN bombs /\ bs \in [DOMAIN bombs -> Bomb] /\ \A i \in DOMAIN bombs : bs[i].left = bombs[i].left
  BY <1>3 DEF Rolled, bs
<1>6. ASSUME NEW i \in DOMAIN bombs
      PROVE  [bs[i] EXCEPT !.left = @ - 1] \in Bomb
  <2>. DEFINE n == bs[i].left - 1
  <2>1. bs[i] \in Bomb /\ n \in 0 .. RemoteFuse
    <3>1. bs[i] \in Bomb /\ n = bombs[i].left - 1
      BY <1>5
    <3>2. bombs[i].left > 0 /\ bombs[i].left \in Nat /\ bombs[i].left <= RemoteFuse /\ RemoteFuse \in Nat
      BY <1>1, Numbers
    <3>. QED
      BY <3>1, <3>2
  <2>. HIDE DEF n
  <2>2. [bs[i] EXCEPT !.left = n] \in Bomb
    BY <2>1 DEF Bomb
  <2>. QED
    BY <2>2 DEF n
<1>7. bombs' \in [DOMAIN bombs' -> Bomb] /\ DOMAIN bombs' \subseteq 1 .. placed
  BY <1>1, <1>4, <1>5, <1>6
<1>. QED
  BY <1>7 DEF Typed, TypeOK, Turns, Slide, mapVars, iceVars, countVars

LEMMA TypeBlow == Typed /\ Blow => Typed'
<1>. SUFFICES ASSUME Typed, Blow PROVE Typed'
  OBVIOUS
<1>. DEFINE due == {i \in DOMAIN bombs : bombs[i].left = 0}
<1>1. /\ bombs \in [DOMAIN bombs -> Bomb] /\ DOMAIN bombs \subseteq 1 .. placed
      /\ player \in [Player -> Playing] /\ tiles \in [Cell -> Tile] /\ fire \in [Cell -> 0 .. Duration]
      /\ pups \subseteq [at : Cell, type : Enabled]
  BY DEF Typed, TypeOK
<1>2. placed \in Nat
  BY PlacedIs
<1>3. Batch(due, bombs, player, tiles, fire) /\ due \in SUBSET DOMAIN bombs
  BY DEF Blow
<1>4. /\ tiles' \in [Cell -> Tile]
      /\ fire' \in [Cell -> 0 .. Duration]
      /\ pups' \subseteq [at : Cell, type : Enabled]
      /\ bombs' \in [DOMAIN bombs' -> Bomb] /\ DOMAIN bombs' \subseteq 1 .. placed
      /\ \A i \in DOMAIN bombs' : i \in DOMAIN bombs \ due /\ bombs'[i] = bombs[i]
      /\ player' \in [Player -> Playing]
  <2>. HIDE DEF due
  <2>. QED
    BY <1>1, <1>2, <1>3, BatchTyped
<1>5. \A i \in DOMAIN bombs' : bombs'[i].left > 0
  <2>. TAKE i \in DOMAIN bombs'
  <2>1. bombs[i] \in Bomb /\ bombs[i].left # 0 /\ bombs'[i] = bombs[i]
    BY <1>1, <1>4
  <2>2. bombs[i].left \in 0 .. RemoteFuse
    BY <2>1 DEF Bomb
  <2>. QED
    BY <2>1, <2>2
<1>. QED
  BY <1>4, <1>5 DEF Typed, TypeOK, Turns, Blow, mapVars, iceVars, countVars

LEMMA PickedUpIs ==
  ASSUME NEW q \in Playing, NEW types \in SUBSET Enabled
  PROVE  /\ PickedUp(q, types) \in Playing
         /\ PickedUp(q, types).alive = q.alive /\ PickedUp(q, types).at = q.at
         /\ PickedUp(q, types).count = q.count
<1>. DEFINE n == IF "bomb_up" \in types /\ q.max < MaxBombs THEN q.max + 1 ELSE q.max
            s == q.powers \cup (types \ {"bomb_up"})
<1>1. n \in 0 .. MaxBombs /\ s \in SUBSET Enabled
  BY Numbers DEF Playing
<1>2. PickedUp(q, types) = [q EXCEPT !.max = n, !.powers = s]
  BY DEF PickedUp
<1>. HIDE DEF n, s
<1>. QED
  BY <1>1, <1>2 DEF Playing

\* Some die, some take what lies where they stand; nothing else.
LEMMA BurnIs ==
  ASSUME order \in Seq(Player), player \in [Player -> Playing], pups \subseteq [at : Cell, type : Enabled], Burn
  PROVE  /\ pups' \subseteq [at : Cell, type : Enabled]
         /\ player' \in [Player -> Playing]
         /\ \A p \in Player : /\ player'[p].count = player[p].count
                              /\ player'[p].at = player[p].at
                              /\ player'[p].alive => player[p].alive
<1>. DEFINE aged  == [c \in Cell |-> IF fire[c] > 0 THEN fire[c] - 1 ELSE 0]
            dying == {p \in Alive : aged[player[p].at] > Fade /\ player[p].safe = 0}
            Foremost(p) == \A i, j \in DOMAIN order : order[i] = p /\ order[j] \in Alive \ dying /\ player[order[j]].at = player[p].at => i <= j
            takers == {p \in Alive \ dying : Foremost(p)}
<1>0. order \in Seq(Player)
  OBVIOUS
<1>1. PICK drop \in [dying -> Enabled \cup {None}] :
        \E lying \in {pups \cup {[at |-> player[p].at, type |-> drop[p]] : p \in {p \in dying : drop[p] # None}}} :
            LET Types(p) == {u.type : u \in {u \in lying : u.at = player[p].at}} IN
            /\ pups' = {u \in lying : \A p \in takers : u.at # player[p].at}
            /\ player' = [p \in Player |-> IF p \in dying THEN [player[p] EXCEPT !.alive = FALSE]
                                           ELSE IF p \in takers THEN PickedUp(player[p], Types(p)) ELSE player[p]]
  BY DEF Burn
<1>. DEFINE lying == pups \cup {[at |-> player[p].at, type |-> drop[p]] : p \in {p \in dying : drop[p] # None}}
            Types(p) == {u.type : u \in {u \in lying : u.at = player[p].at}}
<1>2. /\ pups' = {u \in lying : \A p \in takers : u.at # player[p].at}
      /\ player' = [p \in Player |-> IF p \in dying THEN [player[p] EXCEPT !.alive = FALSE]
                                     ELSE IF p \in takers THEN PickedUp(player[p], Types(p)) ELSE player[p]]
  BY <1>1
<1>. HIDE DEF dying, takers
<1>3. dying \subseteq Player
  BY <1>0 DEF dying, Alive, Range
<1>4. lying \subseteq [at : Cell, type : Enabled]
  BY <1>1, <1>3 DEF Playing
<1>. HIDE DEF lying
<1>5. \A p \in Player : Types(p) \in SUBSET Enabled
  BY <1>4
<1>. HIDE DEF Types
<1>6. ASSUME NEW p \in Player
      PROVE  /\ player'[p] \in Playing /\ player'[p].count = player[p].count
             /\ player'[p].at = player[p].at
             /\ player'[p].alive => player[p].alive
  <2>1. player[p] \in Playing
    OBVIOUS
  <2>2. CASE p \in dying
    BY <1>2, <2>1, <2>2 DEF Playing
  <2>3. CASE p \notin dying
    BY <1>2, <1>5, <2>1, <2>3, PickedUpIs
  <2>. QED
    BY <2>2, <2>3
<1>7. player' \in [Player -> Playing]
  BY <1>2, <1>6
<1>8. pups' \subseteq [at : Cell, type : Enabled]
  BY <1>2, <1>4
<1>. QED
  BY <1>6, <1>7, <1>8

LEMMA TypeBurn == Typed /\ Burn => Typed'
<1>. SUFFICES ASSUME Typed, Burn PROVE Typed'
  OBVIOUS
<1>1. pups' \subseteq [at : Cell, type : Enabled] /\ player' \in [Player -> Playing]
  BY BurnIs DEF Typed, TypeOK
<1>2. fire' \in [Cell -> 0 .. Duration]
  <2>1. fire \in [Cell -> 0 .. Duration] /\ Duration \in Nat /\ fire' = [c \in Cell |-> IF fire[c] > 0 THEN fire[c] - 1 ELSE 0]
    BY Numbers DEF Typed, TypeOK, Burn
  <2>2. \A c \in Cell : fire[c] \in 0 .. Duration
    BY <2>1
  <2>. QED
    BY <2>1, <2>2
<1>. QED
  BY <1>1, <1>2 DEF Typed, TypeOK, Turns, Burn, mapVars, iceVars, countVars

LEMMA IceIs ==
  ASSUME order \in Seq(Player), player \in [Player -> Playing], bombs \in [DOMAIN bombs -> Bomb],
         glide \in [Player -> Dir \cup {None}], placed \in 0 .. MaxPlaced, Ice
  PROVE  /\ Strolled(player, player') /\ glide' \in [Player -> Dir \cup {None}]
         /\ Rolled(bombs, bombs')
<1>. DEFINE begun == [p \in Player |-> IF p \in Alive /\ glide[p] = None /\ tiles[player[p].at] = "ice" /\ prev[p] # player[p].at
                                        THEN player[p].facing ELSE glide[p]]
<1>1. /\ \E s \in SetToSeqs({p \in Player : begun[p] # None}) :
           player' = AllGlided(begun, s).pl /\ glide' = AllGlided(begun, s).glide
      /\ bombs' = AllSlidOnIce
  BY DEF Ice
<1>2. begun \in [Player -> Dir \cup {None}]
  BY DEF Playing
<1>3. Strolled(player, player') /\ glide' \in [Player -> Dir \cup {None}]
  <2>. HIDE DEF begun
  <2>. QED
    BY <1>1, <1>2, AllGlidedIs
<1>4. placed \in Nat
  BY PlacedIs
<1>. QED
  BY <1>1, <1>3, <1>4, AllSlidOnIceIs

LEMMA TypeIce == Typed /\ Ice => Typed'
<1>. SUFFICES ASSUME Typed, Ice PROVE Typed'
  OBVIOUS
<1>0. Strolled(player, player') /\ glide' \in [Player -> Dir \cup {None}] /\ Rolled(bombs, bombs')
  BY IceIs DEF Typed, TypeOK
<1>1. player' \in [Player -> Playing] /\ glide' \in [Player -> Dir \cup {None}] /\ Rolled(bombs, bombs')
  BY <1>0 DEF Strolled
<1>2. bombs' \in [DOMAIN bombs' -> Bomb] /\ DOMAIN bombs' = DOMAIN bombs
  BY <1>1 DEF Rolled
<1>3. \A i \in DOMAIN bombs' : bombs'[i].left > 0
  BY <1>1 DEF Rolled, Typed, TypeOK, Ice
<1>. QED
  BY <1>1, <1>2, <1>3 DEF Typed, TypeOK, Turns, Ice, mapVars, countVars

LEMMA OneMore ==
  ASSUME NEW S, NEW s \in Seq(S), NEW e \in S
  PROVE  Append(s, e) \in Seq(S)
OBVIOUS

LEMMA EventIs ==
  ASSUME NEW what \in {"meteor", "collapse", "freeze", "ufo"}, NEW where \in SUBSET Cell, NEW who \in Player \cup {None}
  PROVE  Event(what, where, who) \in Coming
BY Numbers DEF Event, Coming

\* A surge leaves every fuse at least a tick.
LEMMA SurgeIs ==
  ASSUME bombs \in [DOMAIN bombs -> Bomb], \A i \in DOMAIN bombs : bombs[i].left > 0, Surge
  PROVE  /\ DOMAIN bombs' = DOMAIN bombs /\ bombs' \in [DOMAIN bombs -> Bomb]
         /\ \A i \in DOMAIN bombs : /\ bombs'[i].left > 0 /\ bombs'[i].owner = bombs[i].owner
                                    /\ bombs'[i].at = bombs[i].at
<1>1. bombs' = [i \in DOMAIN bombs |-> [bombs[i] EXCEPT !.left = IF @ > SurgeTicks THEN @ - SurgeTicks ELSE 1]]
  BY DEF Surge
<1>2. ASSUME NEW i \in DOMAIN bombs
      PROVE  /\ bombs'[i] \in Bomb /\ bombs'[i].left > 0 /\ bombs'[i].owner = bombs[i].owner
             /\ bombs'[i].at = bombs[i].at
  <2>. DEFINE n == IF bombs[i].left > SurgeTicks THEN bombs[i].left - SurgeTicks ELSE 1
  <2>1. bombs[i] \in Bomb /\ bombs[i].left > 0 /\ bombs[i].left \in 0 .. RemoteFuse /\ bombs'[i] = [bombs[i] EXCEPT !.left = n]
    BY <1>1 DEF Bomb
  <2>2. n \in 0 .. RemoteFuse /\ n > 0
    <3>1. SurgeTicks \in Nat /\ RemoteFuse \in Nat
      BY Numbers
    <3>2. bombs[i].left \in Nat /\ bombs[i].left <= RemoteFuse /\ bombs[i].left >= 1
      BY <2>1, <3>1
    <3>. QED
      BY <3>1, <3>2
  <2>. HIDE DEF n
  <2>. QED
    BY <2>1, <2>2 DEF Bomb
<1>. QED
  BY <1>1, <1>2

LEMMA TypeHappen == Typed /\ Happen => Typed'
<1>. SUFFICES ASSUME Typed, Happen PROVE Typed'
  OBVIOUS
<1>1. /\ bombs \in [DOMAIN bombs -> Bomb] /\ \A i \in DOMAIN bombs : bombs[i].left > 0
      /\ player \in [Player -> Playing] /\ coming \in Seq(Coming)
      /\ order \in Seq(Player) /\ pups \subseteq [at : Cell, type : Enabled]
      /\ None \in Player \cup {None}
  BY DEF Typed, TypeOK, Happen
<1>2. events' \in 0 .. MaxEvents
  <2>1. MaxEvents \in Nat /\ events \in 0 .. MaxEvents /\ events < MaxEvents /\ events' = events + 1
    BY Numbers DEF Happen, Typed, TypeOK
  <2>. QED
    BY <2>1
<1>. DEFINE Rest == /\ coming' \in Seq(Coming) /\ pups' \subseteq [at : Cell, type : Enabled]
                    /\ bombs' \in [DOMAIN bombs' -> Bomb] /\ DOMAIN bombs' = DOMAIN bombs
                    /\ \A i \in DOMAIN bombs' : bombs'[i].left > 0
<1>3. ASSUME NEW what \in {"meteor", "collapse", "freeze", "ufo"}, NEW where \in SUBSET Cell, NEW who \in Player \cup {None},
             Announce(what, where, who)
      PROVE  Rest
  <2>1. Event(what, where, who) \in Coming
    BY EventIs
  <2>. QED
    BY <1>1, <1>3, <2>1, OneMore DEF Announce
<1>4. ASSUME NEW c \in Cell, NEW type \in Enabled, Rain(c, type)
      PROVE  Rest
  BY <1>1, <1>4 DEF Rain
<1>5. ASSUME Surge
      PROVE  Rest
  BY <1>1, <1>5, SurgeIs DEF Surge
<1>. HIDE DEF Rest
<1>6. Rest
  <2>1. Area \subseteq SUBSET Cell /\ Line \subseteq SUBSET Cell
    BY Beginnings
  <2>2. Alive \subseteq Player /\ \A p \in Alive : player[p].at \in Cell
    BY <1>1 DEF Alive, Range, Playing
  <2>3. \/ \E c \in Cell : Announce("meteor", {c}, None) \/ \E type \in Enabled : Rain(c, type)
        \/ \E A \in Area : Announce("collapse", A, None)
        \/ \E L \in Line : Announce("freeze", L, None)
        \/ \E p \in Alive : Announce("ufo", {player[p].at}, p)
        \/ Surge
    BY DEF Happen
  <2>4. ASSUME NEW c \in Cell, Announce("meteor", {c}, None)
        PROVE  Rest
    BY <1>1, <1>3, <2>4
  <2>5. ASSUME NEW A \in Area, Announce("collapse", A, None)
        PROVE  Rest
    BY <1>1, <1>3, <2>1, <2>5
  <2>6. ASSUME NEW L \in Line, Announce("freeze", L, None)
        PROVE  Rest
    BY <1>1, <1>3, <2>1, <2>6
  <2>7. ASSUME NEW p \in Alive, Announce("ufo", {player[p].at}, p)
        PROVE  Rest
    BY <1>1, <1>3, <2>2, <2>7
  <2>. QED
    BY <1>4, <1>5, <2>3, <2>4, <2>5, <2>6, <2>7
<1>. QED
  BY <1>2, <1>6 DEF Rest, Typed, TypeOK, Turns, Happen, mapVars, iceVars

LEMMA TypeThaw == Typed /\ Thaw => Typed'
<1>. SUFFICES ASSUME Typed, Thaw PROVE Typed'
  OBVIOUS
<1>1. tiles' \in [Cell -> Tile] /\ frozen' \subseteq Cell /\ glide' \in [Player -> Dir \cup {None}]
  BY DEF Thaw, Typed, TypeOK, Tile
<1>. QED
  BY <1>1 DEF Typed, TypeOK, Turns, Thaw, countVars

\* The target of the ship is put on a free tile, if anywhere.
LEMMA UfoIs ==
  ASSUME order \in Seq(Player), player \in [Player -> Playing], NEW e \in Coming, LandUfo(e)
  PROVE  /\ player' \in [Player -> Playing]
         /\ \A p \in Player : /\ player'[p].alive = player[p].alive /\ player'[p].count = player[p].count
                              /\ player'[p].at = player[p].at \/ Walkable(player'[p].at)
<1>1. CASE UNCHANGED player
  BY <1>1
<1>2. ASSUME NEW c \in Cell, tiles[c] = "empty", e.who \in Player,
             player' = [player EXCEPT ![e.who].at = c, ![e.who].cool = Cooldown, ![e.who].safe = Brief]
      PROVE  /\ player' \in [Player -> Playing]
             /\ \A p \in Player : /\ player'[p].alive = player[p].alive /\ player'[p].count = player[p].count
                                  /\ player'[p].at = player[p].at \/ Walkable(player'[p].at)
  <2>1. player[e.who] \in Playing /\ Cooldown \in 0 .. Cooldown /\ Brief \in 0 .. SpawnSafe + Brief
    <3>1. Cooldown \in Nat /\ Brief \in Nat /\ SpawnSafe \in Nat
      BY Numbers
    <3>. QED
      BY <1>2, <3>1
  <2>2. player' \in [Player -> Playing]
    BY <1>2, <2>1 DEF Playing
  <2>3. Walkable(c)
    BY <1>2, Ground DEF Walkable
  <2>4. \A p \in Player : /\ player'[p].alive = player[p].alive /\ player'[p].count = player[p].count
                          /\ player'[p].at = IF p = e.who THEN c ELSE player[p].at
    BY <1>2, <2>1 DEF Playing
  <2>. QED
    BY <2>2, <2>3, <2>4
<1>3. e.who \in Alive => e.who \in Player
  BY DEF Alive, Range
<1>. QED
  BY <1>1, <1>2, <1>3 DEF LandUfo

LEMMA TypeLand == Typed /\ Land => Typed'
<1>. SUFFICES ASSUME Typed, Land PROVE Typed'
  OBVIOUS
<1>1. /\ bombs \in [DOMAIN bombs -> Bomb] /\ DOMAIN bombs \subseteq 1 .. placed
      /\ \A i \in DOMAIN bombs : bombs[i].left > 0
      /\ player \in [Player -> Playing] /\ tiles \in [Cell -> Tile] /\ fire \in [Cell -> 0 .. Duration]
      /\ pups \subseteq [at : Cell, type : Enabled] /\ coming \in Seq(Coming)
      /\ frozen \subseteq Cell /\ thaw \in 0 .. FreezeTicks /\ order \in Seq(Player)
  BY DEF Typed, TypeOK, Land
<1>2. placed \in Nat /\ FreezeTicks \in Nat
  BY PlacedIs, Numbers
<1>. DEFINE Rest == /\ tiles' \in [Cell -> Tile] /\ pups' \subseteq [at : Cell, type : Enabled]
                    /\ player' \in [Player -> Playing] /\ fire' \in [Cell -> 0 .. Duration]
                    /\ bombs' \in [DOMAIN bombs' -> Bomb] /\ DOMAIN bombs' \subseteq 1 .. placed
                    /\ \A i \in DOMAIN bombs' : bombs'[i].left > 0
                    /\ frozen' \subseteq Cell /\ thaw' \in 0 .. FreezeTicks
<1>3. PICK i \in 1 .. Len(coming) :
        \/ coming' = [coming EXCEPT ![i].in = Warning] /\ UNCHANGED <<tiles, pups, player, bombs, fire, frozen, thaw>>
        \/ /\ \/ coming[i].what = "meteor" /\ LandMeteor(coming[i])
              \/ coming[i].what = "collapse" /\ LandCollapse(coming[i])
              \/ coming[i].what = "freeze" /\ LandFreeze(coming[i])
              \/ coming[i].what = "ufo" /\ LandUfo(coming[i])
           /\ coming' = RemoveAt(coming, i)
  <2>1. DOMAIN coming = 1 .. Len(coming)
    BY <1>1
  <2>. QED
    BY <2>1 DEF Land
<1>. DEFINE e == coming[i]
<1>4. e \in Coming
  BY <1>1
<1>5. coming' \in Seq(Coming)
  <2>1. RemoveAt(coming, i) \in Seq(Coming)
    BY <1>1, Removed
  <2>2. [coming EXCEPT ![i].in = Warning] \in Seq(Coming)
    <3>0. Warning \in 0 .. Warning
      BY Numbers
    <3>1. [e EXCEPT !.in = Warning] \in Coming
      <4>. HIDE DEF e
      <4>. QED
        BY <1>4, <3>0 DEF Coming
    <3>. QED
      BY <1>1, <3>1
  <2>. QED
    BY <1>3, <2>1, <2>2
<1>. HIDE DEF e
<1>6. ASSUME UNCHANGED <<tiles, pups, player, bombs, fire, frozen, thaw>>
      PROVE  Rest
  BY <1>1, <1>6
<1>7. ASSUME LandMeteor(e)
      PROVE  Rest
  <2>. DEFINE cells == ExplosionCells(CHOOSE c \in e.where : TRUE, MeteorReach, FALSE, tiles)
              T == Broken(tiles, cells)
              F == Lit(fire, cells, tiles)
              first == Inside(bombs, cells)
  <2>1. Batch(first, bombs, player, T, F) /\ UNCHANGED <<frozen, thaw>>
    BY <1>7 DEF LandMeteor
  <2>2. T \in [Cell -> Tile] /\ F \in [Cell -> 0 .. Duration] /\ first \in SUBSET DOMAIN bombs
    BY <1>1, BrokenIs, LitIs DEF Inside
  <2>. HIDE DEF T, F, first
  <2>3. /\ tiles' \in [Cell -> Tile]
        /\ fire' \in [Cell -> 0 .. Duration]
        /\ pups' \subseteq [at : Cell, type : Enabled]
        /\ bombs' \in [DOMAIN bombs' -> Bomb] /\ DOMAIN bombs' \subseteq 1 .. placed
        /\ \A j \in DOMAIN bombs' : j \in DOMAIN bombs \ first /\ bombs'[j] = bombs[j]
        /\ player' \in [Player -> Playing]
    BY <1>1, <1>2, <2>1, <2>2, BatchTyped
  <2>. QED
    BY <1>1, <2>1, <2>3
<1>8. ASSUME LandCollapse(e)
      PROVE  Rest
  BY <1>1, <1>8, BrokenIs DEF LandCollapse
<1>9. ASSUME LandFreeze(e)
      PROVE  Rest
  <2>1. e.where \subseteq Cell
    BY <1>4 DEF Coming
  <2>2. tiles' \in [Cell -> Tile] /\ frozen' \subseteq Cell
    BY <1>1, <1>9, <2>1 DEF LandFreeze, Tile
  <2>3. thaw' \in 0 .. FreezeTicks
    BY <1>2, <1>9 DEF LandFreeze
  <2>. QED
    BY <1>1, <1>9, <2>2, <2>3 DEF LandFreeze
<1>10. ASSUME LandUfo(e)
       PROVE  Rest
  <2>1. player' \in [Player -> Playing]
    BY <1>1, <1>4, <1>10, UfoIs
  <2>. QED
    BY <1>1, <1>10, <2>1 DEF LandUfo
<1>11. Rest
  BY <1>3, <1>6, <1>7, <1>8, <1>9, <1>10 DEF e
<1>. HIDE DEF Rest
<1>. QED
  BY <1>5, <1>11 DEF Rest, Typed, TypeOK, Turns, Land, iceVars, countVars

LEMMA TypeHaunt == Typed /\ Haunt => Typed'
<1>. SUFFICES ASSUME Typed, Haunt PROVE Typed'
  OBVIOUS
<1>. DEFINE a == Head(asked)
<1>1. /\ asked \in Seq(Request) /\ asked # <<>> /\ asked' = Tail(asked)
      /\ tiles \in [Cell -> Tile] /\ walls \in [DOMAIN walls -> 0 .. WallTicks] /\ DOMAIN walls \subseteq Cell
      /\ coming \in Seq(Coming) /\ pups \subseteq [at : Cell, type : Enabled]
  BY DEF Haunt, Typed, TypeOK
<1>2. a \in Request /\ a.at \in Cell /\ asked' \in Seq(Request)
  <2>1. a \in Request /\ asked' \in Seq(Request)
    BY <1>1, HeadAndTail
  <2>. HIDE DEF a
  <2>. QED
    BY <2>1 DEF Request
<1>3. \/ /\ \/ /\ tiles' = [tiles EXCEPT ![a.at] = "destructible"]
               /\ walls' = [c \in DOMAIN walls \cup {a.at} |-> IF c = a.at THEN WallTicks ELSE walls[c]]
            \/ UNCHANGED <<tiles, walls>>
         /\ UNCHANGED <<pups, coming>>
      \/ coming' = Append(coming, Event("meteor", {a.at}, None)) /\ UNCHANGED <<tiles, walls, pups>>
      \/ (\E type \in Enabled : pups' = pups \cup {[at |-> a.at, type |-> type]}) /\ UNCHANGED <<tiles, walls, coming>>
  BY DEF Haunt
<1>. HIDE DEF a
<1>4. tiles' \in [Cell -> Tile]
  BY <1>1, <1>2, <1>3 DEF Tile, Breakable
<1>5. walls' \in [DOMAIN walls' -> 0 .. WallTicks] /\ DOMAIN walls' \subseteq Cell
  <2>1. WallTicks \in 0 .. WallTicks
    BY Numbers
  <2>. QED
    BY <1>1, <1>2, <1>3, <2>1
<1>6. coming' \in Seq(Coming)
  <2>1. Event("meteor", {a.at}, None) \in Coming
    BY <1>2, EventIs
  <2>2. Append(coming, Event("meteor", {a.at}, None)) \in Seq(Coming)
    BY <1>1, <2>1, OneMore
  <2>3. coming' = coming \/ coming' = Append(coming, Event("meteor", {a.at}, None))
    BY <1>3
  <2>. QED
    BY <1>1, <2>2, <2>3
<1>7. pups' \subseteq [at : Cell, type : Enabled]
  BY <1>1, <1>2, <1>3
<1>. QED
  BY <1>2, <1>4, <1>5, <1>6, <1>7 DEF Typed, TypeOK, Turns, Haunt, iceVars, countVars

LEMMA TypeExpire == Typed /\ Expire => Typed'
<1>. SUFFICES ASSUME Typed, Expire PROVE Typed'
  OBVIOUS
<1>1. tiles' \in [Cell -> Tile]
  BY DEF Expire, Typed, TypeOK, Tile
<1>2. walls' \in [DOMAIN walls' -> 0 .. WallTicks] /\ DOMAIN walls' \subseteq Cell
  BY DEF Expire, Typed, TypeOK
<1>. QED
  BY <1>1, <1>2 DEF Typed, TypeOK, Turns, Expire, iceVars, countVars

LEMMA RespawnedIs ==
  ASSUME Typed, NEW p \in Player, NEW c \in Cell
  PROVE  /\ Respawned(p, c) \in Playing /\ Respawned(p, c).alive /\ Respawned(p, c).at = c
         /\ Respawned(p, c).count = Owned(p, bombs)
<1>1. NewPlayer(c) \in Playing /\ NewPlayer(c).alive /\ NewPlayer(c).at = c
  BY NewPlayerIs DEF Typed, TypeOK
<1>2. Owned(p, bombs) \in Nat
  <2>1. placed \in Nat
    BY PlacedIs
  <2>2. Bombs(bombs)
    BY <2>1, TypedBombs DEF Typed, TypeOK
  <2>. QED
    BY <2>2, OwnedIs
<1>3. player[p].fifo \in BOOLEAN
  BY DEF Typed, TypeOK, Playing
<1>. QED
  BY <1>1, <1>2, <1>3 DEF Respawned, Playing

LEMMA TypeReturn == Typed /\ Return => Typed'
<1>. SUFFICES ASSUME Typed, Return PROVE Typed'
  OBVIOUS
<1>. DEFINE p == Head(todo)
            back == IF player[p].back = None THEN RespawnTicks ELSE player[p].back - 1
<1>1. /\ todo \in Seq(Player) /\ todo # <<>> /\ todo' = Tail(todo) /\ Range(todo) \subseteq Range(order)
      /\ player \in [Player -> Playing]
  BY DEF Return, Typed, TypeOK
<1>2. p \in Player /\ todo' \in Seq(Player) /\ Range(todo') \subseteq Range(order)
  BY <1>1, HeadAndTail
<1>3. \/ UNCHANGED player
      \/ back > 0 /\ player' = [player EXCEPT ![p].back = back]
      \/ \E c \in Cell : player' = [player EXCEPT ![p] = Respawned(p, c)]
  BY DEF Return
<1>. HIDE DEF p
<1>4. CASE back > 0 /\ player' = [player EXCEPT ![p].back = back]
  <2>1. player[p] \in Playing
    BY <1>1, <1>2
  <2>2. back \in 1 .. RespawnTicks
    <3>1. RespawnTicks \in Nat
      BY Numbers
    <3>2. CASE player[p].back = None
      BY <1>4, <3>1, <3>2
    <3>3. CASE player[p].back # None
      <4>1. player[p].back \in 1 .. RespawnTicks
        BY <2>1, <3>3 DEF Playing
      <4>. QED
        BY <1>4, <3>1, <3>3, <4>1
    <3>. QED
      BY <3>2, <3>3
  <2>. HIDE DEF back
  <2>3. [player[p] EXCEPT !.back = back] \in Playing
    BY <2>1, <2>2 DEF Playing
  <2>. QED
    BY <1>1, <1>2, <1>4, <2>3 DEF Typed, TypeOK, Turns, Return, mapVars, iceVars, countVars
<1>5. CASE \E c \in Cell : player' = [player EXCEPT ![p] = Respawned(p, c)]
  BY <1>1, <1>2, <1>5, RespawnedIs DEF Typed, TypeOK, Turns, Return, mapVars, iceVars, countVars
<1>6. CASE UNCHANGED player
  BY <1>1, <1>2, <1>6 DEF Typed, TypeOK, Turns, Return, mapVars, iceVars, countVars
<1>. QED
  BY <1>3, <1>4, <1>5, <1>6

LEMMA TypeEndTick == Typed /\ EndTick => Typed'
<1>. SUFFICES ASSUME Typed, EndTick PROVE Typed'
  OBVIOUS
<1>1. prev' \in [Player -> Cell \cup {None}]
  BY DEF EndTick, Typed, TypeOK, Playing
<1>. QED
  BY <1>1 DEF Typed, TypeOK, Turns, EndTick, mapVars, countVars

LEMMA TypeNext == Typed /\ [Next]_vars => Typed'
<1>. SUFFICES ASSUME Typed, [Next]_vars PROVE Typed'
  OBVIOUS
<1>1. CASE Next
  BY <1>1, TypeBegin, TypeInput, TypeSlide, TypeBlow, TypeBurn, TypeIce, TypeHappen, TypeThaw, TypeLand,
     TypeHaunt, TypeExpire, TypeReturn, TypeEndTick, TypeJoin, TypeAsk, TypeLeaveWorld DEF Next
<1>2. CASE UNCHANGED vars
  BY <1>2 DEF Typed, TypeOK, Turns, vars, mapVars, iceVars, countVars
<1>. QED
  BY <1>1, <1>2

\* The types of the state, among them: a bomb goes off in the tick in which
\* its fuse is out, everybody is in the order once, and nobody's turn comes
\* who is not in it.
THEOREM TypeCorrect == Spec => []TypeOK
<1>1. Typed => TypeOK
  BY DEF Typed
<1>. QED
  BY <1>1, TypeInit, TypeNext, PTL DEF Spec

-----------------------------------------------------------------------------
(* Footing *)

\* What an input goes by are all the bombs there are.
Taken == phase = "input" => BombCells(bombs) \subseteq occ

\* Nothing is ever built on the tiles on which players begin.
SpawnsFree ==
  /\ \A c \in Range(Spawn) : tiles[c] \in {"empty", "ice"}
  /\ \A i \in DOMAIN asked : asked[i].at \notin Range(Spawn)

FootingInv == Typed /\ Taken /\ SpawnsFree /\ Footing

\* Floor stays floor.
FloorStays == \A c \in Cell : tiles[c] \in {"empty", "ice"} => tiles'[c] \in {"empty", "ice"}

LEMMA WornFloor ==
  ASSUME NEW T, NEW U, Worn(T, U), NEW c \in Cell, T[c] \in {"empty", "ice"}
  PROVE  U[c] \in {"empty", "ice"}
BY DEF Worn, Breakable

\* A step that builds nothing, moves no bomb but as it slides, and puts players
\* on the floor only.
LEMMA FootingKept ==
  ASSUME Typed, Footing, FloorStays,
         DOMAIN bombs' \subseteq DOMAIN bombs, \A i \in DOMAIN bombs' : bombs'[i].at = bombs[i].at,
         \A p \in Alive' : \/ p \in Alive /\ player'[p].at = player[p].at
                           \/ player'[p].at # Outside /\ tiles'[player'[p].at] \in {"empty", "ice"}
  PROVE  Footing'
<1>1. \A i \in DOMAIN bombs : bombs[i].at \in Cell /\ bombs[i].at # Outside /\ tiles[bombs[i].at] \in {"empty", "ice"}
  BY DEF Typed, TypeOK, Footing, Walkable, Bomb
<1>2. Alive \subseteq Player
  BY DEF Alive, Range, Typed, TypeOK
<1>3. \A p \in Alive : player[p].at \in Cell /\ player[p].at # Outside /\ tiles[player[p].at] \in {"empty", "ice"}
  BY <1>2 DEF Typed, TypeOK, Footing, Walkable, Playing
<1>4. \A i, j \in DOMAIN bombs' : bombs'[i].at = bombs'[j].at => i = j
  BY DEF Footing
<1>5. \A i \in DOMAIN bombs' : bombs'[i].at # Outside /\ tiles'[bombs'[i].at] \in {"empty", "ice"}
  BY <1>1 DEF FloorStays
<1>7. \A p \in Alive' : player'[p].at # Outside /\ tiles'[player'[p].at] \in {"empty", "ice"}
  BY <1>3 DEF FloorStays
<1>. QED
  BY <1>4, <1>5, <1>7 DEF Footing, Walkable

LEMMA FootingBatch ==
  ASSUME Typed, Footing, NEW bs, bs \in [DOMAIN bs -> Bomb],
         DOMAIN bs = DOMAIN bombs, \A i \in DOMAIN bombs : bs[i].at = bombs[i].at,
         NEW first \in SUBSET DOMAIN bs, NEW pl \in [Player -> Playing],
         \A p \in Alive : pl[p].alive = player[p].alive /\ Walkable(pl[p].at),
         \A p \in Range(order) : pl[p].alive => p \in Alive,
         NEW T \in [Cell -> Tile], NEW F \in [Cell -> 0 .. Duration], Worn(tiles, T),
         order' = order,
         Batch(first, bs, pl, T, F)
  PROVE  Footing' /\ FloorStays /\ BombCells(bombs') \subseteq BombCells(bombs)
<1>1. /\ DOMAIN bs \subseteq 1 .. placed /\ pups \subseteq [at : Cell, type : Enabled] /\ order \in Seq(Player)
      /\ tiles \in [Cell -> Tile]
  BY DEF Typed, TypeOK
<1>2. placed \in Nat
  BY PlacedIs
<1>3. Bombs(bs)
  BY <1>1, <1>2, TypedBombs
<1>4. /\ Worn(T, tiles') /\ tiles' \in [Cell -> Tile]
      /\ \E gone \in SUBSET DOMAIN bs : Gone(first, bs, pl, T, F, gone)
  BY <1>1, <1>3, BatchIs
<1>5. PICK gone \in SUBSET DOMAIN bs : Gone(first, bs, pl, T, F, gone)
  BY <1>4
<1>6. FloorStays
  BY <1>4, WornFloor DEF FloorStays
<1>7. DOMAIN bombs' \subseteq DOMAIN bombs /\ \A i \in DOMAIN bombs' : bombs'[i].at = bombs[i].at
  BY <1>5 DEF Gone, Without
<1>8. \A p \in Player : player'[p].alive = pl[p].alive /\ player'[p].at = pl[p].at
  <2>1. player' = GivenBack(pl, bs, gone)
    BY <1>5 DEF Gone
  <2>2. \A p \in Player : GivenBack(pl, bs, gone)[p].alive = pl[p].alive /\ GivenBack(pl, bs, gone)[p].at = pl[p].at
    BY <1>3, GivenBackIs
  <2>. QED
    BY <2>1, <2>2
<1>9. ASSUME NEW p \in Alive'
      PROVE  player'[p].at # Outside /\ tiles'[player'[p].at] \in {"empty", "ice"}
  <2>1. p \in Player /\ p \in Range(order) /\ player'[p].alive
    BY <1>1 DEF Alive, Range
  <2>2. p \in Alive /\ Walkable(pl[p].at) /\ pl[p].at \in Cell
    BY <1>8, <2>1 DEF Playing
  <2>. QED
    BY <1>6, <1>8, <2>1, <2>2 DEF FloorStays, Walkable
<1>10. Footing'
  BY <1>6, <1>7, <1>9, FootingKept
<1>. QED
  BY <1>6, <1>7, <1>10 DEF BombCells

\* Sliding bombs stay apart and on the floor.
LEMMA FootingRolled ==
  ASSUME Typed, Footing, Rolled(bombs, bombs'), UNCHANGED <<tiles, order>>,
         \A p \in Player : /\ player'[p].alive => player[p].alive
                           /\ player[p].alive /\ Walkable(player[p].at) => Walkable(player'[p].at)
  PROVE  Footing'
<1>1. Apart(bombs) /\ OnFloor(bombs)
  BY DEF Footing, Apart, OnFloor
<1>2. Apart(bombs') /\ OnFloor(bombs')
  BY <1>1 DEF Rolled
<1>3. \A i \in DOMAIN bombs' : bombs'[i].at # Outside /\ tiles'[bombs'[i].at] \in {"empty", "ice"}
  BY <1>2 DEF OnFloor, Walkable
<1>4. \A p \in Alive' : p \in Player /\ p \in Alive /\ player[p].alive
  BY DEF Alive, Range, Typed, TypeOK
<1>5. \A p \in Alive' : player'[p].at # Outside /\ tiles'[player'[p].at] \in {"empty", "ice"}
  BY <1>4 DEF Footing, Walkable
<1>. QED
  BY <1>2, <1>3, <1>5 DEF Footing, Walkable, Apart

LEMMA FootingInput == FootingInv /\ Input => FootingInv'
<1>. SUFFICES ASSUME FootingInv, Input PROVE FootingInv'
  OBVIOUS
<1>. DEFINE p == Head(todo)
<1>1. Typed /\ Taken /\ SpawnsFree /\ Footing /\ phase = "input" /\ BombCells(bombs) \subseteq occ
  BY DEF FootingInv, Taken, Input
<1>2. p \in Player
  BY <1>1, HeadAndTail DEF Typed, TypeOK, Input
<1>3. /\ bombs \in [DOMAIN bombs -> Bomb] /\ DOMAIN bombs \subseteq 1 .. placed
      /\ player \in [Player -> Playing] /\ tiles \in [Cell -> Tile] /\ fire \in [Cell -> 0 .. Duration]
      /\ order \in Seq(Player) /\ order' = order /\ asked' = asked /\ phase' = phase
      /\ Alive \subseteq Player /\ Range(order) \subseteq Player
  BY <1>1 DEF Typed, TypeOK, Input, mapVars, Alive, Range
<1>4. placed \in Nat
  BY <1>1, PlacedIs, Numbers DEF Typed, TypeOK
<1>. DEFINE Rest == FloorStays /\ BombCells(bombs') \subseteq occ' /\ Footing'
<1>5. Rest => FootingInv'
  <2>. SUFFICES ASSUME Rest PROVE FootingInv'
    OBVIOUS
  <2>1. Typed'
    BY <1>1, TypeInput
  <2>2. Taken'
    BY DEF Taken, BombCells
  <2>3. SpawnsFree'
    BY <1>1, <1>3, SpawnsAre DEF SpawnsFree, FloorStays
  <2>. QED
    BY <2>1, <2>2, <2>3 DEF FootingInv
<1>6. \/ Skip(p)
      \/ /\ p \in Alive
         /\ \E d \in Dir \cup {None} : \/ \E act \in {"none", "bomb", "throw"} : Place(p, Moved(p, d), act)
                                       \/ Detonate(p, Moved(p, d))
  BY DEF Input
<1>. HIDE DEF p
<1>7. CASE Skip(p)
  <2>1. UNCHANGED <<tiles, player, bombs, occ>>
    BY <1>7 DEF Skip
  <2>2. Footing' /\ FloorStays
    BY <1>1, <1>3, <2>1 DEF Footing, FloorStays, Walkable, Alive
  <2>3. BombCells(bombs') \subseteq occ'
    BY <1>1, <2>1
  <2>. QED
    BY <1>5, <2>2, <2>3
<1>8. ASSUME p \in Alive, NEW d \in Dir \cup {None}, NEW act, Place(p, Moved(p, d), act)
      PROVE  Rest
  <2>. DEFINE m == Moved(p, d)
  <2>1. PICK s \in Seq(Cell) : Put(p, m, s)
    BY <1>1, <1>2, <1>8, PlaceIs
  <2>2. Walkable(m.pl.at) /\ m.pl \in Playing
    <3>1. Walkable(player[p].at)
      BY <1>1, <1>8 DEF Footing
    <3>. QED
      BY <1>2, <1>3, <3>1, MovedIs
  <2>. HIDE DEF m
  <2>3. /\ IsInjective(s) /\ \A k \in DOMAIN s : Walkable(s[k]) /\ s[k] \notin occ
        /\ occ' = occ \cup Range(s)
        /\ DOMAIN bombs' = DOMAIN bombs \cup placed + 1 .. placed + Len(s)
        /\ \A i \in DOMAIN bombs : bombs'[i].at = bombs[i].at
        /\ \A i \in placed + 1 .. placed + Len(s) : i - placed \in DOMAIN s /\ bombs'[i].at = s[i - placed]
    BY <2>1, <2>2 DEF Put, FreeTiles
  <2>4. tiles' = tiles /\ FloorStays
    BY <1>8 DEF Place, FloorStays
  <2>5. \A i \in DOMAIN bombs : bombs[i].at \in occ /\ Walkable(bombs[i].at)
    BY <1>1 DEF BombCells, Footing
  <2>6. BombCells(bombs') \subseteq occ'
    BY <2>3, <2>5 DEF BombCells, Range
  <2>7. \A i, j \in DOMAIN bombs' : bombs'[i].at = bombs'[j].at => i = j
    <3>. SUFFICES ASSUME NEW i \in DOMAIN bombs', NEW j \in DOMAIN bombs', bombs'[i].at = bombs'[j].at
                  PROVE  i = j
      OBVIOUS
    <3>. DEFINE new == placed + 1 .. placed + Len(s)
    <3>1. CASE i \in DOMAIN bombs /\ j \in DOMAIN bombs
      BY <1>1, <2>3, <3>1 DEF Footing
    <3>2. CASE i \in DOMAIN bombs /\ j \in new
      BY <2>3, <2>5, <3>2
    <3>3. CASE i \in new /\ j \in DOMAIN bombs
      BY <2>3, <2>5, <3>3
    <3>4. CASE i \in new /\ j \in new
      <4>1. s[i - placed] = s[j - placed] /\ i - placed \in DOMAIN s /\ j - placed \in DOMAIN s
        BY <2>3, <3>4
      <4>2. i - placed = j - placed
        BY <2>3, <4>1 DEF IsInjective
      <4>. QED
        BY <1>4, <3>4, <4>2
    <3>. QED
      BY <2>3, <3>1, <3>2, <3>3, <3>4
  <2>8. \A i \in DOMAIN bombs' : Walkable(bombs'[i].at)
    BY <2>3, <2>5
  <2>9. \A o \in Alive' : Walkable(player'[o].at)
    <3>1. PICK q \in Playing : player' = [player EXCEPT ![p] = q] /\ q.alive = player[p].alive /\ q.at = m.pl.at
      BY <2>1 DEF Put
    <3>2. \A o \in Player : player'[o] = IF o = p THEN q ELSE player[o]
      BY <1>2, <1>3, <3>1
    <3>3. ASSUME NEW o \in Alive'
          PROVE  Walkable(player'[o].at)
      <4>1. o \in Player /\ o \in Range(order) /\ player'[o].alive
        BY <1>3 DEF Alive
      <4>2. CASE o = p
        BY <2>2, <3>1, <3>2, <4>1, <4>2
      <4>3. CASE o # p
        <5>1. o \in Alive /\ player'[o] = player[o]
          BY <3>2, <4>1, <4>3 DEF Alive
        <5>. QED
          BY <1>1, <5>1 DEF Footing
      <4>. QED
        BY <4>2, <4>3
    <3>. QED
      BY <3>3
  <2>10. Footing'
    BY <2>4, <2>7, <2>8, <2>9 DEF Footing, Walkable
  <2>. QED
    BY <2>4, <2>6, <2>10
<1>9. ASSUME p \in Alive, NEW d \in Dir \cup {None}, Detonate(p, Moved(p, d))
      PROVE  Rest
  <2>. DEFINE m == Moved(p, d)
              due == Remote(p, m.bs, m.pl.fifo)
              toggled == IF "remote" \in m.pl.powers THEN [m.pl EXCEPT !.fifo = ~@] ELSE m.pl
  <2>1. /\ m.pl \in Playing /\ m.pl.alive = player[p].alive
        /\ DOMAIN m.bs = DOMAIN bombs /\ m.bs \in [DOMAIN bombs -> Bomb]
        /\ \A i \in DOMAIN bombs : m.bs[i].at = bombs[i].at
    BY <1>2, <1>3, MovedIs
  <2>2. Walkable(m.pl.at)
    <3>1. Walkable(player[p].at)
      BY <1>1, <1>9 DEF Footing
    <3>. QED
      BY <1>2, <1>3, <3>1, MovedIs
  <2>3. \/ /\ Batch(due, m.bs, [player EXCEPT ![p] = Ticked(m.pl)], tiles, fire) /\ occ' = occ
        \/ /\ player' = [player EXCEPT ![p] = Ticked(toggled)]
           /\ bombs' = m.bs
           /\ UNCHANGED <<tiles, occ>>
    BY <1>9 DEF Detonate
  <2>. HIDE DEF m
  <2>4. due \in SUBSET DOMAIN m.bs
    BY DEF Remote
  <2>5. toggled \in Playing /\ toggled.alive = m.pl.alive /\ toggled.at = m.pl.at
    BY <2>1 DEF Playing
  <2>. HIDE DEF due, toggled
  <2>6. CASE Batch(due, m.bs, [player EXCEPT ![p] = Ticked(m.pl)], tiles, fire) /\ occ' = occ
    <3>. DEFINE pl == [player EXCEPT ![p] = Ticked(m.pl)]
    <3>1. /\ pl \in [Player -> Playing]
          /\ \A o \in Player : pl[o].alive = player[o].alive /\ pl[o].at = IF o = p THEN m.pl.at ELSE player[o].at
      BY <1>2, <1>3, <2>1, TickedIs
    <3>. HIDE DEF pl
    <3>2. Batch(due, m.bs, pl, tiles, fire)
      BY <2>6 DEF pl
    <3>3. \A o \in Alive : pl[o].alive = player[o].alive /\ Walkable(pl[o].at)
      BY <1>1, <1>3, <2>2, <3>1 DEF Footing
    <3>4. \A o \in Range(order) : pl[o].alive => o \in Alive
      BY <1>3, <3>1 DEF Alive
    <3>5. Worn(tiles, tiles)
      BY DEF Worn
    <3>6. Footing' /\ FloorStays /\ BombCells(bombs') \subseteq BombCells(bombs)
      BY <1>1, <1>3, <2>1, <2>4, <3>1, <3>2, <3>3, <3>4, <3>5, FootingBatch
    <3>. QED
      BY <1>1, <2>6, <3>6
  <2>7. CASE player' = [player EXCEPT ![p] = Ticked(toggled)] /\ bombs' = m.bs /\ UNCHANGED <<tiles, occ>>
    <3>1. FloorStays
      BY <2>7 DEF FloorStays
    <3>2. \A o \in Player : player'[o].alive = player[o].alive /\ player'[o].at = IF o = p THEN m.pl.at ELSE player[o].at
      BY <1>2, <1>3, <2>1, <2>5, <2>7, TickedIs
    <3>3. \A o \in Alive' : o \in Alive /\ (player'[o].at = player[o].at \/ player'[o].at = m.pl.at)
      BY <1>3, <3>2 DEF Alive
    <3>4. Footing'
      BY <1>1, <2>1, <2>2, <2>7, <3>1, <3>3, FootingKept DEF Walkable
    <3>5. BombCells(bombs') \subseteq occ'
      BY <1>1, <2>1, <2>7 DEF BombCells
    <3>. QED
      BY <3>1, <3>4, <3>5
  <2>. QED
    BY <2>3, <2>6, <2>7
<1>. HIDE DEF Rest
<1>. QED
  BY <1>5, <1>6, <1>7, <1>8, <1>9

LEMMA FootingSlide == FootingInv /\ Slide => FootingInv'
<1>. SUFFICES ASSUME FootingInv, Slide PROVE FootingInv'
  OBVIOUS
<1>1. Typed /\ SpawnsFree /\ Footing /\ Typed'
  BY TypeSlide DEF FootingInv
<1>2. bombs \in [DOMAIN bombs -> Bomb] /\ placed \in Nat
  BY <1>1, PlacedIs, Numbers DEF Typed, TypeOK
<1>3. Rolled(bombs, AllSlid)
  BY <1>2, AllSlidIs
<1>. DEFINE bs == AllSlid
<1>4. bombs' = [i \in DOMAIN bs |-> [bs[i] EXCEPT !.left = @ - 1]]
  BY DEF Slide
<1>5. UNCHANGED <<tiles, order, player, asked>> /\ phase' = "blow"
  BY DEF Slide, mapVars
<1>. HIDE DEF bs
<1>6. DOMAIN bs = DOMAIN bombs /\ bs \in [DOMAIN bombs -> Bomb] /\ (Apart(bombs) => Apart(bs)) /\ (OnFloor(bombs) => OnFloor(bs))
  BY <1>3 DEF Rolled, bs
<1>7. DOMAIN bombs' = DOMAIN bs /\ \A i \in DOMAIN bs : bombs'[i].at = bs[i].at
  BY <1>4, <1>6 DEF Bomb
<1>8. Apart(bs) /\ OnFloor(bs)
  BY <1>1, <1>6 DEF Footing, Apart, OnFloor
<1>9. Footing'
  BY <1>1, <1>5, <1>7, <1>8 DEF Footing, Walkable, Apart, OnFloor, Alive
<1>10. Taken' /\ SpawnsFree'
  BY <1>1, <1>5 DEF Taken, SpawnsFree
<1>. QED
  BY <1>1, <1>9, <1>10 DEF FootingInv

LEMMA FootingBlow == FootingInv /\ Blow => FootingInv'
<1>. SUFFICES ASSUME FootingInv, Blow PROVE FootingInv'
  OBVIOUS
<1>. DEFINE due == {i \in DOMAIN bombs : bombs[i].left = 0}
<1>1. Typed /\ SpawnsFree /\ Footing /\ Typed'
  BY TypeBlow DEF FootingInv
<1>2. /\ bombs \in [DOMAIN bombs -> Bomb] /\ order \in Seq(Player)
      /\ player \in [Player -> Playing] /\ tiles \in [Cell -> Tile] /\ fire \in [Cell -> 0 .. Duration]
  BY <1>1 DEF Typed, TypeOK
<1>3. Batch(due, bombs, player, tiles, fire) /\ due \in SUBSET DOMAIN bombs
  BY DEF Blow
<1>4. order' = order /\ asked' = asked /\ phase' = "burn"
  BY DEF Blow, mapVars
<1>5. /\ \A p \in Alive : player[p].alive = player[p].alive /\ Walkable(player[p].at)
      /\ \A p \in Range(order) : player[p].alive => p \in Alive
      /\ Worn(tiles, tiles)
  BY <1>1 DEF Footing, Alive, Worn
<1>6. Footing' /\ FloorStays
  <2>. HIDE DEF due
  <2>. QED
    BY <1>1, <1>2, <1>3, <1>4, <1>5, FootingBatch
<1>7. Taken' /\ SpawnsFree'
  BY <1>1, <1>4, <1>6, SpawnsAre DEF Taken, SpawnsFree, FloorStays
<1>. QED
  BY <1>1, <1>6, <1>7 DEF FootingInv

LEMMA FootingBurn == FootingInv /\ Burn => FootingInv'
<1>. SUFFICES ASSUME FootingInv, Burn PROVE FootingInv'
  OBVIOUS
<1>1. Typed /\ SpawnsFree /\ Footing /\ Typed'
  BY TypeBurn DEF FootingInv
<1>2. \A p \in Player : player'[p].at = player[p].at /\ (player'[p].alive => player[p].alive)
  BY <1>1, BurnIs DEF Typed, TypeOK
<1>3. UNCHANGED <<tiles, order, bombs, asked>> /\ phase' \in {"events", "ice"}
  BY DEF Burn, mapVars
<1>4. \A p \in Alive' : p \in Alive /\ player'[p].at = player[p].at
  BY <1>1, <1>2, <1>3 DEF Alive, Range, Typed, TypeOK
<1>5. FloorStays
  BY <1>3 DEF FloorStays
<1>6. Footing'
  BY <1>1, <1>3, <1>4, <1>5, FootingKept
<1>7. Taken' /\ SpawnsFree'
  BY <1>1, <1>3 DEF Taken, SpawnsFree
<1>. QED
  BY <1>1, <1>6, <1>7 DEF FootingInv

LEMMA FootingIce == FootingInv /\ Ice => FootingInv'
<1>. SUFFICES ASSUME FootingInv, Ice PROVE FootingInv'
  OBVIOUS
<1>1. Typed /\ SpawnsFree /\ Footing /\ Typed'
  BY TypeIce DEF FootingInv
<1>2. Strolled(player, player') /\ Rolled(bombs, bombs')
  BY <1>1, IceIs DEF Typed, TypeOK
<1>3. UNCHANGED <<tiles, order, asked>> /\ phase' = "events"
  BY DEF Ice, mapVars
<1>4. Footing'
  BY <1>1, <1>2, <1>3, FootingRolled DEF Strolled
<1>5. Taken' /\ SpawnsFree'
  BY <1>1, <1>3 DEF Taken, SpawnsFree
<1>. QED
  BY <1>1, <1>4, <1>5 DEF FootingInv

LEMMA FootingHappen == FootingInv /\ Happen => FootingInv'
<1>. SUFFICES ASSUME FootingInv, Happen PROVE FootingInv'
  OBVIOUS
<1>1. Typed /\ SpawnsFree /\ Footing /\ Typed'
  BY TypeHappen DEF FootingInv
<1>2. UNCHANGED <<tiles, order, player, asked, phase>> /\ phase = "events"
  BY DEF Happen, mapVars
<1>3. DOMAIN bombs' = DOMAIN bombs /\ \A i \in DOMAIN bombs : bombs'[i].at = bombs[i].at
  <2>1. bombs' = bombs \/ Surge
    BY DEF Happen, Announce, Rain
  <2>2. bombs \in [DOMAIN bombs -> Bomb] /\ \A i \in DOMAIN bombs : bombs[i].left > 0
    BY <1>1, <1>2 DEF Typed, TypeOK
  <2>. QED
    BY <2>1, <2>2, SurgeIs
<1>4. FloorStays /\ \A p \in Alive' : p \in Alive /\ player'[p].at = player[p].at
  BY <1>2 DEF FloorStays, Alive
<1>5. Footing'
  BY <1>1, <1>3, <1>4, FootingKept
<1>6. Taken' /\ SpawnsFree'
  BY <1>1, <1>2 DEF Taken, SpawnsFree
<1>. QED
  BY <1>1, <1>5, <1>6 DEF FootingInv

\* Steps that leave bombs, players and requests alone, and build nothing.
LEMMA FootingMap ==
  ASSUME FootingInv, Typed', FloorStays, UNCHANGED <<bombs, player>>, order' = order, asked' = asked, phase' # "input"
  PROVE  FootingInv'
<1>1. Typed /\ SpawnsFree /\ Footing
  BY DEF FootingInv
<1>2. \A p \in Alive' : p \in Alive /\ player'[p].at = player[p].at
  BY DEF Alive
<1>3. Footing'
  BY <1>1, <1>2, FootingKept
<1>4. Taken' /\ SpawnsFree'
  BY <1>1, SpawnsAre DEF Taken, SpawnsFree, FloorStays
<1>. QED
  BY <1>3, <1>4 DEF FootingInv

LEMMA FootingThaw == FootingInv /\ Thaw => FootingInv'
<1>. SUFFICES ASSUME FootingInv, Thaw PROVE FootingInv'
  OBVIOUS
<1>1. Typed'
  BY TypeThaw DEF FootingInv
<1>2. FloorStays
  BY DEF Thaw, FloorStays
<1>. QED
  BY <1>1, <1>2, FootingMap DEF Thaw

LEMMA FootingExpire == FootingInv /\ Expire => FootingInv'
<1>. SUFFICES ASSUME FootingInv, Expire PROVE FootingInv'
  OBVIOUS
<1>1. Typed'
  BY TypeExpire DEF FootingInv
<1>2. FloorStays
  BY DEF Expire, FloorStays
<1>. QED
  BY <1>1, <1>2, FootingMap DEF Expire

LEMMA FootingLand == FootingInv /\ Land => FootingInv'
<1>. SUFFICES ASSUME FootingInv, Land PROVE FootingInv'
  OBVIOUS
<1>1. Typed /\ SpawnsFree /\ Footing /\ Typed'
  BY TypeLand DEF FootingInv
<1>2. /\ bombs \in [DOMAIN bombs -> Bomb]
      /\ player \in [Player -> Playing] /\ tiles \in [Cell -> Tile] /\ fire \in [Cell -> 0 .. Duration]
      /\ coming \in Seq(Coming) /\ order \in Seq(Player)
  BY <1>1 DEF Typed, TypeOK
<1>3. order' = order /\ asked' = asked /\ phase' = phase /\ phase = "land"
  BY DEF Land
<1>4. PICK i \in 1 .. Len(coming) :
        \/ UNCHANGED <<tiles, player, bombs>>
        \/ LandMeteor(coming[i])
        \/ LandCollapse(coming[i])
        \/ LandFreeze(coming[i])
        \/ LandUfo(coming[i])
  <2>1. DOMAIN coming = 1 .. Len(coming)
    BY <1>2
  <2>. QED
    BY <2>1 DEF Land
<1>. DEFINE e == coming[i]
<1>5. e \in Coming
  BY <1>2
<1>. HIDE DEF e
<1>6. CASE UNCHANGED <<tiles, player, bombs>>
  <2>1. FloorStays
    BY <1>6 DEF FloorStays
  <2>. QED
    BY <1>1, <1>3, <1>6, <2>1, FootingMap
<1>7. CASE LandMeteor(e)
  <2>. DEFINE cells == ExplosionCells(CHOOSE c \in e.where : TRUE, MeteorReach, FALSE, tiles)
              T == Broken(tiles, cells)
              F == Lit(fire, cells, tiles)
              first == Inside(bombs, cells)
  <2>1. Batch(first, bombs, player, T, F)
    BY <1>7 DEF LandMeteor
  <2>2. /\ T \in [Cell -> Tile] /\ F \in [Cell -> 0 .. Duration] /\ first \in SUBSET DOMAIN bombs
        /\ Worn(tiles, T)
    BY <1>2, BrokenIs, LitIs DEF Inside
  <2>. HIDE DEF T, F, first
  <2>3. /\ \A p \in Alive : player[p].alive = player[p].alive /\ Walkable(player[p].at)
        /\ \A p \in Range(order) : player[p].alive => p \in Alive
    BY <1>1 DEF Footing, Alive
  <2>4. Footing' /\ FloorStays
    BY <1>1, <1>2, <1>3, <2>1, <2>2, <2>3, FootingBatch
  <2>5. Taken' /\ SpawnsFree'
    BY <1>1, <1>3, <2>4, SpawnsAre DEF Taken, SpawnsFree, FloorStays
  <2>. QED
    BY <1>1, <2>4, <2>5 DEF FootingInv
<1>8. CASE LandCollapse(e)
  <2>1. FloorStays
    BY <1>2, <1>8, BrokenIs, WornFloor DEF LandCollapse, FloorStays
  <2>. QED
    BY <1>1, <1>3, <1>8, <2>1, FootingMap DEF LandCollapse
<1>9. CASE LandFreeze(e)
  <2>1. FloorStays
    BY <1>9 DEF LandFreeze, FloorStays
  <2>. QED
    BY <1>1, <1>3, <1>9, <2>1, FootingMap DEF LandFreeze
<1>10. CASE LandUfo(e)
  <2>1. UNCHANGED <<tiles, bombs>> /\ FloorStays
    BY <1>10 DEF LandUfo, FloorStays
  <2>2. \A p \in Player : /\ player'[p].alive = player[p].alive
                          /\ player'[p].at = player[p].at \/ Walkable(player'[p].at)
    BY <1>2, <1>5, <1>10, UfoIs
  <2>3. \A p \in Alive' : \/ p \in Alive /\ player'[p].at = player[p].at
                          \/ player'[p].at # Outside /\ tiles'[player'[p].at] \in {"empty", "ice"}
    BY <1>2, <1>3, <2>1, <2>2 DEF Alive, Range, Walkable
  <2>4. Footing'
    BY <1>1, <2>1, <2>3, FootingKept
  <2>5. Taken' /\ SpawnsFree'
    BY <1>1, <1>3, <2>1 DEF Taken, SpawnsFree
  <2>. QED
    BY <1>1, <2>4, <2>5 DEF FootingInv
<1>. QED
  BY <1>4, <1>6, <1>7, <1>8, <1>9, <1>10 DEF e

\* A wall is put only where nobody stands and no bomb lies.
LEMMA FootingHaunt == FootingInv /\ Haunt => FootingInv'
<1>. SUFFICES ASSUME FootingInv, Haunt PROVE FootingInv'
  OBVIOUS
<1>. DEFINE a == Head(asked)
<1>1. Typed /\ SpawnsFree /\ Footing /\ Typed'
  BY TypeHaunt DEF FootingInv
<1>2. /\ asked \in Seq(Request) /\ asked # <<>> /\ asked' = Tail(asked)
      /\ tiles \in [Cell -> Tile]
      /\ UNCHANGED <<order, player, bombs, phase>> /\ phase = "land"
  BY <1>1 DEF Haunt, Typed, TypeOK
<1>3. \/ MayStand(a.at) /\ tiles' = [tiles EXCEPT ![a.at] = "destructible"]
      \/ tiles' = tiles
  BY DEF Haunt
<1>4. a.at \in Cell /\ a.at \notin Range(Spawn) /\ \A i \in DOMAIN asked' : asked'[i].at \notin Range(Spawn)
  <2>1. a \in Request /\ a \in Range(asked) /\ Range(asked') \subseteq Range(asked)
    BY <1>2, HeadAndTail
  <2>2. \A r \in Range(asked) : r.at \notin Range(Spawn)
    BY <1>1 DEF SpawnsFree, Range
  <2>3. \A i \in DOMAIN asked' : asked'[i] \in Range(asked')
    BY DEF Range
  <2>. HIDE DEF a
  <2>. QED
    BY <2>1, <2>2, <2>3 DEF Request
<1>. HIDE DEF a
<1>5. \A c \in Cell : tiles'[c] = tiles[c] \/ (c = a.at /\ MayStand(c))
  BY <1>2, <1>3, <1>4
<1>6. SpawnsFree'
  BY <1>1, <1>4, <1>5, SpawnsAre DEF SpawnsFree
<1>7. Taken'
  BY <1>2 DEF Taken
<1>8. Footing'
  <2>1. /\ \A i \in DOMAIN bombs : bombs[i].at \in Cell /\ Walkable(bombs[i].at) /\ ~MayStand(bombs[i].at)
        /\ \A p \in Alive : player[p].at \in Cell /\ Walkable(player[p].at) /\ ~MayStand(player[p].at)
    <3>1. \A i \in DOMAIN bombs : bombs[i].at \in Cell
      BY <1>1 DEF Typed, TypeOK, Bomb
    <3>2. \A p \in Alive : player[p].at \in Cell
      BY <1>1 DEF Typed, TypeOK, Playing, Alive, Range
    <3>. QED
      BY <1>1, <3>1, <3>2 DEF Footing, MayStand, BombCells, At
  <2>2. /\ \A i \in DOMAIN bombs : tiles'[bombs[i].at] = tiles[bombs[i].at]
        /\ \A p \in Alive : tiles'[player[p].at] = tiles[player[p].at]
    BY <1>5, <2>1
  <2>. QED
    BY <1>1, <1>2, <2>1, <2>2 DEF Footing, Walkable, Alive
<1>. QED
  BY <1>1, <1>6, <1>7, <1>8 DEF FootingInv

LEMMA SafeSpawnStands ==
  ASSUME Typed, SpawnsFree, NEW c, SafeSpawn(c)
  PROVE  c \in Cell /\ c # Outside /\ tiles[c] \in {"empty", "ice"}
BY SafeSpawnIs, Ground DEF SpawnsFree, Walkable

LEMMA FootingReturn == FootingInv /\ Return => FootingInv'
<1>. SUFFICES ASSUME FootingInv, Return PROVE FootingInv'
  OBVIOUS
<1>. DEFINE p == Head(todo)
<1>1. Typed /\ SpawnsFree /\ Footing /\ Typed'
  BY TypeReturn DEF FootingInv
<1>2. UNCHANGED <<tiles, order, bombs, asked, phase>> /\ phase = "return"
  BY DEF Return, mapVars
<1>3. player \in [Player -> Playing] /\ order \in Seq(Player)
  BY <1>1 DEF Typed, TypeOK
<1>4. p \in Player
  BY <1>1, HeadAndTail DEF Return, Typed, TypeOK
<1>5. \/ UNCHANGED player
      \/ \E back : player' = [player EXCEPT ![p].back = back]
      \/ \E c \in Cell : SafeSpawn(c) /\ player' = [player EXCEPT ![p] = Respawned(p, c)]
  BY DEF Return
<1>. HIDE DEF p
<1>6. FloorStays
  BY <1>2 DEF FloorStays
<1>7. Taken' /\ SpawnsFree'
  BY <1>1, <1>2 DEF Taken, SpawnsFree
<1>8. ASSUME NEW q \in Alive'
      PROVE  \/ q \in Alive /\ player'[q].at = player[q].at
             \/ player'[q].at # Outside /\ tiles'[player'[q].at] \in {"empty", "ice"}
  <2>1. q \in Player /\ q \in Range(order) /\ player'[q].alive
    BY <1>2, <1>3 DEF Alive, Range
  <2>2. CASE player'[q].alive = player[q].alive /\ player'[q].at = player[q].at
    BY <2>1, <2>2 DEF Alive
  <2>3. ASSUME NEW back, player' = [player EXCEPT ![p].back = back]
        PROVE  player'[q].alive = player[q].alive /\ player'[q].at = player[q].at
    BY <1>3, <2>1, <2>3 DEF Playing
  <2>4. ASSUME NEW c \in Cell, SafeSpawn(c), player' = [player EXCEPT ![p] = Respawned(p, c)], q = p
        PROVE  player'[q].at # Outside /\ tiles'[player'[q].at] \in {"empty", "ice"}
    <3>1. player'[q].at = c
      BY <1>1, <1>3, <1>4, <2>4, RespawnedIs
    <3>. QED
      BY <1>1, <1>2, <2>4, <3>1, SafeSpawnStands
  <2>5. ASSUME NEW c \in Cell, player' = [player EXCEPT ![p] = Respawned(p, c)], q # p
        PROVE  player'[q].alive = player[q].alive /\ player'[q].at = player[q].at
    BY <1>3, <2>1, <2>5
  <2>. QED
    BY <1>5, <2>2, <2>3, <2>4, <2>5
<1>9. Footing'
  BY <1>1, <1>2, <1>6, <1>8, FootingKept
<1>. QED
  BY <1>1, <1>7, <1>9 DEF FootingInv

LEMMA FootingJoin ==
  ASSUME NEW p \in Player, NEW c \in Cell
  PROVE  FootingInv /\ Join(p, c) => FootingInv'
<1>. SUFFICES ASSUME FootingInv, Join(p, c) PROVE FootingInv'
  OBVIOUS
<1>1. Typed /\ SpawnsFree /\ Footing /\ Typed'
  BY TypeJoin DEF FootingInv
<1>2. /\ UNCHANGED <<tiles, bombs, asked, phase>> /\ phase = "idle" /\ SafeSpawn(c)
      /\ order' = Append(order, p) /\ player' = [player EXCEPT ![p] = NewPlayer(c)]
  BY DEF Join, mapVars
<1>3. player \in [Player -> Playing] /\ order \in Seq(Player) /\ isOpenWorld \in BOOLEAN
  BY <1>1 DEF Typed, TypeOK
<1>4. FloorStays
  BY <1>2 DEF FloorStays
<1>5. Taken' /\ SpawnsFree'
  BY <1>1, <1>2 DEF Taken, SpawnsFree
<1>6. ASSUME NEW q \in Alive'
      PROVE  \/ q \in Alive /\ player'[q].at = player[q].at
             \/ player'[q].at # Outside /\ tiles'[player'[q].at] \in {"empty", "ice"}
  <2>1. (q \in Range(order) \/ q = p) /\ q \in Player /\ player'[q].alive
    BY <1>2, <1>3 DEF Alive, Range
  <2>2. CASE q = p
    <3>1. player'[q].at = c
      BY <1>2, <1>3, <2>2, NewPlayerIs
    <3>. QED
      BY <1>1, <1>2, <3>1, SafeSpawnStands
  <2>3. CASE q # p
    BY <1>2, <1>3, <2>1, <2>3 DEF Alive
  <2>. QED
    BY <2>2, <2>3
<1>7. Footing'
  BY <1>1, <1>2, <1>4, <1>6, FootingKept
<1>. QED
  BY <1>1, <1>5, <1>7 DEF FootingInv

LEMMA FootingAsk ==
  ASSUME NEW p \in Player, NEW what \in {"wall", "meteor", "power-up"}, NEW c \in Cell
  PROVE  FootingInv /\ Ask(p, what, c) => FootingInv'
<1>. SUFFICES ASSUME FootingInv, Ask(p, what, c) PROVE FootingInv'
  OBVIOUS
<1>1. Typed /\ SpawnsFree /\ Footing /\ Typed'
  BY TypeAsk DEF FootingInv
<1>2. /\ UNCHANGED <<tiles, order, player, bombs, phase>> /\ phase = "idle"
      /\ asked' = Append(asked, [what |-> what, at |-> c]) /\ c \notin Range(Spawn) /\ asked \in Seq(Request)
  BY <1>1 DEF Ask, Typed, TypeOK
<1>3. Taken' /\ Footing'
  BY <1>1, <1>2 DEF Taken, Footing, Walkable, Alive
<1>4. SpawnsFree'
  <2>1. \A i \in DOMAIN asked' : asked'[i].at = c \/ (i \in DOMAIN asked /\ asked'[i] = asked[i])
    BY <1>2
  <2>. QED
    BY <1>1, <1>2, <2>1 DEF SpawnsFree
<1>. QED
  BY <1>1, <1>3, <1>4 DEF FootingInv

LEMMA LeftAre ==
  ASSUME order \in Seq(Player), NEW p, LeaveWorld(p)
  PROVE  Range(order') \subseteq Range(order)
<1>1. PICK i \in 1 .. Len(order) : order' = RemoveAt(order, i)
  <2>1. DOMAIN order = 1 .. Len(order)
    OBVIOUS
  <2>. QED
    BY <2>1 DEF LeaveWorld
<1>2. /\ order' \in Seq(Player) /\ Len(order') = Len(order) - 1
      /\ \A j \in 1 .. Len(order) - 1 : order'[j] = IF j < i THEN order[j] ELSE order[j + 1]
  BY <1>1, Removed
<1>3. \A j \in 1 .. Len(order) - 1 : j \in 1 .. Len(order) /\ j + 1 \in 1 .. Len(order)
  OBVIOUS
<1>. QED
  BY <1>2, <1>3 DEF Range

LEMMA FootingLeaveWorld ==
  ASSUME NEW p \in Player
  PROVE  FootingInv /\ LeaveWorld(p) => FootingInv'
<1>. SUFFICES ASSUME FootingInv, LeaveWorld(p) PROVE FootingInv'
  OBVIOUS
<1>1. Typed /\ SpawnsFree /\ Footing /\ Typed'
  BY TypeLeaveWorld DEF FootingInv
<1>2. UNCHANGED <<tiles, player, bombs, asked, phase>> /\ phase = "idle"
  BY DEF LeaveWorld, mapVars
<1>3. Range(order') \subseteq Range(order)
  BY <1>1, LeftAre DEF Typed, TypeOK
<1>4. Taken' /\ SpawnsFree' /\ Footing'
  BY <1>1, <1>2, <1>3 DEF Taken, SpawnsFree, Footing, Walkable, Alive
<1>. QED
  BY <1>1, <1>4 DEF FootingInv

LEMMA FootingInit == Init => FootingInv
<1>. SUFFICES ASSUME Init PROVE FootingInv
  OBVIOUS
<1>1. Typed
  BY TypeInit
<1>2. Taken
  BY DEF Init, Taken
<1>3. SpawnsFree
  BY SpawnsAre DEF Init, SpawnsFree
<1>4. DOMAIN bombs = {}
  BY DEF Init
<1>5. ASSUME NEW p \in Player
      PROVE  player[p].at \in Range(Spawn)
  <2>. DEFINE at == Spawn[(((CHOOSE i \in DOMAIN order : order[i] = p) - 1) % Len(Spawn)) + 1]
  <2>1. at \in Range(Spawn)
    BY InitPlaces DEF Init
  <2>2. player[p] = NewPlayer(at)
    BY DEF Init
  <2>. HIDE DEF at
  <2>. QED
    BY <1>1, <2>1, <2>2, NewPlayerIs, SpawnsAre DEF Typed, TypeOK
<1>6. \A p \in Alive : Walkable(player[p].at)
  <2>1. Alive \subseteq Player
    BY <1>1 DEF Typed, TypeOK, Alive, Range
  <2>. QED
    BY <1>3, <1>5, <2>1, SpawnsAre, Ground DEF SpawnsFree, Walkable
<1>. QED
  BY <1>1, <1>2, <1>3, <1>4, <1>6 DEF FootingInv, Footing

LEMMA FootingNext == FootingInv /\ [Next]_vars => FootingInv'
<1>. SUFFICES ASSUME FootingInv, [Next]_vars PROVE FootingInv'
  OBVIOUS
<1>1. ASSUME Begin
      PROVE  FootingInv'
  <2>1. Typed /\ Typed'
    BY <1>1, TypeBegin DEF FootingInv
  <2>. QED
    BY <1>1, <2>1 DEF FootingInv, Begin, Taken, SpawnsFree, Footing, Walkable, Alive, BombCells
<1>2. ASSUME EndTick
      PROVE  FootingInv'
  <2>1. Typed /\ Typed'
    BY <1>2, TypeEndTick DEF FootingInv
  <2>. QED
    BY <1>2, <2>1 DEF FootingInv, EndTick, Taken, SpawnsFree, Footing, Walkable, Alive, mapVars
<1>3. CASE UNCHANGED vars
  <2>1. Typed /\ Typed'
    BY <1>3, TypeNext DEF FootingInv
  <2>. QED
    BY <1>3, <2>1 DEF FootingInv, vars, Taken, SpawnsFree, Footing, Walkable, Alive, BombCells, mapVars
<1>4. CASE Next
  BY <1>1, <1>2, <1>4, FootingInput, FootingSlide, FootingBlow, FootingBurn, FootingIce, FootingHappen, FootingThaw,
     FootingLand, FootingHaunt, FootingExpire, FootingReturn, FootingJoin, FootingAsk, FootingLeaveWorld DEF Next
<1>. QED
  BY <1>3, <1>4

\* No two bombs are on one tile, however they got there, and no bomb and no
\* living player is inside a wall: inputs go by a copy of where the bombs are
\* (TickOccupancy), which is never short of one.
THEOREM OnTheFloor == Spec => []Footing
<1>1. FootingInv => Footing
  BY DEF FootingInv
<1>. QED
  BY <1>1, FootingInit, FootingNext, PTL DEF Spec

-----------------------------------------------------------------------------
(* What is temporary *)

TemporaryInv == Typed /\ TemporaryGoes

LEMMA NextInLine ==
  ASSUME Typed, todo # <<>>
  PROVE  Head(todo) \in Player
<1>1. todo \in Seq(Player)
  BY DEF Typed, TypeOK
<1>. QED
  BY <1>1, HeadAndTail

LEMMA NextAsked ==
  ASSUME Typed, asked # <<>>
  PROVE  Head(asked).at \in Cell
<1>1. asked \in Seq(Request)
  BY DEF Typed, TypeOK
<1>2. Head(asked) \in Request
  BY <1>1, HeadAndTail
<1>. QED
  BY <1>2 DEF Request

LEMMA TemporaryWorn ==
  ASSUME TemporaryInv, Worn(tiles, tiles'), UNCHANGED <<frozen, walls>>
  PROVE  TemporaryGoes'
BY DEF TemporaryInv, TemporaryGoes, Worn, Breakable

LEMMA TemporaryBatch ==
  ASSUME TemporaryInv, NEW bs, bs \in [DOMAIN bs -> Bomb], DOMAIN bs = DOMAIN bombs,
         NEW first \in SUBSET DOMAIN bs, NEW pl,
         NEW T \in [Cell -> Tile], NEW F \in [Cell -> 0 .. Duration], Worn(tiles, T),
         Batch(first, bs, pl, T, F), UNCHANGED <<frozen, walls>>
  PROVE  TemporaryGoes'
<1>1. /\ DOMAIN bs \subseteq 1 .. placed /\ pups \subseteq [at : Cell, type : Enabled]
      /\ tiles \in [Cell -> Tile]
  BY DEF TemporaryInv, Typed, TypeOK
<1>2. placed \in Nat
  BY PlacedIs DEF TemporaryInv
<1>3. Bombs(bs)
  BY <1>1, <1>2, TypedBombs
<1>4. Worn(T, tiles')
  BY <1>1, <1>3, BatchIs
<1>5. Worn(tiles, tiles')
  BY <1>1, <1>4, WornTwice
<1>. QED
  BY <1>5, TemporaryWorn

LEMMA TemporarySame ==
  ASSUME TemporaryInv, UNCHANGED <<tiles, frozen, walls>>
  PROVE  TemporaryGoes'
BY DEF TemporaryInv, TemporaryGoes

LEMMA TemporaryInput == TemporaryInv /\ Input => TemporaryGoes'
<1>. SUFFICES ASSUME TemporaryInv, Input PROVE TemporaryGoes'
  OBVIOUS
<1>. DEFINE p == Head(todo)
<1>1. /\ bombs \in [DOMAIN bombs -> Bomb] /\ DOMAIN bombs \subseteq 1 .. placed
      /\ player \in [Player -> Playing] /\ tiles \in [Cell -> Tile] /\ fire \in [Cell -> 0 .. Duration]
      /\ UNCHANGED <<frozen, walls>>
  BY DEF TemporaryInv, Typed, TypeOK, Input, mapVars
<1>2. p \in Player /\ placed \in Nat
  BY NextInLine, PlacedIs DEF TemporaryInv, Input
<1>3. \/ Skip(p)
      \/ \E d \in Dir \cup {None} : \/ \E act \in {"none", "bomb", "throw"} : Place(p, Moved(p, d), act)
                                    \/ Detonate(p, Moved(p, d))
  BY DEF Input
<1>. HIDE DEF p
<1>4. ASSUME NEW d \in Dir \cup {None}, Detonate(p, Moved(p, d))
      PROVE  TemporaryGoes'
  <2>. DEFINE m == Moved(p, d)
              due == Remote(p, m.bs, m.pl.fifo)
              pl == [player EXCEPT ![p] = Ticked(m.pl)]
  <2>1. DOMAIN m.bs = DOMAIN bombs /\ m.bs \in [DOMAIN bombs -> Bomb]
    BY <1>1, <1>2, MovedIs
  <2>2. Batch(due, m.bs, pl, tiles, fire) \/ tiles' = tiles
    BY <1>4 DEF Detonate
  <2>3. due \in SUBSET DOMAIN m.bs /\ Worn(tiles, tiles)
    BY DEF Remote, Worn
  <2>. HIDE DEF m, due, pl
  <2>. QED
    BY <1>1, <2>1, <2>2, <2>3, TemporaryBatch, TemporarySame
<1>5. ASSUME NEW m, NEW act, Place(p, m, act)
      PROVE  TemporaryGoes'
  BY <1>1, <1>5, TemporarySame DEF Place
<1>6. ASSUME Skip(p)
      PROVE  TemporaryGoes'
  BY <1>1, <1>6, TemporarySame DEF Skip
<1>. QED
  BY <1>3, <1>4, <1>5, <1>6

LEMMA TemporaryBlow == TemporaryInv /\ Blow => TemporaryGoes'
<1>. SUFFICES ASSUME TemporaryInv, Blow PROVE TemporaryGoes'
  OBVIOUS
<1>. DEFINE due == {i \in DOMAIN bombs : bombs[i].left = 0}
<1>1. /\ bombs \in [DOMAIN bombs -> Bomb] /\ tiles \in [Cell -> Tile] /\ fire \in [Cell -> 0 .. Duration]
      /\ UNCHANGED <<frozen, walls>>
  BY DEF TemporaryInv, Typed, TypeOK, Blow, mapVars
<1>2. Batch(due, bombs, player, tiles, fire) /\ due \in SUBSET DOMAIN bombs /\ Worn(tiles, tiles)
  BY DEF Blow, Worn
<1>. HIDE DEF due
<1>. QED
  BY <1>1, <1>2, TemporaryBatch

\* Ice thaws into floor, and what is frozen was floor.
LEMMA TemporaryThaw == TemporaryInv /\ Thaw => TemporaryGoes'
<1>. SUFFICES ASSUME TemporaryInv, Thaw PROVE TemporaryGoes'
  OBVIOUS
<1>1. walls' = walls /\ tiles \in [Cell -> Tile]
  BY DEF Thaw, TemporaryInv, Typed, TypeOK
<1>2. CASE tiles' = [c \in Cell |-> IF c \in frozen THEN "empty" ELSE tiles[c]] /\ frozen' = {}
  BY <1>1, <1>2 DEF TemporaryInv, TemporaryGoes, Breakable
<1>3. CASE UNCHANGED <<tiles, frozen>>
  BY <1>1, <1>3, TemporarySame
<1>. QED
  BY <1>2, <1>3 DEF Thaw

LEMMA TemporaryLand == TemporaryInv /\ Land => TemporaryGoes'
<1>. SUFFICES ASSUME TemporaryInv, Land PROVE TemporaryGoes'
  OBVIOUS
<1>1. /\ bombs \in [DOMAIN bombs -> Bomb] /\ tiles \in [Cell -> Tile] /\ fire \in [Cell -> 0 .. Duration]
      /\ coming \in Seq(Coming) /\ walls' = walls
  BY DEF TemporaryInv, Typed, TypeOK, Land
<1>2. \/ UNCHANGED <<tiles, frozen>>
      \/ \E i \in DOMAIN coming : \/ LandMeteor(coming[i])
                                  \/ LandCollapse(coming[i])
                                  \/ LandFreeze(coming[i])
                                  \/ LandUfo(coming[i])
  BY DEF Land
<1>3. CASE UNCHANGED <<tiles, frozen>>
  BY <1>1, <1>3, TemporarySame
<1>4. ASSUME NEW e, LandMeteor(e)
      PROVE  TemporaryGoes'
  <2>. DEFINE cells == ExplosionCells(CHOOSE c \in e.where : TRUE, MeteorReach, FALSE, tiles)
              T == Broken(tiles, cells)
              F == Lit(fire, cells, tiles)
              first == Inside(bombs, cells)
  <2>1. Batch(first, bombs, player, T, F) /\ frozen' = frozen
    BY <1>4 DEF LandMeteor
  <2>2. /\ T \in [Cell -> Tile] /\ F \in [Cell -> 0 .. Duration] /\ first \in SUBSET DOMAIN bombs
        /\ Worn(tiles, T)
    BY <1>1, BrokenIs, LitIs DEF Inside
  <2>. HIDE DEF T, F, first
  <2>. QED
    BY <1>1, <2>1, <2>2, TemporaryBatch
<1>5. ASSUME NEW e, LandCollapse(e)
      PROVE  TemporaryGoes'
  BY <1>1, <1>5, BrokenIs, TemporaryWorn DEF LandCollapse
<1>6. ASSUME NEW e, LandFreeze(e)
      PROVE  TemporaryGoes'
  BY <1>1, <1>6 DEF LandFreeze, TemporaryInv, TemporaryGoes, Breakable
<1>7. ASSUME NEW e, LandUfo(e)
      PROVE  TemporaryGoes'
  BY <1>1, <1>7, TemporarySame DEF LandUfo
<1>. QED
  BY <1>2, <1>3, <1>4, <1>5, <1>6, <1>7

LEMMA TemporaryHaunt == TemporaryInv /\ Haunt => TemporaryGoes'
<1>. SUFFICES ASSUME TemporaryInv, Haunt PROVE TemporaryGoes'
  OBVIOUS
<1>. DEFINE a == Head(asked)
<1>1. tiles \in [Cell -> Tile] /\ frozen' = frozen
  BY DEF TemporaryInv, Typed, TypeOK, Haunt
<1>2. a.at \in Cell
  BY NextAsked DEF TemporaryInv, Haunt
<1>3. \/ /\ tiles[a.at] = "empty" /\ tiles' = [tiles EXCEPT ![a.at] = "destructible"]
         /\ walls' = [c \in DOMAIN walls \cup {a.at} |-> IF c = a.at THEN WallTicks ELSE walls[c]]
      \/ UNCHANGED <<tiles, walls>>
  BY DEF Haunt, MayStand
<1>. HIDE DEF a
<1>4. CASE /\ tiles[a.at] = "empty" /\ tiles' = [tiles EXCEPT ![a.at] = "destructible"]
           /\ walls' = [c \in DOMAIN walls \cup {a.at} |-> IF c = a.at THEN WallTicks ELSE walls[c]]
  BY <1>1, <1>2, <1>4 DEF TemporaryInv, TemporaryGoes, Breakable
<1>. QED
  BY <1>1, <1>3, <1>4, TemporarySame

LEMMA TemporaryExpire == TemporaryInv /\ Expire => TemporaryGoes'
<1>. SUFFICES ASSUME TemporaryInv, Expire PROVE TemporaryGoes'
  OBVIOUS
<1>. DEFINE over == {c \in DOMAIN walls : walls[c] = 0}
<1>1. /\ tiles \in [Cell -> Tile] /\ frozen' = frozen
      /\ tiles' = [c \in Cell |-> IF c \in over /\ tiles[c] \in Breakable THEN "empty" ELSE tiles[c]]
      /\ DOMAIN walls' = DOMAIN walls \ over
  BY DEF TemporaryInv, Typed, TypeOK, Expire, Standing
<1>. HIDE DEF over
<1>. QED
  BY <1>1 DEF TemporaryInv, TemporaryGoes, Breakable

LEMMA TemporaryInit == Init => TemporaryInv
<1>1. Init => TemporaryGoes
  BY Beginnings DEF Init, TemporaryGoes, Breakable
<1>. QED
  BY <1>1, TypeInit DEF TemporaryInv

LEMMA TemporaryNext == TemporaryInv /\ [Next]_vars => TemporaryInv'
<1>. SUFFICES ASSUME TemporaryInv, [Next]_vars PROVE TemporaryInv'
  OBVIOUS
<1>1. Typed'
  BY TypeNext DEF TemporaryInv
<1>2. ASSUME \/ Slide \/ Burn \/ Ice \/ Happen \/ Return \/ EndTick
             \/ \E p \in Player, c \in Cell : Join(p, c) \/ \E what \in {"wall", "meteor", "power-up"} : Ask(p, what, c)
             \/ \E p \in Player : LeaveWorld(p)
             \/ UNCHANGED vars
      PROVE  TemporaryGoes'
  <2>1. UNCHANGED <<tiles, frozen, walls>>
    BY <1>2 DEF Slide, Burn, Ice, Happen, Return, EndTick, Join, Ask, LeaveWorld, vars, mapVars
  <2>. QED
    BY <2>1, TemporarySame
<1>3. ASSUME Begin
      PROVE  TemporaryGoes'
  <2>1. UNCHANGED <<tiles, frozen>> /\ DOMAIN walls' = DOMAIN walls
    BY <1>3 DEF Begin
  <2>. QED
    BY <2>1 DEF TemporaryInv, TemporaryGoes
<1>4. TemporaryGoes'
  BY <1>2, <1>3, TemporaryInput, TemporaryBlow, TemporaryThaw, TemporaryLand, TemporaryHaunt, TemporaryExpire DEF Next
<1>. QED
  BY <1>1, <1>4 DEF TemporaryInv

\* Ice is where the freeze that has not thawed put it, whatever stands on the
\* map without having been generated is on the list of what goes, cracked or
\* not, and no wall of the map is ever gone or new.
THEOREM NothingTemporaryStays == Spec => []TemporaryGoes
<1>1. TemporaryInv => TemporaryGoes
  BY DEF TemporaryInv
<1>. QED
  BY <1>1, TemporaryInit, TemporaryNext, PTL DEF Spec

-----------------------------------------------------------------------------
(* Bombs and the count of them *)

CountInv == Typed /\ BombsAreCounted

LEMMA CountKept ==
  ASSUME BombsAreCounted, DOMAIN bombs' = DOMAIN bombs, \A i \in DOMAIN bombs : bombs'[i].owner = bombs[i].owner,
         Range(order') \subseteq Range(order), returned' = returned,
         \A p \in Range(order') : player'[p].count = player[p].count
  PROVE  BombsAreCounted'
<1>. SUFFICES ASSUME NEW p \in Range(order')
              PROVE  /\ player'[p].count <= Owned(p, bombs')
                     /\ p \notin returned' => player'[p].count = Owned(p, bombs')
  BY DEF BombsAreCounted, Owned
<1>1. Owned(p, bombs') = Owned(p, bombs)
  BY SameOwners
<1>. QED
  BY <1>1 DEF BombsAreCounted

\* Each is given back what has gone off of theirs, and no more than they had.
LEMMA CountBatch ==
  ASSUME CountInv, NEW bs, bs \in [DOMAIN bs -> Bomb],
         DOMAIN bs = DOMAIN bombs, \A i \in DOMAIN bombs : bs[i].owner = bombs[i].owner,
         NEW first \in SUBSET DOMAIN bs, NEW pl \in [Player -> Playing],
         \A p \in Player : pl[p].count = player[p].count,
         NEW T \in [Cell -> Tile], NEW F \in [Cell -> 0 .. Duration],
         order' = order, returned' = returned,
         Batch(first, bs, pl, T, F)
  PROVE  BombsAreCounted'
<1>1. /\ DOMAIN bs \subseteq 1 .. placed /\ pups \subseteq [at : Cell, type : Enabled] /\ order \in Seq(Player)
      /\ player \in [Player -> Playing]
  BY DEF CountInv, Typed, TypeOK
<1>2. placed \in Nat
  BY PlacedIs DEF CountInv
<1>3. Bombs(bs)
  BY <1>1, <1>2, TypedBombs
<1>4. PICK gone \in SUBSET DOMAIN bs : Gone(first, bs, pl, T, F, gone)
  BY <1>1, <1>3, BatchIs
<1>5. bombs' = Without(bs, gone) /\ player' = GivenBack(pl, bs, gone)
  BY <1>4 DEF Gone
<1>. SUFFICES ASSUME NEW p \in Range(order)
              PROVE  /\ player'[p].count <= Owned(p, bombs')
                     /\ p \notin returned => player'[p].count = Owned(p, bombs')
  BY DEF BombsAreCounted, Owned
<1>. DEFINE n == Cardinality({i \in gone : bs[i].owner = p})
            k == player[p].count
            o == Owned(p, bombs)
<1>6. p \in Player
  BY <1>1 DEF Range
<1>7. Owned(p, bs) = o
  BY SameOwners
<1>8. n \in Nat /\ n <= o /\ Owned(p, bombs') = o - n /\ o \in Nat
  <2>1. n \in Nat /\ n <= Owned(p, bs) /\ Owned(p, Without(bs, gone)) = Owned(p, bs) - n
    BY <1>3, OwnedRest
  <2>2. Owned(p, bs) \in Nat
    BY <1>3, OwnedIs
  <2>. HIDE DEF n, o
  <2>. QED
    BY <1>5, <1>7, <2>1, <2>2
<1>9. player'[p].count = IF k > n THEN k - n ELSE 0
  <2>1. GivenBack(pl, bs, gone)[p].count = IF pl[p].count > n THEN pl[p].count - n ELSE 0
    BY <1>3, <1>6, GivenBackIs
  <2>. QED
    BY <1>5, <1>6, <2>1
<1>10. k \in Nat /\ k <= o /\ (p \notin returned => k = o)
  BY <1>1, <1>6 DEF CountInv, BombsAreCounted, Playing
<1>. HIDE DEF n, k, o
<1>. QED
  BY <1>8, <1>9, <1>10

LEMMA CountInput == CountInv /\ Input => BombsAreCounted'
<1>. SUFFICES ASSUME CountInv, Input PROVE BombsAreCounted'
  OBVIOUS
<1>1. /\ bombs \in [DOMAIN bombs -> Bomb] /\ DOMAIN bombs \subseteq 1 .. placed
      /\ player \in [Player -> Playing] /\ tiles \in [Cell -> Tile] /\ fire \in [Cell -> 0 .. Duration]
      /\ order' = order /\ returned' = returned /\ order \in Seq(Player)
  BY DEF CountInv, Typed, TypeOK, Input
<1>. Typed /\ BombsAreCounted
  BY DEF CountInv
<1>a. Range(order) \subseteq Player
  BY <1>1 DEF Range
<1>b. PICK p \in Player : p = Head(todo)
  BY NextInLine DEF Input
<1>2. placed \in Nat
  BY PlacedIs
<1>3. \/ Skip(p)
      \/ \E d \in Dir \cup {None} : \/ \E act \in {"none", "bomb", "throw"} : Place(p, Moved(p, d), act)
                                    \/ Detonate(p, Moved(p, d))
  BY <1>b DEF Input
<1>4. ASSUME NEW d \in Dir \cup {None}, Detonate(p, Moved(p, d))
      PROVE  BombsAreCounted'
  <2>. DEFINE m == Moved(p, d)
              due == Remote(p, m.bs, m.pl.fifo)
              toggled == IF "remote" \in m.pl.powers THEN [m.pl EXCEPT !.fifo = ~@] ELSE m.pl
              pl == [player EXCEPT ![p] = Ticked(m.pl)]
  <2>1. /\ m.pl \in Playing /\ m.pl.count = player[p].count
        /\ DOMAIN m.bs = DOMAIN bombs /\ m.bs \in [DOMAIN bombs -> Bomb]
        /\ \A i \in DOMAIN bombs : m.bs[i].owner = bombs[i].owner
    BY <1>1, <1>2, MovedIs
  <2>2. \/ Batch(due, m.bs, pl, tiles, fire)
        \/ player' = [player EXCEPT ![p] = Ticked(toggled)] /\ bombs' = m.bs
    BY <1>4 DEF Detonate
  <2>3. due \in SUBSET DOMAIN m.bs
    BY DEF Remote
  <2>. HIDE DEF m
  <2>4. toggled \in Playing /\ toggled.count = m.pl.count
    BY <2>1 DEF Playing
  <2>5. pl \in [Player -> Playing] /\ \A o \in Player : pl[o].count = player[o].count
    BY <1>1, <1>2, <2>1, TickedIs
  <2>. HIDE DEF due, toggled, pl
  <2>6. CASE Batch(due, m.bs, pl, tiles, fire)
    BY <1>1, <2>1, <2>3, <2>5, <2>6, CountBatch
  <2>7. CASE player' = [player EXCEPT ![p] = Ticked(toggled)] /\ bombs' = m.bs
    <3>1. \A o \in Player : player'[o].count = player[o].count
      BY <1>1, <1>2, <2>1, <2>4, <2>7, TickedIs
    <3>. QED
      BY <1>1, <1>a, <2>1, <2>7, <3>1, CountKept
  <2>. QED
    BY <2>2, <2>6, <2>7
<1>5. ASSUME NEW d \in Dir \cup {None}, NEW act, Place(p, Moved(p, d), act)
      PROVE  BombsAreCounted'
  <2>1. PICK s \in Seq(Cell) : Put(p, Moved(p, d), s)
    BY <1>1, <1>2, <1>5, PlaceIs
  <2>1a. PICK n \in Nat : n = Len(s)
    OBVIOUS
  <2>2. /\ DOMAIN bombs' = DOMAIN bombs \cup placed + 1 .. placed + n
        /\ \A i \in DOMAIN bombs : bombs'[i].owner = bombs[i].owner
        /\ \A i \in placed + 1 .. placed + n : bombs'[i].owner = p
        /\ \E q \in Playing : player' = [player EXCEPT ![p] = q] /\ q.count = player[p].count + n
    BY <2>1, <2>1a DEF Put
  <2>4. Bombs(bombs)
    BY <1>1, <1>2, TypedBombs
  <2>5. /\ \A x : x # p => Owned(x, bombs') = Owned(x, bombs)
        /\ Owned(p, bombs') = Owned(p, bombs) + n
    <3>1. More(bombs, bombs', placed, n, p)
      BY <1>1, <1>2, <2>2, <2>4 DEF More
    <3>2. \A x : x # p => Owned(x, bombs') = Owned(x, bombs)
      BY <3>1, OwnedSame
    <3>3. Owned(p, bombs') = Owned(p, bombs) + n
      BY <3>1, OwnedMore
    <3>. QED
      BY <3>2, <3>3
  <2>6. /\ \A x \in Player : x # p => player'[x].count = player[x].count
        /\ player'[p].count = player[p].count + n
    BY <1>1, <2>2
  <2>. SUFFICES ASSUME NEW x \in Range(order)
                PROVE  /\ player'[x].count <= Owned(x, bombs')
                       /\ x \notin returned => player'[x].count = Owned(x, bombs')
    BY <1>1 DEF BombsAreCounted, Owned
  <2>7. x \in Player /\ player[x].count \in Nat /\ Owned(x, bombs) \in Nat
    BY <1>1, <1>a, <2>4, OwnedIs DEF Playing
  <2>8. player[x].count <= Owned(x, bombs) /\ (x \notin returned => player[x].count = Owned(x, bombs))
    BY <1>1 DEF BombsAreCounted
  <2>. QED
    BY <2>5, <2>6, <2>7, <2>8
<1>6. ASSUME Skip(p)
      PROVE  BombsAreCounted'
  BY <1>1, <1>a, <1>6, CountKept DEF Skip
<1>. QED
  BY <1>3, <1>4, <1>5, <1>6

LEMMA CountBlow == CountInv /\ Blow => BombsAreCounted'
<1>. SUFFICES ASSUME CountInv, Blow PROVE BombsAreCounted'
  OBVIOUS
<1>. DEFINE due == {i \in DOMAIN bombs : bombs[i].left = 0}
<1>1. /\ bombs \in [DOMAIN bombs -> Bomb] /\ tiles \in [Cell -> Tile] /\ fire \in [Cell -> 0 .. Duration]
      /\ player \in [Player -> Playing] /\ order' = order /\ returned' = returned
  BY DEF CountInv, Typed, TypeOK, Blow, countVars
<1>2. Batch(due, bombs, player, tiles, fire) /\ due \in SUBSET DOMAIN bombs
  BY DEF Blow
<1>. HIDE DEF due
<1>. QED
  BY <1>1, <1>2, CountBatch

LEMMA CountLand == CountInv /\ Land => BombsAreCounted'
<1>. SUFFICES ASSUME CountInv, Land PROVE BombsAreCounted'
  OBVIOUS
<1>1. /\ bombs \in [DOMAIN bombs -> Bomb] /\ tiles \in [Cell -> Tile] /\ fire \in [Cell -> 0 .. Duration]
      /\ player \in [Player -> Playing] /\ order' = order /\ returned' = returned /\ coming \in Seq(Coming)
      /\ order \in Seq(Player) /\ BombsAreCounted
  BY DEF CountInv, Typed, TypeOK, Land, countVars
<1>2. \/ UNCHANGED <<player, bombs>>
      \/ \E i \in DOMAIN coming : LandMeteor(coming[i])
      \/ \E i \in DOMAIN coming : LandUfo(coming[i])
  BY DEF Land, LandCollapse, LandFreeze
<1>3. CASE UNCHANGED <<player, bombs>>
  BY <1>1, <1>3, CountKept
<1>4. ASSUME NEW e, LandMeteor(e)
      PROVE  BombsAreCounted'
  <2>. DEFINE cells == ExplosionCells(CHOOSE c \in e.where : TRUE, MeteorReach, FALSE, tiles)
              T == Broken(tiles, cells)
              F == Lit(fire, cells, tiles)
              first == Inside(bombs, cells)
  <2>1. Batch(first, bombs, player, T, F)
    BY <1>4 DEF LandMeteor
  <2>2. T \in [Cell -> Tile] /\ F \in [Cell -> 0 .. Duration] /\ first \in SUBSET DOMAIN bombs
    BY <1>1, BrokenIs, LitIs DEF Inside
  <2>. HIDE DEF T, F, first
  <2>. QED
    BY <1>1, <2>1, <2>2, CountBatch
<1>5. ASSUME NEW i \in DOMAIN coming, LandUfo(coming[i])
      PROVE  BombsAreCounted'
  <2>1. coming[i] \in Coming
    BY <1>1
  <2>2. \A p \in Player : player'[p].count = player[p].count
    BY <1>1, <1>5, <2>1, UfoIs
  <2>3. bombs' = bombs
    BY <1>5 DEF LandUfo
  <2>4. Range(order) \subseteq Player
    BY <1>1 DEF Range
  <2>. QED
    BY <1>1, <2>2, <2>3, <2>4, CountKept
<1>. QED
  BY <1>2, <1>3, <1>4, <1>5

\* Whoever leaves while bombs of theirs tick is counted from none when they
\* are back; and the bombs from before a death still count.
LEMMA CountJoin ==
  ASSUME NEW p \in Player, NEW c \in Cell
  PROVE  CountInv /\ Join(p, c) => BombsAreCounted'
<1>. SUFFICES ASSUME CountInv, Join(p, c) PROVE BombsAreCounted'
  OBVIOUS
<1>1. /\ order' = Append(order, p) /\ player' = [player EXCEPT ![p] = NewPlayer(c)] /\ bombs' = bombs
      /\ returned' = IF Owned(p, bombs) > 0 THEN returned \cup {p} ELSE returned
  BY DEF Join
<1>2. player \in [Player -> Playing] /\ order \in Seq(Player) /\ isOpenWorld \in BOOLEAN /\ BombsAreCounted
  BY DEF CountInv, Typed, TypeOK
<1>3. Owned(p, bombs) \in Nat
  <2>1. placed \in Nat
    BY PlacedIs DEF CountInv
  <2>. QED
    BY <2>1, TypedBombs, OwnedIs DEF CountInv, Typed, TypeOK
<1>. SUFFICES ASSUME NEW q \in Range(order')
              PROVE  /\ player'[q].count <= Owned(q, bombs)
                     /\ q \notin returned' => player'[q].count = Owned(q, bombs)
  BY <1>1 DEF BombsAreCounted, Owned
<1>4. (q \in Range(order) \/ q = p) /\ q \in Player
  BY <1>1, <1>2 DEF Range
<1>5. CASE q = p
  <2>1. player'[q].count = 0
    BY <1>1, <1>2, <1>5, NewPlayerIs
  <2>. QED
    BY <1>1, <1>3, <1>5, <2>1
<1>6. CASE q # p
  BY <1>1, <1>2, <1>4, <1>6 DEF BombsAreCounted
<1>. QED
  BY <1>5, <1>6

LEMMA CountReturn == CountInv /\ Return => BombsAreCounted'
<1>. SUFFICES ASSUME CountInv, Return PROVE BombsAreCounted'
  OBVIOUS
<1>. DEFINE p == Head(todo)
<1>1. UNCHANGED <<order, bombs, returned>>
  BY DEF Return, countVars
<1>2. player \in [Player -> Playing] /\ order \in Seq(Player) /\ BombsAreCounted /\ Typed
  BY DEF CountInv, Typed, TypeOK
<1>3. p \in Player
  BY <1>2, HeadAndTail DEF Return, Typed, TypeOK
<1>4. \/ UNCHANGED player
      \/ \E back : player' = [player EXCEPT ![p].back = back]
      \/ \E c \in Cell : player' = [player EXCEPT ![p] = Respawned(p, c)]
  BY DEF Return
<1>. HIDE DEF p
<1>5. Owned(p, bombs) \in Nat
  <2>1. placed \in Nat
    BY PlacedIs DEF CountInv
  <2>. QED
    BY <2>1, TypedBombs, OwnedIs DEF CountInv, Typed, TypeOK
<1>6. \A q \in Player : player'[q].count = player[q].count \/ (q = p /\ player'[q].count = Owned(p, bombs))
  <2>1. ASSUME NEW back, player' = [player EXCEPT ![p].back = back]
        PROVE  \A q \in Player : player'[q].count = player[q].count
    BY <1>2, <2>1 DEF Playing
  <2>2. ASSUME NEW c \in Cell, player' = [player EXCEPT ![p] = Respawned(p, c)]
        PROVE  \A q \in Player : player'[q].count = player[q].count \/ (q = p /\ player'[q].count = Owned(p, bombs))
    BY <1>2, <1>3, <2>2, RespawnedIs
  <2>. QED
    BY <1>4, <2>1, <2>2
<1>. SUFFICES ASSUME NEW q \in Range(order)
              PROVE  /\ player'[q].count <= Owned(q, bombs)
                     /\ q \notin returned => player'[q].count = Owned(q, bombs)
  BY <1>1 DEF BombsAreCounted, Owned
<1>7. q \in Player
  BY <1>2 DEF Range
<1>. QED
  BY <1>2, <1>5, <1>6, <1>7 DEF BombsAreCounted

LEMMA CountNext == CountInv /\ [Next]_vars => CountInv'
<1>. SUFFICES ASSUME CountInv, [Next]_vars PROVE CountInv'
  OBVIOUS
<1>1. Typed' /\ Typed /\ BombsAreCounted
  BY TypeNext DEF CountInv
<1>2. Range(order) \subseteq Player /\ bombs \in [DOMAIN bombs -> Bomb] /\ placed \in Nat
      /\ order \in Seq(Player) /\ player \in [Player -> Playing]
  <2>1. bombs \in [DOMAIN bombs -> Bomb] /\ order \in Seq(Player) /\ player \in [Player -> Playing]
    BY <1>1 DEF Typed, TypeOK
  <2>2. placed \in Nat
    BY <1>1, PlacedIs
  <2>. QED
    BY <2>1, <2>2 DEF Range
<1>3. ASSUME \/ Begin \/ Thaw \/ Haunt \/ Expire \/ EndTick
             \/ \E p \in Player, c \in Cell : \E what \in {"wall", "meteor", "power-up"} : Ask(p, what, c)
             \/ UNCHANGED vars
      PROVE  BombsAreCounted'
  <2>1. UNCHANGED <<order, player, bombs, returned>>
    BY <1>3 DEF Begin, Thaw, Haunt, Expire, EndTick, Ask, vars, countVars
  <2>. QED
    BY <1>1, <2>1, CountKept
<1>4. ASSUME Slide
      PROVE  BombsAreCounted'
  <2>. DEFINE bs == AllSlid
  <2>1. Rolled(bombs, bs)
    BY <1>2, AllSlidIs
  <2>2. bombs' = [i \in DOMAIN bs |-> [bs[i] EXCEPT !.left = @ - 1]] /\ UNCHANGED <<order, player, returned>>
    BY <1>4 DEF Slide, countVars
  <2>. HIDE DEF bs
  <2>3. DOMAIN bombs' = DOMAIN bombs /\ \A i \in DOMAIN bombs : bombs'[i].owner = bombs[i].owner
    BY <2>1, <2>2 DEF Rolled, Bomb
  <2>. QED
    BY <1>1, <2>2, <2>3, CountKept
<1>5. ASSUME Burn
      PROVE  BombsAreCounted'
  <2>1. UNCHANGED <<order, bombs, returned>>
    BY <1>5 DEF Burn, countVars
  <2>2. \A p \in Player : player'[p].count = player[p].count
    BY <1>1, <1>5, BurnIs DEF Typed, TypeOK
  <2>. QED
    BY <1>1, <1>2, <2>1, <2>2, CountKept
<1>6. ASSUME Ice
      PROVE  BombsAreCounted'
  <2>1. UNCHANGED <<order, returned>>
    BY <1>6 DEF Ice, countVars
  <2>2. Strolled(player, player') /\ Rolled(bombs, bombs')
    BY <1>1, <1>6, IceIs DEF Typed, TypeOK
  <2>. QED
    BY <1>1, <1>2, <2>1, <2>2, CountKept DEF Strolled, Rolled
<1>7. ASSUME Happen
      PROVE  BombsAreCounted'
  <2>1. UNCHANGED <<order, player, returned>> /\ (bombs' = bombs \/ Surge) /\ phase = "events"
    BY <1>7 DEF Happen, Announce, Rain
  <2>2. \A i \in DOMAIN bombs : bombs[i].left > 0
    BY <1>1, <2>1 DEF Typed, TypeOK
  <2>3. DOMAIN bombs' = DOMAIN bombs /\ \A i \in DOMAIN bombs : bombs'[i].owner = bombs[i].owner
    BY <1>2, <2>1, <2>2, SurgeIs
  <2>. QED
    BY <1>1, <2>1, <2>3, CountKept
<1>8. ASSUME NEW p \in Player, LeaveWorld(p)
      PROVE  BombsAreCounted'
  <2>1. UNCHANGED <<player, bombs, returned>>
    BY <1>8 DEF LeaveWorld
  <2>2. Range(order') \subseteq Range(order)
    BY <1>2, <1>8, LeftAre
  <2>. QED
    BY <1>1, <2>1, <2>2, CountKept
<1>9. BombsAreCounted'
  BY <1>3, <1>4, <1>5, <1>6, <1>7, <1>8, CountInput, CountBlow, CountLand, CountJoin, CountReturn DEF Next
<1>. QED
  BY <1>1, <1>9 DEF CountInv

LEMMA CountInit == Init => CountInv
<1>. SUFFICES ASSUME Init PROVE CountInv
  OBVIOUS
<1>1. Typed
  BY TypeInit
<1>2. \A p \in Player : player[p].count = 0
  <2>. DEFINE at(p) == Spawn[(((CHOOSE i \in DOMAIN order : order[i] = p) - 1) % Len(Spawn)) + 1]
  <2>1. \A p \in Player : at(p) \in Range(Spawn) /\ player[p] = NewPlayer(at(p))
    BY InitPlaces DEF Init
  <2>. HIDE DEF at
  <2>. QED
    BY <1>1, <2>1, NewPlayerIs, SpawnsAre DEF Typed, TypeOK
<1>3. \A p : Owned(p, bombs) = 0
  <2>1. \A p : {i \in DOMAIN bombs : bombs[i].owner = p} = {}
    BY DEF Init
  <2>. QED
    BY <2>1, FS_EmptySet DEF Owned
<1>4. Range(order) \subseteq Player
  BY <1>1 DEF Typed, TypeOK, Range
<1>5. BombsAreCounted
  BY <1>2, <1>3, <1>4 DEF BombsAreCounted
<1>. QED
  BY <1>1, <1>5 DEF CountInv

\* Through chains, deaths and respawns nobody's count is more than the bombs
\* they have on the board, and it is that many unless they have left and come
\* back while bombs of theirs were ticking.
THEOREM EveryBombIsCounted == Spec => []BombsAreCounted
<1>1. CountInv => BombsAreCounted
  BY DEF CountInv
<1>. QED
  BY <1>1, CountInit, CountNext, PTL DEF Spec

-----------------------------------------------------------------------------
(* One batch is one blast *)

\* A bomb's fire reaches a bomb elsewhere exactly if the one sees the other.
LEMMA HitIsSeen ==
  ASSUME tiles \in [Cell -> Tile], bombs \in [DOMAIN bombs -> Bomb], Apart(bombs), OnFloor(bombs),
         NEW i \in DOMAIN bombs, NEW j \in DOMAIN bombs
  PROVE  bombs[j].at \in Hit(bombs, i, tiles) <=> i = j \/ Sees(bombs[i], bombs[j].at)
<1>1. bombs[i].at \in Cell /\ bombs[j].at \in Cell
  BY DEF Bomb
<1>2. tiles[bombs[j].at] \in {"empty", "ice"}
  BY DEF OnFloor, Walkable
<1>3. ASSUME bombs[j].at \in Hit(bombs, i, tiles)
      PROVE  i = j \/ Sees(bombs[i], bombs[j].at)
  BY <1>1, <1>3, Covered DEF Hit, Apart
<1>4. ASSUME i = j
      PROVE  bombs[j].at \in Hit(bombs, i, tiles)
  BY <1>4 DEF Hit, ExplosionCells
<1>5. ASSUME Sees(bombs[i], bombs[j].at)
      PROVE  bombs[j].at \in Hit(bombs, i, tiles)
  BY <1>1, <1>2, <1>5, Uncovered DEF Hit
<1>. QED
  BY <1>3, <1>4, <1>5

LEMMA OneBlast ==
  ASSUME FootingInv, Blow
  PROVE  /\ bombs' = Without(bombs, InReach)
         /\ \A c \in Cell : fire'[c] > fire[c] => \E i \in InReach : c = bombs[i].at \/ Sees(bombs[i], c)
<1>. DEFINE due == {i \in DOMAIN bombs : bombs[i].left = 0}
<1>1. /\ tiles \in [Cell -> Tile] /\ fire \in [Cell -> 0 .. Duration] /\ pups \subseteq [at : Cell, type : Enabled]
      /\ bombs \in [DOMAIN bombs -> Bomb] /\ DOMAIN bombs \subseteq 1 .. placed
  BY DEF FootingInv, Typed, TypeOK
<1>2. Bombs(bombs)
  BY <1>1, PlacedIs, TypedBombs DEF FootingInv
<1>3. Apart(bombs) /\ OnFloor(bombs)
  BY DEF FootingInv, Footing, Apart, OnFloor
<1>4. PICK gone \in SUBSET DOMAIN bombs : Gone(due, bombs, player, tiles, fire, gone)
  <2>1. Batch(due, bombs, player, tiles, fire) /\ due \in SUBSET DOMAIN bombs
    BY DEF Blow
  <2>. HIDE DEF due
  <2>. QED
    BY <1>1, <1>2, <2>1, BatchIs
<1>5. \A S \in SUBSET DOMAIN bombs : Closed(bombs, tiles, S) <=> Whole(S)
  <2>1. \A i, j \in DOMAIN bombs : bombs[j].at \in Hit(bombs, i, tiles) <=> i = j \/ Sees(bombs[i], bombs[j].at)
    BY <1>1, <1>3, HitIsSeen
  <2>. QED
    BY <2>1 DEF Closed, Whole
<1>6. InReach = gone
  <2>1. due \subseteq gone /\ Whole(gone)
    BY <1>4, <1>5 DEF Gone
  <2>2. \A S \in SUBSET DOMAIN bombs : due \subseteq S /\ Whole(S) => gone \subseteq S
    BY <1>4, <1>5 DEF Gone
  <2>3. InReach = {i \in DOMAIN bombs : \A S \in {S \in SUBSET DOMAIN bombs : due \subseteq S /\ Whole(S)} : i \in S}
    BY DEF InReach
  <2>. HIDE DEF due
  <2>. QED
    BY <2>1, <2>2, <2>3
<1>7. bombs' = Without(bombs, InReach)
  BY <1>4, <1>6 DEF Gone
<1>8. ASSUME NEW c \in Cell, fire'[c] > fire[c]
      PROVE  \E i \in InReach : c = bombs[i].at \/ Sees(bombs[i], c)
  <2>1. fire[c] \in Nat
    BY <1>1, Numbers
  <2>2. fire'[c] # fire[c]
    BY <1>8, <2>1
  <2>3. PICK i \in gone : c \in Hit(bombs, i, tiles)
    BY <1>4, <2>2 DEF Gone
  <2>4. bombs[i].at \in Cell
    BY <1>1 DEF Bomb
  <2>5. c = bombs[i].at \/ Sees(bombs[i], c)
    BY <1>1, <2>3, <2>4, Covered DEF Hit
  <2>. QED
    BY <1>6, <2>5
<1>. QED
  BY <1>7, <1>8

\* A step from "blow" is Blow: what goes off is what is in reach of the fuses
\* that are out on the map before any wall has fallen, all of it and nothing
\* else, and no tile burns that none of these bombs sees.
THEOREM BatchesAreBlasts == Spec => BatchIsOneBlast
<1>1. ASSUME FootingInv, [Next]_vars
      PROVE  [phase = "blow" =>
                /\ bombs' = Without(bombs, InReach)
                /\ \A c \in Cell : fire'[c] > fire[c] => \E i \in InReach : c = bombs[i].at \/ Sees(bombs[i], c)]_vars
  <2>. SUFFICES ASSUME Next, phase = "blow"
                PROVE  /\ bombs' = Without(bombs, InReach)
                       /\ \A c \in Cell : fire'[c] > fire[c] => \E i \in InReach : c = bombs[i].at \/ Sees(bombs[i], c)
    BY <1>1
  <2>1. Blow
    BY DEF Next, Begin, Input, Slide, Burn, Ice, Happen, Thaw, Land, Haunt, Expire, Return, EndTick, Join, Ask, LeaveWorld
  <2>. QED
    BY <1>1, <2>1, OneBlast
<1>. QED
  BY <1>1, FootingInit, FootingNext, PTL DEF Spec, BatchIsOneBlast

=============================================================================
