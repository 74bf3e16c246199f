-------------------------- MODULE MatchSessionProofs --------------------------
(***************************************************************************)
(* Proofs about a match, for any players, any limits and any mode: the     *)
(* types, the ranking of the fallen, the speed of a match whose humans are *)
(* gone, and that MatchSession implements MatchPromise.                    *)
(*                                                                         *)
(* One relation carries the argument: Follows(m, n), for what the rules    *)
(* may make of a match.  Each rule is shown to keep it, and it composes;   *)
(* a step of the specification is then one of three kinds.                 *)
(*                                                                         *)
(* Last, the batches in which matches are simulated (SimulationQueue): of  *)
(* those the manager knows one runs, the queue is served, and the index of *)
(* what is on disk is not behind.                                          *)
(***************************************************************************)
EXTENDS MatchSession, SimulationQueue, SequenceTheorems, FiniteSetTheorems, FunctionTheorems,
        WellFoundedInduction, TLAPS

-----------------------------------------------------------------------------
(* Least elements and sizes *)

LEMMA MinOfNaturals ==
  ASSUME NEW S \in SUBSET Nat, S # {}
  PROVE  Min(S) \in S
<1>. DEFINE less == {ss \in Nat \X Nat : ss[1] < ss[2]}
<1>1. IsWellFoundedOn(less, Nat)
  <2>1. IsWellFoundedOn(OpToRel(<, Nat), Nat)
    BY NatLessThanWellFounded
  <2>. QED
    BY <2>1, Zenon DEF OpToRel
<1>2. PICK x \in S : \A y \in S : ~ (<<y, x>> \in less)
  <2>. HIDE DEF less
  <2>. QED
    BY <1>1, WFMin
<1>3. ASSUME NEW y \in S
      PROVE  x =< y
  <2>1. <<y, x>> \notin less
    BY <1>2
  <2>2. <<y, x>> \in Nat \X Nat /\ <<y, x>>[1] = y /\ <<y, x>>[2] = x
    OBVIOUS
  <2>3. ~(y < x)
    <3>. SUFFICES ASSUME y < x PROVE <<y, x>> \in less
      BY <2>1
    <3>. QED
      BY <2>2
  <2>. QED
    BY <2>3
<1>. QED
  BY <1>3 DEF Min

LEMMA OneOfIsOne ==
  ASSUME NEW S \in SUBSET Nat
  PROVE  OneOf(S) \in S \cup {None}
BY MinOfNaturals DEF OneOf

\* How many players a set holds.
LEMMA Headcount ==
  ASSUME NEW S \in SUBSET Player
  PROVE  /\ IsFiniteSet(S)
         /\ Cardinality(S) \in 0 .. Cardinality(Player)
         /\ \A p \in Player \ S : Cardinality(S) + 1 \in 1 .. Cardinality(Player)
<1>1. IsFiniteSet(Player) /\ IsFiniteSet(S)
  BY MatchSessionAssumption, FS_Subset
<1>2. Cardinality(S) \in Nat /\ Cardinality(Player) \in Nat /\ Cardinality(S) =< Cardinality(Player)
  BY <1>1, FS_Subset, FS_CardinalityType
<1>3. ASSUME NEW p \in Player \ S
      PROVE  Cardinality(S) + 1 \in 1 .. Cardinality(Player)
  <2>1. Cardinality(S \cup {p}) = Cardinality(S) + 1
    BY <1>1, <1>3, FS_AddElement
  <2>2. Cardinality(S \cup {p}) =< Cardinality(Player)
    BY <1>1, <1>3, FS_Subset
  <2>. QED
    BY <1>2, <2>1, <2>2
<1>. QED
  BY <1>1, <1>2, <1>3

-----------------------------------------------------------------------------
(* Placements *)

\* The fallen are ranked by the time of death, behind the living.
InOrder(alive, place) ==
  \A p \in Player \ alive :
    place[p] = 1 + Cardinality({q \in Player : q \in alive \/ place[q] < place[p]})

LEMMA FallenAreBehind ==
  ASSUME NEW A \in SUBSET Player, NEW place, InOrder(A, place)
  PROVE  \A p \in Player \ A : place[p] \in Nat /\ place[p] > Cardinality(A)
<1>. SUFFICES ASSUME NEW p \in Player \ A
              PROVE  place[p] \in Nat /\ place[p] > Cardinality(A)
  OBVIOUS
<1>. DEFINE ahead == {q \in Player : q \in A \/ place[q] < place[p]}
<1>1. place[p] = 1 + Cardinality(ahead)
  BY DEF InOrder
<1>2. A \subseteq ahead /\ ahead \in SUBSET Player
  OBVIOUS
<1>. HIDE DEF ahead
<1>3. IsFiniteSet(ahead) /\ Cardinality(ahead) \in Nat /\ Cardinality(A) \in Nat
  BY <1>2, Headcount
<1>4. Cardinality(A) =< Cardinality(ahead)
  BY <1>2, <1>3, FS_Subset
<1>. QED
  BY <1>1, <1>3, <1>4

\* How many of a tick's deaths are placed ahead of one of them.
LEMMA AheadInTick ==
  ASSUME NEW n \in Nat, NEW k \in Nat, NEW D, NEW S, S = (n + 1) .. k,
         NEW f \in Bijection(D, S), NEW d \in D,
         NEW L, L = {q \in D : f[q] < f[d]}
  PROVE  IsFiniteSet(L) /\ Cardinality(L) = f[d] - 1 - n
<1>. DEFINE T == (n + 1) .. (f[d] - 1)
            g == [q \in L |-> f[q]]
<1>1. /\ f \in [D -> (n + 1) .. k]
      /\ \A a, b \in D : f[a] = f[b] => a = b
      /\ \A t \in (n + 1) .. k : \E q \in D : f[q] = t
  BY DEF Bijection, Injection, Surjection, IsInjective
<1>2. IsFiniteSet(D)
  <2>1. f \in Injection(D, (n + 1) .. k)
    BY DEF Bijection
  <2>2. IsFiniteSet((n + 1) .. k)
    BY FS_Interval
  <2>. QED
    BY <2>1, <2>2, FS_Injection
<1>3. IsFiniteSet(L)
  BY <1>2, FS_Subset
<1>4. f[d] \in (n + 1) .. k
  BY <1>1
<1>5. g \in [L -> T]
  <2>. SUFFICES ASSUME NEW q \in L PROVE f[q] \in T
    OBVIOUS
  <2>1. f[q] \in (n + 1) .. k /\ f[q] < f[d]
    BY <1>1
  <2>. QED
    BY <1>4, <2>1
<1>6. \A a, b \in L : g[a] = g[b] => a = b
  BY <1>1
<1>7. \A t \in T : \E q \in L : g[q] = t
  <2>. SUFFICES ASSUME NEW t \in T PROVE \E q \in L : f[q] = t
    OBVIOUS
  <2>1. t \in (n + 1) .. k /\ t < f[d]
    BY <1>4
  <2>2. PICK q \in D : f[q] = t
    BY <1>1, <2>1
  <2>. QED
    BY <2>1, <2>2
<1>8. ExistsBijection(L, T)
  <2>. HIDE DEF T, g
  <2>1. g \in Bijection(L, T)
    BY <1>5, <1>6, <1>7, Fun_IsBij
  <2>. QED
    BY <2>1 DEF ExistsBijection
<1>9. Cardinality(T) = Cardinality(L)
  <2>. HIDE DEF T, g
  <2>. QED
    BY <1>3, <1>8, FS_Bijection
<1>10. Cardinality(T) = f[d] - 1 - n
  <2>1. PICK b \in Int : b = f[d] - 1
    BY <1>4
  <2>2. Cardinality((n + 1) .. b) = IF n + 1 > b THEN 0 ELSE b - (n + 1) + 1
    BY FS_Interval
  <2>. QED
    BY <1>4, <2>1, <2>2
<1>. QED
  BY <1>3, <1>9, <1>10

\* The deaths D of a tick are given their places.
Ranking(D, places, place) == [p \in Player |-> IF p \in D THEN places[p] ELSE place[p]]

\* The deaths of a tick, counted down from the number alive, keep the order.
LEMMA DeathsKeepOrder ==
  ASSUME NEW A \in SUBSET Player, NEW D \in SUBSET A, NEW place, InOrder(A, place),
         NEW n, n = Cardinality(A \ D), NEW k, k = Cardinality(A),
         NEW S, S = (n + 1) .. k, NEW places \in Bijection(D, S),
         NEW to, to = Ranking(D, places, place)
  PROVE  /\ InOrder(A \ D, to)
         /\ \A p \in D, q \in Player \ A : to[p] < to[q]
<1>1. k \in Nat /\ n \in Nat /\ IsFiniteSet(A \ D)
  BY Headcount
<1>2. places \in [D -> (n + 1) .. k]
  BY DEF Bijection, Injection
<1>3. \A p \in D : to[p] = places[p] /\ to[p] \in Nat /\ to[p] > n /\ to[p] =< k
  <2>. SUFFICES ASSUME NEW p \in D
                PROVE  to[p] = places[p] /\ to[p] \in Nat /\ to[p] > n /\ to[p] =< k
    OBVIOUS
  <2>1. to[p] = places[p]
    BY DEF Ranking
  <2>2. places[p] \in (n + 1) .. k
    BY <1>2
  <2>. QED
    BY <1>1, <2>1, <2>2
<1>4. \A p \in Player \ A : to[p] = place[p] /\ to[p] \in Nat /\ to[p] > k
  BY FallenAreBehind DEF Ranking
<1>5. ASSUME NEW p \in Player \ A
      PROVE  to[p] = 1 + Cardinality({q \in Player : q \in A \ D \/ to[q] < to[p]})
  <2>1. place[p] = 1 + Cardinality({q \in Player : q \in A \/ place[q] < place[p]})
    BY DEF InOrder
  <2>2. ASSUME NEW q \in Player
        PROVE  (q \in A \ D \/ to[q] < to[p]) <=> (q \in A \/ place[q] < place[p])
    <3>1. CASE q \in D
      <4>1. to[q] \in Nat /\ to[q] =< k /\ to[p] \in Nat /\ to[p] > k
        BY <1>3, <1>4, <3>1
      <4>. QED
        BY <1>1, <3>1, <4>1
    <3>2. CASE q \notin D
      BY <1>4, <3>2
    <3>. QED
      BY <3>1, <3>2
  <2>3. {q \in Player : q \in A \ D \/ to[q] < to[p]} = {q \in Player : q \in A \/ place[q] < place[p]}
    BY <2>2
  <2>. QED
    BY <1>4, <2>1, <2>3
<1>6. ASSUME NEW p \in D
      PROVE  to[p] = 1 + Cardinality({q \in Player : q \in A \ D \/ to[q] < to[p]})
  <2>. DEFINE L == {q \in D : places[q] < places[p]}
  <2>1. {q \in Player : q \in A \ D \/ to[q] < to[p]} = (A \ D) \cup L
    <3>. SUFFICES ASSUME NEW q \in Player
                  PROVE  (q \in A \ D \/ to[q] < to[p]) <=> q \in (A \ D) \cup L
      OBVIOUS
    <3>1. CASE q \in D
      BY <1>3, <3>1
    <3>2. CASE q \in A \ D
      BY <3>2
    <3>3. CASE q \in Player \ A
      <4>1. to[p] \in Nat /\ to[p] =< k /\ to[q] \in Nat /\ to[q] > k
        BY <1>3, <1>4, <3>3
      <4>. QED
        BY <1>1, <3>3, <4>1
    <3>. QED
      BY <3>1, <3>2, <3>3
  <2>2. IsFiniteSet(L) /\ Cardinality(L) = places[p] - 1 - n
    <3>1. L = {q \in D : places[q] < places[p]}
      OBVIOUS
    <3>. HIDE DEF L
    <3>. QED
      BY <1>1, <3>1, AheadInTick
  <2>3. (A \ D) \cap L = {}
    OBVIOUS
  <2>. HIDE DEF L
  <2>4. Cardinality({}) = 0
    BY FS_EmptySet
  <2>5. PICK l : l = Cardinality(L) /\ l = places[p] - 1 - n
    BY <2>2
  <2>6. Cardinality((A \ D) \cup L) = n + l - 0
    BY <1>1, <2>2, <2>3, <2>4, <2>5, FS_Union
  <2>7. to[p] \in Nat /\ l = to[p] - 1 - n
    BY <1>3, <2>5
  <2>8. to[p] = 1 + (n + l - 0)
    BY <1>1, <2>7
  <2>. QED
    BY <2>1, <2>6, <2>8
<1>7. InOrder(A \ D, to)
  BY <1>5, <1>6 DEF InOrder
<1>8. ASSUME NEW p \in D, NEW q \in Player \ A
      PROVE  to[p] < to[q]
  <2>1. to[p] \in Nat /\ to[p] =< k /\ to[q] \in Nat /\ to[q] > k
    BY <1>3, <1>4
  <2>. QED
    BY <1>1, <2>1
<1>. QED
  BY <1>7, <1>8

\* Who dies in the same tick may share the best of the places.
LEMMA SharingKeepsOrder ==
  ASSUME NEW A \in SUBSET Player, NEW D \in SUBSET (Player \ A), NEW place, InOrder(A, place),
         \A p \in D, q \in Player \ (A \cup D) : place[p] < place[q],
         NEW to, to = [p \in Player |-> IF p \in D THEN Cardinality(A) + 1 ELSE place[p]]
  PROVE  InOrder(A, to)
<1>1. Cardinality(A) \in Nat
  BY Headcount
<1>2. \A p \in Player \ A : place[p] \in Nat /\ place[p] > Cardinality(A)
  BY FallenAreBehind
<1>3. \A p \in D : to[p] = Cardinality(A) + 1
  OBVIOUS
<1>4. \A p \in Player \ D : to[p] = place[p]
  OBVIOUS
<1>5. ASSUME NEW p \in D
      PROVE  to[p] = 1 + Cardinality({q \in Player : q \in A \/ to[q] < to[p]})
  <2>1. ASSUME NEW q \in Player \ A
        PROVE  ~(to[q] < to[p])
    BY <1>1, <1>2, <1>3, <1>4
  <2>2. {q \in Player : q \in A \/ to[q] < to[p]} = A
    BY <2>1
  <2>3. to[p] = 1 + Cardinality(A)
    BY <1>1, <1>3
  <2>. QED
    BY <2>2, <2>3
<1>6. ASSUME NEW p \in Player \ (A \cup D)
      PROVE  to[p] = 1 + Cardinality({q \in Player : q \in A \/ to[q] < to[p]})
  <2>1. place[p] = 1 + Cardinality({q \in Player : q \in A \/ place[q] < place[p]})
    BY DEF InOrder
  <2>2. ASSUME NEW q \in Player
        PROVE  (q \in A \/ to[q] < to[p]) <=> (q \in A \/ place[q] < place[p])
    <3>1. CASE q \in D
      <4>1. place[q] < place[p] /\ place[q] > Cardinality(A) /\ place[q] \in Nat /\ place[p] \in Nat
        BY <1>2, <3>1
      <4>2. to[q] < to[p]
        BY <1>1, <1>3, <1>4, <3>1, <4>1
      <4>. QED
        BY <4>1, <4>2
    <3>2. CASE q \notin D
      BY <1>4, <3>2
    <3>. QED
      BY <3>1, <3>2
  <2>3. {q \in Player : q \in A \/ to[q] < to[p]} = {q \in Player : q \in A \/ place[q] < place[p]}
    BY <2>2
  <2>. QED
    BY <1>4, <2>1, <2>3
<1>. QED
  BY <1>5, <1>6 DEF InOrder

-----------------------------------------------------------------------------
(* What a call of the rules may do *)

Place == 1 .. Cardinality(Player)

Ranked(m) == Undecided(m) => InOrder(m.alive, m.placement)

SameVerdict(m, n) == n.finish = m.finish /\ n.winner = m.winner /\ n.winnerTeam = m.winnerTeam

\* n is a match that m may have become: what is decided stands, nobody comes
\* back where there are no respawns, and the order of the fallen is kept.
Follows(m, n) ==
  /\ n \in Match
  /\ SameVerdict(m, n) \/ (Undecided(m) /\ ~Undecided(n))
  /\ mode # "deathmatch" => n.alive \subseteq m.alive /\ (Ranked(m) => Ranked(n))

LEMMA FollowsOn ==
  ASSUME NEW m, NEW n, NEW o, Follows(m, n), Follows(n, o)
  PROVE  Follows(m, o)
<1>1. SameVerdict(m, o) \/ (Undecided(m) /\ ~Undecided(o))
  <2>1. CASE SameVerdict(m, n) /\ SameVerdict(n, o)
    BY <2>1 DEF SameVerdict
  <2>2. CASE SameVerdict(m, n) /\ Undecided(n) /\ ~Undecided(o)
    BY <2>2 DEF SameVerdict, Undecided
  <2>3. CASE Undecided(m) /\ ~Undecided(n) /\ SameVerdict(n, o)
    BY <2>3 DEF SameVerdict, Undecided
  <2>. QED
    BY <2>1, <2>2, <2>3 DEF Follows
<1>. QED
  BY <1>1 DEF Follows

LEMMA FollowsItself ==
  ASSUME NEW m \in Match
  PROVE  Follows(m, m)
BY DEF Follows, SameVerdict

LEMMA MatchFields ==
  ASSUME NEW m \in Match
  PROVE  /\ m.tick \in Nat /\ m.status \in {"countdown", "playing", "finished"}
         /\ m.finish \in Nat \cup {None} /\ m.alive \in SUBSET Player
         /\ m.placement \in [Player -> Place \cup {None}] /\ m.kills \in [Player -> Int]
         /\ m.held \in [Player -> Nat] /\ m.respawn \in [Player -> Nat \cup {None}]
         /\ m.winner \in Player \cup {None} /\ m.winnerTeam \in {0, 1, None}
BY DEF Match, Place

LEMMA BegunFollows ==
  ASSUME NEW m \in Match
  PROVE  Follows(m, Begun(m)) /\ Begun(m).status = m.status
<1>1. PICK t \in Nat : t = m.tick + 1
  BY MatchFields
<1>2. PICK n : n = [m EXCEPT !.tick = t]
  OBVIOUS
<1>3. Begun(m) = n
  BY <1>1, <1>2 DEF Begun, Match
<1>4. n \in Match
  BY <1>2 DEF Match
<1>5. /\ n.finish = m.finish /\ n.winner = m.winner /\ n.winnerTeam = m.winnerTeam
      /\ n.alive = m.alive /\ n.placement = m.placement /\ n.status = m.status
  BY <1>2 DEF Match
<1>. QED
  BY <1>3, <1>4, <1>5 DEF Follows, SameVerdict, Ranked, Undecided

\* The placements of a match with some more deaths.
LEMMA PlacedIsPlaced ==
  ASSUME NEW m \in Match, NEW dead \in SUBSET m.alive, NEW places \in Places(m, dead)
  PROVE  /\ Placed(m, places) \in [Player -> Place \cup {None}]
         /\ Placed(m, places) = [p \in Player |-> IF p \in dead THEN places[p] ELSE m.placement[p]]
<1>1. m.alive \in SUBSET Player /\ m.placement \in [Player -> Place \cup {None}]
  BY MatchFields
<1>2. PICK n, k : /\ n = Cardinality(m.alive \ dead) /\ k = Cardinality(m.alive)
  OBVIOUS
<1>3. n \in Nat /\ k \in Nat /\ Cardinality(Player) \in Nat /\ k =< Cardinality(Player)
  BY <1>1, <1>2, Headcount
<1>4. places \in [dead -> (n + 1) .. k]
  BY <1>2 DEF Places, Bijection, Injection
<1>5. DOMAIN places = dead
  BY <1>4
<1>6. Placed(m, places) = [p \in Player |-> IF p \in dead THEN places[p] ELSE m.placement[p]]
  BY <1>5 DEF Placed
<1>7. ASSUME NEW p \in dead
      PROVE  places[p] \in Place
  <2>1. places[p] \in (n + 1) .. k
    BY <1>4
  <2>. QED
    BY <1>3, <2>1 DEF Place
<1>. QED
  BY <1>1, <1>6, <1>7

\* Deaths, however they come about.
WithDeaths(m, dead, places, kills) ==
  [m EXCEPT !.alive = m.alive \ dead, !.placement = Placed(m, places), !.kills = kills]

LEMMA DeathsFollow ==
  ASSUME NEW m \in Match, NEW dead \in SUBSET m.alive, NEW places \in Places(m, dead),
         NEW kills \in [Player -> Int],
         NEW n, n = WithDeaths(m, dead, places, kills)
  PROVE  /\ Follows(m, n)
         /\ n.alive = m.alive \ dead /\ n.finish = m.finish /\ n.status = m.status
         /\ Undecided(m) /\ Ranked(m) =>
              \A p \in dead, q \in Player \ m.alive : n.placement[p] < n.placement[q]
<1>1. PICK to : to = Placed(m, places)
  OBVIOUS
<1>2. /\ to \in [Player -> Place \cup {None}]
      /\ to = [p \in Player |-> IF p \in dead THEN places[p] ELSE m.placement[p]]
  BY <1>1, PlacedIsPlaced
<1>3. PICK alive \in SUBSET Player : alive = m.alive \ dead
  BY MatchFields
<1>4. n = [m EXCEPT !.alive = alive, !.placement = to, !.kills = kills]
  BY <1>1, <1>3 DEF WithDeaths
<1>5. n \in Match
  BY <1>2, <1>4 DEF Match, Place
<1>6. /\ n.alive = alive /\ n.placement = to
      /\ n.finish = m.finish /\ n.winner = m.winner /\ n.winnerTeam = m.winnerTeam /\ n.status = m.status
  BY <1>4 DEF Match
<1>7. ASSUME Undecided(m), Ranked(m)
      PROVE  /\ InOrder(alive, to)
             /\ \A p \in dead, q \in Player \ m.alive : to[p] < to[q]
  <2>1. m.alive \in SUBSET Player /\ InOrder(m.alive, m.placement)
    BY <1>7, MatchFields DEF Ranked
  <2>2. PICK A, place : A = m.alive /\ place = m.placement
    OBVIOUS
  <2>3. PICK k, d, S : d = Cardinality(A \ dead) /\ k = Cardinality(A) /\ S = (d + 1) .. k
    OBVIOUS
  <2>4. places \in Bijection(dead, S)
    BY <2>2, <2>3 DEF Places
  <2>5. /\ A \in SUBSET Player /\ dead \in SUBSET A /\ InOrder(A, place)
        /\ to = Ranking(dead, places, place)
    BY <1>2, <2>1, <2>2 DEF Ranking
  <2>6. InOrder(A \ dead, to) /\ \A p \in dead, q \in Player \ A : to[p] < to[q]
    BY <2>3, <2>4, <2>5, DeathsKeepOrder
  <2>. QED
    BY <1>3, <2>2, <2>6
<1>8. Ranked(m) => Ranked(n)
  BY <1>6, <1>7 DEF Ranked, Undecided
<1>. QED
  BY <1>3, <1>5, <1>6, <1>7, <1>8 DEF Follows, SameVerdict

LEMMA DiedFollows ==
  ASSUME NEW m \in Match, NEW dead \in SUBSET m.alive, NEW places \in Places(m, dead), NEW killer
  PROVE  LET n == Died(m, dead, places, killer) IN
         /\ Follows(m, n)
         /\ n.alive = m.alive \ dead /\ n.finish = m.finish /\ n.status = m.status
         /\ Undecided(m) /\ Ranked(m) =>
              \A p \in dead, q \in Player \ m.alive : n.placement[p] < n.placement[q]
<1>. DEFINE by(p) == Cardinality({q \in dead \ {p} : killer[q] = p})
            own(p) == Cardinality({q \in dead \cap {p} : killer[q] = p})
<1>1. m.alive \in SUBSET Player /\ m.kills \in [Player -> Int]
  BY MatchFields
<1>2. ASSUME NEW p \in Player
      PROVE  by(p) \in Int /\ own(p) \in Int
  <2>1. /\ {q \in dead \ {p} : killer[q] = p} \in SUBSET Player
        /\ {q \in dead \cap {p} : killer[q] = p} \in SUBSET Player
    BY <1>1
  <2>. QED
    BY <2>1, Headcount
<1>. HIDE DEF by, own
<1>3. PICK kills \in [Player -> Int] : kills = [p \in Player |-> m.kills[p] + by(p) - own(p)]
  <2>1. ASSUME NEW p \in Player
        PROVE  m.kills[p] + by(p) - own(p) \in Int
    BY <1>1, <1>2
  <2>. QED
    BY <2>1
<1>4. PICK n : n = WithDeaths(m, dead, places, kills)
  OBVIOUS
<1>5. Died(m, dead, places, killer) = n
  BY <1>3, <1>4 DEF Died, Match, WithDeaths, by, own
<1>6. /\ Follows(m, n)
      /\ n.alive = m.alive \ dead /\ n.finish = m.finish /\ n.status = m.status
      /\ Undecided(m) /\ Ranked(m) =>
           \A p \in dead, q \in Player \ m.alive : n.placement[p] < n.placement[q]
  BY <1>4, DeathsFollow
<1>. QED
  BY <1>5, <1>6

LEMMA KilledFollows ==
  ASSUME NEW m \in Match, NEW dead \in SUBSET m.alive, NEW places \in Places(m, dead)
  PROVE  LET n == Killed(m, dead, places) IN
         /\ Follows(m, n)
         /\ n.alive = m.alive \ dead /\ n.status = m.status
         /\ n.finish = m.finish /\ n.winner = m.winner /\ n.winnerTeam = m.winnerTeam
<1>1. PICK kills \in [Player -> Int] : kills = m.kills
  BY MatchFields
<1>2. PICK n : n = WithDeaths(m, dead, places, kills)
  OBVIOUS
<1>3. Killed(m, dead, places) = n
  BY <1>1, <1>2 DEF Killed, Match, WithDeaths
<1>4. n.winner = m.winner /\ n.winnerTeam = m.winnerTeam
  BY <1>2 DEF Match, WithDeaths
<1>5. Follows(m, n) /\ n.alive = m.alive \ dead /\ n.finish = m.finish /\ n.status = m.status
  BY <1>2, DeathsFollow
<1>. QED
  BY <1>3, <1>4, <1>5

\* The end is decided: whatever is written then, the winner is a player.
WithEnd(m, placement, hold, winner, winnerTeam) ==
  [m EXCEPT !.placement = placement, !.held = hold, !.winner = winner,
            !.winnerTeam = winnerTeam, !.finish = m.tick]

LEMMA DecidedFollows ==
  ASSUME NEW m \in Match, Undecided(m), NEW placement \in [Player -> Place \cup {None}],
         NEW hold \in [Player -> Nat], NEW winner \in Player \cup {None}, NEW winnerTeam \in {0, 1, None},
         NEW n, n = WithEnd(m, placement, hold, winner, winnerTeam)
  PROVE  Follows(m, n) /\ ~Undecided(n) /\ n.alive = m.alive /\ n.status = m.status
<1>1. m.tick \in Nat /\ m.tick # None
  BY MatchFields, MatchSessionAssumption
<1>2. n \in Match
  BY <1>1 DEF Match, Place, WithEnd
<1>3. n.finish = m.tick /\ n.alive = m.alive /\ n.status = m.status
  BY DEF Match, WithEnd
<1>. QED
  BY <1>1, <1>2, <1>3 DEF Follows, Ranked, Undecided

LEMMA ControlledFollows ==
  ASSUME NEW m \in Match, Undecided(m), NEW p \in Player
  PROVE  LET n == Controlled(m, p) IN
         /\ Follows(m, n) /\ n.alive = m.alive /\ n.status = m.status
         /\ n.placement = m.placement \/ ~Undecided(n)
<1>1. /\ m.held \in [Player -> Nat] /\ m.placement \in [Player -> Place \cup {None}]
      /\ m.winnerTeam \in {0, 1, None}
  BY MatchFields
<1>2. PICK hold \in [Player -> Nat] : hold = [m.held EXCEPT ![p] = @ + 1]
  <2>1. PICK h \in Nat : h = m.held[p] + 1
    BY <1>1
  <2>2. [m.held EXCEPT ![p] = h] \in [Player -> Nat]
    BY <1>1
  <2>. QED
    BY <2>1, <2>2
<1>3. PICK counted : counted = [m EXCEPT !.held = hold]
  OBVIOUS
<1>4. counted = [m EXCEPT !.held[p] = @ + 1]
  BY <1>2, <1>3 DEF Match
<1>5. counted \in Match
  BY <1>3 DEF Match
<1>6. /\ counted.alive = m.alive /\ counted.status = m.status /\ counted.placement = m.placement
      /\ counted.finish = m.finish /\ counted.winner = m.winner /\ counted.winnerTeam = m.winnerTeam
  BY <1>3 DEF Match
<1>7. Follows(m, counted)
  BY <1>5, <1>6 DEF Follows, SameVerdict, Ranked, Undecided
<1>8. CASE Score(counted, p) < HillTarget
  <2>1. Controlled(m, p) = counted
    BY <1>4, <1>8 DEF Controlled
  <2>. QED
    BY <1>6, <1>7, <2>1
<1>9. CASE ~(Score(counted, p) < HillTarget)
  <2>1. 1 \in Place
    <3>1. Cardinality({}) + 1 \in 1 .. Cardinality(Player) /\ Cardinality({}) = 0
      BY Headcount, FS_EmptySet
    <3>. QED
      BY <3>1 DEF Place
  <2>2. PICK placement \in [Player -> Place \cup {None}] : placement = [m.placement EXCEPT ![p] = 1]
    BY <1>1, <2>1
  <2>3. PICK n : n = WithEnd(m, placement, hold, p, m.winnerTeam)
    OBVIOUS
  <2>4. Controlled(m, p) = [counted EXCEPT !.winner = p, !.placement[p] = 1, !.finish = m.tick]
    BY <1>4, <1>9 DEF Controlled
  <2>5. Controlled(m, p) = n
    BY <1>3, <2>2, <2>3, <2>4 DEF Match, WithEnd
  <2>6. Follows(m, n) /\ ~Undecided(n) /\ n.alive = m.alive /\ n.status = m.status
    <3>1. p \in Player \cup {None} /\ m.winnerTeam \in {0, 1, None}
      BY <1>1
    <3>. QED
      BY <2>3, <3>1, DecidedFollows
  <2>. QED
    BY <2>5, <2>6
<1>. QED
  BY <1>8, <1>9

LEMMA HillFollows ==
  ASSUME NEW m \in Match, NEW n \in Hill(m)
  PROVE  /\ Follows(m, n) /\ n.alive = m.alive /\ n.status = m.status
         /\ n.placement = m.placement \/ ~Undecided(n)
<1>1. CASE n = m
  BY <1>1, FollowsItself
<1>2. ASSUME NEW p \in m.alive, Undecided(m), n = Controlled(m, p)
      PROVE  /\ Follows(m, n) /\ n.alive = m.alive /\ n.status = m.status
             /\ n.placement = m.placement \/ ~Undecided(n)
  BY <1>2, MatchFields, ControlledFollows
<1>. QED
  BY <1>1, <1>2 DEF Hill

LEMMA RespawnedFollows ==
  ASSUME NEW m \in Match
  PROVE  /\ Follows(m, Respawned(m)) /\ Respawned(m).status = m.status
         /\ m.alive \subseteq Respawned(m).alive
         /\ mode # "deathmatch" => Respawned(m) = m
<1>1. CASE ~(mode = "deathmatch" /\ Undecided(m))
  BY <1>1, FollowsItself DEF Respawned
<1>2. CASE mode = "deathmatch" /\ Undecided(m)
  <2>. DEFINE due == [p \in Player |-> IF p \notin m.alive /\ m.respawn[p] = None
                                       THEN m.tick + RespawnTicks ELSE m.respawn[p]]
              back == {p \in Player \ m.alive : m.tick >= due[p]}
  <2>1. m.tick + RespawnTicks \in Nat
    BY MatchFields, MatchSessionAssumption
  <2>2. due \in [Player -> Nat \cup {None}]
    BY <2>1, MatchFields
  <2>. HIDE DEF due
  <2>3. PICK alive \in SUBSET Player : alive = m.alive \cup back
    BY MatchFields
  <2>4. PICK respawn \in [Player -> Nat \cup {None}] :
          respawn = [p \in Player |-> IF p \in back THEN None ELSE due[p]]
    BY <2>2
  <2>5. PICK n : n = [m EXCEPT !.alive = alive, !.respawn = respawn]
    OBVIOUS
  <2>6. Respawned(m) = n
    BY <1>2, <2>3, <2>4, <2>5 DEF Respawned, Match, due
  <2>7. n \in Match
    BY <2>5 DEF Match
  <2>8. n.finish = m.finish /\ n.winner = m.winner /\ n.winnerTeam = m.winnerTeam /\ n.status = m.status
    BY <2>5 DEF Match
  <2>9. m.alive \subseteq n.alive
    BY <2>3, <2>5 DEF Match
  <2>. QED
    BY <1>2, <2>6, <2>7, <2>8, <2>9 DEF Follows, SameVerdict
<1>. QED
  BY <1>1, <1>2

LEMMA SharedKeeps ==
  ASSUME NEW m \in Match, NEW dead \in SUBSET Player
  PROVE  LET n == Shared(m, dead) IN
         /\ n \in Match /\ SameVerdict(m, n) /\ n.alive = m.alive /\ n.status = m.status
         /\ /\ Ranked(m)
            /\ Undecided(m) => /\ dead \cap m.alive = {}
                               /\ \A p \in dead, q \in Player \ (m.alive \cup dead) :
                                    m.placement[p] < m.placement[q]
            => Ranked(n)
<1>1. CASE ~(Cardinality(dead) > 1)
  BY <1>1 DEF Shared, SameVerdict
<1>2. CASE Cardinality(dead) > 1
  <2>1. m.alive \in SUBSET Player /\ m.placement \in [Player -> Place \cup {None}]
    BY MatchFields
  <2>2. PICK to : to = [p \in Player |-> IF p \in dead \ m.alive
                                       THEN Cardinality(m.alive) + 1 ELSE m.placement[p]]
    OBVIOUS
  <2>3. to \in [Player -> Place \cup {None}]
    BY <2>1, <2>2, Headcount DEF Place
  <2>4. PICK n : n = [m EXCEPT !.placement = to]
    OBVIOUS
  <2>5. Shared(m, dead) = n
    BY <1>2, <2>2, <2>4 DEF Shared, Match
  <2>6. n \in Match
    BY <2>3, <2>4 DEF Match, Place
  <2>7. /\ n.alive = m.alive /\ n.placement = to /\ n.status = m.status
        /\ n.finish = m.finish /\ n.winner = m.winner /\ n.winnerTeam = m.winnerTeam
    BY <2>4 DEF Match
  <2>8. ASSUME Undecided(m), Ranked(m), dead \cap m.alive = {},
               \A p \in dead, q \in Player \ (m.alive \cup dead) : m.placement[p] < m.placement[q]
        PROVE  InOrder(m.alive, to)
    <3>1. dead \in SUBSET (Player \ m.alive) /\ dead \ m.alive = dead
      BY <2>8
    <3>2. to = [p \in Player |-> IF p \in dead THEN Cardinality(m.alive) + 1 ELSE m.placement[p]]
      BY <2>2, <3>1
    <3>3. InOrder(m.alive, m.placement)
      BY <2>8 DEF Ranked
    <3>. QED
      BY <2>1, <2>8, <3>1, <3>2, <3>3, SharingKeepsOrder
  <2>. QED
    BY <2>5, <2>6, <2>7, <2>8 DEF SameVerdict, Ranked, Undecided
<1>. QED
  BY <1>1, <1>2

\* Who dies in the same tick is level.
LEMMA SharedIsLevel ==
  ASSUME NEW m \in Match, NEW dead \in SUBSET Player, NEW p \in dead \ m.alive, NEW q \in dead \ m.alive
  PROVE  Shared(m, dead).placement[p] = Shared(m, dead).placement[q]
<1>1. CASE Cardinality(dead) > 1
  <2>1. PICK to : to = [r \in Player |-> IF r \in dead \ m.alive
                                       THEN Cardinality(m.alive) + 1 ELSE m.placement[r]]
    OBVIOUS
  <2>2. PICK n : n = [m EXCEPT !.placement = to]
    OBVIOUS
  <2>3. Shared(m, dead) = n
    BY <1>1, <2>1, <2>2 DEF Shared, Match
  <2>4. n.placement = to
    BY <2>2 DEF Match
  <2>. QED
    BY <2>1, <2>3, <2>4
<1>2. CASE ~(Cardinality(dead) > 1)
  <2>1. IsFiniteSet(dead) /\ Cardinality(dead) \in Nat
    BY Headcount
  <2>2. ASSUME p # q
        PROVE  FALSE
    <3>1. {p, q} \subseteq dead
      OBVIOUS
    <3>2. Cardinality({p}) = 1 /\ IsFiniteSet({p})
      BY FS_Singleton
    <3>3. Cardinality({p} \cup {q}) = Cardinality({p}) + 1
      BY <2>2, <3>2, FS_AddElement
    <3>4. {p} \cup {q} = {p, q}
      OBVIOUS
    <3>5. Cardinality({p, q}) =< Cardinality(dead)
      BY <2>1, <3>1, FS_Subset
    <3>6. Cardinality({p, q}) = 2
      BY <3>2, <3>3, <3>4
    <3>. QED
      BY <1>2, <2>1, <3>5, <3>6
  <2>. QED
    BY <2>2
<1>. QED
  BY <1>1, <1>2

\* The winner a ranking names is one of those it ranks.
LEMMA LeaderIsOne ==
  ASSUME NEW S \in SUBSET Nat, NEW L \in SUBSET S
  PROVE  OneOf(L) \in S \cup {None}
BY OneOfIsOne

LEMMA RankedByScoreFollows ==
  ASSUME NEW m \in Match, Undecided(m)
  PROVE  LET n == [RankedByScore(m) EXCEPT !.finish = m.tick] IN
         Follows(m, n) /\ ~Undecided(n) /\ n.status = m.status
<1>. DEFINE score(p) == IF mode = "koth" THEN Score(m, p) ELSE m.kills[p]
            ahead(p) == {q \in Player : score(q) > score(p)}
            best == {p \in Player : \A q \in Player \ {p} : score(q) < score(p)}
<1>1. \A p \in Player : score(p) \in Int
  <2>1. \A p \in Player : m.held[p] \in Nat /\ m.kills[p] \in Int
    BY MatchFields
  <2>2. HoldTicks \in Nat \ {0}
    BY MatchSessionAssumption
  <2>. QED
    BY <2>1, <2>2 DEF Score
<1>2. ASSUME NEW p \in Player
      PROVE  1 + Cardinality(ahead(p)) \in Place
  <2>1. p \notin ahead(p)
    <3>1. score(p) \in Int
      BY <1>1
    <3>. HIDE DEF score
    <3>. QED
      BY <3>1
  <2>2. ahead(p) \in SUBSET Player /\ p \in Player \ ahead(p)
    BY <2>1
  <2>. HIDE DEF ahead
  <2>3. /\ Cardinality(ahead(p)) \in 0 .. Cardinality(Player)
        /\ Cardinality(ahead(p)) + 1 \in 1 .. Cardinality(Player)
    BY <2>2, Headcount
  <2>4. Cardinality(Player) \in Nat
    BY Headcount
  <2>. QED
    BY <2>3, <2>4 DEF Place
<1>3. PICK placement \in [Player -> Place \cup {None}] :
        placement = [p \in Player |-> 1 + Cardinality(ahead(p))]
  <2>. HIDE DEF ahead
  <2>. QED
    BY <1>2
<1>4. PICK winner \in Player \cup {None} : winner = OneOf(best)
  <2>1. best \in SUBSET Player /\ Player \in SUBSET Nat
    BY MatchSessionAssumption
  <2>. HIDE DEF best
  <2>. QED
    BY <2>1, LeaderIsOne
<1>5. PICK n : n = WithEnd(m, placement, m.held, winner, m.winnerTeam)
  OBVIOUS
<1>6. RankedByScore(m) = [m EXCEPT !.placement = placement, !.winner = winner]
  BY <1>3, <1>4 DEF RankedByScore, Behind, Leaders
<1>7. [RankedByScore(m) EXCEPT !.finish = m.tick] = n
  <2>. HIDE DEF score, ahead, best
  <2>. QED
    BY <1>5, <1>6 DEF Match, WithEnd
<1>8. Follows(m, n) /\ ~Undecided(n) /\ n.status = m.status
  BY <1>5, MatchFields, DecidedFollows
<1>. QED
  BY <1>7, <1>8

LEMMA RankedByKillsFollows ==
  ASSUME NEW m \in Match, Undecided(m)
  PROVE  LET n == [RankedByKills(m) EXCEPT !.finish = m.tick] IN
         Follows(m, n) /\ ~Undecided(n) /\ n.status = m.status
<1>. DEFINE kills(p) == m.kills[p]
            teamKills(t) == TeamKills(m, t)
            above(q, p) == kills(q) > kills(p) \/ (kills(q) = kills(p) /\ q < p)
            ahead(p) == {q \in m.alive : above(q, p)}
            ranks == [p \in m.alive |-> 1 + Cardinality(ahead(p))]
            teams == {TeamOf(p) : p \in Player}
            best == {p \in m.alive : \A q \in m.alive \ {p} : kills(q) < kills(p)}
            bestTeams == {t \in teams : \A u \in teams \ {t} : teamKills(u) < teamKills(t)}
<1>1. m.alive \in SUBSET Player /\ Player \in SUBSET Nat /\ m.kills \in [Player -> Int]
  BY MatchFields, MatchSessionAssumption
<1>2. ASSUME NEW p \in m.alive
      PROVE  1 + Cardinality(ahead(p)) \in Place
  <2>1. p \notin ahead(p)
    <3>1. p \in Nat /\ kills(p) \in Int
      BY <1>1
    <3>. QED
      BY <3>1
  <2>2. ahead(p) \in SUBSET Player /\ p \in Player \ ahead(p)
    BY <1>1, <2>1
  <2>. HIDE DEF ahead
  <2>3. /\ Cardinality(ahead(p)) \in 0 .. Cardinality(Player)
        /\ Cardinality(ahead(p)) + 1 \in 1 .. Cardinality(Player)
    BY <2>2, Headcount
  <2>4. Cardinality(Player) \in Nat
    BY Headcount
  <2>. QED
    BY <2>3, <2>4 DEF Place
<1>3. PICK placement \in [Player -> Place \cup {None}] : placement = Placed(m, ranks)
  <2>. HIDE DEF ahead
  <2>1. Placed(m, ranks) = [p \in Player |-> IF p \in m.alive THEN 1 + Cardinality(ahead(p))
                                            ELSE m.placement[p]]
    BY DEF Placed
  <2>2. \A p \in Player : m.placement[p] \in Place \cup {None}
    BY MatchFields
  <2>. QED
    BY <1>2, <2>1, <2>2
<1>4. PICK winner \in Player \cup {None} :
        winner = IF Cardinality(m.alive) = 1 \/ mode # "teams" THEN OneOf(best) ELSE None
  <2>1. best \in SUBSET Player /\ Player \in SUBSET Nat
    BY <1>1
  <2>. HIDE DEF best
  <2>. QED
    BY <2>1, LeaderIsOne
<1>5. PICK winnerTeam \in {0, 1, None} :
        winnerTeam = IF Cardinality(m.alive) > 1 /\ mode = "teams" THEN OneOf(bestTeams) ELSE None
  <2>1. CASE mode = "teams"
    <3>1. teams \in SUBSET {0, 1}
      BY <2>1, MatchSessionAssumption DEF TeamOf
    <3>2. bestTeams \in SUBSET {0, 1} /\ {0, 1} \in SUBSET Nat
      BY <3>1
    <3>. HIDE DEF bestTeams
    <3>3. OneOf(bestTeams) \in {0, 1} \cup {None}
      BY <3>2, LeaderIsOne
    <3>. QED
      BY <3>3
  <2>2. CASE mode # "teams"
    BY <2>2
  <2>. QED
    BY <2>1, <2>2
<1>6. PICK n : n = WithEnd(m, placement, m.held, winner, winnerTeam)
  OBVIOUS
<1>7. RankedByKills(m) = [m EXCEPT !.placement = placement, !.winner = winner, !.winnerTeam = winnerTeam]
  BY <1>3, <1>4, <1>5 DEF RankedByKills, Leaders
<1>8. [RankedByKills(m) EXCEPT !.finish = m.tick] = n
  <2>. HIDE DEF kills, teamKills, above, ahead, ranks, teams, best, bestTeams
  <2>. QED
    BY <1>6, <1>7 DEF Match, WithEnd
<1>9. Follows(m, n) /\ ~Undecided(n) /\ n.status = m.status
  BY <1>6, MatchFields, DecidedFollows
<1>. QED
  BY <1>8, <1>9

LEMMA TimeUpFollows ==
  ASSUME NEW m \in Match
  PROVE  /\ Follows(m, TimeUp(m)) /\ TimeUp(m).status = m.status
         /\ TimeUp(m) = m \/ (Undecided(m) /\ ~Undecided(TimeUp(m)))
<1>1. CASE ~Undecided(m) \/ m.tick < RoundTime
  BY <1>1, FollowsItself DEF TimeUp
<1>2. CASE Undecided(m) /\ ~(m.tick < RoundTime)
  <2>1. CASE mode \in {"deathmatch", "koth"}
    BY <1>2, <2>1, RankedByScoreFollows DEF TimeUp
  <2>2. CASE mode \notin {"deathmatch", "koth"}
    BY <1>2, <2>2, RankedByKillsFollows DEF TimeUp
  <2>. QED
    BY <2>1, <2>2
<1>. QED
  BY <1>1, <1>2

LEMMA WonFollows ==
  ASSUME NEW m \in Match
  PROVE  /\ Follows(m, Won(m)) /\ Won(m).status = m.status
         /\ Won(m) = m \/ (Undecided(m) /\ ~Undecided(Won(m)))
<1>. DEFINE reached == {p \in Player : m.kills[p] >= KillTarget}
            teams == {TeamOf(p) : p \in m.alive}
            first(S) == Placed(m, [p \in S |-> 1])
<1>1. m.alive \in SUBSET Player /\ Player \in SUBSET Nat
  BY MatchFields, MatchSessionAssumption
<1>2. ASSUME NEW S \in SUBSET Player
      PROVE  first(S) \in [Player -> Place \cup {None}]
  <2>1. first(S) = [p \in Player |-> IF p \in S THEN 1 ELSE m.placement[p]]
    BY DEF Placed
  <2>2. ASSUME NEW p \in S PROVE 1 \in Place
    <3>1. Cardinality({}) + 1 \in 1 .. Cardinality(Player) /\ Cardinality({}) = 0
      BY Headcount, FS_EmptySet
    <3>. QED
      BY <3>1 DEF Place
  <2>3. \A p \in Player : m.placement[p] \in Place \cup {None}
    BY MatchFields
  <2>. HIDE DEF first
  <2>. QED
    BY <2>1, <2>2, <2>3
<1>3. CASE ~Undecided(m)
  BY <1>3, FollowsItself DEF Won
<1>4. CASE Undecided(m) /\ mode = "deathmatch"
  <2>1. CASE reached = {}
    BY <1>4, <2>1, FollowsItself DEF Won
  <2>2. CASE reached # {}
    <3>1. reached \in SUBSET Player /\ reached \in SUBSET Nat
      BY <1>1
    <3>2. PICK w \in Player : w = Min(reached)
      <4>. HIDE DEF reached
      <4>. QED
        BY <2>2, <3>1, MinOfNaturals
    <3>3. PICK placement \in [Player -> Place \cup {None}] : placement = first({w})
      BY <1>2
    <3>4. PICK n : n = WithEnd(m, placement, m.held, w, m.winnerTeam)
      OBVIOUS
    <3>5. Won(m) = [m EXCEPT !.winner = w, !.placement = placement, !.finish = m.tick]
      BY <1>4, <2>2, <3>2, <3>3 DEF Won
    <3>6. Won(m) = n
      <4>. HIDE DEF first
      <4>. QED
        BY <3>4, <3>5 DEF Match, WithEnd
    <3>7. Follows(m, n) /\ n.status = m.status /\ ~Undecided(n)
      <4>1. m.held \in [Player -> Nat] /\ m.winnerTeam \in {0, 1, None} /\ w \in Player \cup {None}
        BY MatchFields
      <4>. HIDE DEF reached, teams, first
      <4>. QED
        BY <1>4, <3>4, <4>1, DecidedFollows
    <3>. QED
      BY <1>4, <3>6, <3>7
  <2>. QED
    BY <2>1, <2>2
<1>5. CASE Undecided(m) /\ mode = "teams"
  <2>1. CASE Cardinality(teams) > 1
    BY <1>5, <2>1, FollowsItself DEF Won
  <2>2. CASE ~(Cardinality(teams) > 1)
    <3>1. teams \in SUBSET {0, 1} /\ {0, 1} \in SUBSET Nat
      <4>1. \A p \in Player : TeamOf(p) \in {0, 1}
        BY <1>5, MatchSessionAssumption DEF TeamOf
      <4>2. \A t \in teams : t \in {0, 1}
        BY <1>1, <4>1
      <4>. HIDE DEF teams
      <4>. QED
        BY <4>2
    <3>2. PICK w \in {0, 1, None} : w = OneOf(teams)
      <4>. HIDE DEF teams
      <4>1. OneOf(teams) \in {0, 1} \cup {None}
        BY <3>1, LeaderIsOne
      <4>. QED
        BY <4>1
    <3>3. PICK placement \in [Player -> Place \cup {None}] : placement = first(m.alive)
      BY <1>1, <1>2
    <3>4. PICK n : n = WithEnd(m, placement, m.held, m.winner, w)
      OBVIOUS
    <3>5. Won(m) = [m EXCEPT !.winnerTeam = w, !.placement = placement, !.finish = m.tick]
      BY <1>5, <2>2, <3>2, <3>3 DEF Won
    <3>6. Won(m) = n
      <4>. HIDE DEF first
      <4>. QED
        BY <3>4, <3>5 DEF Match, WithEnd
    <3>7. Follows(m, n) /\ n.status = m.status /\ ~Undecided(n)
      BY <1>5, <3>4, MatchFields, DecidedFollows
    <3>. QED
      BY <1>5, <3>6, <3>7
  <2>. QED
    BY <2>1, <2>2
<1>6. CASE Undecided(m) /\ mode \notin {"deathmatch", "teams"}
  <2>1. CASE Cardinality(m.alive) > 1
    BY <1>6, <2>1, FollowsItself DEF Won
  <2>2. CASE ~(Cardinality(m.alive) > 1)
    <3>1. PICK w \in Player \cup {None} : w = OneOf(m.alive)
      BY <1>1, LeaderIsOne
    <3>2. PICK placement \in [Player -> Place \cup {None}] : placement = first(m.alive)
      BY <1>1, <1>2
    <3>3. PICK n : n = WithEnd(m, placement, m.held, w, m.winnerTeam)
      OBVIOUS
    <3>4. Won(m) = [m EXCEPT !.winner = w, !.placement = placement, !.finish = m.tick]
      BY <1>6, <2>2, <3>1, <3>2 DEF Won
    <3>5. Won(m) = n
      <4>. HIDE DEF first
      <4>. QED
        BY <3>3, <3>4 DEF Match, WithEnd
    <3>6. Follows(m, n) /\ n.status = m.status /\ ~Undecided(n)
      <4>1. m.held \in [Player -> Nat] /\ m.winnerTeam \in {0, 1, None}
        BY MatchFields
      <4>. HIDE DEF reached, teams, first
      <4>. QED
        BY <1>6, <3>3, <4>1, DecidedFollows
    <3>. QED
      BY <1>6, <3>5, <3>6
  <2>. QED
    BY <2>1, <2>2
<1>. QED
  BY <1>3, <1>4, <1>5, <1>6

\* The deaths that open a tick.
LEMMA BurialsFollow ==
  ASSUME NEW m \in Match, NEW b \in Burials(m)
  PROVE  /\ b = [dead |-> b.dead, after |-> b.after]
         /\ b.dead \in SUBSET m.alive
         /\ Follows(m, b.after) /\ b.after.status = m.status
         /\ b.after.alive = m.alive \ b.dead /\ b.after.finish = m.finish
         /\ Undecided(m) /\ Ranked(m) =>
              \A p \in b.dead, q \in Player \ m.alive : b.after.placement[p] < b.after.placement[q]
<1>1. PICK dead \in SUBSET Mortal(m) :
        \E places \in Places(m, dead), killer \in [dead -> Bomber \cup {None}] :
          b = [dead |-> dead, after |-> Died(m, dead, places, killer)]
  BY DEF Burials
<1>. PICK places \in Places(m, dead), killer \in [dead -> Bomber \cup {None}] :
       b = [dead |-> dead, after |-> Died(m, dead, places, killer)]
  BY <1>1
<1>2. dead \in SUBSET m.alive
  BY DEF Mortal
<1>3. b.dead = dead /\ b.after = Died(m, dead, places, killer) /\ b = [dead |-> b.dead, after |-> b.after]
  OBVIOUS
<1>. QED
  BY <1>2, <1>3, DiedFollows

\* A tick: who is placed at its end is placed as those are who died earlier.
LEMMA StepsFollow ==
  ASSUME NEW m \in Match, NEW n \in Steps(m)
  PROVE  /\ Follows(m, n)
         /\ n.status = m.status \/ (n.status = "finished" /\ ~Undecided(n))
         /\ (Undecided(m) => Undecided(n)) =>
              \A p, q \in m.alive \ n.alive : n.placement[p] = n.placement[q]
<1>1. CASE m.status # "playing"
  <2>1. Steps(m) = {m}
    BY <1>1, Zenon DEF Steps
  <2>. QED
    BY <2>1, FollowsItself
<1>2. PICK g : g = Begun(m)
  OBVIOUS
<1>3. g \in Match /\ Follows(m, g) /\ g.status = m.status
  BY <1>2, BegunFollows DEF Follows
<1>. g.alive = m.alive /\ g.finish = m.finish
  BY <1>2 DEF Begun, Match
<1>4. CASE m.status = "playing" /\ Shown(g)
  <2>1. n = [g EXCEPT !.status = "finished"]
    BY <1>2, <1>4 DEF Steps
  <2>2. n \in Match
    BY <1>3, <2>1 DEF Match
  <2>3. /\ n.finish = g.finish /\ n.winner = g.winner /\ n.winnerTeam = g.winnerTeam
        /\ n.alive = g.alive /\ n.placement = g.placement /\ n.status = "finished"
    BY <1>3, <2>1 DEF Match
  <2>4. Follows(g, n)
    BY <2>2, <2>3 DEF Follows, SameVerdict, Ranked, Undecided
  <2>5. ~Undecided(n) /\ n.alive = m.alive
    BY <1>4, <2>3 DEF Shown, Undecided
  <2>. QED
    BY <1>3, <2>3, <2>4, <2>5, FollowsOn
<1>5. CASE m.status = "playing" /\ ~Shown(g)
  <2>1. PICK b \in Burials(g) : \E h \in Hill(b.after) : n = Won(TimeUp(Shared(Respawned(h), b.dead)))
    <3>. DEFINE hold == UNION {{[b EXCEPT !.after = h] : h \in Hill(b.after)} : b \in Burials(g)}
                back == {[c EXCEPT !.after = Respawned(@)] : c \in hold}
                ranked == {Shared(c.after, c.dead) : c \in back}
    <3>1. n \in {Won(t) : t \in {TimeUp(r) : r \in ranked}}
      BY <1>2, <1>5, Zenon DEF Steps
    <3>2. PICK r \in ranked : n = Won(TimeUp(r))
      <4>. HIDE DEF ranked
      <4>. QED
        BY <3>1
    <3>3. PICK e \in back : r = Shared(e.after, e.dead)
      <4>. HIDE DEF back
      <4>. QED
        BY <3>2
    <3>4. PICK c \in hold : e = [c EXCEPT !.after = Respawned(c.after)]
      <4>. HIDE DEF hold
      <4>. QED
        BY <3>3
    <3>5. PICK b \in Burials(g) : \E h \in Hill(b.after) : c = [b EXCEPT !.after = h]
      BY <3>4
    <3>6. PICK h \in Hill(b.after) : c = [b EXCEPT !.after = h]
      BY <3>5
    <3>7. b = [dead |-> b.dead, after |-> b.after]
      BY <1>3, BurialsFollow
    <3>8. c.dead = b.dead /\ c.after = h /\ e.dead = b.dead /\ e.after = Respawned(h)
      BY <3>4, <3>6, <3>7
    <3>. QED
      BY <3>2, <3>3, <3>8
  <2>. PICK h \in Hill(b.after) : n = Won(TimeUp(Shared(Respawned(h), b.dead)))
    BY <2>1
  <2>2. /\ b.dead \in SUBSET g.alive /\ Follows(g, b.after) /\ b.after.status = g.status
        /\ b.after.alive = g.alive \ b.dead /\ b.after.finish = g.finish
        /\ Undecided(g) /\ Ranked(g) =>
             \A p \in b.dead, q \in Player \ g.alive : b.after.placement[p] < b.after.placement[q]
    BY <1>3, BurialsFollow
  <2>3. PICK d : d = b.after
    OBVIOUS
  <2>4. /\ Follows(d, h) /\ h.alive = d.alive /\ h.status = d.status
        /\ h.placement = d.placement \/ ~Undecided(h)
    BY <2>1, <2>2, <2>3, HillFollows DEF Follows
  <2>5. PICK r : r = Respawned(h)
    OBVIOUS
  <2>6. /\ Follows(h, r) /\ r.status = h.status /\ h.alive \subseteq r.alive
        /\ mode # "deathmatch" => r = h
    BY <2>4, <2>5, RespawnedFollows DEF Follows
  <2>7. PICK s : s = Shared(r, b.dead)
    OBVIOUS
  <2>8. /\ s \in Match /\ SameVerdict(r, s) /\ s.alive = r.alive /\ s.status = r.status
        /\ /\ Ranked(r)
           /\ Undecided(r) => /\ b.dead \cap r.alive = {}
                              /\ \A p \in b.dead, q \in Player \ (r.alive \cup b.dead) :
                                   r.placement[p] < r.placement[q]
           => Ranked(s)
    <3>1. r \in Match /\ b.dead \in SUBSET Player
      BY <1>3, <2>2, <2>6, MatchFields DEF Follows
    <3>. QED
      BY <2>7, <3>1, SharedKeeps
  <2>9. Follows(g, r)
    BY <2>2, <2>3, <2>4, <2>6, FollowsOn
  <2>10. ASSUME mode # "deathmatch", Ranked(g)
         PROVE  Ranked(s)
    <3>1. Ranked(r) /\ r = h
      BY <2>6, <2>9, <2>10 DEF Follows
    <3>2. ASSUME Undecided(r)
          PROVE  /\ b.dead \cap r.alive = {}
                 /\ \A p \in b.dead, q \in Player \ (r.alive \cup b.dead) : r.placement[p] < r.placement[q]
      <4>1. Undecided(g)
        BY <2>9, <3>2 DEF Follows, SameVerdict, Undecided
      <4>2. r.placement = d.placement /\ r.alive = g.alive \ b.dead
        BY <2>2, <2>3, <2>4, <3>1, <3>2
      <4>3. Player \ (r.alive \cup b.dead) = Player \ g.alive
        BY <2>2, <4>2
      <4>. QED
        BY <2>2, <2>3, <2>10, <4>1, <4>2, <4>3
    <3>. QED
      BY <2>8, <3>1, <3>2
  <2>11. Follows(g, s)
    BY <2>8, <2>9, <2>10 DEF Follows, SameVerdict, Undecided
  <2>12. /\ Follows(s, TimeUp(s)) /\ TimeUp(s).status = s.status
         /\ TimeUp(s) = s \/ (Undecided(s) /\ ~Undecided(TimeUp(s)))
    BY <2>8, TimeUpFollows
  <2>13. /\ Follows(TimeUp(s), n) /\ n.status = TimeUp(s).status
         /\ n = TimeUp(s) \/ (Undecided(TimeUp(s)) /\ ~Undecided(n))
    BY <2>5, <2>7, <2>12, WonFollows DEF Follows
  <2>14. Follows(m, n)
    BY <1>3, <2>11, <2>12, <2>13, FollowsOn
  <2>15. d.status = m.status
    BY <1>3, <2>2, <2>3
  <2>16. s.status = d.status
    BY <2>4, <2>6, <2>8
  <2>17. n.status = s.status
    BY <2>12, <2>13
  <2>18. ASSUME Undecided(m) => Undecided(n), NEW p \in m.alive \ n.alive, NEW q \in m.alive \ n.alive
         PROVE  n.placement[p] = n.placement[q]
    <3>1. n = s
      <4>1. Undecided(s) => Undecided(m)
        BY <2>11 DEF Follows, SameVerdict, Undecided
      <4>. QED
        BY <2>12, <2>13, <2>18, <4>1
    <3>2. b.dead \in SUBSET Player /\ p \in b.dead \ r.alive /\ q \in b.dead \ r.alive
      BY <1>3, <2>2, <2>3, <2>4, <2>6, <2>8, <2>18, <3>1, MatchFields
    <3>. QED
      BY <2>6, <2>7, <3>1, <3>2, SharedIsLevel DEF Follows
  <2>. QED
    BY <2>14, <2>15, <2>16, <2>17, <2>18
<1>. QED
  BY <1>1, <1>3, <1>4, <1>5

\* A tick that is broken off.
LEMMA PrefixesFollow ==
  ASSUME NEW m \in Match, NEW n \in Prefixes(m)
  PROVE  Follows(m, n) /\ n.status = m.status
<1>1. Begun(m) \in Match /\ Follows(m, Begun(m)) /\ Begun(m).status = m.status
  BY BegunFollows DEF Follows
<1>2. CASE n = Begun(m)
  BY <1>1, <1>2
<1>3. ASSUME NEW b \in Burials(Begun(m)), n = b.after
      PROVE  Follows(m, n) /\ n.status = m.status
  <2>1. Follows(Begun(m), b.after) /\ b.after.status = Begun(m).status
    BY <1>1, BurialsFollow
  <2>. QED
    BY <1>1, <1>3, <2>1, FollowsOn
<1>. QED
  BY <1>2, <1>3 DEF Prefixes

-----------------------------------------------------------------------------
(* What a step of the match may do *)

\* The match goes on, or is closed by the loop.
Continues ==
  /\ loop.state # "stopped" /\ loop'.state # "stopped"
  /\ Follows(match, match')
  /\ UNCHANGED record

Closes ==
  /\ loop.state # "stopped" /\ loop'.state = "stopped"
  /\ Follows(match, match')
  /\ record' = IF Human # {} /\ Human \subseteq departed' THEN "aborted" ELSE "finished"

Removes ==
  /\ loop.state # "stopped" /\ loop'.state = "stopped"
  /\ UNCHANGED <<match, departed, record>>

\* Who has departed has fallen, where there are no respawns.
DepartedFell == mode # "deathmatch" => departed \cap match.alive = {}

IInv ==
  /\ TypeOK
  /\ mode # "deathmatch" => Ranked(match)
  /\ DepartedFell
  /\ FastIsForBots

\* What is shown of each action.
Sound ==
  /\ TypeOK'
  /\ mode' = mode
  /\ Continues \/ Closes \/ Removes
  /\ DepartedFell /\ FastIsForBots => DepartedFell' /\ FastIsForBots'

LEMMA LoopFields ==
  ASSUME NEW l \in Loop
  PROVE  /\ l.state \in {"idle", "running", "stopped"} /\ l.countdown \in Nat
         /\ l.errors \in Nat /\ l.fast \in BOOLEAN
BY DEF Loop

LEMMA FailedLoop ==
  ASSUME NEW l \in Loop
  PROVE  /\ Failed(l) \in Loop /\ Failed(l).fast = l.fast
         /\ Failed(l).state \in {l.state, "stopped"}
<1>1. PICK e \in Nat : e = l.errors + 1
  BY LoopFields
<1>2. PICK s \in {l.state, "stopped"} : s = IF l.errors + 1 >= MaxErrors THEN "stopped" ELSE l.state
  OBVIOUS
<1>3. PICK n : n = [l EXCEPT !.errors = e, !.state = s]
  OBVIOUS
<1>4. Failed(l) = n
  BY <1>1, <1>2, <1>3 DEF Failed, Loop
<1>5. n \in Loop /\ n.fast = l.fast /\ n.state = s
  BY <1>2, <1>3 DEF Loop
<1>. QED
  BY <1>2, <1>4, <1>5

LEMMA FailedCounts ==
  ASSUME NEW l \in Loop
  PROVE  Failed(l).errors # 0
BY LoopFields DEF Failed, Loop

LEMMA CountedLoop ==
  ASSUME NEW l \in Loop, NEW left \in Nat
  PROVE  LET n == [l EXCEPT !.countdown = left] IN
         n \in Loop /\ n.fast = l.fast /\ n.state = l.state
BY DEF Loop

LEMMA PassedLoop ==
  ASSUME NEW l \in Loop
  PROVE  /\ Passed(l) \in Loop /\ Passed(l).fast = l.fast
         /\ Passed(l).state \in {l.state, "stopped"}
BY DEF Passed, Loop

\* The loop after a broadcast is fast only if no human is active.
LEMMA BroadcastingLoop ==
  ASSUME TypeOK
  PROVE  /\ Broadcasting \in Loop /\ Broadcasting.state = loop.state
         /\ Broadcasting.fast => loop.fast \/ ~HumanActive(match', departed')
<1>1. loop \in Loop /\ loop.fast \in BOOLEAN
  BY LoopFields DEF TypeOK
<1>2. PICK f \in BOOLEAN : f = IF Expired(match') = {} THEN loop.fast ELSE Speed(match', departed')
  BY <1>1 DEF Speed
<1>3. f => loop.fast \/ ~HumanActive(match', departed')
  BY <1>2 DEF Speed
<1>4. Broadcasting = [loop EXCEPT !.fast = f]
  BY <1>1, <1>2 DEF Broadcasting, Loop
<1>5. /\ [loop EXCEPT !.fast = f] \in Loop /\ [loop EXCEPT !.fast = f].fast = f
      /\ [loop EXCEPT !.fast = f].state = loop.state
  BY <1>1 DEF Loop
<1>. QED
  BY <1>3, <1>4, <1>5

LEMMA BroadcastKeeps ==
  ASSUME TypeOK, NEW m \in Match, Follows(match, m), Broadcast(m)
  PROVE  /\ Follows(match, match') /\ Follows(m, match')
         /\ grace' \in [Human -> Nat \cup {None}]
         /\ departed' \in SUBSET Human /\ departed \subseteq departed'
         /\ DepartedFell => (mode # "deathmatch" => departed' \cap match'.alive = {})
<1>. DEFINE expired == Expired(m)
            dead == expired \cap m.alive
<1>1. PICK places \in Places(m, dead) : match' = Killed(m, dead, places)
  BY DEF Broadcast
<1>2. departed' = departed \cup expired /\ grace' = [u \in Human |-> IF u \in expired THEN None ELSE grace[u]]
  BY DEF Broadcast
<1>3. expired \in SUBSET Human
  BY DEF Expired
<1>. HIDE DEF expired
<1>4. Follows(m, match') /\ match'.alive = m.alive \ dead
  <2>1. dead \in SUBSET m.alive
    OBVIOUS
  <2>. HIDE DEF dead
  <2>. QED
    BY <1>1, <2>1, KilledFollows
<1>5. Follows(match, match')
  BY <1>4, FollowsOn
<1>6. mode # "deathmatch" => m.alive \subseteq match.alive
  BY DEF Follows
<1>7. grace' \in [Human -> Nat \cup {None}] /\ departed' \in SUBSET Human /\ departed \subseteq departed'
  BY <1>2, <1>3 DEF TypeOK
<1>. QED
  BY <1>2, <1>4, <1>5, <1>6, <1>7 DEF DepartedFell

\* A tick ends in one of two ways.
LEMMA SettleIsSound ==
  ASSUME TypeOK, Due, Follows(match, match'),
         grace' \in [Human -> Nat \cup {None}], departed' \in SUBSET Human, departed \subseteq departed',
         DepartedFell => (mode # "deathmatch" => departed' \cap match'.alive = {}),
         NEW next \in Loop, next.state \in {"running", "stopped"},
         next.fast => loop.fast \/ ~HumanActive(match', departed'),
         Settle(next)
  PROVE  Sound
<1>1. loop.state = "running" /\ mode' = mode /\ link' = link /\ loop' = next
  BY DEF Due, Settle
<1>2. match' \in Match
  BY DEF Follows
<1>3. record' \in {"playing", "finished", "aborted"}
  BY DEF Settle, TypeOK
<1>4. TypeOK'
  BY <1>1, <1>2, <1>3 DEF TypeOK
<1>5. Continues \/ Closes
  BY <1>1 DEF Settle, Continues, Closes
<1>6. ASSUME DepartedFell, FastIsForBots
      PROVE  DepartedFell' /\ FastIsForBots'
  <2>1. DepartedFell'
    BY <1>1, <1>6 DEF DepartedFell
  <2>2. ASSUME next.fast, mode # "deathmatch"
        PROVE  Human \subseteq departed' \cup (Player \ match'.alive)
    <3>1. CASE loop.fast
      BY <1>6, <2>2, <3>1 DEF FastIsForBots, Follows
    <3>2. CASE ~HumanActive(match', departed')
      BY <3>2, MatchSessionAssumption DEF HumanActive
    <3>. QED
      BY <2>2, <3>1, <3>2
  <2>. QED
    BY <1>1, <2>1, <2>2 DEF FastIsForBots
<1>. QED
  BY <1>1, <1>4, <1>5, <1>6 DEF Sound

LEMMA CountdownTickIsSound ==
  ASSUME TypeOK, CountdownTick
  PROVE  Sound
<1>1. match \in Match /\ loop \in Loop /\ loop.state = "running" /\ Due
  BY DEF TypeOK, CountdownTick, Due
<1>2. PICK left \in Nat : left = loop.countdown - 1
  BY <1>1, LoopFields DEF CountdownTick
<1>3. PICK status \in {"countdown", "playing", "finished"} :
        status = IF left = 0 THEN "playing" ELSE match.status
  BY <1>1, MatchFields
<1>4. PICK waiting : waiting = [match EXCEPT !.status = status]
  OBVIOUS
<1>5. waiting = [match EXCEPT !.status = IF loop.countdown - 1 = 0 THEN "playing" ELSE @]
  BY <1>1, <1>2, <1>3, <1>4 DEF Match
<1>6. waiting \in Match
  BY <1>1, <1>4 DEF Match
<1>7. Follows(match, waiting)
  <2>1. /\ waiting.finish = match.finish /\ waiting.winner = match.winner
        /\ waiting.winnerTeam = match.winnerTeam
        /\ waiting.alive = match.alive /\ waiting.placement = match.placement
    BY <1>1, <1>4 DEF Match
  <2>. QED
    BY <1>6, <2>1 DEF Follows, SameVerdict, Ranked, Undecided
<1>8. CASE /\ Broadcast(waiting)
           /\ \E next \in {Broadcasting, Failed(Broadcasting)} : Settle([next EXCEPT !.countdown = left])
  <2>1. PICK next \in {Broadcasting, Failed(Broadcasting)} : Settle([next EXCEPT !.countdown = left])
    BY <1>8
  <2>2. /\ next \in Loop /\ next.state \in {"running", "stopped"}
        /\ next.fast => loop.fast \/ ~HumanActive(match', departed')
    BY <1>1, <2>1, BroadcastingLoop, FailedLoop
  <2>3. PICK n : n = [next EXCEPT !.countdown = left]
    OBVIOUS
  <2>4. n \in Loop /\ n.fast = next.fast /\ n.state = next.state
    BY <2>2, <2>3, CountedLoop
  <2>5. Settle(n)
    BY <2>1, <2>3
  <2>. QED
    BY <1>1, <1>6, <1>7, <1>8, <2>2, <2>4, <2>5, BroadcastKeeps, SettleIsSound
<1>9. CASE /\ match' = waiting
           /\ UNCHANGED <<grace, departed>>
           /\ Settle([Failed(loop) EXCEPT !.countdown = left])
  <2>1. PICK n : n = [Failed(loop) EXCEPT !.countdown = left]
    OBVIOUS
  <2>2. n \in Loop /\ n.fast = loop.fast /\ n.state \in {"running", "stopped"}
    BY <1>1, <2>1, FailedLoop, CountedLoop
  <2>3. Settle(n)
    BY <1>9, <2>1
  <2>4. /\ grace' \in [Human -> Nat \cup {None}] /\ departed' \in SUBSET Human /\ departed \subseteq departed'
        /\ DepartedFell => (mode # "deathmatch" => departed' \cap match'.alive = {})
    BY <1>7, <1>9 DEF TypeOK, DepartedFell, Follows
  <2>. QED
    BY <1>1, <1>7, <1>9, <2>2, <2>3, <2>4, SettleIsSound
<1>. QED
  <2>1. \/ /\ Broadcast(waiting)
           /\ \E next \in {Broadcasting, Failed(Broadcasting)} : Settle([next EXCEPT !.countdown = left])
        \/ /\ match' = waiting
           /\ UNCHANGED <<grace, departed>>
           /\ Settle([Failed(loop) EXCEPT !.countdown = left])
    BY <1>2, <1>5, Zenon DEF CountdownTick
  <2>. QED
    BY <1>8, <1>9, <2>1

LEMMA PlayTickIsSound ==
  ASSUME TypeOK, PlayTick
  PROVE  Sound
<1>1. match \in Match /\ loop \in Loop /\ loop.state = "running" /\ Due
  BY DEF TypeOK, PlayTick, Due
<1>2. PICK m \in Steps(match) : Broadcast(m)
  BY DEF PlayTick
<1>3. Follows(match, m) /\ m \in Match
  BY <1>1, StepsFollow DEF Follows
<1>4. PICK n : n = Passed(Broadcasting)
  OBVIOUS
<1>5. /\ n \in Loop /\ n.state \in {"running", "stopped"}
      /\ n.fast => loop.fast \/ ~HumanActive(match', departed')
  BY <1>1, <1>4, BroadcastingLoop, PassedLoop
<1>6. Settle(n)
  BY <1>4 DEF PlayTick
<1>. QED
  BY <1>1, <1>2, <1>3, <1>5, <1>6, BroadcastKeeps, SettleIsSound

LEMMA FailedTickIsSound ==
  ASSUME TypeOK, FailedTick
  PROVE  Sound
<1>1. match \in Match /\ loop \in Loop /\ loop.state = "running" /\ Due
  BY DEF TypeOK, FailedTick, Due
<1>2. Follows(match, match')
  BY <1>1, StepsFollow, PrefixesFollow DEF FailedTick
<1>3. PICK n : n = Failed(loop)
  OBVIOUS
<1>4. n \in Loop /\ n.fast = loop.fast /\ n.state \in {"running", "stopped"}
  BY <1>1, <1>3, FailedLoop
<1>5. Settle(n)
  BY <1>3 DEF FailedTick
<1>6. /\ grace' \in [Human -> Nat \cup {None}] /\ departed' \in SUBSET Human /\ departed \subseteq departed'
      /\ DepartedFell => (mode # "deathmatch" => departed' \cap match'.alive = {})
  BY <1>2 DEF TypeOK, DepartedFell, Follows, FailedTick
<1>. QED
  BY <1>1, <1>2, <1>4, <1>5, <1>6, SettleIsSound

LEMMA FailedBroadcastIsSound ==
  ASSUME TypeOK, FailedBroadcast
  PROVE  Sound
<1>1. match \in Match /\ loop \in Loop /\ loop.state = "running" /\ Due
  BY DEF TypeOK, FailedBroadcast, Due
<1>2. PICK m \in Steps(match) : Broadcast(m)
  BY DEF FailedBroadcast
<1>3. Follows(match, m) /\ m \in Match
  BY <1>1, StepsFollow DEF Follows
<1>4. PICK n : n = Failed(Broadcasting)
  OBVIOUS
<1>5. /\ n \in Loop /\ n.state \in {"running", "stopped"}
      /\ n.fast => loop.fast \/ ~HumanActive(match', departed')
  BY <1>1, <1>4, BroadcastingLoop, FailedLoop
<1>6. Settle(n)
  BY <1>4 DEF FailedBroadcast
<1>. QED
  BY <1>1, <1>2, <1>3, <1>5, <1>6, BroadcastKeeps, SettleIsSound

LEMMA StartIsSound ==
  ASSUME TypeOK, Start
  PROVE  Sound
<1>1. match \in Match /\ loop \in Loop /\ Follows(match, match)
  BY FollowsItself DEF TypeOK
<1>2. loop'.state = "running" /\ loop' \in Loop /\ loop'.fast = loop.fast
  BY <1>1 DEF Start, Loop
<1>3. UNCHANGED <<mode, match, grace, departed, link, record>> /\ loop.state = "idle"
  BY DEF Start, roomVars
<1>4. TypeOK'
  BY <1>2, <1>3 DEF TypeOK
<1>5. Continues
  BY <1>1, <1>2, <1>3 DEF Continues
<1>. QED
  BY <1>2, <1>3, <1>4, <1>5 DEF Sound, DepartedFell, FastIsForBots

LEMMA StopIsSound ==
  ASSUME TypeOK, Stop
  PROVE  Sound
<1>1. loop \in Loop
  BY DEF TypeOK
<1>2. loop'.state = "stopped" /\ loop' \in Loop /\ loop'.fast = loop.fast
  BY <1>1 DEF Stop, Loop
<1>3. UNCHANGED <<mode, match, grace, departed, link, record>> /\ loop.state = "running"
  BY DEF Stop, roomVars
<1>4. TypeOK'
  BY <1>2, <1>3 DEF TypeOK
<1>5. Removes
  BY <1>2, <1>3 DEF Removes
<1>. QED
  BY <1>2, <1>3, <1>4, <1>5 DEF Sound, DepartedFell, FastIsForBots

LEMMA DropKeeps ==
  ASSUME TypeOK, NEW u \in Human, Drop(u)
  PROVE  grace' \in [Human -> Nat \cup {None}]
BY MatchFields DEF TypeOK, Drop

LEMMA DisconnectIsSound ==
  ASSUME TypeOK, loop.state # "stopped", NEW u \in Human, Disconnect(u) \/ MoveOn(u)
  PROVE  Sound
<1>1. UNCHANGED <<mode, match, loop, departed, record>>
  BY DEF Disconnect, MoveOn
<1>2. grace' \in [Human -> Nat \cup {None}]
  BY DropKeeps DEF Disconnect, MoveOn, TypeOK
<1>3. link' \in [Human -> {"tied", "dropped", "gone"}]
  BY DEF Disconnect, MoveOn, TypeOK
<1>4. TypeOK'
  BY <1>1, <1>2, <1>3 DEF TypeOK
<1>5. Continues
  BY <1>1, FollowsItself DEF Continues, TypeOK
<1>. QED
  BY <1>1, <1>4, <1>5 DEF Sound, DepartedFell, FastIsForBots

\* Who comes back alive has not departed, and who comes back dead does not
\* play.
LEMMA ReconnectIsSound ==
  ASSUME TypeOK, NEW u \in Human, Reconnect(u)
  PROVE  Sound
<1>1. UNCHANGED <<mode, match, loop, record>> /\ loop.state = "running" /\ departed' = departed \ {u}
  BY DEF Reconnect
<1>2. grace' \in [Human -> Nat \cup {None}] /\ link' \in [Human -> {"tied", "dropped", "gone"}]
  BY DEF Reconnect, TypeOK
<1>3. TypeOK'
  BY <1>1, <1>2 DEF TypeOK
<1>4. Continues
  BY <1>1, FollowsItself DEF Continues, TypeOK
<1>5. ASSUME DepartedFell, FastIsForBots
      PROVE  DepartedFell' /\ FastIsForBots'
  <2>1. DepartedFell'
    BY <1>1, <1>5 DEF DepartedFell
  <2>2. ASSUME loop.fast, mode # "deathmatch"
        PROVE  Human \subseteq departed' \cup (Player \ match.alive)
    <3>1. Human \subseteq departed \cup (Player \ match.alive) /\ departed \cap match.alive = {}
      BY <1>5, <2>2 DEF FastIsForBots, DepartedFell
    <3>. QED
      BY <1>1, <3>1, MatchSessionAssumption
  <2>. QED
    BY <1>1, <2>1, <2>2 DEF FastIsForBots
<1>. QED
  BY <1>1, <1>3, <1>4, <1>5 DEF Sound

LEMMA LeaveIsSound ==
  ASSUME TypeOK, loop.state # "stopped", NEW u \in Human, Leave(u)
  PROVE  Sound
<1>. DEFINE dead == {u} \cap match.alive
<1>1. match \in Match /\ loop \in Loop /\ UNCHANGED <<mode, record>> /\ departed' = departed \cup {u}
  BY DEF Leave, TypeOK
<1>2. PICK places \in Places(match, dead) : match' = Killed(match, dead, places)
  BY DEF Leave
<1>3. Follows(match, match') /\ match'.alive = match.alive \ dead
  <2>1. dead \in SUBSET match.alive
    OBVIOUS
  <2>. HIDE DEF dead
  <2>. QED
    BY <1>1, <1>2, <2>1, KilledFollows
<1>4. PICK f \in BOOLEAN : f = IF loop.state = "running" THEN Speed(match', departed') ELSE loop.fast
  BY <1>1, LoopFields DEF Speed
<1>5. loop' = [loop EXCEPT !.fast = f]
  BY <1>1, <1>4 DEF Leave, Loop
<1>6. loop' \in Loop /\ loop'.state = loop.state /\ loop'.fast = f
  BY <1>1, <1>5 DEF Loop
<1>7. /\ departed' \in SUBSET Human
      /\ grace' \in [Human -> Nat \cup {None}] /\ link' \in [Human -> {"tied", "dropped", "gone"}]
  BY <1>1 DEF Leave, TypeOK
<1>8. TypeOK'
  BY <1>1, <1>3, <1>6, <1>7 DEF TypeOK, Follows
<1>9. Continues
  BY <1>1, <1>3, <1>6 DEF Continues
<1>10. ASSUME DepartedFell, FastIsForBots
       PROVE  DepartedFell' /\ FastIsForBots'
  <2>1. DepartedFell'
    BY <1>1, <1>3, <1>10 DEF DepartedFell
  <2>2. ASSUME f, mode # "deathmatch"
        PROVE  Human \subseteq departed' \cup (Player \ match'.alive)
    <3>1. CASE loop.fast
      <4>1. Human \subseteq departed \cup (Player \ match.alive)
        BY <1>10, <2>2, <3>1 DEF FastIsForBots
      <4>. QED
        BY <1>1, <1>3, <4>1
    <3>2. CASE ~loop.fast
      <4>1. ~HumanActive(match', departed')
        BY <1>4, <2>2, <3>2 DEF Speed
      <4>. QED
        BY <4>1, MatchSessionAssumption DEF HumanActive
    <3>. QED
      BY <3>1, <3>2
  <2>. QED
    BY <1>1, <1>6, <2>1, <2>2 DEF FastIsForBots
<1>. QED
  BY <1>1, <1>8, <1>9, <1>10 DEF Sound

LEMMA NextIsSound ==
  ASSUME TypeOK, Next
  PROVE  Sound
<1>1. CASE Start
  BY <1>1, StartIsSound
<1>2. CASE Tick
  BY <1>2, CountdownTickIsSound, PlayTickIsSound, FailedTickIsSound, FailedBroadcastIsSound DEF Tick
<1>3. CASE Stop
  BY <1>3, StopIsSound
<1>4. ASSUME loop.state # "stopped", NEW u \in Human, Disconnect(u) \/ Reconnect(u) \/ MoveOn(u) \/ Leave(u)
      PROVE  Sound
  BY <1>4, DisconnectIsSound, ReconnectIsSound, LeaveIsSound
<1>. QED
  BY <1>1, <1>2, <1>3, <1>4 DEF Next

-----------------------------------------------------------------------------
(* Theorems *)

LEMMA InitIsSound == Init => IInv
<1>. SUFFICES ASSUME Init PROVE IInv
  OBVIOUS
<1>1. match \in Match
  BY MatchSessionAssumption DEF Init, Match
<1>2. loop \in Loop /\ ~loop.fast
  BY MatchSessionAssumption DEF Init, Loop
<1>3. TypeOK
  BY <1>1, <1>2 DEF Init, TypeOK
<1>4. match.alive = Player /\ departed = {}
  BY DEF Init
<1>5. Ranked(match)
  BY <1>4 DEF Ranked, InOrder
<1>. QED
  BY <1>2, <1>3, <1>4, <1>5 DEF IInv, DepartedFell, FastIsForBots

LEMMA NextKeepsIInv == IInv /\ [Next]_vars => IInv'
<1>. SUFFICES ASSUME IInv, [Next]_vars PROVE IInv'
  OBVIOUS
<1>1. CASE Next
  <2>1. Sound
    BY <1>1, NextIsSound DEF IInv
  <2>2. mode # "deathmatch" => Ranked(match)'
    BY <2>1 DEF IInv, Sound, Continues, Closes, Removes, Follows, Ranked, Undecided
  <2>. QED
    BY <2>1, <2>2 DEF IInv, Sound
<1>2. CASE UNCHANGED vars
  BY <1>2 DEF IInv, vars, roomVars, TypeOK, DepartedFell, FastIsForBots, Ranked, Undecided
<1>. QED
  BY <1>1, <1>2

LEMMA IInvHolds == Spec => []IInv
<1>. QED
  BY InitIsSound, NextKeepsIInv, PTL DEF Spec

\* Every part of the state keeps its type, in any match: a placement is a
\* number from 1 to the number of players, whatever happens in what order.
THEOREM TypeCorrect == Spec => []TypeOK
<1>1. IInv => TypeOK
  BY DEF IInv
<1>. QED
  BY <1>1, IInvHolds, PTL

\* Only the rules count ticks: a broadcast, a leave and a drop do not.
LEMMA KilledIsPlaced ==
  ASSUME NEW m \in Match, NEW dead \in SUBSET m.alive, NEW places \in Places(m, dead)
  PROVE  LET n == Killed(m, dead, places) IN
         /\ n.tick = m.tick /\ n.alive = m.alive \ dead
         /\ \A p \in Player \ dead : n.placement[p] = m.placement[p]
<1>1. PICK to : to = Placed(m, places)
  OBVIOUS
<1>2. PICK n : n = [m EXCEPT !.alive = m.alive \ dead, !.placement = to]
  OBVIOUS
<1>3. Killed(m, dead, places) = n
  BY <1>1, <1>2 DEF Killed, Match
<1>4. DOMAIN places = dead
  BY DEF Places, Bijection, Injection
<1>5. n.tick = m.tick /\ n.alive = m.alive \ dead /\ n.placement = to
  BY <1>2 DEF Match
<1>6. \A p \in Player \ dead : to[p] = m.placement[p]
  BY <1>1, <1>4 DEF Placed
<1>. QED
  BY <1>3, <1>5, <1>6

LEMMA BroadcastIsPlaced ==
  ASSUME TypeOK, NEW m \in Match, Broadcast(m)
  PROVE  /\ match'.tick = m.tick /\ m.alive \ match'.alive \subseteq GraceEnds
         /\ \A p \in Player \ GraceEnds : match'.placement[p] = m.placement[p]
         /\ Undecided(match') <=> Undecided(m)
<1>. DEFINE expired == Expired(m)
            dead == expired \cap m.alive
<1>1. PICK places \in Places(m, dead) : match' = Killed(m, dead, places)
  BY DEF Broadcast
<1>2. dead \subseteq GraceEnds
  BY DEF Broadcast, Expired, GraceEnds
<1>3. dead \in SUBSET m.alive
  OBVIOUS
<1>. HIDE DEF dead
<1>. QED
  BY <1>1, <1>2, <1>3, KilledIsPlaced, KilledFollows DEF Undecided

\* Who dies in a tick that comes to its end is level, if it decides nothing.
Level ==
  match'.tick # match.tick /\ loop'.errors = 0 /\ (Undecided(match) => Undecided(match'))
  => \A p, q \in (match.alive \ match'.alive) \ GraceEnds :
       match'.placement[p] = match'.placement[q]

LEMMA PlayTickIsLevel ==
  ASSUME TypeOK, PlayTick
  PROVE  Level
<1>. SUFFICES ASSUME Undecided(match) => Undecided(match'),
                     NEW p \in (match.alive \ match'.alive) \ GraceEnds,
                     NEW q \in (match.alive \ match'.alive) \ GraceEnds
              PROVE  match'.placement[p] = match'.placement[q]
  BY DEF Level
<1>1. match \in Match
  BY DEF TypeOK
<1>2. PICK m \in Steps(match) : Broadcast(m)
  BY DEF PlayTick
<1>3. /\ m \in Match
      /\ (Undecided(match) => Undecided(m)) =>
           \A r, s \in match.alive \ m.alive : m.placement[r] = m.placement[s]
  BY <1>1, StepsFollow DEF Follows
<1>4. /\ m.alive \ match'.alive \subseteq GraceEnds
      /\ \A r \in Player \ GraceEnds : match'.placement[r] = m.placement[r]
      /\ Undecided(match') <=> Undecided(m)
  BY <1>2, <1>3, BroadcastIsPlaced
<1>5. p \in match.alive \ m.alive /\ q \in match.alive \ m.alive /\ p \in Player /\ q \in Player
  BY <1>1, <1>4, MatchFields
<1>. QED
  BY <1>3, <1>4, <1>5

LEMMA OtherStepsAreLevel ==
  ASSUME TypeOK, [Next]_vars, ~PlayTick
  PROVE  Level
<1>. loop \in Loop /\ match \in Match
  BY DEF TypeOK
<1>1. CASE CountdownTick
  <2>1. PICK waiting : waiting = [match EXCEPT !.status = IF loop.countdown - 1 = 0 THEN "playing" ELSE @]
    OBVIOUS
  <2>2. waiting.tick = match.tick /\ waiting \in Match
    BY <2>1 DEF Match
  <2>3. Broadcast(waiting) \/ match' = waiting
    BY <1>1, <2>1, Zenon DEF CountdownTick
  <2>. QED
    BY <2>2, <2>3, BroadcastIsPlaced DEF Level
<1>2. CASE FailedTick
  BY <1>2, FailedCounts DEF FailedTick, Settle, Level
<1>3. CASE FailedBroadcast
  <2>1. loop' = Failed(Broadcasting)
    BY <1>3 DEF FailedBroadcast, Settle
  <2>. QED
    BY <2>1, BroadcastingLoop, FailedCounts DEF Level
<1>4. CASE Start \/ Stop \/ UNCHANGED vars
  BY <1>4 DEF Start, Stop, vars, Level
<1>5. ASSUME NEW u \in Human, Disconnect(u) \/ Reconnect(u) \/ MoveOn(u)
      PROVE  Level
  BY <1>5 DEF Disconnect, Reconnect, MoveOn, Level
<1>6. ASSUME NEW u \in Human, Leave(u)
      PROVE  Level
  <2>. DEFINE dead == {u} \cap match.alive
  <2>1. PICK places \in Places(match, dead) : match' = Killed(match, dead, places)
    BY <1>6 DEF Leave
  <2>2. dead \in SUBSET match.alive
    OBVIOUS
  <2>. HIDE DEF dead
  <2>3. match'.tick = match.tick
    BY <2>1, <2>2, KilledIsPlaced
  <2>. QED
    BY <2>3 DEF Level
<1>. QED
  BY <1>1, <1>2, <1>3, <1>4, <1>5, <1>6 DEF Next, Tick

\* Whatever the players, the mode and the order of the steps: the fallen of a
\* round without respawns are a competition ranking, by whatever bombs,
\* departures, expired grace periods and broken ticks they fell, and in every
\* mode who falls in one tick is level, if it does not throw or decide.
THEOREM TheFallenAreRanked == Spec => FallenAreRanked
<1>1. IInv => (mode # "deathmatch" /\ Undecided(match) => Ranks(match))
  BY DEF IInv, Ranks, Ranked, InOrder
<1>2. IInv /\ [Next]_vars => [Level]_vars
  BY PlayTickIsLevel, OtherStepsAreLevel DEF IInv
<1>. QED
  BY <1>1, <1>2, IInvHolds, PTL DEF Spec, FallenAreRanked, Level

\* Without respawns a match is sped up only when no human plays in it.
THEOREM SpeedIsForBots == Spec => []FastIsForBots
<1>1. IInv => FastIsForBots
  BY DEF IInv
<1>. QED
  BY <1>1, IInvHolds, PTL

\* Each step of a match is a step of the promise, or none of its business.
LEMMA NextKeepsPromise ==
  ASSUME IInv, IInv', [Next]_vars
  PROVE  [Promise!Next]_Promise!vars
<1>1. CASE UNCHANGED vars
  BY <1>1 DEF vars, roomVars, Promise!vars, Undecided
<1>2. CASE Next
  <2>1. Continues \/ Closes \/ Removes
    BY <1>2, NextIsSound DEF IInv, Sound
  <2>2. departed' \in SUBSET Human
    BY DEF IInv, TypeOK
  <2>3. <<match'.winner, match'.winnerTeam>> \in (Player \cup {None}) \X {0, 1, None}
    BY MatchFields DEF IInv, TypeOK
  <2>4. CASE Continues
    <3>1. CASE SameVerdict(match, match')
      <4>1. Promise!Move
        BY <2>2, <2>4, <3>1 DEF Continues, SameVerdict, Undecided, Promise!Move
      <4>. QED
        BY <4>1 DEF Promise!Next
    <3>2. CASE Undecided(match) /\ ~Undecided(match')
      <4>1. Promise!Decide
        BY <2>2, <2>3, <2>4, <3>2 DEF Continues, Undecided, Promise!Decide
      <4>. QED
        BY <4>1 DEF Promise!Next
    <3>. QED
      BY <2>4, <3>1, <3>2 DEF Continues, Follows
  <2>5. CASE Closes
    <3>1. Human \subseteq departed' <=> departed' = Human
      BY <2>2
    <3>2. Promise!Close
      BY <2>2, <2>3, <2>5, <3>1 DEF Closes, Follows, SameVerdict, Undecided, Promise!Close
    <3>. QED
      BY <3>2 DEF Promise!Next
  <2>6. CASE Removes
    <3>1. Promise!Remove
      BY <2>6 DEF Removes, Promise!Remove, Undecided
    <3>. QED
      BY <3>1 DEF Promise!Next
  <2>. QED
    BY <2>1, <2>4, <2>5, <2>6
<1>. QED
  BY <1>1, <1>2

\* A match of any players, in any mode, keeps what MatchPromise promises: the
\* verdict is given once and stands, the match is closed once, and it counts
\* unless every human has departed by then.
THEOREM TheMatchKeepsItsPromise == Spec => KeepsPromise
<1>1. Init => Promise!Init
  BY DEF Init, Promise!Init, Undecided
<1>2. IInv /\ IInv' /\ [Next]_vars => [Promise!Next]_Promise!vars
  BY NextKeepsPromise
<1>. QED
  BY <1>1, <1>2, IInvHolds, PTL DEF Spec, KeepsPromise, Promise!Spec

-----------------------------------------------------------------------------
(* Batches of simulated matches                                            *)

\* SimulationQueue plays matches one after another: its theorems follow those
\* about a match.
KnownRunning == Running(run) \cap Range(runners)

Alone == \A b, c \in KnownRunning : b = c

\* A scan that will be kept knows what it has not read of those that have
\* ended.
ScanKnowsEnds ==
  scan # Nothing /\ scan.fresh =>
    \A b \in Batch : disk[b] = "summary" => scan.found[b] = "summary" \/ b \in scan.unread

\* The cached index that deletions hold is there, and as good.
HeldIsCached ==
  held # {} =>
    /\ index \in [Batch -> OnDisk]
    /\ \A b \in Batch : disk[b] = "summary" => index[b] = "summary" \/ b \in misread

QueueInv == Alone /\ QueueIsServed

FileInv == IndexKnowsEnds /\ ScanKnowsEnds /\ HeldIsCached

SimInv == SimTypeOK /\ QueueInv /\ FileInv

\* The queue and the known runners, longer or shorter by one batch.
LEMMA BatchSequences ==
  ASSUME NEW s \in Seq(Batch), NEW b \in Batch
  PROVE  /\ Append(s, b) \in Seq(Batch) /\ Range(Append(s, b)) = Range(s) \cup {b}
         /\ Without(s, b) \in Seq(Batch) /\ Range(Without(s, b)) \subseteq Range(s)
         /\ s = <<>> => Without(s, b) = <<>>
         /\ s # <<>> => Head(s) \in Batch /\ Tail(s) \in Seq(Batch)
<1>1. Append(s, b) \in Seq(Batch) /\ Range(Append(s, b)) = Range(s) \cup {b}
  <2>1. Append(s, b) \in Seq(Batch) /\ Len(Append(s, b)) = Len(s) + 1
    OBVIOUS
  <2>2. \A i \in 1 .. Len(s) + 1 : Append(s, b)[i] = IF i = Len(s) + 1 THEN b ELSE s[i]
    OBVIOUS
  <2>3. DOMAIN s = 1 .. Len(s) /\ DOMAIN Append(s, b) = 1 .. Len(s) + 1 /\ Len(s) \in Nat
    BY <2>1
  <2>. QED
    BY <2>1, <2>2, <2>3 DEF Range
<1>2. CASE b \in Range(s)
  <2>. DEFINE i == CHOOSE i \in DOMAIN s : s[i] = b
  <2>1. i \in 1 .. Len(s) /\ Len(s) \in Nat
    BY <1>2 DEF Range
  <2>2. Without(s, b) = SubSeq(s, 1, i - 1) \o SubSeq(s, i + 1, Len(s))
    BY <1>2 DEF Without
  <2>. HIDE DEF i
  <2>3. SubSeq(s, 1, i - 1) \in Seq(Batch) /\ Len(SubSeq(s, 1, i - 1)) = i - 1
        /\ \A j \in 1 .. i - 1 : SubSeq(s, 1, i - 1)[j] = s[j]
    BY <2>1
  <2>4. SubSeq(s, i + 1, Len(s)) \in Seq(Batch) /\ Len(SubSeq(s, i + 1, Len(s))) = Len(s) - i
        /\ \A j \in 1 .. Len(s) - i : SubSeq(s, i + 1, Len(s))[j] = s[j + i]
    BY <2>1
  <2>5. Without(s, b) \in Seq(Batch)
    BY <2>2, <2>3, <2>4
  <2>. DEFINE u == SubSeq(s, 1, i - 1)
              v == SubSeq(s, i + 1, Len(s))
  <2>. HIDE DEF u, v
  <2>6. /\ u \in Seq(Batch) /\ v \in Seq(Batch) /\ Len(u) = i - 1 /\ Len(v) = Len(s) - i
        /\ \A j \in 1 .. i - 1 : u[j] = s[j]
        /\ \A j \in 1 .. Len(s) - i : v[j] = s[j + i]
    BY <2>3, <2>4 DEF u, v
  <2>8. /\ Len(u \o v) = Len(s) - 1 /\ DOMAIN (u \o v) = 1 .. Len(s) - 1
        /\ \A j \in 1 .. Len(s) - 1 : (u \o v)[j] = IF j <= i - 1 THEN u[j] ELSE v[j - (i - 1)]
    <3>1. u \o v \in Seq(Batch) /\ Len(u \o v) = Len(s) - 1
      <4>1. u \o v \in Seq(Batch) /\ Len(u \o v) = Len(u) + Len(v)
        BY <2>6, ConcatProperties
      <4>. QED
        BY <2>1, <2>6, <4>1
    <3>2. \A j \in 1 .. Len(u) + Len(v) : (u \o v)[j] = IF j <= Len(u) THEN u[j] ELSE v[j - Len(u)]
      BY <2>6, ConcatProperties
    <3>3. DOMAIN (u \o v) = 1 .. Len(s) - 1
      BY <3>1
    <3>4. Len(u) = i - 1 /\ Len(u) + Len(v) = Len(s) - 1
      BY <2>1, <2>6
    <3>. QED
      BY <3>1, <3>2, <3>3, <3>4
  <2>9. \A j \in 1 .. Len(s) - 1 : (u \o v)[j] = IF j <= i - 1 THEN s[j] ELSE s[j + 1]
    <3>. SUFFICES ASSUME NEW j \in 1 .. Len(s) - 1
                  PROVE  (u \o v)[j] = IF j <= i - 1 THEN s[j] ELSE s[j + 1]
      OBVIOUS
    <3>1. (u \o v)[j] = IF j <= i - 1 THEN u[j] ELSE v[j - (i - 1)]
      BY <2>8
    <3>2. CASE j <= i - 1
      BY <2>1, <2>6, <3>1, <3>2
    <3>3. CASE ~(j <= i - 1)
      <4>1. j - (i - 1) \in 1 .. Len(s) - i /\ j - (i - 1) + i = j + 1
        BY <2>1, <3>3
      <4>2. v[j - (i - 1)] = s[j - (i - 1) + i]
        BY <2>6, <4>1
      <4>. QED
        BY <3>1, <3>3, <4>1, <4>2
    <3>. QED
      BY <3>2, <3>3
  <2>10. \A j \in DOMAIN (u \o v) : \E k \in DOMAIN s : (u \o v)[j] = s[k]
    <3>1. DOMAIN s = 1 .. Len(s)
      OBVIOUS
    <3>2. ASSUME NEW j \in 1 .. Len(s) - 1
          PROVE  \E k \in 1 .. Len(s) : (u \o v)[j] = s[k]
      <4>1. (u \o v)[j] = s[j] \/ (u \o v)[j] = s[j + 1]
        BY <2>9
      <4>2. j \in 1 .. Len(s) /\ j + 1 \in 1 .. Len(s)
        BY <2>1
      <4>. QED
        BY <4>1, <4>2
    <3>. QED
      BY <2>8, <3>1, <3>2
  <2>11. \A j \in DOMAIN Without(s, b) : \E k \in DOMAIN s : Without(s, b)[j] = s[k]
    BY <2>2, <2>10 DEF u, v
  <2>7. s # <<>>
    BY <1>2 DEF Range
  <2>12. Range(Without(s, b)) \subseteq Range(s)
    BY <2>11 DEF Range
  <2>13. /\ s = <<>> => Without(s, b) = <<>>
         /\ s # <<>> => Head(s) \in Batch /\ Tail(s) \in Seq(Batch)
    BY <2>7
  <2>. QED
    BY <1>1, <2>5, <2>12, <2>13
<1>3. CASE b \notin Range(s)
  BY <1>1, <1>3 DEF Without
<1>. QED
  BY <1>1, <1>2, <1>3

\* A batch that is not at a game.
LEMMA IdleRuns ==
  \A x \in {"new", "queued", "over"} : Idle(x) \in Run /\ Idle(x).at = x
BY SimulationAssumption DEF Idle, Run

\* Where nothing that is known runs, one more does.
LEMMA LaunchIsAlone ==
  ASSUME SimTypeOK, NEW b \in Batch, NEW r \in [Batch -> Run], NEW dk \in [Batch -> OnDisk],
         Running(r) \subseteq Running(run), ~Active(runners, r), Launched(b, r, dk)
  PROVE  /\ runners' \in Seq(Batch) /\ run' \in [Batch -> Run] /\ disk' \in [Batch -> OnDisk]
         /\ Alone' /\ Running(run)' # {}
<1>. PICK n \in 1 .. MaxGames : run' = [r EXCEPT ![b] = [at |-> "playing", left |-> n, cancelled |-> FALSE]]
  BY DEF Launched
<1>1. run' \in [Batch -> Run] /\ disk' \in [Batch -> OnDisk]
  BY DEF Launched, Run, OnDisk
<1>2. runners' \in Seq(Batch) /\ Range(runners)' = Range(runners) \cup {b}
  BY BatchSequences DEF SimTypeOK, Launched
<1>3. Running(run)' \subseteq Running(r) \cup {b} /\ b \in Running(run)'
  BY DEF Running
<1>4. Range(runners) \cap Running(r) = {}
  BY DEF Active
<1>. QED
  BY <1>1, <1>2, <1>3, <1>4 DEF Alone, KnownRunning

\* While no batch ends and no directory gets a summary the index stays good.
LEMMA FilesKept ==
  ASSUME SimInv, UNCHANGED <<index, misread, scan, held>>,
         \A b \in Batch : disk'[b] = "summary" => disk[b] = "summary"
  PROVE  FileInv'
BY DEF SimInv, FileInv, IndexKnowsEnds, ScanKnowsEnds, HeldIsCached

\* Nor does what runs change, or what is known grow.
LEMMA QueueKept ==
  ASSUME SimInv, Range(runners)' \subseteq Range(runners), Running(run)' = Running(run),
         stranded' = stranded, queue' # <<>> => queue # <<>> \/ Running(run) # {}
  PROVE  QueueInv'
BY DEF SimInv, QueueInv, Alone, KnownRunning, QueueIsServed

\* The next batch of the queue: what ends leaves nobody unserved.
LEMMA QueueAdvances ==
  ASSUME SimInv, NEW r \in [Batch -> Run], NEW dk \in [Batch -> OnDisk],
         Running(r) \subseteq Running(run), ProcessQueue(r, dk)
  PROVE  /\ queue' \in Seq(Batch) /\ runners' \in Seq(Batch) /\ run' \in [Batch -> Run]
         /\ disk' \in [Batch -> OnDisk] /\ stranded' \in BOOLEAN
         /\ QueueInv'
<1>. SimTypeOK /\ QueueInv
  BY DEF SimInv
<1>1. CASE /\ queue = <<>> \/ Active(runners, r)
           /\ run' = r /\ disk' = dk
           /\ UNCHANGED <<queue, runners, stranded>>
  <2>1. Running(run)' = Running(r) /\ Range(runners)' = Range(runners)
    BY <1>1 DEF Running, Range
  <2>2. queue' # <<>> => Running(run)' # {}
    BY <1>1, <2>1 DEF Active
  <2>. QED
    BY <1>1, <2>1, <2>2 DEF SimTypeOK, QueueInv, Alone, KnownRunning, QueueIsServed
<1>2. CASE queue # <<>> /\ ~Active(runners, r) /\ queue' = Tail(queue)
           /\ Launched(Head(queue), r, dk) /\ UNCHANGED stranded
  <2>1. Head(queue) \in Batch /\ Tail(queue) \in Seq(Batch)
    BY <1>2, BatchSequences DEF SimTypeOK
  <2>. QED
    BY <1>2, <2>1, LaunchIsAlone DEF SimTypeOK, QueueInv, QueueIsServed
<1>3. CASE queue # <<>> /\ ~Active(runners, r) /\ queue' = Tail(queue)
           /\ run' = [r EXCEPT ![Head(queue)] = Idle("over")]
           /\ disk' = dk /\ stranded' = TRUE /\ UNCHANGED runners
  <2>1. Head(queue) \in Batch /\ Tail(queue) \in Seq(Batch)
    BY <1>3, BatchSequences DEF SimTypeOK
  <2>2. run' \in [Batch -> Run] /\ Running(run)' \subseteq Running(r)
    BY <1>3, <2>1, IdleRuns DEF Running
  <2>3. Range(runners)' = Range(runners)
    BY <1>3
  <2>. QED
    BY <1>3, <2>1, <2>2, <2>3 DEF SimTypeOK, QueueInv, Alone, KnownRunning, QueueIsServed
<1>. QED
  BY <1>1, <1>2, <1>3 DEF ProcessQueue

\* A batch ends: its summary is written or not, the index and a scan under way
\* are dropped, and the queue goes on.
LEMMA EndKeeps ==
  ASSUME SimInv, NEW b \in Batch, End(b)
  PROVE  SimInv'
<1>. SimTypeOK /\ QueueInv /\ FileInv
  BY DEF SimInv
<1>. PICK dk \in Summed(b) : ProcessQueue([run EXCEPT ![b] = Idle("over")], dk)
  BY DEF End
<1>1. dk \in [Batch -> OnDisk]
  BY DEF Summed, SimTypeOK, OnDisk
<1>2. /\ [run EXCEPT ![b] = Idle("over")] \in [Batch -> Run]
      /\ Running([run EXCEPT ![b] = Idle("over")]) \subseteq Running(run)
  BY IdleRuns DEF SimTypeOK, Running
<1>3. /\ queue' \in Seq(Batch) /\ runners' \in Seq(Batch) /\ run' \in [Batch -> Run]
      /\ disk' \in [Batch -> OnDisk] /\ stranded' \in BOOLEAN
      /\ QueueInv'
  BY <1>1, <1>2, QueueAdvances
<1>4. index' = Nothing /\ misread' = {} /\ held' = {} /\ deletes' = deletes
      /\ scan' = IF scan = Nothing THEN Nothing ELSE [scan EXCEPT !.fresh = FALSE]
  BY DEF End, Invalidated
<1>5. scan' \in Scan \cup {Nothing} /\ (scan' # Nothing => ~scan'.fresh)
  BY <1>4 DEF SimTypeOK, Scan
<1>6. SimTypeOK'
  BY <1>3, <1>4, <1>5 DEF SimTypeOK
<1>7. FileInv'
  BY <1>4, <1>5 DEF FileInv, IndexKnowsEnds, ScanKnowsEnds, HeldIsCached
<1>. QED
  BY <1>3, <1>6, <1>7 DEF SimInv

\* A batch is started, waits, or cannot be.
LEMMA StartKeeps ==
  ASSUME SimInv, NEW b \in Batch, StartNow(b) \/ StartFails(b) \/ Enqueue(b)
  PROVE  SimInv'
<1>. SimTypeOK /\ QueueInv /\ FileInv
  BY DEF SimInv
<1>1. CASE StartNow(b)
  <2>1. Launched(b, run, disk) /\ ~Active(runners, run)
        /\ UNCHANGED <<queue, index, misread, scan, deletes, held, stranded>>
    BY <1>1 DEF StartNow
  <2>2. /\ runners' \in Seq(Batch) /\ run' \in [Batch -> Run] /\ disk' \in [Batch -> OnDisk]
        /\ Alone' /\ Running(run)' # {}
    BY <2>1, LaunchIsAlone DEF SimTypeOK
  <2>3. \A c \in Batch : disk'[c] = "summary" => disk[c] = "summary"
    BY <2>1 DEF Launched, SimTypeOK
  <2>. QED
    BY <2>1, <2>2, <2>3, FilesKept DEF SimInv, SimTypeOK, QueueInv, QueueIsServed
<1>2. CASE StartFails(b) \/ Enqueue(b)
  <2>1. /\ UNCHANGED <<runners, disk, index, misread, scan, deletes, held, stranded>>
        /\ run[b].at = "new"
        /\ \E x \in {"queued", "over"} : run' = [run EXCEPT ![b] = Idle(x)]
    BY <1>2 DEF StartFails, Enqueue, files
  <2>2. run' \in [Batch -> Run] /\ Running(run)' = Running(run)
    BY <2>1, IdleRuns DEF SimTypeOK, Running
  <2>3. queue' \in Seq(Batch) /\ (queue' = queue \/ Running(run) # {})
    BY <1>2, BatchSequences DEF StartFails, Enqueue, Active, SimTypeOK
  <2>4. Range(runners)' = Range(runners)
    BY <2>1
  <2>. QED
    BY <2>1, <2>2, <2>3, <2>4, FilesKept, QueueKept DEF SimInv, SimTypeOK
<1>. QED
  BY <1>1, <1>2

\* A game is over, a pause is, or a game fails.
LEMMA PlayKeeps ==
  ASSUME SimInv, NEW b \in Batch, GameOver(b) \/ PauseOver(b) \/ GameFails(b)
  PROVE  SimInv'
<1>. SimTypeOK /\ QueueInv /\ FileInv
  BY DEF SimInv
<1>1. CASE End(b)
  BY <1>1, EndKeeps
<1>2. ASSUME ~End(b)
      PROVE  SimInv'
  <2>1. /\ UNCHANGED <<queue, runners, disk, index, misread, scan, deletes, held, stranded>>
        /\ run[b].at \in {"playing", "pausing"}
        /\ \/ run[b].left > 1 /\ run' = [run EXCEPT ![b].left = @ - 1, ![b].at = "pausing"]
           \/ run' = [run EXCEPT ![b].at = "playing"]
    BY <1>2 DEF GameOver, PauseOver, GameFails, files
  <2>2. run' \in [Batch -> Run]
    <3>1. run \in [Batch -> Run] /\ run[b] \in Run
      BY DEF SimTypeOK
    <3>2. ASSUME run[b].left > 1
          PROVE  [[run[b] EXCEPT !.left = @ - 1] EXCEPT !.at = "pausing"] \in Run
      <4>1. run[b].left - 1 \in 0 .. MaxGames
        BY <3>1, <3>2, SimulationAssumption DEF Run
      <4>2. [run[b] EXCEPT !.left = run[b].left - 1] \in Run
        BY <3>1, <4>1 DEF Run
      <4>. QED
        BY <4>2 DEF Run
    <3>3. [run[b] EXCEPT !.at = "playing"] \in Run
      BY <3>1 DEF Run
    <3>. QED
      BY <2>1, <3>1, <3>2, <3>3
  <2>3. Running(run)' = Running(run)
    BY <2>1 DEF SimTypeOK, Running, Run
  <2>4. Range(runners)' = Range(runners)
    BY <2>1
  <2>. QED
    BY <2>1, <2>2, <2>3, <2>4, FilesKept, QueueKept DEF SimInv, SimTypeOK
<1>. QED
  BY <1>1, <1>2

\* cancelBatch: nothing that runs stops at once.
LEMMA CancelledFacts ==
  ASSUME SimInv, NEW b \in Batch, Cancelled(b)
  PROVE  /\ queue' \in Seq(Batch) /\ (queue' # <<>> => queue # <<>>)
         /\ run' \in [Batch -> Run] /\ Running(run)' = Running(run)
<1>. SimTypeOK
  BY DEF SimInv
<1>1. queue' \in Seq(Batch) /\ (queue' # <<>> => queue # <<>>)
  BY BatchSequences DEF Cancelled, SimTypeOK
<1>2. run \in [Batch -> Run] /\ run[b] \in Run
  BY DEF SimTypeOK
<1>3. CASE run[b].at = "queued"
  BY <1>1, <1>2, <1>3, IdleRuns DEF Cancelled, Running
<1>4. CASE run[b].at # "queued"
  <2>1. run' \in {run, [run EXCEPT ![b].cancelled = TRUE]}
    BY <1>4 DEF Cancelled
  <2>2. [run[b] EXCEPT !.cancelled = TRUE] \in Run /\ [run[b] EXCEPT !.cancelled = TRUE].at = run[b].at
    BY <1>2 DEF Run
  <2>. QED
    BY <1>1, <1>2, <2>1, <2>2 DEF Running
<1>. QED
  BY <1>3, <1>4

\* A scan begins with every directory there is, or goes on.
LEMMA ScanningFacts ==
  ASSUME SimInv, Scanning, UNCHANGED <<disk, index, misread, held>>
  PROVE  scan' \in Scan \cup {Nothing} /\ FileInv'
<1>. SimTypeOK /\ FileInv
  BY DEF SimInv
<1>1. CASE scan # Nothing
  BY <1>1, FilesKept DEF Scanning, SimTypeOK
<1>2. CASE scan = Nothing
  <2>1. scan' = [found |-> [b \in Batch |-> "none"], fresh |-> TRUE,
                 unread |-> {b \in Batch : disk[b] # "none"}]
    BY <1>2 DEF Scanning
  <2>2. scan' \in Scan
    BY <2>1 DEF Scan, OnDisk
  <2>3. \A b \in Batch \ scan'.unread : disk[b] = "none"
    BY <2>1
  <2>. QED
    BY <2>2, <2>3 DEF FileInv, IndexKnowsEnds, ScanKnowsEnds, HeldIsCached
<1>. QED
  BY <1>1, <1>2

LEMMA CancelKeeps ==
  ASSUME SimInv, NEW b \in Batch, Cancel(b)
  PROVE  SimInv'
<1>1. Cancelled(b) /\ UNCHANGED <<runners, disk, index, misread, scan, deletes, held, stranded>>
  BY DEF Cancel, files
<1>2. Range(runners)' = Range(runners)
  BY <1>1
<1>. QED
  BY <1>1, <1>2, CancelledFacts, FilesKept, QueueKept DEF SimInv, SimTypeOK

\* What is deleted is cancelled and forgotten, then looked for.
LEMMA DeleteKeeps ==
  ASSUME SimInv, NEW b \in Batch, Delete(b)
  PROVE  SimInv'
<1>. SimTypeOK /\ QueueInv /\ FileInv
  BY DEF SimInv
<1>1. Cancelled(b) /\ runners' = Without(runners, b) /\ UNCHANGED <<disk, index, misread, stranded>>
  BY DEF Delete
<1>2. runners' \in Seq(Batch) /\ Range(runners)' \subseteq Range(runners)
  BY <1>1, BatchSequences DEF SimTypeOK
<1>3. CASE index # Nothing
  <2>1. /\ deletes' = [deletes EXCEPT ![b] = Looked(index, b)]
        /\ held' \subseteq held \cup {b} /\ scan' = scan
    BY <1>3 DEF Delete
  <2>2. deletes' \in [Batch -> {"none", "indexing", "removing"}] /\ held' \subseteq Batch
    BY <2>1 DEF Looked, SimTypeOK
  <2>3. FileInv'
    BY <1>1, <1>3, <2>1 DEF FileInv, IndexKnowsEnds, ScanKnowsEnds, HeldIsCached, SimTypeOK
  <2>. QED
    BY <1>1, <1>2, <2>1, <2>2, <2>3, CancelledFacts, QueueKept DEF SimInv, SimTypeOK
<1>4. CASE index = Nothing
  <2>1. deletes' = [deletes EXCEPT ![b] = "indexing"] /\ Scanning /\ held' = held
    BY <1>4 DEF Delete
  <2>2. scan' \in Scan \cup {Nothing} /\ FileInv'
    BY <1>1, <2>1, ScanningFacts
  <2>. QED
    BY <1>1, <1>2, <2>1, <2>2, CancelledFacts, QueueKept DEF SimInv, SimTypeOK
<1>. QED
  BY <1>3, <1>4

\* The directory is removed, and its entry in the cached index with it.
LEMMA RemovedKeeps ==
  ASSUME SimInv, NEW b \in Batch, Removed(b)
  PROVE  SimInv'
<1>. SimTypeOK /\ QueueInv /\ FileInv
  BY DEF SimInv
<1>1. /\ UNCHANGED <<queue, runners, run, misread, scan, stranded>>
      /\ deletes' = [deletes EXCEPT ![b] = "none"] /\ held' = held \ {b}
      /\ \/ /\ disk' = [disk EXCEPT ![b] = "none"]
            /\ index' = IF b \in held THEN [index EXCEPT ![b] = "none"] ELSE index
         \/ UNCHANGED <<disk, index>>
  BY DEF Removed
<1>2. deletes' \in [Batch -> {"none", "indexing", "removing"}]
  BY <1>1 DEF SimTypeOK
<1>3. Running(run)' = Running(run) /\ Range(runners)' = Range(runners)
  BY <1>1
<1>4. QueueInv'
  BY <1>1, <1>3, QueueKept
<1>5. disk' \in [Batch -> OnDisk] /\ \A c \in Batch : disk'[c] = "summary" => disk[c] = "summary" /\ (b # c \/ index' = index)
  BY <1>1 DEF SimTypeOK, OnDisk
<1>6. CASE index' = index
  <2>1. FileInv'
    BY <1>1, <1>5, <1>6 DEF FileInv, IndexKnowsEnds, ScanKnowsEnds, HeldIsCached
  <2>. QED
    BY <1>1, <1>2, <1>4, <1>5, <1>6, <2>1 DEF SimInv, SimTypeOK
<1>7. CASE index' # index
  <2>1. /\ index \in [Batch -> OnDisk] /\ index' = [index EXCEPT ![b] = "none"]
        /\ disk' = [disk EXCEPT ![b] = "none"]
    BY <1>1, <1>7 DEF FileInv, HeldIsCached
  <2>2. index' \in [Batch -> OnDisk]
    BY <2>1 DEF OnDisk
  <2>3. \A c \in Batch : disk'[c] = "summary" => index'[c] = "summary" \/ c \in misread'
    BY <1>1, <1>5, <1>7, <2>1 DEF FileInv, HeldIsCached, SimTypeOK
  <2>4. FileInv'
    BY <1>1, <1>5, <2>2, <2>3 DEF FileInv, IndexKnowsEnds, ScanKnowsEnds, HeldIsCached
  <2>. QED
    BY <1>1, <1>2, <1>4, <1>5, <2>2, <2>4 DEF SimInv, SimTypeOK
<1>. QED
  BY <1>6, <1>7

\* cleanup takes nothing in.
LEMMA CleanupKeeps ==
  ASSUME SimInv, Cleanup
  PROVE  SimInv'
<1>. DEFINE finished == {i \in DOMAIN runners : runners[i] \notin Running(run)}
            old == {i \in finished : Cardinality({j \in finished : j > i}) >= Keep}
            left == Len(runners) - Cardinality(old)
<1>. SimTypeOK
  BY DEF SimInv
<1>1. UNCHANGED <<queue, run, disk, index, misread, scan, deletes, held, stranded>>
  BY DEF Cleanup, files
<1>. PICK at \in [1 .. left -> DOMAIN runners \ old] : runners' = [i \in DOMAIN at |-> runners[at[i]]]
  BY DEF Cleanup
<1>2. left \in Nat
  <2>1. DOMAIN runners = 1 .. Len(runners) /\ Len(runners) \in Nat
    BY DEF SimTypeOK
  <2>2. IsFiniteSet(1 .. Len(runners)) /\ Cardinality(1 .. Len(runners)) = Len(runners)
    <3>1. IsFiniteSet(1 .. Len(runners))
          /\ Cardinality(1 .. Len(runners)) = IF 1 > Len(runners) THEN 0 ELSE Len(runners) - 1 + 1
      BY <2>1, FS_Interval
    <3>. QED
      BY <2>1, <3>1
  <2>3. old \subseteq 1 .. Len(runners)
    BY <2>1
  <2>. HIDE DEF old
  <2>4. IsFiniteSet(old) /\ Cardinality(old) <= Len(runners)
    BY <2>2, <2>3, FS_Subset
  <2>5. Cardinality(old) \in Nat
    BY <2>4, FS_CardinalityType
  <2>. QED
    BY <2>1, <2>4, <2>5
<1>. HIDE DEF left, old
<1>3. \A i \in 1 .. left : at[i] \in DOMAIN runners /\ runners[at[i]] \in Batch
  BY DEF SimTypeOK
<1>4. runners' \in Seq(Batch)
  BY <1>2, <1>3, IsASeq
<1>5. Range(runners)' \subseteq Range(runners)
  BY <1>3 DEF Range
<1>6. Running(run)' = Running(run)
  BY <1>1
<1>. QED
  BY <1>1, <1>4, <1>5, <1>6, FilesKept, QueueKept DEF SimInv, SimTypeOK

\* The index is looked for, read and kept, or forgotten.
LEMMA ScanKeeps ==
  ASSUME SimInv, Look \/ (\E b \in Batch : ScanReads(b)) \/ ScanDone \/ Expire
  PROVE  SimInv'
<1>. SimTypeOK /\ QueueInv /\ FileInv
  BY DEF SimInv
<1>1. UNCHANGED <<queue, runners, run, disk, stranded>>
  BY DEF Look, ScanReads, ScanDone, Expire
<1>2. Running(run)' = Running(run) /\ Range(runners)' = Range(runners)
  BY <1>1
<1>3. QueueInv'
  BY <1>1, <1>2, QueueKept
<1>4. CASE Look
  BY <1>1, <1>3, <1>4, ScanningFacts DEF SimInv, SimTypeOK, Look
<1>5. ASSUME NEW b \in Batch, ScanReads(b)
      PROVE  SimInv'
  <2>1. /\ scan # Nothing /\ UNCHANGED <<index, misread, deletes, held>>
        /\ scan.found[b] = "none"
        /\ \E found \in {"config"} \cup ({disk[b]} \cap {"summary"}) :
             scan' = [scan EXCEPT !.found[b] = found, !.unread = @ \ {c \in {b} : found = disk[b]}]
    BY <1>5 DEF ScanReads
  <2>2. scan \in Scan
    BY <2>1 DEF SimTypeOK
  <2>3. PICK found \in {"config"} \cup ({disk[b]} \cap {"summary"}) :
          scan' = [scan EXCEPT !.found[b] = found, !.unread = @ \ {c \in {b} : found = disk[b]}]
    BY <2>1
  <2>4. found \in OnDisk /\ scan.found \in [Batch -> OnDisk]
    BY <2>2 DEF Scan, OnDisk
  <2>5. /\ scan'.fresh = scan.fresh /\ scan'.unread = scan.unread \ {c \in {b} : found = disk[b]}
        /\ scan'.found = [scan.found EXCEPT ![b] = found]
        /\ scan' \in Scan
    BY <2>2, <2>3, <2>4 DEF Scan
  <2>6. ScanKnowsEnds'
    BY <1>1, <2>1, <2>4, <2>5 DEF FileInv, ScanKnowsEnds
  <2>. QED
    BY <1>1, <1>3, <2>1, <2>5, <2>6 DEF SimInv, SimTypeOK, FileInv, IndexKnowsEnds, HeldIsCached
<1>6. CASE ScanDone
  <2>1. /\ scan # Nothing /\ scan' = Nothing
        /\ scan.fresh => index' = scan.found /\ misread' = scan.unread
        /\ ~scan.fresh => UNCHANGED <<index, misread>>
    BY <1>6 DEF ScanDone
  <2>2. scan \in Scan /\ scan.found \in [Batch -> OnDisk] /\ scan.unread \subseteq Batch
    BY <2>1 DEF SimTypeOK, Scan
  <2>3. deletes' \in [Batch -> {"none", "indexing", "removing"}]
    BY <1>6 DEF ScanDone, Looked, SimTypeOK
  <2>4. held' \subseteq Batch /\ (held' # {} => scan.fresh)
    BY <1>6 DEF ScanDone
  <2>5. scan.fresh => \A b \in Batch : disk[b] = "summary" => scan.found[b] = "summary" \/ b \in scan.unread
    BY <2>1 DEF FileInv, ScanKnowsEnds
  <2>6. FileInv'
    BY <1>1, <2>1, <2>2, <2>4, <2>5 DEF FileInv, IndexKnowsEnds, ScanKnowsEnds, HeldIsCached
  <2>. QED
    BY <1>1, <1>3, <2>1, <2>2, <2>3, <2>4, <2>6 DEF SimInv, SimTypeOK
<1>7. CASE Expire
  <2>1. index' = Nothing /\ misread' = {} /\ held' = {} /\ UNCHANGED <<scan, deletes>>
    BY <1>7 DEF Expire
  <2>2. FileInv'
    BY <1>1, <2>1 DEF FileInv, IndexKnowsEnds, ScanKnowsEnds, HeldIsCached
  <2>. QED
    BY <1>1, <1>3, <2>1, <2>2 DEF SimInv, SimTypeOK
<1>. QED
  BY <1>4, <1>5, <1>6, <1>7

LEMMA SimInvInit ==
  ASSUME SimInit
  PROVE  SimInv
<1>1. /\ queue = <<>> /\ runners = <<>> /\ index = Nothing /\ misread = {} /\ scan = Nothing
      /\ held = {} /\ stranded = FALSE
  BY DEF SimInit
<1>2. run \in [Batch -> Run]
  BY IdleRuns DEF SimInit
<1>5. disk \in [Batch -> OnDisk] /\ deletes \in [Batch -> {"none", "indexing", "removing"}]
  BY DEF SimInit, OnDisk
<1>6. queue \in Seq(Batch) /\ runners \in Seq(Batch)
  BY <1>1
<1>7. SimTypeOK
  BY <1>1, <1>2, <1>5, <1>6 DEF SimTypeOK
<1>3. QueueInv
  BY <1>1 DEF QueueInv, Alone, KnownRunning, Range, QueueIsServed
<1>4. FileInv
  BY <1>1 DEF FileInv, IndexKnowsEnds, ScanKnowsEnds, HeldIsCached
<1>. QED
  BY <1>3, <1>4, <1>7 DEF SimInv

LEMMA SimInvNext ==
  ASSUME SimInv, [SimNext]_simVars
  PROVE  SimInv'
<1>1. ASSUME NEW b \in Batch, StartNow(b) \/ StartFails(b) \/ Enqueue(b)
      PROVE  SimInv'
  BY <1>1, StartKeeps
<1>2. ASSUME NEW b \in Batch, GameOver(b) \/ PauseOver(b) \/ GameFails(b)
      PROVE  SimInv'
  BY <1>2, PlayKeeps
<1>3. ASSUME NEW b \in Batch, Cancel(b) \/ Delete(b) \/ Removed(b)
      PROVE  SimInv'
  BY <1>3, CancelKeeps, DeleteKeeps, RemovedKeeps
<1>4. CASE Cleanup
  BY <1>4, CleanupKeeps
<1>5. CASE Look \/ (\E b \in Batch : ScanReads(b)) \/ ScanDone \/ Expire
  BY <1>5, ScanKeeps
<1>6. CASE UNCHANGED simVars
  <2>1. UNCHANGED <<queue, runners, run, disk, index, misread, scan, deletes, held, stranded>>
    BY <1>6 DEF simVars, files
  <2>2. Running(run)' = Running(run) /\ Range(runners)' = Range(runners)
    BY <2>1
  <2>. QED
    BY <2>1, <2>2, FilesKept, QueueKept DEF SimInv, SimTypeOK
<1>. QED
  BY <1>1, <1>2, <1>3, <1>4, <1>5, <1>6 DEF SimNext

LEMMA SimInvHolds == SimSpec => []SimInv
<1>1. SimInit => SimInv
  BY SimInvInit
<1>2. SimInv /\ [SimNext]_simVars => SimInv'
  BY SimInvNext
<1>. QED
  BY <1>1, <1>2, PTL DEF SimSpec

\* The state of the manager, the runners and the files keeps its types.
THEOREM BatchesTypeCorrect == SimSpec => []SimTypeOK
<1>1. SimInv => SimTypeOK
  BY DEF SimInv
<1>. QED
  BY <1>1, SimInvHolds, PTL

\* Of the batches the manager knows at most one runs, for any number of
\* batches, however they start, end, fail, are cancelled or deleted, and with
\* any bounds on the queue and on what is kept (hasActive, startBatch and
\* processQueue).
THEOREM BatchesRunAlone == SimSpec => []OneKnownRuns
<1>1. SimInv => OneKnownRuns
  <2>. SUFFICES ASSUME SimInv
                PROVE  OneKnownRuns
    OBVIOUS
  <2>1. KnownRunning = {} \/ \E b \in KnownRunning : KnownRunning = {b}
    BY DEF SimInv, QueueInv, Alone
  <2>2. Cardinality(KnownRunning) \in {0, 1}
    BY <2>1, FS_EmptySet, FS_Singleton
  <2>. QED
    BY <2>2 DEF OneKnownRuns, KnownRunning
<1>. QED
  BY <1>1, SimInvHolds, PTL

\* Nobody waits in a queue that nothing will serve: while batches wait one
\* runs whose end calls processQueue, unless the runner of a queued batch
\* could not be made.
THEOREM TheQueueIsServed == SimSpec => []QueueIsServed
<1>1. SimInv => QueueIsServed
  BY DEF SimInv, QueueInv
<1>. QED
  BY <1>1, SimInvHolds, PTL

\* The cached index of what is on disk is never behind the end of a batch,
\* whichever scan found it and whoever deletes meanwhile, but for the batches
\* whose files the scan could not read (getDiskIndex, invalidateDiskIndex,
\* readDiskBatch and deleteBatch).
THEOREM TheIndexKnowsEnds == SimSpec => []IndexKnowsEnds
<1>1. SimInv => IndexKnowsEnds
  BY DEF SimInv, FileInv
<1>. QED
  BY <1>1, SimInvHolds, PTL

=============================================================================
