--------------------------- MODULE CampaignProofs ---------------------------
(***************************************************************************)
(* Proofs about the campaign, in two parts.                                *)
(*                                                                         *)
(* Who plays which level, for any users, tabs, levels and order of         *)
(* requests: the type invariant, that a key names a level its player is    *)
(* in, that a running loop can be stopped, that nobody plays two levels,   *)
(* that a level with nobody left is ended and that one that runs has a tab *)
(* to steer it.  The two before the last need that whoever is told of a    *)
(* level is one of its players and has not left it: otherwise leaving      *)
(* would take the key of a level played meanwhile.  The last needs more    *)
(* than it says: each player of a running level, not one of them, has a    *)
(* tab that was told of it, or has left it.                                *)
(*                                                                         *)
(* One level, for any players, enemies, levels and limits: a fall costs    *)
(* one life and has one way back, whoever is held at the goal is there,    *)
(* and the verdict is given once.  Within a tick falls wait to be handled. *)
(* SoundLevel(g, n) says what holds of the game then, with the falls that  *)
(* wait counted in; every part of a tick keeps it, and none waits at the   *)
(* end of the tick.                                                        *)
(***************************************************************************)
EXTENDS CampaignSessions, CampaignLevel, FiniteSetTheorems, TLAPS

Playing(m, s) == info[s].users \ m.game[s].departed

\* What the manager holds, as far as the theorems go.
Keyed(m) ==
  /\ m \in Manager
  /\ \A s \in m.map : info[s] # NoInfo
  /\ \A s \in Session : info[s] # NoInfo /\ s \notin m.map => m.game[s].finished
  /\ \A p \in Holder : m.key[p] # None => m.key[p] \in m.map /\ p \in Players(m.key[p]) \ m.game[m.key[p]].departed
  /\ ~m.robbed => \A s \in m.map : \A u \in Playing(m, s) : m.key[u] = s
  /\ \A s \in Session : m.game[s].loop # "off" => s \in m.map \/ s \in m.revived

\* Of these levels, each has somebody left.
Peopled(m, S) == ~m.robbed => \A s \in S : info[s].kind # "local" => Playing(m, s) # {}

Sound(m) == Keyed(m) /\ Peopled(m, m.map)

\* What a level was made with.
Made ==
  /\ info \in [Session -> Info]
  /\ \A s \in Session : info[s] # NoInfo =>
       /\ info[s].host \in Tab
       /\ info[s].users = {Owner[p] : p \in {info[s].host, info[s].partner} \ {None}}
       /\ info[s].partner # None => Owner[info[s].partner] # Owner[info[s].host]

\* A start takes along a partner, never the same user; until the tabs are
\* told nobody has left the new level.
Starting ==
  /\ starts \in [Tab -> Start]
  /\ \A t \in Tab : starts[t].partner # None => Owner[starts[t].partner] # Owner[t]
  /\ \A t \in Tab : starts[t].at = "recording" =>
       /\ starts[t].session \in Session
       /\ info[starts[t].session].host = t
       /\ info[starts[t].session].partner = starts[t].partner
       /\ mgr.game[starts[t].session].departed = {}

\* A tab that was told of a level was made part of it and has not left it.
Heard ==
  /\ active \in [Tab -> Session \cup {None}]
  /\ \A t \in Tab : active[t] # None =>
       /\ t \in {info[active[t]].host, info[active[t]].partner}
       /\ active[t] \in mgr.map => Owner[t] \notin mgr.game[active[t]].departed
       /\ \A r \in Tab : starts[r].at = "recording" => starts[r].session # active[t]

Others ==
  /\ sock \in [Tab -> {"on", "leaving", "off"}]
  /\ ending \in [Session -> {"no", "writing", "failed"}]
  /\ crossed \in BOOLEAN

IInv == Sound(mgr) /\ Made /\ Starting /\ Heard /\ Others

-----------------------------------------------------------------------------
(* The manager *)

\* The second player of a local level is no user.
LEMMA PlayersTyped ==
  ASSUME info \in [Session -> Info], NEW s \in Session
  PROVE  Players(s) \in SUBSET Holder /\ info[s].users \subseteq Players(s) /\ Players(s) \subseteq info[s].users \cup {s}
BY DEF Players, Holder, Info

\* Ending a level that is there, field by field.
LEMMA EndedFields ==
  ASSUME NEW m, m \in Manager, NEW s \in Session, s \in m.map
  PROVE  /\ Ended(m, s).map = m.map \ {s}
         /\ Ended(m, s).key = [p \in Holder |-> IF p \in Players(s) THEN None ELSE m.key[p]]
         /\ Ended(m, s).game = [m.game EXCEPT ![s] = [loop |-> "off", finished |-> TRUE, departed |-> m.game[s].departed]]
         /\ Ended(m, s).robbed = (m.robbed \/ \E p \in Players(s) : m.key[p] \notin {s, None})
         /\ Ended(m, s).revived = m.revived
         /\ Ended(m, s) \in Manager
<1>1. [loop |-> "off", finished |-> TRUE, departed |-> m.game[s].departed] \in Game
  BY DEF Manager, Game
<1>2. m.robbed \in BOOLEAN /\ m.game \in [Session -> Game] /\ m.key \in [Holder -> Session \cup {None}]
      /\ m.map \in SUBSET Session /\ m.revived \in SUBSET Session
  BY DEF Manager
<1>3. [p \in Holder |-> IF p \in Players(s) THEN None ELSE m.key[p]] \in [Holder -> Session \cup {None}]
  BY <1>2
<1>4. (m.robbed \/ \E p \in Players(s) : m.key[p] \notin {s, None}) \in BOOLEAN
  BY <1>2
<1>5. [m.game EXCEPT ![s] = [loop |-> "off", finished |-> TRUE, departed |-> m.game[s].departed]] \in [Session -> Game]
  BY <1>1, <1>2
<1>. QED
  BY <1>2, <1>3, <1>4, <1>5 DEF Ended, Manager

\* endSession: whatever it is called for, the manager stays sound, the level
\* is gone, and whoever was looked up in it no longer is.
LEMMA EndedSound ==
  ASSUME info \in [Session -> Info], NEW m, Keyed(m), NEW s \in Session, Peopled(m, m.map \ {s})
  PROVE  /\ Sound(Ended(m, s))
         /\ Ended(m, s).map = m.map \ {s}
         /\ \A z \in Session : Ended(m, s).game[z].departed = m.game[z].departed
         /\ \A p \in Holder : Ended(m, s).key[p] \in {m.key[p], None}
         /\ \A p \in Holder : m.key[p] = s => Ended(m, s).key[p] = None
<1>0. m \in Manager
  BY DEF Keyed
<1>1. CASE s \notin m.map
  <2>1. Ended(m, s) = m
    BY <1>1 DEF Ended
  <2>2. m.map = m.map \ {s} /\ \A p \in Holder : m.key[p] # s
    <3>1. s # None
      BY CampaignAssumption
    <3>. QED
      BY <1>1, <3>1 DEF Keyed
  <2>3. Sound(m)
    BY <2>2 DEF Sound
  <2>. QED
    BY <2>1, <2>2, <2>3
<1>2. CASE s \in m.map
  <2>. DEFINE n == Ended(m, s)
              over == [loop |-> "off", finished |-> TRUE, departed |-> m.game[s].departed]
  <2>1. /\ n.map = m.map \ {s}
        /\ n.key = [p \in Holder |-> IF p \in Players(s) THEN None ELSE m.key[p]]
        /\ n.game = [m.game EXCEPT ![s] = over]
        /\ n.robbed = (m.robbed \/ \E p \in Players(s) : m.key[p] \notin {s, None})
        /\ n.revived = m.revived
        /\ n \in Manager
    BY <1>0, <1>2, EndedFields
  <2>2. m.game \in [Session -> Game] /\ m.map \subseteq Session /\ m.key \in [Holder -> Session \cup {None}] /\ m.robbed \in BOOLEAN
    BY <1>0 DEF Manager
  <2>3. /\ \A z \in Session : z # s => n.game[z] = m.game[z]
        /\ n.game[s] = over
        /\ \A z \in Session : n.game[z].departed = m.game[z].departed
    BY <2>1, <2>2 DEF Game
  <2>4. \A p \in Holder : n.key[p] = IF p \in Players(s) THEN None ELSE m.key[p]
    BY <2>1
  <2>. HIDE DEF n
  <2>5. \A p \in Holder : m.key[p] = s => n.key[p] = None
    <3>1. s # None
      BY CampaignAssumption
    <3>. QED
      BY <3>1, <2>4 DEF Keyed
  <2>6. \A z \in n.map : info[z] # NoInfo
    BY <2>1 DEF Keyed
  <2>7. \A z \in Session : info[z] # NoInfo /\ z \notin n.map => n.game[z].finished
    BY <2>1, <2>3 DEF Keyed
  <2>8. \A p \in Holder : n.key[p] # None => n.key[p] \in n.map /\ p \in Players(n.key[p]) \ n.game[n.key[p]].departed
    <3>. SUFFICES ASSUME NEW p \in Holder, n.key[p] # None
                  PROVE  n.key[p] \in n.map /\ p \in Players(n.key[p]) \ n.game[n.key[p]].departed
      OBVIOUS
    <3>1. n.key[p] = m.key[p]
      BY <2>4
    <3>2. m.key[p] # s
      BY <3>1, <2>5
    <3>3. m.key[p] \in m.map /\ p \in Players(m.key[p]) \ m.game[m.key[p]].departed
      BY <3>1 DEF Keyed
    <3>. QED
      BY <3>1, <3>2, <3>3, <2>1, <2>2, <2>3
  <2>9. ASSUME ~n.robbed, NEW z \in n.map
        PROVE  /\ \A u \in Playing(n, z) : n.key[u] = z
               /\ info[z].kind # "local" => Playing(n, z) # {}
    <3>1. ~m.robbed /\ \A p \in Players(s) : m.key[p] \in {s, None}
      BY <2>1, <2>9
    <3>2. z \in m.map /\ z # s /\ z \in Session
      BY <2>1, <2>2
    <3>3. Playing(n, z) = Playing(m, z)
      BY <3>2, <2>3 DEF Playing
    <3>4. ASSUME NEW u \in Playing(m, z)
          PROVE  n.key[u] = z
      <4>1. m.key[u] = z
        BY <3>1, <3>2 DEF Keyed
      <4>2. u \in Holder
        BY <3>2 DEF Playing, Info, Holder
      <4>3. z # None
        BY <3>2, CampaignAssumption
      <4>4. u \notin Players(s)
        BY <4>1, <4>3, <3>1, <3>2
      <4>. QED
        BY <4>1, <4>2, <4>4, <2>4
    <3>5. info[z].kind # "local" => Playing(m, z) # {}
      BY <3>1, <3>2 DEF Peopled
    <3>. QED
      BY <3>3, <3>4, <3>5
  <2>10. \A z \in Session : n.game[z].loop # "off" => z \in n.map \/ z \in n.revived
    BY <2>1, <2>3 DEF Keyed
  <2>11. Sound(n)
    BY <2>1, <2>6, <2>7, <2>8, <2>9, <2>10 DEF Sound, Keyed, Peopled
  <2>. QED
    BY <2>1, <2>3, <2>4, <2>5, <2>11 DEF n
<1>. QED
  BY <1>1, <1>2

\* startLevel ends what a player's key names.
LEMMA EndedForSound ==
  ASSUME info \in [Session -> Info], NEW m, Sound(m), NEW p \in Holder
  PROVE  /\ Sound(EndedFor(m, p))
         /\ EndedFor(m, p).map \subseteq m.map
         /\ \A z \in Session : EndedFor(m, p).game[z].departed = m.game[z].departed
         /\ \A q \in Holder : EndedFor(m, p).key[q] \in {m.key[q], None}
         /\ EndedFor(m, p).key[p] = None
<1>1. CASE m.key[p] = None
  BY <1>1 DEF EndedFor
<1>2. CASE m.key[p] # None
  <2>1. m.key[p] \in Session
    BY <1>2 DEF Sound, Keyed, Manager
  <2>2. EndedFor(m, p) = Ended(m, m.key[p])
    BY <1>2 DEF EndedFor
  <2>3. Keyed(m) /\ Peopled(m, m.map \ {m.key[p]})
    BY DEF Sound, Peopled
  <2>. QED
    BY <2>1, <2>2, <2>3, EndedSound
<1>. QED
  BY <1>1, <1>2

\* Freed: afterwards no user of the new level is looked up anywhere.
LEMMA FreedSound ==
  ASSUME IInv, NEW t \in Tab
  PROVE  /\ Sound(Freed(mgr, t))
         /\ Freed(mgr, t).map \subseteq mgr.map
         /\ \A z \in Session : Freed(mgr, t).game[z].departed = mgr.game[z].departed
         /\ \A u \in Users(t) : Freed(mgr, t).key[u] = None
<1>. DEFINE own == EndedFor(mgr, Owner[t])
<1>1. Owner[t] \in Holder /\ info \in [Session -> Info] /\ Sound(mgr)
  BY CampaignAssumption DEF Holder, IInv, Made
<1>2. /\ Sound(own) /\ own.map \subseteq mgr.map
      /\ \A z \in Session : own.game[z].departed = mgr.game[z].departed
      /\ own.key[Owner[t]] = None
  BY <1>1, EndedForSound
<1>3. CASE starts[t].partner = None
  <2>1. Users(t) = {Owner[t]}
    BY <1>3, CampaignAssumption DEF Users
  <2>2. Freed(mgr, t) = own
    BY <1>3 DEF Freed
  <2>. QED
    BY <1>2, <2>1, <2>2
<1>4. CASE starts[t].partner # None
  <2>1. starts[t].partner \in Tab
    BY <1>4 DEF IInv, Starting, Start
  <2>2. Owner[starts[t].partner] \in Holder
    BY <2>1, CampaignAssumption DEF Holder
  <2>3. Users(t) \subseteq {Owner[t], Owner[starts[t].partner]}
    BY DEF Users
  <2>4. Freed(mgr, t) = EndedFor(own, Owner[starts[t].partner])
    BY <1>4 DEF Freed
  <2>. HIDE DEF own
  <2>5. /\ Sound(EndedFor(own, Owner[starts[t].partner]))
        /\ EndedFor(own, Owner[starts[t].partner]).map \subseteq own.map
        /\ \A z \in Session : EndedFor(own, Owner[starts[t].partner]).game[z].departed = own.game[z].departed
        /\ EndedFor(own, Owner[starts[t].partner]).key[Owner[t]] \in {own.key[Owner[t]], None}
        /\ EndedFor(own, Owner[starts[t].partner]).key[Owner[starts[t].partner]] = None
    BY <1>1, <1>2, <2>2, EndedForSound
  <2>. QED
    BY <1>2, <2>3, <2>4, <2>5
<1>. QED
  BY <1>3, <1>4

\* removePlayer before it looks at who is left.
Quitted(m, s, p) ==
  [m EXCEPT !.key = [m.key EXCEPT ![p] = None], !.game = [m.game EXCEPT ![s] = Departed(m.game[s], p)]]

\* The level that a player leaves, field by field.
LEMMA LeftFields ==
  ASSUME NEW m, m \in Manager, NEW s \in Session, NEW p \in Holder, NEW n, n = Quitted(m, s, p)
  PROVE  /\ n \in Manager
         /\ n.map = m.map /\ n.robbed = m.robbed /\ n.revived = m.revived
         /\ \A q \in Holder : n.key[q] = IF q = p THEN None ELSE m.key[q]
         /\ \A z \in Session : z # s => n.game[z] = m.game[z]
         /\ n.game[s].departed = m.game[s].departed \cup {p}
         /\ n.game[s].finished = m.game[s].finished
         /\ n.game[s].loop # "off" => m.game[s].loop # "off"
<1>1. m.game \in [Session -> Game] /\ m.key \in [Holder -> Session \cup {None}]
  BY DEF Manager
<1>2. /\ Departed(m.game[s], p) \in Game
      /\ Departed(m.game[s], p).departed = m.game[s].departed \cup {p}
      /\ Departed(m.game[s], p).finished = m.game[s].finished
      /\ Departed(m.game[s], p).loop # "off" => m.game[s].loop # "off"
  BY <1>1 DEF Departed, Game
<1>3. [m.key EXCEPT ![p] = None] \in [Holder -> Session \cup {None}]
  BY <1>1
<1>4. [m.game EXCEPT ![s] = Departed(m.game[s], p)] \in [Session -> Game]
  BY <1>1, <1>2
<1>5. n.key = [m.key EXCEPT ![p] = None] /\ n.game = [m.game EXCEPT ![s] = Departed(m.game[s], p)]
      /\ n.map = m.map /\ n.robbed = m.robbed /\ n.revived = m.revived
  BY DEF Manager, Quitted
<1>6. n \in Manager
  BY <1>3, <1>4 DEF Manager, Quitted
<1>. QED
  BY <1>1, <1>2, <1>5, <1>6

\* removePlayer, of a player who plays the level: nobody else's level is
\* disturbed, and the level ends if nobody is left.
LEMMA RemovedSound ==
  ASSUME info \in [Session -> Info], NEW m, Sound(m), NEW s \in Session, NEW p \in Holder,
         s \in m.map => p \in Playing(m, s)
  PROVE  /\ Sound(Removed(m, s, p))
         /\ Removed(m, s, p).map \subseteq m.map
         /\ \A z \in Session : z # s => Removed(m, s, p).game[z].departed = m.game[z].departed
         /\ Removed(m, s, p).game[s].departed \subseteq m.game[s].departed \cup {p}
<1>1. CASE s \notin m.map
  BY <1>1 DEF Removed
<1>2. CASE s \in m.map
  <2>0. m \in Manager
    BY DEF Sound, Keyed
  <2>1. PICK n : n = Quitted(m, s, p)
    OBVIOUS
  <2>2. /\ n \in Manager
        /\ n.map = m.map /\ n.robbed = m.robbed /\ n.revived = m.revived
        /\ \A q \in Holder : n.key[q] = IF q = p THEN None ELSE m.key[q]
        /\ \A z \in Session : z # s => n.game[z] = m.game[z]
        /\ n.game[s].departed = m.game[s].departed \cup {p}
        /\ n.game[s].finished = m.game[s].finished
        /\ n.game[s].loop # "off" => m.game[s].loop # "off"
    BY <2>0, <2>1, LeftFields
  <2>3. Removed(m, s, p) = IF \E q \in Players(s) : n.key[q] = s THEN n ELSE Ended(n, s)
    BY <1>2, <2>1 DEF Removed, Quitted
  <2>4. m.map \subseteq Session /\ s # None /\ m.key \in [Holder -> Session \cup {None}]
    BY CampaignAssumption DEF Sound, Keyed, Manager
  <2>5. \A z \in n.map : info[z] # NoInfo
    BY <2>2 DEF Sound, Keyed
  <2>6. \A z \in Session : info[z] # NoInfo /\ z \notin n.map => n.game[z].finished
    BY <2>2 DEF Sound, Keyed
  <2>7. \A q \in Holder : n.key[q] # None => n.key[q] \in n.map /\ q \in Players(n.key[q]) \ n.game[n.key[q]].departed
    <3>. SUFFICES ASSUME NEW q \in Holder, n.key[q] # None
                  PROVE  n.key[q] \in n.map /\ q \in Players(n.key[q]) \ n.game[n.key[q]].departed
      OBVIOUS
    <3>1. q # p /\ n.key[q] = m.key[q]
      BY <2>2
    <3>2. m.key[q] \in m.map /\ q \in Players(m.key[q]) \ m.game[m.key[q]].departed
      BY <3>1 DEF Sound, Keyed
    <3>. QED
      BY <3>1, <3>2, <2>2, <2>4
  <2>8. ~n.robbed => \A z \in n.map : \A u \in Playing(n, z) : n.key[u] = z
    <3>. SUFFICES ASSUME ~n.robbed, NEW z \in n.map, NEW u \in Playing(n, z)
                  PROVE  n.key[u] = z
      OBVIOUS
    <3>1. u \in Playing(m, z) /\ (z = s => u # p) /\ z \in Session /\ z \in m.map
      BY <2>2, <2>4 DEF Playing
    <3>2. m.key[u] = z
      BY <3>1, <2>2 DEF Sound, Keyed
    <3>3. m.key[p] = s
      BY <1>2, <2>2 DEF Sound, Keyed
    <3>4. u \in Holder
      BY <3>1 DEF Playing, Info, Holder
    <3>. QED
      BY <2>2, <3>1, <3>2, <3>3, <3>4
  <2>9. \A z \in Session : n.game[z].loop # "off" => z \in n.map \/ z \in n.revived
    BY <2>2 DEF Sound, Keyed
  <2>10. Keyed(n)
    BY <2>2, <2>5, <2>6, <2>7, <2>8, <2>9 DEF Keyed
  <2>11. Peopled(n, n.map \ {s})
    <3>. SUFFICES ASSUME ~n.robbed, NEW z \in n.map \ {s}, info[z].kind # "local"
                  PROVE  Playing(n, z) # {}
      BY DEF Peopled
    <3>1. Playing(n, z) = Playing(m, z)
      BY <2>2, <2>4 DEF Playing
    <3>. QED
      BY <3>1, <2>2 DEF Sound, Peopled
  <2>12. CASE \E q \in Players(s) : n.key[q] = s
    <3>1. PICK q \in Players(s) : n.key[q] = s
      BY <2>12
    <3>2. q \in Holder
      BY <3>1, PlayersTyped
    <3>3. q \in Players(s) \ n.game[s].departed
      BY <3>1, <3>2, <2>4, <2>7
    <3>4. info[s].kind # "local" => Playing(n, s) # {}
      BY <3>3 DEF Players, Playing
    <3>5. Sound(n)
      BY <2>10, <2>11, <3>4 DEF Sound, Peopled
    <3>. QED
      BY <2>2, <2>3, <2>12, <3>5
  <2>13. CASE ~\E q \in Players(s) : n.key[q] = s
    <3>1. Removed(m, s, p) = Ended(n, s)
      BY <2>3, <2>13
    <3>2. /\ Sound(Ended(n, s)) /\ Ended(n, s).map = n.map \ {s}
          /\ \A z \in Session : Ended(n, s).game[z].departed = n.game[z].departed
      BY <2>10, <2>11, EndedSound
    <3>. QED
      BY <2>2, <3>1, <3>2
  <2>. QED
    BY <2>12, <2>13
<1>. QED
  BY <1>1, <1>2

\* Starting, pausing, resuming and finishing a loop disturb no key.
LEMMA LoopSound ==
  ASSUME NEW m, Sound(m), NEW n, n \in Manager,
         n.map = m.map, n.key = m.key, n.robbed = m.robbed,
         \A z \in Session : n.game[z].departed = m.game[z].departed /\ (m.game[z].finished => n.game[z].finished),
         \A z \in Session : n.game[z].loop # "off" => m.game[z].loop # "off" \/ z \in m.map \/ z \in n.revived,
         m.revived \subseteq n.revived
  PROVE  Sound(n)
<1>1. n.map \subseteq Session
  BY DEF Manager
<1>2. \A z \in Session : Playing(n, z) = Playing(m, z)
  BY DEF Playing
<1>3. n.key \in [Holder -> Session \cup {None}]
  BY DEF Manager
<1>4. \A p \in Holder : n.key[p] # None => n.key[p] \in n.map /\ p \in Players(n.key[p]) \ n.game[n.key[p]].departed
  BY <1>3 DEF Sound, Keyed
<1>5. Keyed(n)
  BY <1>1, <1>2, <1>4 DEF Sound, Keyed
<1>6. Peopled(n, n.map)
  BY <1>1, <1>2 DEF Sound, Peopled
<1>. QED
  BY <1>5, <1>6 DEF Sound

\* start(): a level that is not registered has ended, and counts as revived.
LEMMA StartedSound ==
  ASSUME Sound(mgr), NEW s \in Session, info[s] # NoInfo
  PROVE  /\ Sound(Started(mgr, s)) /\ Started(mgr, s).map = mgr.map
         /\ \A z \in Session : Started(mgr, s).game[z].departed = mgr.game[z].departed
<1>. DEFINE n == Started(mgr, s)
            g == [mgr.game EXCEPT ![s].loop = IF mgr.game[s].loop = "off" THEN "on" ELSE mgr.game[s].loop]
            r == IF mgr.game[s].finished THEN mgr.revived \cup {s} ELSE mgr.revived
<1>1. mgr \in Manager /\ mgr.game \in [Session -> Game] /\ mgr.revived \in SUBSET Session
  BY DEF Sound, Keyed, Manager
<1>2. g \in [Session -> Game] /\ r \in SUBSET Session
  BY <1>1 DEF Game
<1>3. n.map = mgr.map /\ n.key = mgr.key /\ n.robbed = mgr.robbed /\ n.game = g /\ n.revived = r
  BY <1>1 DEF Started, Manager
<1>4. n \in Manager
  BY <1>1, <1>2 DEF Started, Manager
<1>5. \A z \in Session : g[z].departed = mgr.game[z].departed /\ g[z].finished = mgr.game[z].finished
  BY <1>1 DEF Game
<1>6. \A z \in Session : z # s => g[z] = mgr.game[z]
  BY <1>1
<1>7. s \notin mgr.map => s \in r
  BY DEF Sound, Keyed
<1>8. \A z \in Session : g[z].loop # "off" => mgr.game[z].loop # "off" \/ z \in mgr.map \/ z \in r
  BY <1>6, <1>7
<1>. HIDE DEF n, g
<1>9. Sound(n)
  BY <1>3, <1>4, <1>5, <1>8, LoopSound
<1>. QED
  BY <1>3, <1>5, <1>9 DEF n

\* A level that has been won or lost is finished, and its loop stopped.
LEMMA OverSound ==
  ASSUME Sound(mgr), NEW s \in Session
  PROVE  /\ Sound(Over(mgr, s)) /\ Over(mgr, s).map = mgr.map
         /\ \A z \in Session : Over(mgr, s).game[z].departed = mgr.game[z].departed
<1>. DEFINE n == Over(mgr, s)
            g == [mgr.game EXCEPT ![s].finished = TRUE, ![s].loop = "off"]
<1>1. mgr \in Manager /\ mgr.game \in [Session -> Game]
  BY DEF Sound, Keyed, Manager
<1>2. g \in [Session -> Game]
  BY <1>1 DEF Game
<1>3. n.map = mgr.map /\ n.key = mgr.key /\ n.robbed = mgr.robbed /\ n.game = g /\ n.revived = mgr.revived
  BY <1>1 DEF Over, Manager
<1>4. n \in Manager
  BY <1>1, <1>2 DEF Over, Manager
<1>5. /\ \A z \in Session : g[z].departed = mgr.game[z].departed /\ (mgr.game[z].finished => g[z].finished)
      /\ \A z \in Session : g[z].loop # "off" => mgr.game[z].loop # "off"
  BY <1>1 DEF Game
<1>. HIDE DEF n, g
<1>6. Sound(n)
  BY <1>3, <1>4, <1>5, LoopSound
<1>. QED
  BY <1>3, <1>5, <1>6 DEF n

\* Pausing and resuming a level that goes on.
LEMMA SteeredSound ==
  ASSUME Sound(mgr), NEW s \in mgr.map, NEW l \in {"on", "paused"}, NEW n,
         n = [mgr EXCEPT !.game = [mgr.game EXCEPT ![s].loop = l]]
  PROVE  /\ Sound(n) /\ n.map = mgr.map
         /\ \A z \in Session : n.game[z].departed = mgr.game[z].departed
<1>. DEFINE g == [mgr.game EXCEPT ![s].loop = l]
<1>1. mgr \in Manager /\ mgr.game \in [Session -> Game] /\ s \in Session
  BY DEF Sound, Keyed, Manager
<1>2. g \in [Session -> Game]
  BY <1>1 DEF Game
<1>3. n.map = mgr.map /\ n.key = mgr.key /\ n.robbed = mgr.robbed /\ n.game = g /\ n.revived = mgr.revived
  BY <1>1 DEF Manager
<1>4. n \in Manager
  BY <1>1, <1>2 DEF Manager
<1>5. /\ \A z \in Session : g[z].departed = mgr.game[z].departed /\ (mgr.game[z].finished => g[z].finished)
      /\ \A z \in Session : g[z].loop # "off" => mgr.game[z].loop # "off" \/ z \in mgr.map
  BY <1>1 DEF Game
<1>. HIDE DEF g
<1>6. Sound(n)
  BY <1>3, <1>4, <1>5, LoopSound
<1>. QED
  BY <1>3, <1>5, <1>6

-----------------------------------------------------------------------------
(* The tabs *)

\* A step that makes no level, and tells nobody of one, and lets nobody
\* leave one, keeps what ties the tabs to the levels.
LEMMA TabsKept ==
  ASSUME IInv, info' = info,
         mgr'.map \subseteq mgr.map,
         \A z \in Session : mgr'.game[z].departed = mgr.game[z].departed,
         active' \in [Tab -> Session \cup {None}], \A t \in Tab : active'[t] \in {active[t], None},
         starts' \in [Tab -> Start],
         \A t \in Tab : starts'[t].at = "recording" => starts'[t] = starts[t],
         \A t \in Tab : starts'[t].partner # None => Owner[starts'[t].partner] # Owner[t]
  PROVE  Made' /\ Starting' /\ Heard'
<1>1. Made'
  BY DEF IInv, Made
<1>2. Starting'
  <2>1. ASSUME NEW t \in Tab, starts'[t].at = "recording"
        PROVE  /\ starts'[t].session \in Session
               /\ info'[starts'[t].session].host = t
               /\ info'[starts'[t].session].partner = starts'[t].partner
               /\ mgr'.game[starts'[t].session].departed = {}
    <3>1. starts'[t] = starts[t]
      BY <2>1
    <3>2. Starting
      BY DEF IInv
    <3>3. /\ starts[t].session \in Session
          /\ info[starts[t].session].host = t
          /\ info[starts[t].session].partner = starts[t].partner
          /\ mgr.game[starts[t].session].departed = {}
      BY <2>1, <3>1, <3>2 DEF Starting
    <3>4. mgr'.game[starts[t].session].departed = {}
      BY <3>3
    <3>. QED
      BY <3>1, <3>3, <3>4
  <2>. QED
    BY <2>1 DEF Starting
<1>3. Heard'
  <2>. SUFFICES ASSUME NEW t \in Tab, active'[t] # None
                PROVE  /\ t \in {info'[active'[t]].host, info'[active'[t]].partner}
                       /\ active'[t] \in mgr'.map => Owner[t] \notin mgr'.game[active'[t]].departed
                       /\ \A r \in Tab : starts'[r].at = "recording" => starts'[r].session # active'[t]
    BY DEF Heard
  <2>1. active'[t] = active[t] /\ active[t] \in Session
    BY DEF IInv, Heard
  <2>. QED
    BY <2>1 DEF IInv, Heard
<1>. QED
  BY <1>1, <1>2, <1>3

\* Sound speaks of the levels as they were made.
LEMMA SoundNext ==
  ASSUME NEW m, Sound(m), mgr' = m, info' = info
  PROVE  Sound(mgr)'
<1>1. Keyed(mgr)'
  BY DEF Sound, Keyed, Playing, Players
<1>2. Peopled(mgr, mgr.map)'
  BY DEF Sound, Peopled, Playing
<1>. QED
  BY <1>1, <1>2 DEF Sound

\* Whoever a tab speaks for plays the level the tab was told of.
LEMMA HeardPlays ==
  ASSUME IInv, NEW t \in Tab, active[t] # None, active[t] \in mgr.map
  PROVE  Owner[t] \in Playing(mgr, active[t])
<1>1. active[t] \in Session /\ info[active[t]] # NoInfo
  BY DEF IInv, Heard, Sound, Keyed
<1>2. t \in {info[active[t]].host, info[active[t]].partner} /\ Owner[t] \notin mgr.game[active[t]].departed
  BY DEF IInv, Heard
<1>3. t # None
  BY CampaignAssumption
<1>4. Owner[t] \in info[active[t]].users
  BY <1>1, <1>2, <1>3 DEF IInv, Made
<1>. QED
  BY <1>2, <1>4 DEF Playing

-----------------------------------------------------------------------------
(* The steps *)

\* A start that begins, is refused, finds a partner or cannot read its settings.
LEMMA StartSteps ==
  ASSUME IInv, NEW t \in Tab,
         (\E k \in Kinds : Begin(t, k)) \/ Refuse(t) \/ FindPartner(t) \/ Stall(t)
  PROVE  IInv'
<1>. USE CampaignAssumption
<1>0. /\ starts \in [Tab -> Start] /\ active \in [Tab -> Session \cup {None}] /\ Sound(mgr)
      /\ \A r \in Tab : starts[r].partner # None => Owner[starts[r].partner] # Owner[r]
  BY DEF IInv, Starting, Heard
<1>1. ASSUME NEW k \in Kinds, Begin(t, k)
      PROVE  IInv'
  <2>2. /\ starts' = [starts EXCEPT ![t] = [at |-> "load", kind |-> k, partner |-> None, session |-> None]]
        /\ active' = [active EXCEPT ![t] = None]
        /\ info' = info /\ sock' = sock /\ ending' = ending /\ crossed' = crossed
        /\ mgr' = IF active[t] = None THEN mgr ELSE Ended(mgr, active[t])
    BY <1>1 DEF Begin
  <2>3. /\ starts' \in [Tab -> Start] /\ active' \in [Tab -> Session \cup {None}]
        /\ \A r \in Tab : active'[r] \in {active[r], None}
        /\ \A r \in Tab : starts'[r].at = "recording" => starts'[r] = starts[r]
        /\ \A r \in Tab : starts'[r].partner # None => Owner[starts'[r].partner] # Owner[r]
    BY <1>0, <2>2 DEF Start
  <2>4. Sound(mgr') /\ mgr'.map \subseteq mgr.map /\ \A z \in Session : mgr'.game[z].departed = mgr.game[z].departed
    <3>1. CASE active[t] = None
      BY <1>0, <2>2, <3>1
    <3>2. CASE active[t] # None
      <4>1. mgr' = Ended(mgr, active[t]) /\ active[t] \in Session
        BY <1>0, <2>2, <3>2
      <4>2. Keyed(mgr) /\ Peopled(mgr, mgr.map \ {active[t]}) /\ info \in [Session -> Info]
        BY <1>0 DEF Sound, Peopled, IInv, Made
      <4>. QED
        BY <4>1, <4>2, EndedSound
    <3>. QED
      BY <3>1, <3>2
  <2>5. Sound(mgr)'
    BY <1>0, <2>2, <2>4, SoundNext
  <2>6. Made' /\ Starting' /\ Heard'
    BY <2>2, <2>3, <2>4, TabsKept
  <2>7. Others'
    BY <2>2 DEF IInv, Others
  <2>. QED
    BY <2>5, <2>6, <2>7 DEF IInv
<1>2. ASSUME Refuse(t) \/ FindPartner(t) \/ Stall(t)
      PROVE  IInv'
  <2>1. UNCHANGED <<mgr, info, sock, active, ending, crossed>>
    BY <1>2 DEF Refuse, FindPartner, Stall
  <2>2. /\ starts' \in [Tab -> Start]
        /\ \A r \in Tab : starts'[r].at = "recording" => starts'[r] = starts[r]
        /\ \A r \in Tab : starts'[r].partner # None => Owner[starts'[r].partner] # Owner[r]
    <3>1. CASE Refuse(t) \/ Stall(t)
      BY <1>0, <3>1 DEF Refuse, Stall, NoStart, Start
    <3>2. CASE FindPartner(t)
      <4>1. PICK p \in Partners(t) :
              starts' = [starts EXCEPT ![t] = [at |-> "ready", kind |-> "coop", partner |-> p, session |-> None]]
        BY <3>2 DEF FindPartner
      <4>2. p \in Tab /\ Owner[p] # Owner[t] /\ "coop" \in Kinds \cup {"none"}
        BY <1>0, <3>2, <4>1 DEF Partners, FindPartner, Start
      <4>. QED
        BY <1>0, <4>1, <4>2 DEF Start
    <3>. QED
      BY <1>2, <3>1, <3>2
  <2>3. Sound(mgr)'
    BY <1>0, <2>1, SoundNext
  <2>4. Made' /\ Starting' /\ Heard'
    BY <1>0, <2>1, <2>2, TabsKept
  <2>5. Others'
    BY <2>1 DEF IInv, Others
  <2>. QED
    BY <2>3, <2>4, <2>5 DEF IInv
<1>. QED
  BY <1>1, <1>2

\* A step that ends a level, or only stops or resumes its loop.
LEMMA LevelSteps ==
  ASSUME IInv, NEW s \in Session,
         (\E t \in Tab : Pause(t) \/ Resume(t)) \/ GameOver(s) \/ Complete(s) \/ CleanUp(s) \/ WriteFails(s)
  PROVE  IInv'
<1>0. /\ starts \in [Tab -> Start] /\ active \in [Tab -> Session \cup {None}] /\ Sound(mgr)
      /\ \A r \in Tab : starts[r].partner # None => Owner[starts[r].partner] # Owner[r]
      /\ info \in [Session -> Info]
  BY DEF IInv, Starting, Heard, Made
<1>1. starts' = starts /\ info' = info /\ sock' = sock
  BY DEF Pause, Resume, GameOver, Complete, CleanUp, WriteFails
<1>2. /\ active' \in [Tab -> Session \cup {None}]
      /\ \A r \in Tab : active'[r] \in {active[r], None}
  <2>1. CASE active' = active
    BY <1>0, <2>1
  <2>2. CASE active' = Untold(s)
    BY <1>0, <2>2 DEF Untold
  <2>. QED
    BY <2>1, <2>2 DEF Pause, Resume, GameOver, Complete, CleanUp, WriteFails
<1>3. Sound(mgr') /\ mgr'.map \subseteq mgr.map /\ \A z \in Session : mgr'.game[z].departed = mgr.game[z].departed
  <2>1. CASE \E t \in Tab : Pause(t) \/ Resume(t)
    <3>1. PICK z \in Session, l \in {"on", "paused"} :
            z \in mgr.map /\ mgr' = [mgr EXCEPT !.game = [mgr.game EXCEPT ![z].loop = l]]
      BY <2>1 DEF Pause, Resume, Steers
    <3>. QED
      BY <1>0, <3>1, SteeredSound
  <2>2. CASE GameOver(s)
    <3>1. mgr' = Ended(Over(mgr, s), s)
      BY <2>2 DEF GameOver
    <3>2. /\ Sound(Over(mgr, s)) /\ Over(mgr, s).map = mgr.map
          /\ \A z \in Session : Over(mgr, s).game[z].departed = mgr.game[z].departed
      BY <1>0, OverSound
    <3>3. Keyed(Over(mgr, s)) /\ Peopled(Over(mgr, s), Over(mgr, s).map \ {s})
      BY <3>2 DEF Sound, Peopled
    <3>. QED
      BY <1>0, <3>1, <3>2, <3>3, EndedSound
  <2>3. CASE Complete(s)
    BY <1>0, <2>3, OverSound DEF Complete
  <2>4. CASE CleanUp(s)
    <3>1. mgr' = Ended(mgr, s)
      BY <2>4 DEF CleanUp
    <3>2. Keyed(mgr) /\ Peopled(mgr, mgr.map \ {s})
      BY <1>0 DEF Sound, Peopled
    <3>. QED
      BY <1>0, <3>1, <3>2, EndedSound
  <2>5. CASE WriteFails(s)
    BY <1>0, <2>5 DEF WriteFails
  <2>. QED
    BY <2>1, <2>2, <2>3, <2>4, <2>5
<1>4. Sound(mgr)'
  BY <1>1, <1>3, SoundNext
<1>5. Made' /\ Starting' /\ Heard'
  <2>1. \A r \in Tab : starts'[r].at = "recording" => starts'[r] = starts[r]
    BY <1>1
  <2>2. starts' \in [Tab -> Start] /\ \A r \in Tab : starts'[r].partner # None => Owner[starts'[r].partner] # Owner[r]
    BY <1>0, <1>1
  <2>. QED
    BY <1>1, <1>2, <1>3, <2>1, <2>2, TabsKept
<1>6. Others'
  <2>1. Others
    BY DEF IInv
  <2>2. crossed' \in BOOLEAN
    BY <2>1 DEF Others, Pause, Resume, GameOver, Complete, CleanUp, WriteFails, Cross
  <2>3. ending' \in [Session -> {"no", "writing", "failed"}]
    BY <2>1 DEF Others, Pause, Resume, GameOver, Complete, CleanUp, WriteFails
  <2>. QED
    BY <1>1, <2>1, <2>2, <2>3 DEF Others
<1>. QED
  BY <1>4, <1>5, <1>6 DEF IInv

\* Quitting, dropping, and the end of the disconnect handler.
LEMMA LeaveSteps ==
  ASSUME IInv, NEW t \in Tab, Quit(t) \/ Drop(t) \/ Disconnect(t)
  PROVE  IInv'
<1>0. /\ starts \in [Tab -> Start] /\ active \in [Tab -> Session \cup {None}] /\ Sound(mgr)
      /\ \A r \in Tab : starts[r].partner # None => Owner[starts[r].partner] # Owner[r]
      /\ info \in [Session -> Info]
  BY DEF IInv, Starting, Heard, Made
<1>1. /\ starts' = starts /\ info' = info /\ ending' = ending /\ crossed' = crossed
      /\ sock' \in [Tab -> {"on", "leaving", "off"}]
  BY DEF Quit, Drop, Disconnect, IInv, Others
<1>2. Others'
  BY <1>1 DEF IInv, Others
<1>3. /\ \A r \in Tab : starts'[r].at = "recording" => starts'[r] = starts[r]
      /\ starts' \in [Tab -> Start] /\ \A r \in Tab : starts'[r].partner # None => Owner[starts'[r].partner] # Owner[r]
  BY <1>0, <1>1
<1>4. CASE Drop(t)
  <2>1. mgr' = mgr /\ active' = active
    BY <1>4 DEF Drop
  <2>2. Sound(mgr)'
    BY <1>0, <1>1, <2>1, SoundNext
  <2>3. Made' /\ Starting' /\ Heard'
    BY <1>0, <1>1, <1>3, <2>1, TabsKept
  <2>. QED
    BY <1>2, <2>2, <2>3 DEF IInv
<1>5. CASE Quit(t) \/ Disconnect(t)
  <2>1. Left(t) /\ active' = [active EXCEPT ![t] = None]
    BY <1>5 DEF Quit, Disconnect
  <2>2. /\ active' \in [Tab -> Session \cup {None}] /\ active'[t] = None
        /\ \A r \in Tab : r # t => active'[r] = active[r]
    BY <1>0, <2>1
  <2>3. CASE active[t] = None \/ ~CoopMode(active[t])
    <3>1. Sound(mgr') /\ mgr'.map \subseteq mgr.map /\ \A z \in Session : mgr'.game[z].departed = mgr.game[z].departed
      <4>1. CASE active[t] = None
        BY <1>0, <2>1, <4>1 DEF Left
      <4>2. CASE active[t] # None
        <5>1. mgr' = Ended(mgr, active[t]) /\ active[t] \in Session
          BY <1>0, <2>1, <2>3, <4>2 DEF Left
        <5>2. Keyed(mgr) /\ Peopled(mgr, mgr.map \ {active[t]})
          BY <1>0 DEF Sound, Peopled
        <5>. QED
          BY <1>0, <5>1, <5>2, EndedSound
      <4>. QED
        BY <4>1, <4>2
    <3>2. Sound(mgr)'
      BY <1>1, <3>1, SoundNext
    <3>3. Made' /\ Starting' /\ Heard'
      BY <1>1, <1>3, <2>2, <3>1, TabsKept
    <3>. QED
      BY <1>2, <3>2, <3>3 DEF IInv
  <2>4. CASE active[t] # None /\ CoopMode(active[t])
    <3>. DEFINE s == active[t]
    <3>1. s \in Session /\ mgr' = Removed(mgr, s, Owner[t])
      BY <1>0, <2>1, <2>4 DEF Left
    <3>2. Owner[t] \in Holder /\ (s \in mgr.map => Owner[t] \in Playing(mgr, s))
      BY <2>4, HeardPlays, CampaignAssumption DEF Holder
    <3>3. /\ Sound(mgr') /\ mgr'.map \subseteq mgr.map
          /\ \A z \in Session : z # s => mgr'.game[z].departed = mgr.game[z].departed
          /\ mgr'.game[s].departed \subseteq mgr.game[s].departed \cup {Owner[t]}
      BY <1>0, <3>1, <3>2, RemovedSound
    <3>4. Sound(mgr)'
      BY <1>1, <3>3, SoundNext
    <3>5. Made'
      BY <1>1 DEF IInv, Made
    <3>6. Heard /\ Starting /\ Made
      BY DEF IInv
    <3>7. Starting'
      <4>1. ASSUME NEW r \in Tab, starts[r].at = "recording"
            PROVE  /\ starts[r].session \in Session
                   /\ info[starts[r].session].host = r
                   /\ info[starts[r].session].partner = starts[r].partner
                   /\ mgr'.game[starts[r].session].departed = {}
        <5>1. /\ starts[r].session \in Session
              /\ info[starts[r].session].host = r
              /\ info[starts[r].session].partner = starts[r].partner
              /\ mgr.game[starts[r].session].departed = {}
          BY <3>6, <4>1 DEF Starting
        <5>2. starts[r].session # s
          BY <2>4, <3>6, <4>1 DEF Heard
        <5>. QED
          BY <3>3, <5>1, <5>2
      <4>. QED
        BY <1>1, <1>3, <4>1 DEF Starting
    <3>8. Heard'
      <4>1. ASSUME NEW r \in Tab, active'[r] # None
            PROVE  /\ r \in {info[active'[r]].host, info[active'[r]].partner}
                   /\ active'[r] \in mgr'.map => Owner[r] \notin mgr'.game[active'[r]].departed
                   /\ \A q \in Tab : starts[q].at = "recording" => starts[q].session # active'[r]
        <5>1. r # t /\ active'[r] = active[r] /\ active[r] \in Session /\ active[r] # None
          BY <1>0, <2>2, <4>1
        <5>2. /\ r \in {info[active[r]].host, info[active[r]].partner}
              /\ active[r] \in mgr.map => Owner[r] \notin mgr.game[active[r]].departed
              /\ \A q \in Tab : starts[q].at = "recording" => starts[q].session # active[r]
          BY <3>6, <5>1 DEF Heard
        <5>3. CASE active[r] # s
          BY <3>3, <5>1, <5>2, <5>3
        <5>4. CASE active[r] = s /\ s \in mgr.map
          <6>1. t \in {info[s].host, info[s].partner} /\ info[s] # NoInfo
            BY <2>4, <3>6, <5>4, <1>0 DEF Heard, Sound, Keyed
          <6>2. info[s].host # info[s].partner /\ Owner[info[s].host] # Owner[info[s].partner]
            <7>1. info[s].partner # None
              BY <5>1, <5>2, <5>4, <6>1, CampaignAssumption
            <7>. QED
              BY <3>1, <3>6, <6>1, <7>1 DEF Made
          <6>3. Owner[r] # Owner[t]
            BY <5>1, <5>2, <5>4, <6>1, <6>2
          <6>. QED
            BY <3>3, <5>1, <5>2, <5>4, <6>3
        <5>5. CASE active[r] = s /\ s \notin mgr.map
          BY <3>3, <5>1, <5>2, <5>5
        <5>. QED
          BY <5>3, <5>4, <5>5
      <4>. QED
        BY <1>1, <2>2, <4>1 DEF Heard
    <3>. QED
      BY <1>2, <3>4, <3>5, <3>7, <3>8 DEF IInv
  <2>. QED
    BY <2>3, <2>4
<1>. QED
  BY <1>4, <1>5

\* The players of a new level, for whom it is registered.
LEMMA NewPlayers ==
  ASSUME IInv, NEW t \in Tab, NEW s \in Session, info' \in [Session -> Info],
         info'[s].users = Users(t), info'[s].kind = starts[t].kind
  PROVE  /\ Players(s)' = Users(t) \cup (IF starts[t].kind = "local" THEN {s} ELSE {})
         /\ Users(t) \subseteq User /\ Users(t) # {} /\ Players(s)' \subseteq Holder
<1>1. starts[t].partner \in Tab \cup {None}
  BY DEF IInv, Starting, Start
<1>2. Users(t) \subseteq User /\ Owner[t] \in Users(t)
  BY <1>1, CampaignAssumption DEF Users
<1>3. Players(s)' = Users(t) \cup (IF starts[t].kind = "local" THEN {s} ELSE {})
  BY DEF Players
<1>. QED
  BY <1>2, <1>3 DEF Holder

\* startLevel registers the level, once its users are free.
LEMMA RegisteredSound ==
  ASSUME IInv, NEW t \in Tab, NEW s \in Session, info[s] = NoInfo,
         NEW i \in Info, i.kind = starts[t].kind, i.users = Users(t), i # NoInfo,
         info' = [info EXCEPT ![s] = i],
         mgr' = Registered(Freed(mgr, t), s, Users(t) \cup (IF starts[t].kind = "local" THEN {s} ELSE {}))
  PROVE  /\ Sound(mgr)'
         /\ mgr'.map \subseteq mgr.map \cup {s}
         /\ \A z \in Session : z # s => mgr'.game[z].departed = mgr.game[z].departed
         /\ mgr'.game[s].departed = {}
<1>. DEFINE m == Freed(mgr, t)
            P == Users(t) \cup (IF starts[t].kind = "local" THEN {s} ELSE {})
            key == [p \in Holder |-> IF p \in P THEN s ELSE m.key[p]]
            games == [m.game EXCEPT ![s] = NewGame]
<1>1. /\ Sound(m) /\ m.map \subseteq mgr.map
      /\ \A z \in Session : m.game[z].departed = mgr.game[z].departed
      /\ \A u \in Users(t) : m.key[u] = None
  BY FreedSound
<1>2. info' \in [Session -> Info] /\ info'[s] = i /\ \A z \in Session : z # s => info'[z] = info[z]
  BY DEF IInv, Made
<1>3. Players(s)' = P /\ P \subseteq Holder /\ Users(t) \subseteq User /\ Users(t) # {}
  BY <1>2, NewPlayers
<1>. HIDE DEF m, P
<1>4. /\ m \in Manager /\ m.map \subseteq Session /\ m.game \in [Session -> Game] /\ m.key \in [Holder -> Session \cup {None}]
  BY <1>1 DEF Sound, Keyed, Manager
<1>5. /\ mgr'.map = m.map \cup {s} /\ mgr'.key = key /\ mgr'.game = games
      /\ mgr'.robbed = m.robbed /\ mgr'.revived = m.revived
  BY <1>4 DEF Registered, Manager, m, P
<1>6. key \in [Holder -> Session \cup {None}] /\ games \in [Session -> Game]
  BY <1>4 DEF NewGame, Game
<1>7. mgr' \in Manager
  BY <1>4, <1>6 DEF Registered, Manager, m, P
<1>8. /\ \A z \in Session : z # s => games[z] = m.game[z]
      /\ games[s] = [loop |-> "off", finished |-> FALSE, departed |-> {}]
      /\ \A p \in Holder : key[p] = IF p \in P THEN s ELSE m.key[p]
  BY <1>4 DEF NewGame
<1>. HIDE DEF key, games
<1>9. s \notin m.map /\ s # None
  BY <1>1, CampaignAssumption DEF Sound, Keyed
<1>10. \A z \in Session : z # s => Players(z)' = Players(z) /\ Playing(mgr, z)' = Playing(m, z)
  BY <1>2, <1>5, <1>8 DEF Players, Playing
<1>11. Playing(mgr, s)' = Users(t)
  BY <1>2, <1>5, <1>8 DEF Playing
<1>12. Keyed(mgr)'
  <2>1. \A z \in mgr'.map : info'[z] # NoInfo'
    BY <1>1, <1>2, <1>4, <1>5 DEF Sound, Keyed, NoInfo
  <2>2. \A z \in Session : info'[z] # NoInfo' /\ z \notin mgr'.map => mgr'.game[z].finished
    BY <1>1, <1>2, <1>5, <1>8 DEF Sound, Keyed, NoInfo
  <2>3. ASSUME NEW p \in Holder, mgr'.key[p] # None
        PROVE  /\ mgr'.key[p] \in mgr'.map
               /\ p \in Players(mgr.key[p])' \ mgr'.game[mgr'.key[p]].departed
    <3>1. CASE p \in P
      <4>1. mgr'.key[p] = s
        BY <1>5, <1>8, <3>1
      <4>2. p \in info'[s].users \cup (IF info'[s].kind = "local" THEN {s} ELSE {})
        BY <1>3, <3>1 DEF Players
      <4>3. p \in Players(mgr.key[p])'
        BY <4>1, <4>2 DEF Players
      <4>4. mgr'.game[mgr'.key[p]].departed = {}
        BY <1>5, <1>8, <4>1
      <4>. QED
        BY <1>5, <4>1, <4>3, <4>4
    <3>2. CASE p \notin P
      <4>1. mgr'.key[p] = m.key[p] /\ m.key[p] # None
        BY <1>5, <1>8, <2>3, <3>2
      <4>2. m.key[p] \in m.map /\ p \in Players(m.key[p]) \ m.game[m.key[p]].departed
        BY <1>1, <4>1 DEF Sound, Keyed
      <4>3. m.key[p] # s /\ m.key[p] \in Session
        BY <1>4, <1>9, <4>2
      <4>4. p \in Players(mgr.key[p])'
        BY <1>2, <4>1, <4>2, <4>3 DEF Players
      <4>5. mgr'.game[mgr'.key[p]].departed = m.game[m.key[p]].departed
        BY <1>5, <1>8, <4>1, <4>3
      <4>. QED
        BY <1>5, <4>1, <4>2, <4>4, <4>5
    <3>. QED
      BY <3>1, <3>2
  <2>4. ASSUME ~mgr'.robbed, NEW z \in mgr'.map, NEW u \in Playing(mgr, z)'
        PROVE  mgr'.key[u] = z
    <3>1. CASE z = s
      BY <1>3, <1>5, <1>8, <1>11, <2>4, <3>1 DEF P, Holder
    <3>2. CASE z # s
      <4>1. z \in m.map /\ z \in Session /\ u \in Playing(m, z)
        BY <1>4, <1>5, <1>10, <2>4, <3>2
      <4>2. m.key[u] = z
        BY <1>1, <1>5, <2>4, <4>1 DEF Sound, Keyed
      <4>3. u \in User
        BY <4>1 DEF Playing, Info, IInv, Made
      <4>4. u \notin P
        <5>1. u \notin Users(t)
          BY <1>1, <4>1, <4>2, CampaignAssumption
        <5>. QED
          BY <4>3, <5>1, CampaignAssumption DEF P
      <4>. QED
        BY <1>5, <1>8, <4>2, <4>3, <4>4 DEF Holder
    <3>. QED
      BY <3>1, <3>2
  <2>5. \A z \in Session : mgr'.game[z].loop # "off" => z \in mgr'.map \/ z \in mgr'.revived
    BY <1>1, <1>5, <1>8 DEF Sound, Keyed
  <2>. QED
    BY <1>7, <2>1, <2>2, <2>3, <2>4, <2>5 DEF Keyed
<1>13. Peopled(mgr, mgr.map)'
  <2>1. ASSUME ~mgr'.robbed, NEW z \in mgr'.map, info'[z].kind # "local"
        PROVE  Playing(mgr, z)' # {}
    <3>1. CASE z = s
      BY <1>3, <1>11, <3>1
    <3>2. CASE z # s
      BY <1>1, <1>2, <1>4, <1>5, <1>10, <2>1, <3>2 DEF Sound, Peopled
    <3>. QED
      BY <3>1, <3>2
  <2>. QED
    BY <2>1 DEF Peopled
<1>14. Sound(mgr)'
  BY <1>12, <1>13 DEF Sound
<1>15. mgr'.map \subseteq mgr.map \cup {s}
  BY <1>1, <1>5
<1>16. \A z \in Session : z # s => mgr'.game[z].departed = mgr.game[z].departed
  BY <1>1, <1>5, <1>8
<1>17. mgr'.game[s].departed = {}
  BY <1>5, <1>8
<1>. QED
  BY <1>14, <1>15, <1>16, <1>17

\* A start that registers its level.
LEMMA StartLevelStep ==
  ASSUME IInv, NEW t \in Tab, StartLevel(t)
  PROVE  IInv'
<1>. USE CampaignAssumption
<1>1. PICK s \in Session :
        /\ info[s] = NoInfo
        /\ info' = [info EXCEPT ![s] = [kind |-> starts[t].kind, users |-> Users(t), host |-> t, partner |-> starts[t].partner]]
        /\ mgr' = Registered(Freed(mgr, t), s, Users(t) \cup (IF starts[t].kind = "local" THEN {s} ELSE {}))
        /\ starts' = [starts EXCEPT ![t] = [at |-> "recording", kind |-> starts[t].kind, partner |-> starts[t].partner, session |-> s]]
  BY DEF StartLevel
<1>2. sock' = sock /\ active' = active /\ ending' = ending /\ crossed' = crossed
  BY DEF StartLevel
<1>3. Made /\ Starting /\ Heard /\ starts[t] \in Start
  BY DEF IInv, Starting
<1>4. PICK i : i = [kind |-> starts[t].kind, users |-> Users(t), host |-> t, partner |-> starts[t].partner]
  OBVIOUS
<1>5. i \in Info /\ i # NoInfo /\ i.kind = starts[t].kind /\ i.users = Users(t) /\ i.host = t /\ i.partner = starts[t].partner
  <2>1. Users(t) \subseteq User
    BY <1>3 DEF Users, Start
  <2>2. starts[t].kind \in Kinds \cup {"none"} /\ starts[t].partner \in Tab \cup {None}
    BY <1>3 DEF Start
  <2>3. i.host # NoInfo.host
    BY <1>4 DEF NoInfo
  <2>. QED
    BY <1>4, <2>1, <2>2, <2>3 DEF Info
<1>6. /\ Sound(mgr)'
      /\ mgr'.map \subseteq mgr.map \cup {s}
      /\ \A z \in Session : z # s => mgr'.game[z].departed = mgr.game[z].departed
      /\ mgr'.game[s].departed = {}
  BY <1>1, <1>4, <1>5, RegisteredSound
<1>7. info' \in [Session -> Info] /\ info'[s] = i /\ \A z \in Session : z # s => info'[z] = info[z]
  BY <1>1, <1>3, <1>4, <1>5 DEF Made
<1>8. Made'
  <2>1. ASSUME NEW z \in Session, info'[z] # NoInfo
        PROVE  /\ info'[z].host \in Tab
               /\ info'[z].users = {Owner[p] : p \in {info'[z].host, info'[z].partner} \ {None}}
               /\ info'[z].partner # None => Owner[info'[z].partner] # Owner[info'[z].host]
    <3>1. CASE z = s
      BY <1>3, <1>5, <1>7, <3>1 DEF Users, Starting
    <3>2. CASE z # s
      BY <1>3, <1>7, <2>1, <3>2 DEF Made
    <3>. QED
      BY <3>1, <3>2
  <2>. QED
    BY <1>7, <2>1 DEF Made, NoInfo
<1>9. /\ starts' \in [Tab -> Start]
      /\ \A r \in Tab : r # t => starts'[r] = starts[r]
      /\ starts'[t].session = s /\ starts'[t].partner = starts[t].partner
  BY <1>1, <1>3 DEF Starting, Start
<1>10. \A r \in Tab : r # t /\ starts[r].at = "recording" => starts[r].session # s
  <2>1. NoInfo.host \notin Tab
    BY DEF NoInfo
  <2>. QED
    BY <1>1, <1>3, <2>1 DEF Starting
<1>11. Starting'
  <2>1. ASSUME NEW r \in Tab, starts'[r].at = "recording"
        PROVE  /\ starts'[r].session \in Session
               /\ info'[starts'[r].session].host = r
               /\ info'[starts'[r].session].partner = starts'[r].partner
               /\ mgr'.game[starts'[r].session].departed = {}
    <3>1. CASE r = t
      BY <1>5, <1>6, <1>7, <1>9, <3>1
    <3>2. CASE r # t
      <4>1. /\ starts[r].session \in Session /\ starts[r].session # s
            /\ info[starts[r].session].host = r
            /\ info[starts[r].session].partner = starts[r].partner
            /\ mgr.game[starts[r].session].departed = {}
        BY <1>3, <1>9, <1>10, <2>1, <3>2 DEF Starting
      <4>. QED
        BY <1>6, <1>7, <1>9, <3>2, <4>1
    <3>. QED
      BY <3>1, <3>2
  <2>2. \A r \in Tab : starts'[r].partner # None => Owner[starts'[r].partner] # Owner[r]
    BY <1>3, <1>9 DEF Starting
  <2>. QED
    BY <1>9, <2>1, <2>2 DEF Starting
<1>12. Heard'
  <2>1. ASSUME NEW r \in Tab, active[r] # None
        PROVE  /\ r \in {info'[active[r]].host, info'[active[r]].partner}
               /\ active[r] \in mgr'.map => Owner[r] \notin mgr'.game[active[r]].departed
               /\ \A q \in Tab : starts'[q].at = "recording" => starts'[q].session # active[r]
    <3>1. active[r] \in Session /\ r # None
      BY <1>3, <2>1 DEF Heard
    <3>2. active[r] # s
      BY <1>1, <1>3, <2>1, <3>1 DEF Heard, NoInfo
    <3>3. /\ r \in {info[active[r]].host, info[active[r]].partner}
          /\ active[r] \in mgr.map => Owner[r] \notin mgr.game[active[r]].departed
          /\ \A q \in Tab : starts[q].at = "recording" => starts[q].session # active[r]
      BY <1>3, <2>1 DEF Heard
    <3>4. \A q \in Tab : starts'[q].at = "recording" => starts'[q].session # active[r]
      BY <1>9, <3>2, <3>3
    <3>. QED
      BY <1>6, <1>7, <3>1, <3>2, <3>3, <3>4
  <2>. QED
    BY <1>2, <1>3, <2>1 DEF Heard
<1>13. Others'
  BY <1>2 DEF IInv, Others
<1>. QED
  BY <1>6, <1>8, <1>11, <1>12, <1>13 DEF IInv

\* The tabs are told of the level, and it starts.
LEMMA PlayStep ==
  ASSUME IInv, NEW t \in Tab, Play(t)
  PROVE  IInv'
<1>. USE CampaignAssumption
<1>. DEFINE s == starts[t].session
<1>1. /\ Sound(mgr) /\ Made /\ Starting /\ Heard /\ Others
      /\ starts \in [Tab -> Start] /\ active \in [Tab -> Session \cup {None}]
  BY DEF IInv, Starting, Heard
<1>2. /\ s \in Session /\ info[s].host = t /\ info[s].partner = starts[t].partner
      /\ mgr.game[s].departed = {} /\ info[s] # NoInfo /\ starts[t].at = "recording"
  BY <1>1 DEF Play, Starting, NoInfo
<1>3. mgr' = Started(mgr, s) /\ active' = Told(t) /\ starts' = [starts EXCEPT ![t] = NoStart] /\ info' = info
      /\ sock' = sock /\ ending' = ending /\ crossed' \in BOOLEAN
  BY <1>1 DEF Play, Others
<1>4. /\ Sound(mgr') /\ mgr'.map = mgr.map /\ \A z \in Session : mgr'.game[z].departed = mgr.game[z].departed
  BY <1>1, <1>2, <1>3, StartedSound
<1>5. Sound(mgr)'
  BY <1>3, <1>4, SoundNext
<1>6. Made'
  BY <1>1, <1>3 DEF Made
<1>7. /\ starts' \in [Tab -> Start] /\ starts'[t].at = "idle" /\ starts'[t].partner = None
      /\ \A r \in Tab : r # t => starts'[r] = starts[r]
  BY <1>1, <1>3 DEF NoStart, Start
<1>8. Starting'
  <2>1. ASSUME NEW r \in Tab, starts'[r].at = "recording"
        PROVE  /\ starts'[r].session \in Session
               /\ info'[starts'[r].session].host = r
               /\ info'[starts'[r].session].partner = starts'[r].partner
               /\ mgr'.game[starts'[r].session].departed = {}
    <3>1. starts'[r] = starts[r]
      BY <1>7, <2>1
    <3>2. /\ starts[r].session \in Session
          /\ info[starts[r].session].host = r
          /\ info[starts[r].session].partner = starts[r].partner
          /\ mgr.game[starts[r].session].departed = {}
      BY <1>1, <2>1, <3>1 DEF Starting
    <3>. QED
      BY <1>3, <1>4, <3>1, <3>2
  <2>2. \A r \in Tab : starts'[r].partner # None => Owner[starts'[r].partner] # Owner[r]
    BY <1>1, <1>7 DEF Starting
  <2>. QED
    BY <1>7, <2>1, <2>2 DEF Starting
<1>9. /\ active' \in [Tab -> Session \cup {None}]
      /\ \A r \in Tab : active'[r] = IF r \in {t, starts[t].partner} THEN s ELSE active[r]
  BY <1>1, <1>2, <1>3 DEF Told
<1>10. \A r \in Tab : r # t /\ starts[r].at = "recording" => starts[r].session # s
  BY <1>1, <1>2 DEF Starting
<1>11. Heard'
  <2>1. ASSUME NEW r \in Tab, active'[r] # None
        PROVE  /\ r \in {info[active'[r]].host, info[active'[r]].partner}
               /\ active'[r] \in mgr.map => Owner[r] \notin mgr'.game[active'[r]].departed
               /\ \A q \in Tab : starts'[q].at = "recording" => starts'[q].session # active'[r]
    <3>1. CASE r \in {t, starts[t].partner}
      BY <1>2, <1>4, <1>7, <1>9, <1>10, <3>1
    <3>2. CASE r \notin {t, starts[t].partner}
      <4>1. active'[r] = active[r] /\ active[r] \in Session
        BY <1>1, <1>9, <2>1, <3>2
      <4>2. /\ r \in {info[active[r]].host, info[active[r]].partner}
            /\ active[r] \in mgr.map => Owner[r] \notin mgr.game[active[r]].departed
            /\ \A q \in Tab : starts[q].at = "recording" => starts[q].session # active[r]
        BY <1>1, <2>1, <4>1 DEF Heard
      <4>. QED
        BY <1>4, <1>7, <4>1, <4>2
    <3>. QED
      BY <3>1, <3>2
  <2>. QED
    BY <1>3, <1>4, <1>9, <2>1 DEF Heard
<1>12. Others'
  BY <1>1, <1>3 DEF Others
<1>. QED
  BY <1>5, <1>6, <1>8, <1>11, <1>12 DEF IInv

-----------------------------------------------------------------------------
(* The theorems *)

\* The inductive invariant holds at the start and is kept by every step.
LEMMA InvariantInit == Init => IInv
<1>. SUFFICES ASSUME Init PROVE IInv
  OBVIOUS
<1>1. mgr \in Manager /\ mgr.map = {} /\ ~mgr.robbed
  BY DEF Init, Manager, NewGame, Game
<1>2. /\ \A p \in Holder : mgr.key[p] = None
      /\ \A s \in Session : mgr.game[s] = NewGame /\ info[s] = NoInfo
  BY DEF Init
<1>3. Sound(mgr)
  BY <1>1, <1>2 DEF Sound, Keyed, Peopled, NewGame
<1>4. Made
  BY DEF Init, Made, NoInfo, Info
<1>5. Starting
  BY DEF Init, Starting, NoStart, Start
<1>6. Heard
  BY DEF Init, Heard
<1>7. Others
  BY DEF Init, Others
<1>. QED
  BY <1>3, <1>4, <1>5, <1>6, <1>7 DEF IInv

LEMMA InvariantNext == IInv /\ [Next]_vars => IInv'
<1>. SUFFICES ASSUME IInv, [Next]_vars PROVE IInv'
  OBVIOUS
<1>1. ASSUME NEW t \in Tab, (\E k \in Kinds : Begin(t, k)) \/ Refuse(t) \/ FindPartner(t) \/ Stall(t)
      PROVE  IInv'
  BY <1>1, StartSteps
<1>2. ASSUME NEW t \in Tab, StartLevel(t)
      PROVE  IInv'
  BY <1>2, StartLevelStep
<1>3. ASSUME NEW t \in Tab, Play(t)
      PROVE  IInv'
  BY <1>3, PlayStep
<1>4. ASSUME NEW t \in Tab, Pause(t) \/ Resume(t)
      PROVE  IInv'
  <2>1. PICK s \in Session : TRUE
    BY <1>4 DEF Pause, Resume
  <2>. QED
    BY <1>4, <2>1, LevelSteps
<1>5. ASSUME NEW t \in Tab, Quit(t) \/ Drop(t) \/ Disconnect(t)
      PROVE  IInv'
  BY <1>5, LeaveSteps
<1>6. ASSUME NEW s \in Session, GameOver(s) \/ Complete(s) \/ CleanUp(s) \/ WriteFails(s)
      PROVE  IInv'
  BY <1>6, LevelSteps
<1>7. CASE UNCHANGED vars
  <2>1. /\ mgr' = mgr /\ info' = info /\ sock' = sock /\ active' = active /\ starts' = starts
        /\ ending' = ending /\ crossed' = crossed
    BY <1>7 DEF vars
  <2>2. Sound(mgr)'
    BY <2>1, SoundNext DEF IInv
  <2>3. Made' /\ Starting' /\ Heard' /\ Others'
    BY <2>1 DEF IInv, Made, Starting, Heard, Others
  <2>. QED
    BY <2>2, <2>3 DEF IInv
<1>. QED
  BY <1>1, <1>2, <1>3, <1>4, <1>5, <1>6, <1>7 DEF Next

\* What is invariant follows from the inductive invariant.
LEMMA InvariantImplies == IInv => TypeOK /\ KeysNameSessions /\ LoopsAreManaged /\ OneLevelEach /\ SomebodyPlays
<1>. SUFFICES ASSUME IInv PROVE TypeOK /\ KeysNameSessions /\ LoopsAreManaged /\ OneLevelEach /\ SomebodyPlays
  OBVIOUS
<1>1. Keyed(mgr) /\ Peopled(mgr, mgr.map) /\ info \in [Session -> Info]
  BY DEF IInv, Sound, Made
<1>2. TypeOK
  BY <1>1 DEF IInv, Keyed, Starting, Heard, Others, TypeOK
<1>3. KeysNameSessions
  BY <1>1 DEF Keyed, KeysNameSessions
<1>4. LoopsAreManaged
  BY <1>1 DEF Keyed, LoopsAreManaged
<1>5. OneLevelEach
  <2>. SUFFICES ASSUME ~mgr.robbed, NEW u \in User, NEW s \in Session, NEW z \in Session, Plays(u, s), Plays(u, z)
                PROVE  s = z
    BY DEF OneLevelEach
  <2>1. mgr.key[u] = s /\ mgr.key[u] = z
    BY <1>1 DEF Keyed, Plays, Playing
  <2>. QED
    BY <2>1
<1>6. SomebodyPlays
  <2>. SUFFICES ASSUME ~mgr.robbed, NEW s \in mgr.map, info[s].kind # "local"
                PROVE  \E u \in User : Plays(u, s)
    BY DEF SomebodyPlays
  <2>1. PICK u : u \in Playing(mgr, s)
    BY <1>1 DEF Peopled
  <2>2. s \in Session
    BY <1>1 DEF Keyed, Manager
  <2>3. u \in User
    BY <1>1, <2>1, <2>2 DEF Playing, Info
  <2>. QED
    BY <2>1, <2>3 DEF Plays, Playing
<1>. QED
  BY <1>2, <1>3, <1>4, <1>5, <1>6

\* Whatever is asked for in whatever order: every variable keeps its type.
THEOREM TypeCorrect == Spec => []TypeOK
<1>1. IInv => TypeOK
  BY InvariantImplies
<1>. QED
  BY InvariantInit, InvariantNext, <1>1, PTL DEF Spec

\* getPlayerSession, for any number of players and levels: whoever is looked
\* up in a level is one of its players, has not left it, and it goes on.
THEOREM KeysAlwaysNameSessions == Spec => []KeysNameSessions
<1>1. IInv => KeysNameSessions
  BY InvariantImplies
<1>. QED
  BY InvariantInit, InvariantNext, <1>1, PTL DEF Spec

\* A loop that runs is in the manager's map, where endSession finds it, but
\* for levels that were started after their end.
THEOREM LoopsAlwaysManaged == Spec => []LoopsAreManaged
<1>1. IInv => LoopsAreManaged
  BY InvariantImplies
<1>. QED
  BY InvariantInit, InvariantNext, <1>1, PTL DEF Spec

\* One active level per user, as long as endSession has taken nobody's key
\* that named another level.
THEOREM OneLevelAtATime == Spec => []OneLevelEach
<1>1. IInv => OneLevelEach
  BY InvariantImplies
<1>. QED
  BY InvariantInit, InvariantNext, <1>1, PTL DEF Spec

\* Under the same condition no level outlives its last player, local co-op
\* excepted.
THEOREM LevelsHavePlayers == Spec => []SomebodyPlays
<1>1. IInv => SomebodyPlays
  BY InvariantImplies
<1>. QED
  BY InvariantInit, InvariantNext, <1>1, PTL DEF Spec

-----------------------------------------------------------------------------
(* Somebody steers *)

\* Everybody a running level was made for has a tab that was told of it and
\* is not gone, or has left the level.
Steered ==
  ~crossed => \A s \in mgr.map : mgr.game[s].loop # "off" =>
    \A t \in {info[s].host, info[s].partner} \ {None} :
      Owner[t] \notin mgr.game[s].departed => active[t] = s /\ sock[t] # "off"

\* No level appears and none starts to run; who has left does not come back.
Subdued(m, n) ==
  /\ n.map \subseteq m.map
  /\ \A z \in n.map : /\ n.game[z].loop # "off" => m.game[z].loop # "off"
                      /\ m.game[z].departed \subseteq n.game[z].departed

LEMMA SubduedTwice ==
  ASSUME NEW m, NEW n, NEW o, Subdued(m, n), Subdued(n, o)
  PROVE  Subdued(m, o)
BY DEF Subdued

\* endSession disturbs no level but the one that ends.
LEMMA EndedSubdues ==
  ASSUME NEW m, m \in Manager, NEW s \in Session
  PROVE  Subdued(m, Ended(m, s)) /\ Ended(m, s) \in Manager /\ s \notin Ended(m, s).map
<1>1. CASE s \notin m.map
  BY <1>1 DEF Ended, Subdued
<1>2. CASE s \in m.map
  <2>1. /\ Ended(m, s).map = m.map \ {s} /\ Ended(m, s) \in Manager
        /\ Ended(m, s).game = [m.game EXCEPT ![s] = [loop |-> "off", finished |-> TRUE, departed |-> m.game[s].departed]]
    BY <1>2, EndedFields
  <2>2. m.map \subseteq Session /\ m.game \in [Session -> Game]
    BY DEF Manager
  <2>3. \A z \in m.map \ {s} : Ended(m, s).game[z] = m.game[z]
    BY <2>1, <2>2
  <2>. QED
    BY <2>1, <2>3 DEF Subdued
<1>. QED
  BY <1>1, <1>2

\* removePlayer: the level goes on without the player, or ends.
LEMMA RemovedSubdues ==
  ASSUME NEW m, m \in Manager, NEW s \in Session, NEW p \in Holder
  PROVE  /\ Subdued(m, Removed(m, s, p))
         /\ s \in Removed(m, s, p).map => p \in Removed(m, s, p).game[s].departed
<1>1. CASE s \notin m.map
  BY <1>1 DEF Removed, Subdued
<1>2. CASE s \in m.map
  <2>. PICK n : n = Quitted(m, s, p)
    OBVIOUS
  <2>1. Removed(m, s, p) \in {n, Ended(n, s)}
    BY <1>2 DEF Removed, Quitted
  <2>2. /\ n \in Manager /\ n.map = m.map
        /\ \A z \in Session : z # s => n.game[z] = m.game[z]
        /\ n.game[s].departed = m.game[s].departed \cup {p}
        /\ n.game[s].loop # "off" => m.game[s].loop # "off"
    BY LeftFields
  <2>3. Subdued(m, n)
    BY <2>2 DEF Subdued, Manager
  <2>4. Subdued(n, Ended(n, s)) /\ s \notin Ended(n, s).map
    BY <2>2, EndedSubdues
  <2>5. Subdued(m, Ended(n, s))
    BY <2>3, <2>4, SubduedTwice
  <2>6. p \in n.game[s].departed
    BY <2>2
  <2>. QED
    BY <2>1, <2>3, <2>4, <2>5, <2>6
<1>. QED
  BY <1>1, <1>2

\* The levels that the users of a start are in are ended.
LEMMA FreedSubdues ==
  ASSUME IInv, NEW t \in Tab
  PROVE  Subdued(mgr, Freed(mgr, t)) /\ Freed(mgr, t) \in Manager
<1>0. mgr \in Manager
  BY DEF IInv, Sound, Keyed
<1>1. ASSUME NEW m, m \in Manager, NEW u \in User
      PROVE  Subdued(m, EndedFor(m, u)) /\ EndedFor(m, u) \in Manager
  <2>1. m.key[u] \in Session \cup {None}
    BY <1>1 DEF Manager, Holder
  <2>2. CASE m.key[u] = None
    BY <1>1, <2>2 DEF EndedFor, Subdued
  <2>3. CASE m.key[u] # None
    BY <1>1, <2>1, <2>3, EndedSubdues DEF EndedFor
  <2>. QED
    BY <2>2, <2>3
<1>. PICK own : own = EndedFor(mgr, Owner[t])
  OBVIOUS
<1>2. Subdued(mgr, own) /\ own \in Manager
  BY <1>0, <1>1, CampaignAssumption
<1>3. CASE starts[t].partner = None
  BY <1>2, <1>3 DEF Freed
<1>4. CASE starts[t].partner # None
  <2>1. starts[t].partner \in Tab
    BY <1>4 DEF IInv, Starting, Start
  <2>2. Subdued(own, EndedFor(own, Owner[starts[t].partner])) /\ EndedFor(own, Owner[starts[t].partner]) \in Manager
    BY <1>1, <1>2, <2>1, CampaignAssumption
  <2>. QED
    BY <1>2, <1>4, <2>2, SubduedTwice DEF Freed
<1>. QED
  BY <1>3, <1>4

\* No level starts to run; whoever stays in one keeps the tab that steers it.
LEMMA SteerKept ==
  ASSUME IInv, Steered, Subdued(mgr, mgr'), info' = info, crossed => crossed',
         ~crossed' => \A t \in Tab, z \in mgr'.map :
           active[t] = z /\ sock[t] # "off" /\ Owner[t] \notin mgr'.game[z].departed => active'[t] = z /\ sock'[t] # "off"
  PROVE  Steered'
<1>. SUFFICES ASSUME ~crossed', NEW s \in mgr'.map, mgr'.game[s].loop # "off",
                     NEW t \in {info[s].host, info[s].partner} \ {None}, Owner[t] \notin mgr'.game[s].departed
              PROVE  active'[t] = s /\ sock'[t] # "off"
  BY DEF Steered
<1>1. /\ s \in mgr.map /\ mgr.game[s].loop # "off" /\ Owner[t] \notin mgr.game[s].departed
  BY DEF Subdued
<1>2. active[t] = s /\ sock[t] # "off"
  BY <1>1 DEF Steered
<1>3. s \in Session
  BY <1>1 DEF IInv, Sound, Keyed, Manager
<1>4. t \in Tab
  BY <1>3 DEF IInv, Made, Info
<1>. QED
  BY <1>2, <1>4

\* campaign:start up to where the level is made, and its refusals.
LEMMA StartSteers ==
  ASSUME IInv, Steered, NEW t \in Tab, (\E k \in Kinds : Begin(t, k)) \/ Refuse(t) \/ FindPartner(t) \/ Stall(t)
  PROVE  Steered'
<1>0. mgr \in Manager /\ active \in [Tab -> Session \cup {None}]
  BY DEF IInv, Sound, Keyed, Heard
<1>1. CASE \E k \in Kinds : Begin(t, k)
  <2>1. /\ info' = info /\ sock' = sock /\ crossed' = crossed /\ active' = [active EXCEPT ![t] = None]
        /\ mgr' = IF active[t] = None THEN mgr ELSE Ended(mgr, active[t])
    BY <1>1 DEF Begin
  <2>2. Subdued(mgr, mgr') /\ (active[t] # None => active[t] \notin mgr'.map)
    <3>1. CASE active[t] = None
      BY <2>1, <3>1 DEF Subdued
    <3>2. CASE active[t] # None
      BY <1>0, <2>1, <3>2, EndedSubdues
    <3>. QED
      BY <3>1, <3>2
  <2>3. None \notin mgr'.map
    BY <1>0, <2>2, CampaignAssumption DEF Subdued, Manager
  <2>4. \A r \in Tab, z \in mgr'.map : active[r] = z => active'[r] = z
    BY <1>0, <2>1, <2>2, <2>3
  <2>. QED
    BY <2>1, <2>2, <2>4, SteerKept
<1>2. CASE Refuse(t) \/ FindPartner(t) \/ Stall(t)
  <2>1. mgr' = mgr /\ info' = info /\ sock' = sock /\ crossed' = crossed /\ active' = active
    BY <1>2 DEF Refuse, FindPartner, Stall
  <2>. QED
    BY <2>1 DEF Steered
<1>. QED
  BY <1>1, <1>2

\* startLevel: the level is registered, and does not run yet.
LEMMA StartLevelSteers ==
  ASSUME IInv, Steered, NEW t \in Tab, StartLevel(t)
  PROVE  Steered'
<1>0. PICK s \in Session :
        \E i, P : /\ info[s] = NoInfo /\ info' = [info EXCEPT ![s] = i]
                  /\ mgr' = Registered(Freed(mgr, t), s, P)
                  /\ sock' = sock /\ active' = active /\ crossed' = crossed
  BY DEF StartLevel
<1>1. PICK i, P : /\ info[s] = NoInfo /\ info' = [info EXCEPT ![s] = i]
                  /\ mgr' = Registered(Freed(mgr, t), s, P)
                  /\ sock' = sock /\ active' = active /\ crossed' = crossed
  BY <1>0
<1>. PICK m : m = Freed(mgr, t)
  OBVIOUS
<1>2. Subdued(mgr, m) /\ m \in Manager
  BY FreedSubdues
<1>3. m.game \in [Session -> Game] /\ m.map \subseteq Session
  BY <1>2 DEF Manager
<1>4. /\ mgr'.map = m.map \cup {s}
      /\ mgr'.game = [m.game EXCEPT ![s] = NewGame]
  BY <1>1, <1>2 DEF Registered, Manager
<1>5. mgr'.game[s].loop = "off" /\ \A z \in m.map : z # s => mgr'.game[z] = m.game[z] /\ info'[z] = info[z]
  BY <1>1, <1>3, <1>4 DEF NewGame, IInv, Made
<1>6. SUFFICES ASSUME ~crossed, NEW z \in mgr'.map, mgr'.game[z].loop # "off",
                      NEW r \in {info'[z].host, info'[z].partner} \ {None}, Owner[r] \notin mgr'.game[z].departed
               PROVE  active[r] = z /\ sock[r] # "off"
  BY <1>1 DEF Steered
<1>7. z # s /\ z \in m.map
  BY <1>4, <1>5, <1>6
<1>8. z \in mgr.map /\ mgr.game[z].loop # "off" /\ Owner[r] \notin mgr.game[z].departed
      /\ r \in {info[z].host, info[z].partner} \ {None}
  BY <1>2, <1>5, <1>6, <1>7 DEF Subdued
<1>. QED
  BY <1>6, <1>8 DEF Steered

\* The level starts, and its tabs are told: those of whoever it was made for.
LEMMA PlaySteers ==
  ASSUME IInv, Steered, NEW t \in Tab, Play(t)
  PROVE  Steered'
<1>. PICK s : s = starts[t].session
  OBVIOUS
<1>1. /\ s \in Session /\ info[s].host = t /\ info[s].partner = starts[t].partner
      /\ starts[t].partner \in Tab \cup {None}
  BY DEF Play, IInv, Starting, Start
<1>2. /\ mgr' = Started(mgr, s) /\ info' = info /\ sock' = sock
      /\ active' = Told(t)
      /\ crossed' = (crossed \/ \E p \in {t, starts[t].partner} \ {None} : Late(p, s))
  BY DEF Play
<1>3. mgr \in Manager /\ mgr.game \in [Session -> Game] /\ mgr.map \subseteq Session
  BY DEF IInv, Sound, Keyed, Manager
<1>4. /\ mgr'.map = mgr.map
      /\ \A z \in Session : z # s => mgr'.game[z] = mgr.game[z]
      /\ mgr'.game[s].departed = mgr.game[s].departed
  <2>1. mgr'.game = [mgr.game EXCEPT ![s].loop = IF mgr.game[s].loop = "off" THEN "on" ELSE mgr.game[s].loop]
        /\ mgr'.map = mgr.map
    BY <1>2, <1>3 DEF Started, Manager
  <2>. QED
    BY <1>1, <1>3, <2>1 DEF Game
<1>5. \A r \in Tab : active'[r] = IF r \in {t, starts[t].partner} THEN s ELSE active[r]
  BY <1>2 DEF Told
<1>6. SUFFICES ASSUME ~crossed', NEW z \in mgr.map, mgr'.game[z].loop # "off",
                      NEW r \in {info[z].host, info[z].partner} \ {None}, Owner[r] \notin mgr'.game[z].departed
               PROVE  active'[r] = z /\ sock[r] # "off"
  BY <1>2, <1>4 DEF Steered
<1>7. ~crossed /\ \A p \in {t, starts[t].partner} \ {None} : ~Late(p, s)
  BY <1>2, <1>6
<1>8. CASE z = s
  <2>1. r \in {t, starts[t].partner} /\ r \in Tab
    BY <1>1, <1>6, <1>8
  <2>2. ~Late(r, s)
    BY <1>6, <1>7, <2>1
  <2>. QED
    BY <1>5, <1>8, <2>1, <2>2 DEF Late
<1>9. CASE z # s
  <2>1. active[r] = z /\ sock[r] # "off"
    BY <1>3, <1>4, <1>6, <1>7, <1>9 DEF Steered
  <2>2. r \in Tab
    BY <1>3, <1>6 DEF IInv, Made, Info
  <2>3. r \notin {t, starts[t].partner}
    BY <1>6, <1>7, <1>9, <2>1 DEF Late
  <2>. QED
    BY <1>5, <2>1, <2>2, <2>3
<1>. QED
  BY <1>8, <1>9

\* Whoever quits or drops has left the level, or it has ended.
LEMMA LeaveSteers ==
  ASSUME IInv, Steered, NEW t \in Tab, Quit(t) \/ Drop(t) \/ Disconnect(t)
  PROVE  Steered'
<1>0. /\ mgr \in Manager /\ active \in [Tab -> Session \cup {None}] /\ sock \in [Tab -> {"on", "leaving", "off"}]
      /\ Owner[t] \in User
  BY CampaignAssumption DEF IInv, Sound, Keyed, Heard, Others
<1>1. CASE Drop(t)
  <2>1. mgr' = mgr /\ info' = info /\ crossed' = crossed /\ active' = active /\ sock' = [sock EXCEPT ![t] = "leaving"]
    BY <1>1 DEF Drop
  <2>2. \A r \in Tab : sock[r] # "off" => sock'[r] # "off"
    BY <1>0, <2>1
  <2>3. Subdued(mgr, mgr')
    BY <2>1 DEF Subdued
  <2>. QED
    BY <2>1, <2>2, <2>3, SteerKept
<1>2. CASE Quit(t) \/ Disconnect(t)
  <2>1. /\ Left(t) /\ info' = info /\ crossed' = crossed /\ active' = [active EXCEPT ![t] = None]
        /\ \A r \in Tab : r # t => sock'[r] = sock[r]
    BY <1>0, <1>2 DEF Quit, Disconnect
  <2>2. Subdued(mgr, mgr') /\ (active[t] \in mgr'.map => Owner[t] \in mgr'.game[active[t]].departed)
    <3>1. CASE active[t] = None
      BY <1>0, <2>1, <3>1, CampaignAssumption DEF Left, Subdued, Manager
    <3>2. CASE active[t] # None
      <4>1. active[t] \in Session /\ Owner[t] \in Holder
        BY <1>0, <3>2 DEF Holder
      <4>2. CASE CoopMode(active[t])
        BY <1>0, <2>1, <3>2, <4>1, <4>2, RemovedSubdues DEF Left
      <4>3. CASE ~CoopMode(active[t])
        BY <1>0, <2>1, <3>2, <4>1, <4>3, EndedSubdues DEF Left
      <4>. QED
        BY <4>2, <4>3
    <3>. QED
      BY <3>1, <3>2
  <2>3. \A r \in Tab, z \in mgr'.map :
          active[r] = z /\ sock[r] # "off" /\ Owner[r] \notin mgr'.game[z].departed => active'[r] = z /\ sock'[r] # "off"
    BY <1>0, <2>1, <2>2
  <2>. QED
    BY <2>1, <2>2, <2>3, SteerKept
<1>. QED
  BY <1>1, <1>2

\* A level is paused, goes on, and ends.
LEMMA LevelSteers ==
  ASSUME IInv, Steered, NEW s \in Session,
         (\E t \in Tab : Pause(t) \/ Resume(t)) \/ GameOver(s) \/ Complete(s) \/ CleanUp(s) \/ WriteFails(s)
  PROVE  Steered'
<1>0. mgr \in Manager /\ mgr.game \in [Session -> Game] /\ mgr.map \subseteq Session
      /\ active \in [Tab -> Session \cup {None}]
  BY DEF IInv, Sound, Keyed, Heard, Manager
<1>1. CASE \E t \in Tab : Pause(t) \/ Resume(t)
  <2>1. PICK z \in Session, l \in {"on", "paused"} : mgr.game[z].loop # "off" /\ mgr' = [mgr EXCEPT !.game = [mgr.game EXCEPT ![z].loop = l]]
    BY <1>1 DEF Pause, Resume
  <2>2. info' = info /\ sock' = sock /\ active' = active /\ crossed' = crossed
    BY <1>1 DEF Pause, Resume
  <2>3. mgr'.map = mgr.map /\ mgr'.game = [mgr.game EXCEPT ![z].loop = l]
    BY <1>0, <2>1 DEF Manager
  <2>4. \A y \in Session : (mgr'.game[y].loop # "off" => mgr.game[y].loop # "off") /\ mgr'.game[y].departed = mgr.game[y].departed
    BY <1>0, <2>1, <2>3 DEF Game
  <2>5. Subdued(mgr, mgr')
    BY <1>0, <2>3, <2>4 DEF Subdued
  <2>. QED
    BY <2>2, <2>5, SteerKept
<1>2. /\ Over(mgr, s) \in Manager /\ Subdued(mgr, Over(mgr, s))
  <2>. PICK g : g = [mgr.game EXCEPT ![s].finished = TRUE, ![s].loop = "off"]
    OBVIOUS
  <2>1. g \in [Session -> Game]
    BY <1>0 DEF Game
  <2>2. \A z \in Session : (g[z].loop # "off" => mgr.game[z].loop # "off") /\ g[z].departed = mgr.game[z].departed
    BY <1>0 DEF Game
  <2>3. Over(mgr, s) = [mgr EXCEPT !.game = g]
    BY DEF Over
  <2>4. Over(mgr, s) \in Manager /\ Over(mgr, s).map = mgr.map /\ Over(mgr, s).game = g
    BY <1>0, <2>1, <2>3 DEF Manager
  <2>. QED
    BY <1>0, <2>2, <2>4 DEF Subdued
<1>3. CASE GameOver(s) \/ CleanUp(s)
  <2>1. /\ mgr' \in {Ended(Over(mgr, s), s), Ended(mgr, s)} /\ active' = Untold(s) /\ Cross(s)
        /\ info' = info /\ sock' = sock
    BY <1>3 DEF GameOver, CleanUp
  <2>2. Subdued(mgr, mgr') /\ s \notin mgr'.map
    <3>1. Subdued(Over(mgr, s), Ended(Over(mgr, s), s)) /\ s \notin Ended(Over(mgr, s), s).map
      BY <1>2, EndedSubdues
    <3>2. Subdued(mgr, Ended(mgr, s)) /\ s \notin Ended(mgr, s).map
      BY <1>0, EndedSubdues
    <3>. QED
      BY <1>2, <2>1, <3>1, <3>2, SubduedTwice
  <2>3. ASSUME ~crossed', NEW t \in Tab, NEW z \in mgr'.map, active[t] = z
        PROVE  active'[t] = z
    <3>1. active'[t] = Untold(s)[t]
      BY <2>1
    <3>2. z \in mgr.map \ {s}
      BY <2>2, <2>3 DEF Subdued
    <3>. QED
      BY <2>1, <2>3, <3>1, <3>2 DEF Cross
  <2>4. crossed => crossed'
    BY <2>1 DEF Cross
  <2>. QED
    BY <2>1, <2>2, <2>3, <2>4, SteerKept
<1>4. CASE Complete(s) \/ WriteFails(s)
  <2>1. mgr' \in {mgr, Over(mgr, s)} /\ info' = info /\ sock' = sock /\ active' = active /\ crossed' = crossed
    BY <1>4 DEF Complete, WriteFails
  <2>2. Subdued(mgr, mgr')
    <3>1. Subdued(mgr, mgr)
      BY DEF Subdued
    <3>. QED
      BY <1>2, <2>1, <3>1
  <2>. QED
    BY <2>1, <2>2, SteerKept
<1>. QED
  BY <1>1, <1>3, <1>4

\* No step leaves a running level without its tabs, unless it has crossed.
LEMMA SteerNext == IInv /\ Steered /\ [Next]_vars => Steered'
<1>. SUFFICES ASSUME IInv, Steered, [Next]_vars PROVE Steered'
  OBVIOUS
<1>1. ASSUME NEW t \in Tab, (\E k \in Kinds : Begin(t, k)) \/ Refuse(t) \/ FindPartner(t) \/ Stall(t)
      PROVE  Steered'
  BY <1>1, StartSteers
<1>2. ASSUME NEW t \in Tab, StartLevel(t) \/ Play(t)
      PROVE  Steered'
  BY <1>2, StartLevelSteers, PlaySteers
<1>3. ASSUME NEW t \in Tab, Quit(t) \/ Drop(t) \/ Disconnect(t)
      PROVE  Steered'
  BY <1>3, LeaveSteers
<1>4. ASSUME NEW t \in Tab, Pause(t) \/ Resume(t)
      PROVE  Steered'
  <2>1. PICK s \in Session : TRUE
    BY <1>4 DEF Pause, Resume
  <2>. QED
    BY <1>4, <2>1, LevelSteers
<1>5. ASSUME NEW s \in Session, GameOver(s) \/ Complete(s) \/ CleanUp(s) \/ WriteFails(s)
      PROVE  Steered'
  BY <1>5, LevelSteers
<1>6. CASE UNCHANGED vars
  BY <1>6 DEF vars, Steered
<1>. QED
  BY <1>1, <1>2, <1>3, <1>4, <1>5, <1>6 DEF Next

\* Of a level that somebody plays, whoever plays it is the owner of a tab the
\* level was made with; that tab steers it.
LEMMA SteeredImplies == IInv /\ Steered => SomebodySteers
<1>. SUFFICES ASSUME IInv, Steered, ~mgr.robbed, ~crossed, NEW s \in mgr.map, info[s].kind # "local", mgr.game[s].loop # "off"
              PROVE  \E t \in Tab : active[t] = s /\ sock[t] # "off" /\ Plays(Owner[t], s)
  BY DEF SomebodySteers
<1>1. s \in Session /\ info[s] # NoInfo /\ info \in [Session -> Info]
  BY DEF IInv, Sound, Keyed, Manager, Made
<1>2. PICK u : u \in info[s].users \ mgr.game[s].departed
  BY DEF IInv, Sound, Peopled, Playing
<1>3. PICK t \in {info[s].host, info[s].partner} \ {None} : u = Owner[t]
  BY <1>1, <1>2 DEF IInv, Made
<1>4. t \in Tab /\ active[t] = s /\ sock[t] # "off"
  BY <1>1, <1>2, <1>3 DEF Steered, Info
<1>. QED
  BY <1>2, <1>3, <1>4 DEF Plays

\* A level that runs has a tab that can pause and quit it, for any users,
\* tabs and levels, unless a start or an end has told a tab that was gone or
\* played another level by then, or an end has taken another level's key.
THEOREM SomebodyAlwaysSteers == Spec => []SomebodySteers
<1>1. Init => Steered
  BY DEF Init, Steered
<1>. QED
  BY <1>1, InvariantInit, InvariantNext, SteerNext, SteeredImplies, PTL DEF Spec

-----------------------------------------------------------------------------
(* Sizes *)

LEMMA Headcount ==
  ASSUME NEW S \in SUBSET Player
  PROVE  IsFiniteSet(S) /\ Cardinality(S) \in Nat
BY LevelAssumption, FS_Subset, FS_CardinalityType

LEMMA HeadcountOfBoth ==
  ASSUME NEW S \in SUBSET Player, NEW T \in SUBSET Player, S \cap T = {}
  PROVE  Cardinality(S \cup T) = Cardinality(S) + Cardinality(T)
<1>1. IsFiniteSet(S) /\ IsFiniteSet(T) /\ Cardinality(S) \in Nat /\ Cardinality(T) \in Nat
  BY Headcount
<1>2. Cardinality(S \cap T) = 0
  BY FS_EmptySet
<1>3. Cardinality(S \cup T) = Cardinality(S) + Cardinality(T) - Cardinality(S \cap T)
  BY <1>1, FS_Union
<1>. QED
  BY <1>1, <1>2, <1>3

LEMMA HeadcountOfRest ==
  ASSUME NEW S \in SUBSET Player, NEW T \in SUBSET S
  PROVE  Cardinality(S \ T) = Cardinality(S) - Cardinality(T)
<1>1. IsFiniteSet(S) /\ S \cap T = T
  BY Headcount
<1>. QED
  BY <1>1, FS_Difference

\* Whoever goes before p in a set leaves room for p.
LEMMA Before ==
  ASSUME NEW P \in SUBSET Player, NEW p \in P
  PROVE  Cardinality({q \in P : q < p}) + 1 =< Cardinality(P)
<1>. DEFINE S == {q \in P : q < p}
<1>1. p \in Int /\ S \in SUBSET Player /\ p \notin S
  <2>1. p \in Int
    BY LevelAssumption
  <2>2. ~(p < p)
    BY <2>1
  <2>. QED
    BY <2>1, <2>2
<1>2. S \cup {p} \in SUBSET P
  OBVIOUS
<1>. HIDE DEF S
<1>3. IsFiniteSet(S) /\ IsFiniteSet(P)
  BY <1>1, Headcount
<1>4. Cardinality(S \cup {p}) = Cardinality(S) + 1
  BY <1>1, <1>3, FS_AddElement
<1>5. Cardinality(S \cup {p}) =< Cardinality(P)
  BY <1>2, <1>3, FS_Subset
<1>. QED
  BY <1>4, <1>5 DEF S

-----------------------------------------------------------------------------
(* What holds of the game within a tick *)

\* Only who is in the level and down has a time to come back at; a level that
\* goes on has no verdict; a kill-all level that is complete has no enemies.
Sane(g) ==
  /\ level \in Levels /\ g \in LevelGame
  /\ g.alive \subseteq g.here /\ g.here \cap departed = {}
  /\ \A p \in Player : g.respawn[p] # Never => p \in g.here \ g.alive
  /\ Len(g.verdicts) =< 1
  /\ ~g.finished => g.verdicts = <<>>
  /\ level.goal = "kill_all" /\ g.completion # Never => AllDead(g)

\* Each fall has cost a life, but for those that wait to be handled.
Paid(g) == g.lives = level.lives - g.fallen + Cardinality(Unhandled(g)) /\ g.lives > 0

Held(g) == g.locked = g.frozen /\ g.locked \subseteq (g.alive \cup Unhandled(g)) \cap g.at

Ahead(g, n) == \A p \in Player : g.respawn[p] # Never => g.respawn[p] > n

SoundLevel(g, n) == Sane(g) /\ (~g.finished => Paid(g) /\ Held(g) /\ Ahead(g, n))

LEMMA GameFields ==
  ASSUME NEW g \in LevelGame
  PROVE  /\ g.here \in SUBSET Player /\ g.alive \in SUBSET Player /\ g.frozen \in SUBSET Player
         /\ g.at \in SUBSET Player /\ g.locked \in SUBSET Player
         /\ g.respawn \in [Player -> Int \cup {Never}]
         /\ g.lives \in Int /\ g.deaths \in Nat /\ g.fallen \in Int
         /\ g.foes \in [Foe -> {"alive", "dead", "unborn"}] /\ g.exit \in BOOLEAN
         /\ g.completion \in Int \cup {Never} /\ g.finished \in BOOLEAN
         /\ g.verdicts \in Seq({"won", "lost"})
BY DEF LevelGame

LEMMA LevelLives ==
  ASSUME level \in Levels
  PROVE  level.lives \in Nat \ {0}
<1>1. level \in [goal : {"kill_all", "find_exit", "reach_goal", "survive_time"}, limit : Nat,
                 target : Nat, lives : Nat \ {0}, buddy : SUBSET Player, boss : SUBSET Boss]
  BY LevelAssumption
<1>. QED
  BY <1>1

LEMMA WaitingArePlayers ==
  ASSUME NEW g \in LevelGame
  PROVE  Unhandled(g) \in SUBSET Player
BY GameFields DEF Unhandled

\* What does not touch the falls, the lock or the lives keeps all that is said
\* of them.
Alike(g, h) ==
  /\ h.here = g.here /\ h.alive = g.alive /\ h.frozen = g.frozen /\ h.at = g.at /\ h.locked = g.locked
  /\ h.respawn = g.respawn /\ h.lives = g.lives /\ h.fallen = g.fallen

LEMMA AlikeKeeps ==
  ASSUME NEW g, NEW h, NEW n, Alike(g, h)
  PROVE  /\ Unhandled(h) = Unhandled(g)
         /\ Paid(g) => Paid(h)
         /\ Held(g) => Held(h)
         /\ Ahead(g, n) => Ahead(h, n)
BY DEF Alike, Unhandled, Paid, Held, Ahead

-----------------------------------------------------------------------------
(* The end *)

LEMMA VerdictKeeps ==
  ASSUME NEW g, Sane(g), NEW n, NEW v \in {"won", "lost"}
  PROVE  SoundLevel(Verdict(g, v), n) /\ Verdict(g, v).finished
<1>1. CASE g.finished
  BY <1>1 DEF Verdict, SoundLevel
<1>2. CASE ~g.finished
  <2>1. g \in LevelGame /\ g.verdicts = <<>>
    BY <1>2 DEF Sane
  <2>2. PICK s \in Seq({"won", "lost"}) : s = Append(g.verdicts, v) /\ Len(s) = 1
    <3>1. <<v>> \in Seq({"won", "lost"}) /\ Len(<<v>>) = 1
      OBVIOUS
    <3>2. Append(<<>>, v) = <<v>>
      OBVIOUS
    <3>. QED
      BY <2>1, <3>1, <3>2
  <2>3. PICK h : h = [g EXCEPT !.finished = TRUE, !.verdicts = s]
    OBVIOUS
  <2>4. Verdict(g, v) = h
    BY <1>2, <2>1, <2>2, <2>3 DEF Verdict, LevelGame
  <2>5. h \in LevelGame
    BY <2>1, <2>3 DEF LevelGame
  <2>6. /\ h.finished /\ h.verdicts = s /\ h.alive = g.alive /\ h.here = g.here /\ h.respawn = g.respawn
        /\ h.completion = g.completion /\ h.foes = g.foes
    BY <2>1, <2>3 DEF LevelGame
  <2>. QED
    BY <2>2, <2>4, <2>5, <2>6 DEF SoundLevel, Sane, AllDead, Living
<1>. QED
  BY <1>1, <1>2

LEMMA GracedKeeps ==
  ASSUME NEW g, NEW n, SoundLevel(g, n)
  PROVE  /\ SoundLevel(Graced(g, n), n)
         /\ ~Graced(g, n).finished => Graced(g, n) = g
BY VerdictKeeps DEF Graced, SoundLevel

LEMMA TriggeredKeeps ==
  ASSUME NEW g, NEW n \in Int, SoundLevel(g, n), level.goal = "kill_all" => AllDead(g)
  PROVE  LET h == Triggered(g, n) IN
         SoundLevel(h, n) /\ Alike(g, h) /\ h.finished = g.finished
<1>1. CASE g.completion # Never
  BY <1>1 DEF Triggered, Alike
<1>2. CASE g.completion = Never
  <2>1. g \in LevelGame
    BY DEF SoundLevel, Sane
  <2>2. PICK h : h = [g EXCEPT !.completion = n]
    OBVIOUS
  <2>3. Triggered(g, n) = h
    BY <1>2, <2>2 DEF Triggered
  <2>4. h \in LevelGame /\ Alike(g, h) /\ h.finished = g.finished /\ h.verdicts = g.verdicts /\ h.foes = g.foes
    BY <2>1, <2>2 DEF LevelGame, Alike
  <2>5. Sane(h)
    BY <2>4 DEF SoundLevel, Sane, Alike, AllDead, Living
  <2>. QED
    BY <2>3, <2>4, <2>5, AlikeKeeps DEF SoundLevel
<1>. QED
  BY <1>1, <1>2

-----------------------------------------------------------------------------
(* Falls *)

LEMMA FellKeeps ==
  ASSUME NEW g, NEW n, SoundLevel(g, n), NEW P \in SUBSET g.alive
  PROVE  LET h == Fell(g, P) IN
         /\ SoundLevel(h, n) /\ h.alive = g.alive \ P /\ h.finished = g.finished
         /\ Unhandled(h) = Unhandled(g) \cup P
<1>1. g \in LevelGame /\ g.alive \subseteq g.here /\ g.alive \in SUBSET Player
  BY GameFields DEF SoundLevel, Sane
<1>2. PICK fallen \in Int : fallen = g.fallen + Cardinality(P)
  BY <1>1, GameFields, Headcount
<1>3. PICK alive \in SUBSET Player : alive = g.alive \ P
  BY <1>1
<1>4. PICK h : h = [g EXCEPT !.alive = alive, !.fallen = fallen]
  OBVIOUS
<1>5. Fell(g, P) = h
  BY <1>1, <1>2, <1>3, <1>4 DEF Fell, LevelGame
<1>6. h \in LevelGame
  BY <1>1, <1>4 DEF LevelGame
<1>7. /\ h.here = g.here /\ h.alive = alive /\ h.frozen = g.frozen /\ h.at = g.at /\ h.locked = g.locked
      /\ h.respawn = g.respawn /\ h.lives = g.lives /\ h.fallen = fallen
      /\ h.finished = g.finished /\ h.verdicts = g.verdicts /\ h.foes = g.foes /\ h.completion = g.completion
  BY <1>1, <1>4 DEF LevelGame
<1>8. Sane(h)
  BY <1>3, <1>6, <1>7 DEF SoundLevel, Sane, AllDead, Living
<1>9. Unhandled(h) = Unhandled(g) \cup P
  BY <1>1, <1>3, <1>7 DEF Unhandled, SoundLevel, Sane
<1>10. Cardinality(Unhandled(h)) = Cardinality(Unhandled(g)) + Cardinality(P)
  <2>1. Unhandled(g) \in SUBSET Player /\ P \in SUBSET Player /\ Unhandled(g) \cap P = {}
    BY <1>1, WaitingArePlayers DEF Unhandled
  <2>. QED
    BY <1>9, <2>1, HeadcountOfBoth
<1>11. ASSUME ~g.finished
       PROVE  Paid(h) /\ Held(h) /\ Ahead(h, n)
  <2>1. Paid(g) /\ Held(g) /\ Ahead(g, n)
    BY <1>11 DEF SoundLevel
  <2>2. PICK u \in Nat, c \in Nat : u = Cardinality(Unhandled(g)) /\ c = Cardinality(P)
    BY <1>1, WaitingArePlayers, Headcount
  <2>3. h.lives = level.lives - h.fallen + Cardinality(Unhandled(h))
    <3>1. h.lives = level.lives - g.fallen + u /\ h.fallen = g.fallen + c /\ g.fallen \in Int
      BY <1>1, <1>2, <1>7, <2>1, <2>2, GameFields DEF Paid
    <3>2. Cardinality(Unhandled(h)) = u + c
      BY <1>10, <2>2
    <3>3. level.lives \in Nat
      BY LevelLives DEF SoundLevel, Sane
    <3>. QED
      BY <3>1, <3>2, <3>3
  <2>4. Held(h)
    BY <1>1, <1>3, <1>7, <1>9, <2>1 DEF Held
  <2>. QED
    BY <1>7, <2>1, <2>3, <2>4 DEF Paid, Ahead
<1>. QED
  BY <1>3, <1>5, <1>7, <1>8, <1>9, <1>11 DEF SoundLevel

\* The players P are charged a life each, and come back as long as lives last.
LEMMA NewlyDeadKeeps ==
  ASSUME NEW g, NEW n \in Int, SoundLevel(g, n), NEW P \in SUBSET Unhandled(g)
  PROVE  LET h == NewlyDead(g, P, n) IN
         /\ Sane(h) /\ h.alive = g.alive /\ h.finished = g.finished
         /\ ~g.finished /\ (P = {} \/ h.lives > 0) =>
              Paid(h) /\ Held(h) /\ Ahead(h, n) /\ Unhandled(h) = Unhandled(g) \ P
<1>. DEFINE back == {p \in P : Cardinality({q \in P : q < p}) + 1 < g.lives}
<1>1. g \in LevelGame /\ Sane(g) /\ P \in SUBSET Player /\ back \in SUBSET P
  BY WaitingArePlayers DEF SoundLevel, Sane
<1>2. PICK c \in Nat : c = Cardinality(P)
  BY <1>1, Headcount
<1>3. PICK lives \in Int, deaths \in Nat : lives = g.lives - c /\ deaths = g.deaths + c
  BY <1>1, <1>2, GameFields
<1>4. PICK t \in Int : t = n + RespawnTicks /\ t > n /\ t # Never
  BY LevelAssumption
<1>5. \A p \in P : Cardinality({q \in P : q < p}) + 1 =< c
  BY <1>1, <1>2, Before
<1>6. \A p \in P : Cardinality({q \in P : q < p}) \in Nat
  <2>. SUFFICES ASSUME NEW p \in P PROVE Cardinality({q \in P : q < p}) \in Nat
    OBVIOUS
  <2>1. {q \in P : q < p} \in SUBSET Player
    BY <1>1
  <2>. QED
    BY <2>1, Headcount
<1>7. lives > 0 => back = P
  <2>1. g.lives \in Int
    BY <1>1, GameFields
  <2>. QED
    BY <1>2, <1>3, <1>5, <1>6, <2>1
<1>8. NewlyDead(g, P, n) = [g EXCEPT !.deaths = g.deaths + c, !.lives = g.lives - c,
               !.respawn = [p \in Player |-> IF p \in back THEN n + RespawnTicks ELSE g.respawn[p]],
               !.locked = g.locked \ P, !.frozen = g.frozen \ (P \cap g.locked)]
  BY <1>1, <1>2 DEF NewlyDead, LevelGame
<1>. HIDE DEF back
<1>9. PICK respawn \in [Player -> Int \cup {Never}] :
        respawn = [p \in Player |-> IF p \in back THEN t ELSE g.respawn[p]]
  BY <1>1, GameFields
<1>10. PICK locked \in SUBSET Player, frozen \in SUBSET Player :
         locked = g.locked \ P /\ frozen = g.frozen \ (P \cap g.locked)
  BY <1>1, GameFields
<1>11. PICK h : h = [g EXCEPT !.deaths = deaths, !.lives = lives, !.respawn = respawn,
                              !.locked = locked, !.frozen = frozen]
  OBVIOUS
<1>12. NewlyDead(g, P, n) = h
  BY <1>3, <1>4, <1>8, <1>9, <1>10, <1>11
<1>13. h \in LevelGame
  BY <1>1, <1>11 DEF LevelGame
<1>14. /\ h.here = g.here /\ h.alive = g.alive /\ h.frozen = frozen /\ h.at = g.at /\ h.locked = locked
       /\ h.respawn = respawn /\ h.lives = lives /\ h.fallen = g.fallen
       /\ h.finished = g.finished /\ h.verdicts = g.verdicts /\ h.foes = g.foes /\ h.completion = g.completion
  BY <1>1, <1>11 DEF LevelGame
<1>15. Sane(h)
  <2>1. \A p \in Player : h.respawn[p] # Never => p \in h.here \ h.alive
    BY <1>1, <1>9, <1>14 DEF Sane, Unhandled
  <2>. QED
    BY <1>1, <1>13, <1>14, <2>1 DEF Sane, AllDead, Living
<1>16. ASSUME ~g.finished, P = {} \/ h.lives > 0
       PROVE  Paid(h) /\ Held(h) /\ Ahead(h, n) /\ Unhandled(h) = Unhandled(g) \ P
  <2>1. Paid(g) /\ Held(g) /\ Ahead(g, n)
    BY <1>16 DEF SoundLevel
  <2>2. back = P
    BY <1>1, <1>7, <1>14, <1>16
  <2>3. Unhandled(h) = Unhandled(g) \ P
    BY <1>1, <1>4, <1>9, <1>14, <2>2, GameFields DEF Unhandled
  <2>4. PICK u \in Nat : u = Cardinality(Unhandled(g))
    BY <1>1, WaitingArePlayers, Headcount
  <2>5. Cardinality(Unhandled(h)) = u - c
    BY <1>1, <1>2, <2>3, <2>4, WaitingArePlayers, HeadcountOfRest
  <2>6. h.lives = level.lives - h.fallen + Cardinality(Unhandled(h))
    <3>1. /\ g.lives = level.lives - g.fallen + u /\ g.fallen \in Int
          /\ h.fallen = g.fallen /\ h.lives = g.lives - c
      BY <1>1, <1>3, <1>14, <2>1, <2>4, GameFields DEF Paid
    <3>2. level.lives \in Nat
      BY <1>1, LevelLives DEF Sane
    <3>. QED
      BY <1>2, <2>5, <3>1, <3>2
  <2>7. h.lives > 0
    <3>1. CASE P = {}
      <4>1. c = 0
        BY <1>2, <3>1, FS_EmptySet
      <4>. QED
        BY <1>1, <1>3, <1>14, <2>1, <4>1, GameFields DEF Paid
    <3>. QED
      BY <1>16, <3>1
  <2>8. Held(h)
    BY <1>1, <1>10, <1>14, <2>1, <2>3 DEF Held
  <2>9. Ahead(h, n)
    BY <1>4, <1>9, <1>14, <2>1 DEF Ahead
  <2>. QED
    BY <2>3, <2>6, <2>7, <2>8, <2>9 DEF Paid
<1>. QED
  BY <1>12, <1>14, <1>15, <1>16

LEMMA HandledKeeps ==
  ASSUME NEW g, NEW n \in Int, SoundLevel(g, n), NEW P \in SUBSET Unhandled(g)
  PROVE  LET h == HandleDeaths(g, P, n) IN
         /\ SoundLevel(h, n)
         /\ ~h.finished => ~g.finished /\ h.alive = g.alive /\ Unhandled(h) = Unhandled(g) \ P
<1>1. PICK d : d = NewlyDead(g, P, n)
  OBVIOUS
<1>2. /\ Sane(d) /\ d.alive = g.alive /\ d.finished = g.finished
      /\ ~g.finished /\ (P = {} \/ d.lives > 0) =>
           Paid(d) /\ Held(d) /\ Ahead(d, n) /\ Unhandled(d) = Unhandled(g) \ P
  BY <1>1, NewlyDeadKeeps
<1>3. CASE P # {} /\ d.lives <= 0
  BY <1>1, <1>2, <1>3, VerdictKeeps DEF HandleDeaths
<1>4. CASE P = {} \/ d.lives > 0
  <2>1. HandleDeaths(g, P, n) = d
    <3>1. d.lives \in Int
      BY <1>2, GameFields DEF Sane
    <3>. QED
      BY <1>1, <1>4, <3>1 DEF HandleDeaths
  <2>. QED
    BY <1>2, <1>4, <2>1 DEF SoundLevel
<1>. QED
  <2>1. d.lives \in Int
    BY <1>2, GameFields DEF Sane
  <2>. QED
    BY <1>3, <1>4, <2>1

LEMMA KilledKeeps ==
  ASSUME NEW g, NEW n \in Int, SoundLevel(g, n), NEW P \in SUBSET g.alive
  PROVE  LET h == Killed(g, P, n) IN
         /\ SoundLevel(h, n)
         /\ ~h.finished => ~g.finished /\ Unhandled(h) = Unhandled(g)
<1>1. PICK f : f = Fell(g, P)
  OBVIOUS
<1>2. SoundLevel(f, n) /\ f.finished = g.finished /\ Unhandled(f) = Unhandled(g) \cup P
  BY <1>1, FellKeeps
<1>3. Unhandled(g) \cap P = {}
  BY DEF Unhandled
<1>4. PICK h : h = HandleDeaths(f, P, n)
  OBVIOUS
<1>5. /\ SoundLevel(h, n)
      /\ ~h.finished => ~f.finished /\ Unhandled(h) = Unhandled(f) \ P
  BY <1>2, <1>4, HandledKeeps
<1>. QED
  BY <1>1, <1>2, <1>3, <1>4, <1>5 DEF Killed

-----------------------------------------------------------------------------
(* The rest of a tick *)

\* Whoever comes back was not waiting to be handled.
LEMMA RespawnedKeeps ==
  ASSUME NEW g, NEW m \in Int, SoundLevel(g, m), NEW n \in Int, NEW due \in SUBSET Due(g, n)
  PROVE  /\ SoundLevel(Respawned(g, due), m)
         /\ due = Due(g, n) => SoundLevel(Respawned(g, due), n)
<1>1. g \in LevelGame /\ Sane(g)
  BY DEF SoundLevel, Sane
<1>2. due \in SUBSET Player
  BY DEF Due
<1>3. PICK alive \in SUBSET Player, at \in SUBSET Player :
        alive = g.alive \cup (due \cap g.here) /\ at = g.at \ due
  BY <1>1, GameFields
<1>4. PICK respawn \in [Player -> Int \cup {Never}] :
        respawn = [p \in Player |-> IF p \in due THEN Never ELSE g.respawn[p]]
  BY <1>1, GameFields
<1>5. PICK h : h = [g EXCEPT !.alive = alive, !.at = at, !.respawn = respawn]
  OBVIOUS
<1>6. Respawned(g, due) = h
  BY <1>1, <1>2, <1>3, <1>4, <1>5 DEF Respawned, LevelGame
<1>7. h \in LevelGame
  BY <1>1, <1>5 DEF LevelGame
<1>8. /\ h.here = g.here /\ h.alive = alive /\ h.frozen = g.frozen /\ h.at = at /\ h.locked = g.locked
      /\ h.respawn = respawn /\ h.lives = g.lives /\ h.fallen = g.fallen
      /\ h.finished = g.finished /\ h.verdicts = g.verdicts /\ h.foes = g.foes /\ h.completion = g.completion
  BY <1>1, <1>5 DEF LevelGame
<1>9. \A p \in due : g.respawn[p] # Never /\ p \in g.here \ g.alive
  BY <1>1, <1>2 DEF Due, Sane
<1>10. Sane(h)
  <2>1. \A p \in Player : h.respawn[p] # Never => p \in h.here \ h.alive
    BY <1>1, <1>3, <1>4, <1>8 DEF Sane
  <2>. QED
    BY <1>1, <1>3, <1>7, <1>8, <2>1 DEF Sane, AllDead, Living
<1>11. Unhandled(h) = Unhandled(g)
  BY <1>1, <1>3, <1>4, <1>8, <1>9, GameFields DEF Unhandled
<1>12. \A p \in Player : h.respawn[p] # Never => p \notin due /\ h.respawn[p] = g.respawn[p]
  BY <1>4, <1>8
<1>13. ASSUME ~g.finished
       PROVE  Paid(h) /\ Held(h) /\ Ahead(h, m) /\ (due = Due(g, n) => Ahead(h, n))
  <2>1. Paid(g) /\ Held(g) /\ Ahead(g, m)
    BY <1>13 DEF SoundLevel
  <2>2. Held(h)
    BY <1>3, <1>8, <1>9, <1>11, <2>1 DEF Held, Unhandled
  <2>3. Ahead(h, m)
    BY <1>12, <2>1 DEF Ahead
  <2>4. ASSUME due = Due(g, n), NEW p \in Player, h.respawn[p] # Never
        PROVE  h.respawn[p] > n
    <3>1. p \notin due /\ h.respawn[p] = g.respawn[p]
      BY <1>12, <2>4
    <3>2. ~(g.respawn[p] <= n)
      BY <2>4, <3>1 DEF Due
    <3>3. g.respawn[p] \in Int
      BY <1>1, <2>4, <3>1, GameFields
    <3>. QED
      BY <3>1, <3>2, <3>3
  <2>. QED
    BY <1>8, <1>11, <2>1, <2>2, <2>3, <2>4 DEF Paid, Ahead
<1>. QED
  BY <1>6, <1>8, <1>10, <1>13 DEF SoundLevel

\* Nobody who is held moves.
LEMMA MovedKeeps ==
  ASSUME NEW g, NEW n, SoundLevel(g, n), NEW P \in SUBSET (g.alive \ g.frozen)
  PROVE  LET h == Moved(g, P) IN
         SoundLevel(h, n) /\ h.alive = g.alive /\ h.finished = g.finished
<1>1. g \in LevelGame /\ Sane(g)
  BY DEF SoundLevel, Sane
<1>2. PICK at \in SUBSET Player : at = (g.at \cap (g.frozen \cup (Player \ g.alive))) \cup P
  BY <1>1, GameFields
<1>3. PICK h : h = [g EXCEPT !.at = at]
  OBVIOUS
<1>4. Moved(g, P) = h
  BY <1>1, <1>2, <1>3 DEF Moved, LevelGame
<1>5. h \in LevelGame
  BY <1>1, <1>3 DEF LevelGame
<1>6. /\ h.here = g.here /\ h.alive = g.alive /\ h.frozen = g.frozen /\ h.at = at /\ h.locked = g.locked
      /\ h.respawn = g.respawn /\ h.lives = g.lives /\ h.fallen = g.fallen
      /\ h.finished = g.finished /\ h.verdicts = g.verdicts /\ h.foes = g.foes /\ h.completion = g.completion
  BY <1>1, <1>3 DEF LevelGame
<1>7. Sane(h) /\ Unhandled(h) = Unhandled(g)
  BY <1>1, <1>5, <1>6 DEF Sane, AllDead, Living, Unhandled
<1>8. Held(g) => Held(h)
  BY <1>2, <1>6, <1>7 DEF Held
<1>. QED
  BY <1>4, <1>6, <1>7, <1>8 DEF SoundLevel, Paid, Ahead

\* What changes the enemies and brings none to a level that is complete.
LEMMA FoesKeep ==
  ASSUME NEW g, NEW n, SoundLevel(g, n), NEW foes \in [Foe -> {"alive", "dead", "unborn"}],
         NEW h, h = [g EXCEPT !.foes = foes],
         AllDead(g) => \A f \in Foe : foes[f] # "alive"
  PROVE  SoundLevel(h, n) /\ Alike(g, h) /\ h.finished = g.finished
<1>1. g \in LevelGame /\ Sane(g)
  BY DEF SoundLevel, Sane
<1>2. h \in LevelGame
  BY <1>1 DEF LevelGame
<1>3. /\ Alike(g, h) /\ h.foes = foes
      /\ h.finished = g.finished /\ h.verdicts = g.verdicts /\ h.completion = g.completion
  BY <1>1 DEF LevelGame, Alike
<1>4. AllDead(g) => AllDead(h)
  BY <1>3 DEF AllDead, Living
<1>5. Sane(h)
  BY <1>1, <1>2, <1>3, <1>4 DEF Sane, Alike
<1>. QED
  BY <1>3, <1>5, AlikeKeeps DEF SoundLevel

LEMMA SlainKeeps ==
  ASSUME NEW g, NEW n, SoundLevel(g, n), NEW F
  PROVE  LET h == Slain(g, F) IN
         SoundLevel(h, n) /\ Alike(g, h) /\ h.finished = g.finished
<1>1. g \in LevelGame
  BY DEF SoundLevel, Sane
<1>2. PICK foes : foes = [f \in Foe |-> IF f \in F /\ g.foes[f] = "alive" THEN "dead" ELSE g.foes[f]]
  OBVIOUS
<1>3. foes \in [Foe -> {"alive", "dead", "unborn"}]
  BY <1>1, <1>2, GameFields
<1>4. PICK h : h = [g EXCEPT !.foes = foes]
  OBVIOUS
<1>5. Slain(g, F) = h
  BY <1>1, <1>2, <1>4 DEF Slain, LevelGame
<1>6. AllDead(g) => \A f \in Foe : foes[f] # "alive"
  BY <1>2 DEF AllDead, Living
<1>. QED
  BY <1>3, <1>4, <1>5, <1>6, FoesKeep

\* Only a boss that lives calls for others.
LEMMA CalledKeeps ==
  ASSUME NEW g, NEW n, SoundLevel(g, n), NEW F
  PROVE  LET h == Called(g, F) IN
         SoundLevel(h, n) /\ Alike(g, h) /\ h.finished = g.finished
<1>1. g \in LevelGame
  BY DEF SoundLevel, Sane
<1>2. CASE ~ \E b \in Boss : g.foes[b] = "alive"
  BY <1>2 DEF Called, Alike
<1>3. CASE \E b \in Boss : g.foes[b] = "alive"
  <2>1. PICK foes : foes = [f \in Foe |-> IF f \in F /\ g.foes[f] = "unborn" THEN "alive" ELSE g.foes[f]]
    OBVIOUS
  <2>2. foes \in [Foe -> {"alive", "dead", "unborn"}]
    BY <1>1, <2>1, GameFields
  <2>3. PICK h : h = [g EXCEPT !.foes = foes]
    OBVIOUS
  <2>4. Called(g, F) = h
    BY <1>1, <1>3, <2>1, <2>3 DEF Called, LevelGame
  <2>5. ~AllDead(g)
    BY <1>3, LevelAssumption DEF AllDead, Living
  <2>. QED
    BY <2>2, <2>3, <2>4, <2>5, FoesKeep
<1>. QED
  BY <1>2, <1>3

\* Whoever is held now is alive and on the target.
LEMMA LockedInKeeps ==
  ASSUME NEW g, NEW n, SoundLevel(g, n), NEW P \in SUBSET Arrived(g)
  PROVE  LET h == LockedIn(g, P) IN
         SoundLevel(h, n) /\ h.finished = g.finished /\ Unhandled(h) = Unhandled(g)
<1>1. g \in LevelGame /\ Sane(g)
  BY DEF SoundLevel, Sane
<1>2. P \subseteq g.alive \cap g.at /\ P \in SUBSET Player
  BY <1>1, GameFields DEF Arrived, Mortal
<1>3. PICK locked \in SUBSET Player, frozen \in SUBSET Player :
        locked = g.locked \cup P /\ frozen = g.frozen \cup P
  BY <1>1, <1>2, GameFields
<1>4. PICK h : h = [g EXCEPT !.locked = locked, !.frozen = frozen]
  OBVIOUS
<1>5. LockedIn(g, P) = h
  BY <1>1, <1>3, <1>4 DEF LockedIn, LevelGame
<1>6. h \in LevelGame
  BY <1>1, <1>4 DEF LevelGame
<1>7. /\ h.here = g.here /\ h.alive = g.alive /\ h.frozen = frozen /\ h.at = g.at /\ h.locked = locked
      /\ h.respawn = g.respawn /\ h.lives = g.lives /\ h.fallen = g.fallen
      /\ h.finished = g.finished /\ h.verdicts = g.verdicts /\ h.foes = g.foes /\ h.completion = g.completion
  BY <1>1, <1>4 DEF LevelGame
<1>8. Sane(h) /\ Unhandled(h) = Unhandled(g)
  BY <1>1, <1>6, <1>7 DEF Sane, AllDead, Living, Unhandled
<1>9. Held(g) => Held(h)
  BY <1>2, <1>3, <1>7, <1>8 DEF Held
<1>. QED
  BY <1>5, <1>7, <1>8, <1>9 DEF SoundLevel, Paid, Ahead

LEMMA LockInKeeps ==
  ASSUME NEW g, NEW n \in Int, SoundLevel(g, n), level.goal # "kill_all"
  PROVE  LET h == LockIn(g, n) IN
         SoundLevel(h, n) /\ h.finished = g.finished /\ Unhandled(h) = Unhandled(g)
<1>1. PICK h : h = LockedIn(g, Arrived(g))
  OBVIOUS
<1>2. SoundLevel(h, n) /\ h.finished = g.finished /\ Unhandled(h) = Unhandled(g)
  BY <1>1, LockedInKeeps
<1>3. /\ SoundLevel(Triggered(h, n), n) /\ Triggered(h, n).finished = h.finished
      /\ Unhandled(Triggered(h, n)) = Unhandled(h)
  BY <1>2, TriggeredKeeps, AlikeKeeps
<1>4. LockIn(g, n) \in {h, Triggered(h, n)}
  BY <1>1 DEF LockIn
<1>. QED
  BY <1>2, <1>3, <1>4

LEMMA OpeningKeeps ==
  ASSUME NEW g, NEW n, SoundLevel(g, n)
  PROVE  LET h == Opening(g) IN
         SoundLevel(h, n) /\ h.finished = g.finished /\ Unhandled(h) = Unhandled(g)
<1>1. g \in LevelGame /\ Sane(g)
  BY DEF SoundLevel, Sane
<1>2. PICK exit \in BOOLEAN : exit = (g.exit \/ KilledEnough(g))
  BY <1>1, GameFields
<1>3. PICK h : h = [g EXCEPT !.exit = exit]
  OBVIOUS
<1>4. Opening(g) = h
  BY <1>1, <1>2, <1>3 DEF Opening, LevelGame
<1>5. /\ h \in LevelGame /\ Alike(g, h)
      /\ h.finished = g.finished /\ h.verdicts = g.verdicts /\ h.foes = g.foes /\ h.completion = g.completion
  BY <1>1, <1>3 DEF LevelGame, Alike
<1>6. Sane(h)
  BY <1>1, <1>5 DEF Sane, Alike, AllDead, Living
<1>. QED
  BY <1>4, <1>5, <1>6, AlikeKeeps DEF SoundLevel

LEMMA CheckedKeeps ==
  ASSUME NEW g, NEW n \in Int, SoundLevel(g, n)
  PROVE  LET h == Checked(g, n) IN
         SoundLevel(h, n) /\ h.finished = g.finished /\ Unhandled(h) = Unhandled(g)
<1>1. CASE Checked(g, n) = g
  BY <1>1
<1>2. CASE Checked(g, n) = Triggered(g, n) /\ (level.goal = "kill_all" => AllDead(g))
  BY <1>2, TriggeredKeeps, AlikeKeeps
<1>3. CASE Checked(g, n) = LockIn(g, n) /\ level.goal # "kill_all"
  BY <1>3, LockInKeeps
<1>4. CASE g.completion = Never /\ level.goal = "find_exit"
  <2>1. PICK h : h = Opening(g)
    OBVIOUS
  <2>2. Checked(g, n) \in {h, LockIn(h, n)}
    BY <1>4, <2>1 DEF Checked
  <2>3. SoundLevel(h, n) /\ h.finished = g.finished /\ Unhandled(h) = Unhandled(g)
    BY <2>1, OpeningKeeps
  <2>. QED
    BY <1>4, <2>2, <2>3, LockInKeeps
<1>. QED
  <2>1. CASE g.completion # Never
    BY <1>1, <2>1 DEF Checked
  <2>2. CASE g.completion = Never /\ level.goal = "kill_all"
    BY <1>1, <1>2, <2>2 DEF Checked
  <2>3. CASE g.completion = Never /\ level.goal = "reach_goal"
    BY <1>3, <2>3 DEF Checked
  <2>4. CASE g.completion = Never /\ level.goal \notin {"kill_all", "find_exit", "reach_goal"}
    BY <1>1, <1>2, <2>4 DEF Checked
  <2>. QED
    BY <1>4, <2>1, <2>2, <2>3, <2>4

\* Broken off on the way to the goal, too.
LEMMA HalfCheckedKeeps ==
  ASSUME NEW g, NEW n, SoundLevel(g, n), NEW h \in HalfChecked(g)
  PROVE  SoundLevel(h, n)
<1>1. PICK o : o = IF level.goal = "find_exit" THEN Opening(g) ELSE g
  OBVIOUS
<1>2. SoundLevel(o, n)
  BY <1>1, OpeningKeeps
<1>3. CASE h = g
  BY <1>3
<1>4. CASE \E P \in Firsts(Arrived(o)) : h = LockedIn(o, P)
  <2>1. PICK P \in SUBSET Arrived(o) : h = LockedIn(o, P)
    BY <1>4 DEF Firsts
  <2>. QED
    BY <1>2, <2>1, LockedInKeeps
<1>. QED
  BY <1>1, <1>3, <1>4 DEF HalfChecked

-----------------------------------------------------------------------------
(* A tick and its parts *)

\* Up to contact.
LEMMA StruckKeeps ==
  ASSUME NEW g, NEW m \in Int, SoundLevel(g, m), NEW n \in Int, NEW h \in Struck(g, n)
  PROVE  SoundLevel(h, n)
<1>1. PICK back : back = Respawned(g, Due(g, n))
  OBVIOUS
<1>2. SoundLevel(back, n)
  BY <1>1, RespawnedKeeps
<1>3. PICK F, s : /\ s = Slain(back, F)
                  /\ \E C \in SUBSET (IF Living(s) = {} THEN {} ELSE Mortal(s) \ s.frozen) : h = Killed(s, C, n)
  BY <1>1 DEF Struck
<1>4. PICK C \in SUBSET s.alive : h = Killed(s, C, n)
  BY <1>3 DEF Mortal
<1>5. SoundLevel(s, n)
  BY <1>2, <1>3, SlainKeeps
<1>. QED
  BY <1>4, <1>5, KilledKeeps

\* Up to the goal: no fall waits any more.
LEMMA RousedKeeps ==
  ASSUME NEW g, NEW m \in Int, SoundLevel(g, m), NEW n \in Int, NEW h \in Roused(g, n)
  PROVE  SoundLevel(h, n) /\ (~h.finished => Unhandled(h) = {})
<1>1. PICK c, d, H, k, E :
        /\ c \in Struck(g, n) /\ d = HandleDeaths(c, Unhandled(c), n)
        /\ H \in SUBSET (Mortal(d) \ d.frozen) /\ k = Killed(d, H, n) /\ h = Called(k, E)
  BY DEF Roused
<1>2. SoundLevel(c, n)
  BY <1>1, StruckKeeps
<1>3. SoundLevel(d, n) /\ (~d.finished => Unhandled(d) = Unhandled(c) \ Unhandled(c))
  BY <1>1, <1>2, HandledKeeps
<1>4. H \in SUBSET d.alive
  BY <1>1 DEF Mortal
<1>5. SoundLevel(k, n) /\ (~k.finished => Unhandled(k) = {})
  BY <1>1, <1>3, <1>4, KilledKeeps
<1>. QED
  BY <1>1, <1>5, CalledKeeps, AlikeKeeps

\* A tick that gets through.
LEMMA CampaignTickKeeps ==
  ASSUME NEW g, NEW m \in Int, SoundLevel(g, m), NEW n \in Int, NEW h \in CampaignTick(g, n)
  PROVE  SoundLevel(h, n) /\ (~h.finished => Unhandled(h) = {})
<1>1. CASE h = Verdict(g, "lost")
  BY <1>1, VerdictKeeps DEF SoundLevel
<1>2. CASE \E r \in Roused(g, n) : h = Graced(Checked(r, n), n)
  <2>1. PICK r, c : r \in Roused(g, n) /\ c = Checked(r, n) /\ h = Graced(c, n)
    BY <1>2
  <2>2. SoundLevel(r, n) /\ (~r.finished => Unhandled(r) = {})
    BY <2>1, RousedKeeps
  <2>3. SoundLevel(c, n) /\ (~c.finished => Unhandled(c) = {})
    BY <2>1, <2>2, CheckedKeeps
  <2>. QED
    BY <2>1, <2>3, GracedKeeps
<1>. QED
  BY <1>1, <1>2 DEF CampaignTick

\* Whoever has a time after n has one after any m before n.
LEMMA EarlierKeeps ==
  ASSUME NEW g, NEW n \in Int, SoundLevel(g, n), NEW m \in Int, m =< n
  PROVE  SoundLevel(g, m)
<1>1. ASSUME NEW p \in Player, g.respawn[p] # Never, Ahead(g, n)
      PROVE  g.respawn[p] > m
  <2>1. g.respawn[p] \in Int /\ g.respawn[p] > n
    BY <1>1, GameFields DEF SoundLevel, Sane, Ahead
  <2>. QED
    BY <2>1
<1>. QED
  BY <1>1 DEF SoundLevel, Ahead

\* A tick that throws: what has been done stays sound, though falls may wait
\* and whoever should have come back may not have.
LEMMA BrokenTickKeeps ==
  ASSUME NEW g, NEW m \in Int, SoundLevel(g, m), NEW n \in Int, m =< n, NEW h \in BrokenTick(g, n)
  PROVE  SoundLevel(h, m)
<1>1. CASE h = g
  BY <1>1
<1>2. CASE h \in BrokenAtRespawns(g, n)
  <2>1. PICK D \in SUBSET Due(g, n) : h = Respawned(g, D)
    BY <1>2 DEF BrokenAtRespawns
  <2>. QED
    BY <2>1, RespawnedKeeps
<1>3. CASE h \in BrokenAtDeaths(g, n)
  <2>1. PICK c \in Struck(g, n) : h \in {HandleDeaths(c, P, n) : P \in Firsts(Unhandled(c))}
    BY <1>3 DEF BrokenAtDeaths
  <2>2. PICK P \in SUBSET Unhandled(c) : h = HandleDeaths(c, P, n)
    BY <2>1 DEF Firsts
  <2>3. SoundLevel(h, n)
    BY <2>1, <2>2, StruckKeeps, HandledKeeps
  <2>. QED
    BY <2>3, EarlierKeeps
<1>4. CASE h \in BrokenAtGoal(g, n)
  <2>1. PICK r \in Roused(g, n) : h \in HalfChecked(r)
    BY <1>4 DEF BrokenAtGoal
  <2>2. SoundLevel(h, n)
    BY <2>1, RousedKeeps, HalfCheckedKeeps
  <2>. QED
    BY <2>2, EarlierKeeps
<1>. QED
  BY <1>1, <1>2, <1>3, <1>4 DEF BrokenTick

\* What the engine does before.
LEMMA PlayedKeeps ==
  ASSUME NEW g, NEW m, SoundLevel(g, m), NEW n, NEW h \in Played(g, n)
  PROVE  SoundLevel(h, m)
<1>1. CASE h = g
  BY <1>1
<1>2. CASE \E P \in SUBSET (g.alive \ g.frozen), X \in SUBSET Mortal(g) : h = Fell(Moved(g, P), X)
  <2>1. PICK P, X, k : /\ P \in SUBSET (g.alive \ g.frozen) /\ X \in SUBSET g.alive
                          /\ k = Moved(g, P) /\ h = Fell(k, X)
    BY <1>2 DEF Mortal
  <2>2. SoundLevel(k, m) /\ k.alive = g.alive
    BY <2>1, MovedKeeps
  <2>. QED
    BY <2>1, <2>2, FellKeeps
<1>. QED
  BY <1>1, <1>2 DEF Played

-----------------------------------------------------------------------------
(* The invariant *)

\* Whatever ticks throw, what has been done is sound; when the last one got
\* through, no fall waits and everybody who comes back does so later.
LevelInv ==
  /\ LevelTypeOK
  /\ SoundLevel(game, -1)
  /\ errors = 0 => SoundLevel(game, tick) /\ (~game.finished => Unhandled(game) = {})

\* At the start everybody is alive, nobody is held, and no life is lost.
LEMMA InitIInv == ASSUME LevelInit PROVE LevelInv
<1>1. level \in Levels /\ level.lives \in Nat \ {0}
  BY LevelLives DEF LevelInit
<1>2. /\ tick = -1 /\ start = 0 /\ errors = 0 /\ departed = {}
      /\ -1 \in Tick /\ 0 \in 0 .. LastTick /\ 0 \in 0 .. MaxErrors
  BY LevelAssumption DEF LevelInit, Tick, LastTick
<1>3. PICK foes \in [Foe -> {"alive", "dead", "unborn"}] :
        foes = [f \in Foe |-> IF f \in level.boss THEN "alive" ELSE "unborn"]
  OBVIOUS
<1>4. PICK respawn \in [Player -> Int \cup {Never}] : respawn = [p \in Player |-> Never]
  OBVIOUS
<1>5. game = [here |-> Player, alive |-> Player, frozen |-> {}, at |-> {}, locked |-> {},
              respawn |-> respawn, lives |-> level.lives, deaths |-> 0, fallen |-> 0,
              foes |-> foes, exit |-> FALSE,
              completion |-> Never, finished |-> FALSE, verdicts |-> <<>>]
  BY <1>3, <1>4 DEF LevelInit
<1>6. game \in LevelGame
  BY <1>1, <1>5 DEF LevelGame
<1>7. LevelTypeOK
  BY <1>1, <1>2, <1>6 DEF LevelTypeOK
<1>8. Unhandled(game) = {} /\ Cardinality(Unhandled(game)) = 0
  <2>1. Unhandled(game) = {}
    BY <1>5 DEF Unhandled
  <2>. QED
    BY <2>1, FS_EmptySet
<1>9. \A p \in Player : game.respawn[p] = Never
  BY <1>4, <1>5
<1>10. Sane(game)
  <2>1. Len(game.verdicts) =< 1 /\ game.verdicts = <<>>
    BY <1>5
  <2>. QED
    BY <1>1, <1>2, <1>5, <1>6, <1>9, <2>1 DEF Sane
<1>11. Paid(game)
  BY <1>1, <1>5, <1>8 DEF Paid
<1>12. Held(game) /\ Ahead(game, tick) /\ tick = -1
  BY <1>2, <1>5, <1>9 DEF Held, Ahead
<1>. QED
  BY <1>7, <1>8, <1>10, <1>11, <1>12 DEF LevelInv, SoundLevel

\* What is said of the next game says it of the next state.
LEMMA NextSound ==
  ASSUME UNCHANGED <<level, departed>>, SoundLevel(game', -1),
         errors' = 0 => SoundLevel(game', tick') /\ (~game'.finished => Unhandled(game') = {})
  PROVE  /\ SoundLevel(game, -1)'
         /\ (errors = 0 => SoundLevel(game, tick) /\ (~game.finished => Unhandled(game) = {}))'
BY DEF SoundLevel, Sane, Paid, Held, Ahead, Unhandled, AllDead, Living

\* The next tick.
LEMMA NextTick ==
  ASSUME LevelTypeOK, Begins
  PROVE  /\ tick' \in Tick /\ tick' \in Nat /\ -1 =< tick'
         /\ Starts => start' \in 0 .. LastTick
<1>1. tick' = tick + 1 /\ tick < LastTick /\ tick \in Tick /\ start \in 0 .. LastTick /\ LastTick \in Nat
  BY LevelAssumption DEF LevelTypeOK, Begins, LastTick
<1>. QED
  BY <1>1 DEF Tick, Starts

LEMMA RunTickKeeps == ASSUME LevelInv, RunTick PROVE LevelInv'
<1>1. LevelTypeOK /\ SoundLevel(game, -1) /\ UNCHANGED <<level, departed>> /\ Begins /\ Starts
  BY DEF LevelInv, RunTick
<1>2. PICK m \in Played(game, tick') : game' \in CampaignTick(m, tick')
  BY DEF RunTick
<1>3. SoundLevel(m, -1)
  BY <1>1, PlayedKeeps
<1>4. tick' \in Tick /\ tick' \in Int /\ -1 =< tick' /\ start' \in 0 .. LastTick
  BY <1>1, NextTick
<1>5. SoundLevel(game', tick') /\ (~game'.finished => Unhandled(game') = {})
  BY <1>2, <1>3, <1>4, CampaignTickKeeps
<1>6. SoundLevel(game', -1)
  BY <1>4, <1>5, EarlierKeeps
<1>7. errors' \in 0 .. MaxErrors
  BY LevelAssumption DEF RunTick, LevelInv, LevelTypeOK
<1>8. level' \in Levels /\ departed' \in SUBSET Player /\ game' \in LevelGame
  BY <1>1, <1>5 DEF LevelTypeOK, SoundLevel, Sane
<1>. QED
  BY <1>1, <1>4, <1>5, <1>6, <1>7, <1>8, NextSound DEF LevelInv, LevelTypeOK

LEMMA BrokenKeeps ==
  ASSUME NEW g, SoundLevel(g, -1), game' = Broken(g)
  PROVE  SoundLevel(game', -1)
<1>1. CASE game' = g
  BY <1>1
<1>2. CASE \E v \in {"won", "lost"} : game' = Verdict(g, v)
  BY <1>2, VerdictKeeps DEF SoundLevel
<1>. QED
  BY <1>1, <1>2 DEF Broken

LEMMA FailTickKeeps == ASSUME LevelInv, FailTick PROVE LevelInv'
<1>1. /\ LevelTypeOK /\ SoundLevel(game, -1) /\ UNCHANGED <<level, departed>>
      /\ errors' = errors + 1 /\ errors < MaxErrors
  BY DEF LevelInv, FailTick
<1>2. errors' \in 0 .. MaxErrors /\ errors' # 0
  BY <1>1, LevelAssumption DEF LevelTypeOK
<1>3. SoundLevel(game', -1) /\ tick' \in Tick /\ start' \in 0 .. LastTick
  <2>1. CASE game' = Broken(game) /\ UNCHANGED <<tick, start>>
    BY <1>1, <2>1, BrokenKeeps DEF LevelTypeOK
  <2>2. CASE Begins /\ UNCHANGED start /\ \E m \in Played(game, tick') : game' = Broken(m)
    BY <1>1, <2>2, PlayedKeeps, BrokenKeeps, NextTick DEF LevelTypeOK
  <2>3. CASE /\ Begins /\ Starts
             /\ \E m \in Played(game, tick') :
                  \E b \in BrokenTick(m, tick') \cup CampaignTick(m, tick') : game' = Broken(b)
    <3>1. PICK m, b : /\ m \in Played(game, tick') /\ b \in BrokenTick(m, tick') \cup CampaignTick(m, tick')
                      /\ game' = Broken(b)
      BY <2>3
    <3>2. tick' \in Tick /\ tick' \in Int /\ -1 =< tick' /\ start' \in 0 .. LastTick
      BY <1>1, <2>3, NextTick
    <3>3. SoundLevel(m, -1)
      BY <1>1, <3>1, PlayedKeeps
    <3>4. CASE b \in BrokenTick(m, tick')
      <4>1. SoundLevel(b, -1)
        BY <3>2, <3>3, <3>4, BrokenTickKeeps
      <4>. QED
        BY <3>1, <3>2, <4>1, BrokenKeeps
    <3>5. CASE b \in CampaignTick(m, tick')
      <4>1. SoundLevel(b, tick')
        BY <3>2, <3>3, <3>5, CampaignTickKeeps
      <4>2. SoundLevel(b, -1)
        BY <3>2, <4>1, EarlierKeeps
      <4>. QED
        BY <3>1, <3>2, <4>2, BrokenKeeps
    <3>. QED
      BY <3>1, <3>4, <3>5
  <2>. QED
    BY <2>1, <2>2, <2>3 DEF FailTick
<1>4. level' \in Levels /\ departed' \in SUBSET Player /\ game' \in LevelGame
  BY <1>1, <1>3 DEF LevelTypeOK, SoundLevel, Sane
<1>. QED
  BY <1>1, <1>2, <1>3, <1>4, NextSound DEF LevelInv, LevelTypeOK

LEMMA StopKeeps == ASSUME LevelInv, Stop PROVE LevelInv'
<1>1. /\ LevelTypeOK /\ Sane(game) /\ UNCHANGED <<level, departed, tick, start, errors>>
      /\ game' = [game EXCEPT !.finished = TRUE]
  BY DEF LevelInv, SoundLevel, Stop
<1>2. /\ game' \in LevelGame /\ game'.finished
      /\ game'.here = game.here /\ game'.alive = game.alive /\ game'.respawn = game.respawn
      /\ game'.verdicts = game.verdicts /\ game'.foes = game.foes /\ game'.completion = game.completion
  BY <1>1 DEF LevelTypeOK, LevelGame
<1>3. SoundLevel(game', tick') /\ SoundLevel(game', -1)
  BY <1>1, <1>2 DEF SoundLevel, Sane, AllDead, Living
<1>. QED
  BY <1>1, <1>2, <1>3, NextSound DEF LevelInv, LevelTypeOK

\* Whoever leaves leaves everything; with a fall that nobody has noticed goes
\* the fall.
LEMMA LeaveKeeps == ASSUME LevelInv, NEW p \in Player, Leave(p) PROVE LevelInv'
<1>1. /\ LevelTypeOK /\ SoundLevel(game, -1) /\ Sane(game) /\ game \in LevelGame
      /\ UNCHANGED <<level, tick, start, errors>> /\ departed' = departed \cup {p} /\ p \in game.here
  BY DEF LevelInv, LevelTypeOK, SoundLevel, Leave
<1>2. PICK here \in SUBSET Player, alive \in SUBSET Player, frozen \in SUBSET Player,
           at \in SUBSET Player, locked \in SUBSET Player :
        /\ here = game.here \ {p} /\ alive = game.alive \ {p} /\ frozen = game.frozen \ {p}
        /\ at = game.at \ {p} /\ locked = game.locked \ {p}
  BY <1>1, GameFields
<1>3. PICK respawn \in [Player -> Int \cup {Never}] : respawn = [game.respawn EXCEPT ![p] = Never]
  BY <1>1, GameFields
<1>4. PICK fallen \in Int : fallen = IF p \in Unhandled(game) THEN game.fallen - 1 ELSE game.fallen
  BY <1>1, GameFields
<1>5. PICK h : h = [game EXCEPT !.here = here, !.alive = alive, !.frozen = frozen, !.at = at,
                                !.fallen = fallen, !.locked = locked, !.respawn = respawn]
  OBVIOUS
<1>6. game' = h
  BY <1>1, <1>2, <1>3, <1>4, <1>5 DEF Leave, LevelGame
<1>7. game' \in LevelGame
  BY <1>1, <1>5, <1>6 DEF LevelGame
<1>8. /\ game'.here = here /\ game'.alive = alive /\ game'.frozen = frozen /\ game'.at = at
      /\ game'.locked = locked /\ game'.respawn = respawn
      /\ game'.lives = game.lives /\ game'.fallen = fallen
      /\ game'.finished = game.finished /\ game'.verdicts = game.verdicts
      /\ game'.foes = game.foes /\ game'.completion = game.completion
  BY <1>1, <1>5, <1>6 DEF LevelGame
<1>9. \A q \in Player : respawn[q] = IF q = p THEN Never ELSE game.respawn[q]
  BY <1>1, <1>3, GameFields
<1>10. Unhandled(game') = Unhandled(game) \ {p}
  BY <1>1, <1>2, <1>8, <1>9, GameFields DEF Unhandled
<1>11. Sane(game)'
  <2>1. \A q \in Player : game'.respawn[q] # Never => q \in game'.here \ game'.alive
    BY <1>1, <1>2, <1>8, <1>9 DEF Sane
  <2>2. game'.alive \subseteq game'.here /\ game'.here \cap departed' = {}
    BY <1>1, <1>2, <1>8 DEF Sane
  <2>3. (level.goal = "kill_all" /\ game.completion # Never => AllDead(game))'
    BY <1>1, <1>8 DEF Sane, AllDead, Living
  <2>. QED
    BY <1>1, <1>7, <1>8, <2>1, <2>2, <2>3 DEF Sane
<1>12. ASSUME ~game.finished
       PROVE  (Paid(game) /\ Held(game) /\ Ahead(game, -1))'
  <2>1. Paid(game) /\ Held(game) /\ Ahead(game, -1)
    BY <1>1, <1>12 DEF SoundLevel
  <2>2. PICK u \in Nat : u = Cardinality(Unhandled(game))
    BY <1>1, WaitingArePlayers, Headcount
  <2>3. Cardinality(Unhandled(game')) = IF p \in Unhandled(game) THEN u - 1 ELSE u
    <3>1. CASE p \in Unhandled(game)
      <4>1. {p} \in SUBSET Unhandled(game) /\ Unhandled(game) \in SUBSET Player /\ Cardinality({p}) = 1
        BY <1>1, <3>1, WaitingArePlayers, FS_Singleton
      <4>. QED
        BY <1>10, <2>2, <3>1, <4>1, HeadcountOfRest
    <3>2. CASE p \notin Unhandled(game)
      <4>1. Unhandled(game') = Unhandled(game)
        BY <1>10, <3>2
      <4>. QED
        BY <2>2, <3>2, <4>1
    <3>. QED
      BY <3>1, <3>2
  <2>4. Paid(game)'
    <3>1. level.lives \in Nat /\ game.lives \in Int /\ game.fallen \in Int
      BY <1>1, LevelLives, GameFields DEF Sane
    <3>2. game.lives = level.lives - game.fallen + u /\ game.lives > 0
      BY <2>1, <2>2 DEF Paid
    <3>3. game.lives = level.lives - fallen + Cardinality(Unhandled(game'))
      BY <1>4, <2>3, <3>1, <3>2
    <3>. QED
      BY <1>1, <1>8, <3>2, <3>3 DEF Paid, Unhandled
  <2>5. Held(game')
    BY <1>2, <1>8, <1>10, <2>1 DEF Held
  <2>6. Ahead(game', -1)
    BY <1>1, <1>8, <1>9, <2>1 DEF Ahead
  <2>. QED
    BY <2>4, <2>5, <2>6 DEF Held, Ahead, Unhandled
<1>13. ASSUME errors = 0
       PROVE  SoundLevel(game, tick)' /\ (~game.finished => Unhandled(game) = {})'
  <2>1. SoundLevel(game, tick) /\ (~game.finished => Unhandled(game) = {})
    BY <1>13 DEF LevelInv
  <2>2. ASSUME ~game.finished PROVE Ahead(game, tick)'
    BY <1>1, <1>8, <1>9, <2>1, <2>2 DEF Ahead, SoundLevel
  <2>3. ASSUME ~game.finished PROVE Unhandled(game') = {}
    BY <1>10, <2>1, <2>3
  <2>4. Unhandled(game)' = Unhandled(game')
    BY DEF Unhandled
  <2>. QED
    BY <1>8, <1>11, <1>12, <2>2, <2>3, <2>4 DEF SoundLevel
<1>14. SoundLevel(game, -1)'
  BY <1>8, <1>11, <1>12 DEF SoundLevel
<1>15. LevelTypeOK'
  BY <1>1, <1>7 DEF LevelTypeOK
<1>. QED
  BY <1>1, <1>13, <1>14, <1>15 DEF LevelInv

LEMMA NextIInv == ASSUME LevelInv, [LevelNext]_levelVars PROVE LevelInv'
<1>1. CASE RunTick
  BY <1>1, RunTickKeeps
<1>2. CASE FailTick
  BY <1>2, FailTickKeeps
<1>3. CASE Stop
  BY <1>3, StopKeeps
<1>4. CASE \E p \in Player : Leave(p)
  BY <1>4, LeaveKeeps
<1>5. CASE UNCHANGED levelVars
  BY <1>5 DEF LevelInv, LevelTypeOK, SoundLevel, Sane, Paid, Held, Ahead, Unhandled, AllDead, Living, levelVars
<1>. QED
  BY <1>1, <1>2, <1>3, <1>4, <1>5 DEF LevelNext

LEMMA AlwaysIInv == LevelSpec => []LevelInv
<1>1. LevelInit => LevelInv
  BY InitIInv
<1>2. LevelInv /\ [LevelNext]_levelVars => LevelInv'
  BY NextIInv
<1>. QED
  BY <1>1, <1>2, PTL DEF LevelSpec

-----------------------------------------------------------------------------
(* The theorems *)

\* Every field of the game, and the loop's counters, stay what the code takes
\* them for, whatever a tick does to the players and the enemies.
THEOREM LevelTypeCorrect == LevelSpec => []LevelTypeOK
<1>1. LevelInv => LevelTypeOK
  BY DEF LevelInv
<1>. QED
  BY <1>1, AlwaysIInv, PTL

\* Whichever of the four places notices a fall, and however many ticks throw
\* before one does, it costs one life; after a tick that got through everybody
\* who is down comes back later.  A level without lives has ended.
THEOREM EveryFallIsHandled == LevelSpec => []FallsAreHandled
<1>1. ASSUME LevelInv PROVE FallsAreHandled
  <2>1. ASSUME ~game.finished
        PROVE  game.lives = level.lives - game.fallen + Cardinality(Unhandled(game)) /\ game.lives > 0
    BY <1>1, <2>1 DEF LevelInv, SoundLevel, Paid
  <2>2. ASSUME ~game.finished, errors = 0, NEW p \in game.here \ game.alive
        PROVE  game.respawn[p] # Never /\ game.respawn[p] > tick
    <3>1. game \in LevelGame /\ Ahead(game, tick) /\ Unhandled(game) = {}
      BY <1>1, <2>2 DEF LevelInv, SoundLevel, Sane
    <3>2. p \in Player
      BY <2>2, <3>1, GameFields
    <3>3. game.respawn[p] # Never
      BY <2>2, <3>1 DEF Unhandled
    <3>. QED
      BY <3>1, <3>2, <3>3 DEF Ahead
  <2>. QED
    BY <2>1, <2>2 DEF FallsAreHandled
<1>. QED
  BY <1>1, AlwaysIInv, PTL

\* Nobody is held at the goal who has left, or does not count there, and nobody
\* who is down once a tick has got through: nobody is frozen for good, and no
\* level is won by somebody's absence.
THEOREM WhoeverIsHeldIsThere == LevelSpec => []HeldAreThere
<1>1. ASSUME LevelInv PROVE HeldAreThere
  <2>1. ASSUME ~game.finished
        PROVE  /\ game.locked = game.frozen
               /\ game.locked \subseteq ((game.alive \cup Unhandled(game)) \cap game.at) \ departed
    BY <1>1, <2>1 DEF LevelInv, SoundLevel, Sane, Held, Unhandled
  <2>2. ASSUME ~game.finished, errors = 0
        PROVE  game.locked \subseteq game.alive
    BY <1>1, <2>1, <2>2 DEF LevelInv
  <2>. QED
    BY <2>1, <2>2 DEF HeldAreThere
<1>. QED
  BY <1>1, AlwaysIInv, PTL

\* A level is decided once at most, and no enemy is left in a kill-all level
\* that is complete, whatever a boss calls for as it dies.
THEOREM TheVerdictStands == LevelSpec => []VerdictStands
<1>1. ASSUME LevelInv PROVE VerdictStands
  BY <1>1 DEF LevelInv, SoundLevel, Sane, VerdictStands
<1>. QED
  BY <1>1, AlwaysIInv, PTL

=============================================================================
