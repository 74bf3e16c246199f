--------------------------- MODULE OpenWorldProofs ---------------------------
(***************************************************************************)
(* Proofs about the open world, for any accounts, tabs, administrators and *)
(* rounds: who is in the world has a connection that plays them, and, as   *)
(* long as no world has been opened beside another, there is one loop, and *)
(* each kill is accounted for once and is with the database when the       *)
(* process exits.                                                          *)
(***************************************************************************)
EXTENDS OpenWorld, FiniteSetTheorems, TLAPS

-----------------------------------------------------------------------------
(* Statistics *)

Sum(k) == k.queued + k.sent + k.closing + k.saved + k.lost

\* A batch that leaves the queue is neither more nor less than what was in it.
LEMMA DetachedKeeps ==
  ASSUME NEW k \in Kills, NEW how \in {"sent", "closing"}
  PROVE  LET d == Detached(k, how) IN
         /\ d \in Kills /\ d.earned = k.earned /\ d.queued = 0 /\ Sum(d) = Sum(k)
         /\ how = "sent" => d.closing = k.closing
         /\ how = "closing" /\ k.queued = 0 => d.closing = k.closing
<1>1. /\ k.earned \in Nat /\ k.queued \in Nat /\ k.sent \in Nat /\ k.closing \in Nat
      /\ k.saved \in Nat /\ k.lost \in Nat
  BY DEF Kills
<1>2. CASE how = "sent"
  <2>1. PICK n \in Nat : n = k.sent + k.queued
    BY <1>1
  <2>2. PICK d : d = [k EXCEPT !.queued = 0, !.sent = n]
    OBVIOUS
  <2>3. Detached(k, how) = d
    BY <1>2, <2>1, <2>2 DEF Kills, Detached
  <2>4. d \in Kills
    BY <2>1, <2>2 DEF Kills
  <2>5. /\ d.queued = 0 /\ d.sent = n /\ d.earned = k.earned /\ d.closing = k.closing
        /\ d.saved = k.saved /\ d.lost = k.lost
    BY <2>2 DEF Kills
  <2>. QED
    BY <1>1, <1>2, <2>1, <2>3, <2>4, <2>5 DEF Sum
<1>3. CASE how = "closing"
  <2>1. PICK n \in Nat : n = k.closing + k.queued
    BY <1>1
  <2>2. PICK d : d = [k EXCEPT !.queued = 0, !.closing = n]
    OBVIOUS
  <2>3. Detached(k, how) = d
    BY <1>3, <2>1, <2>2 DEF Kills, Detached
  <2>4. d \in Kills
    BY <2>1, <2>2 DEF Kills
  <2>5. /\ d.queued = 0 /\ d.sent = k.sent /\ d.earned = k.earned /\ d.closing = n
        /\ d.saved = k.saved /\ d.lost = k.lost
    BY <2>2 DEF Kills
  <2>. QED
    BY <1>1, <1>3, <2>1, <2>3, <2>4, <2>5 DEF Sum
<1>. QED
  BY <1>2, <1>3

\* What is answered is saved or lost.
LEMMA MovedKeeps ==
  ASSUME NEW k \in Kills, NEW how \in {"sent", "closing"}, NEW to \in {"saved", "lost"}, NEW n \in 1 .. k[how]
  PROVE  LET d == Moved(k, how, to, n) IN
         /\ d \in Kills /\ d.earned = k.earned /\ d.queued = k.queued /\ Sum(d) = Sum(k)
         /\ k.closing = 0 => d.closing = 0
<1>1. /\ k.earned \in Nat /\ k.queued \in Nat /\ k.sent \in Nat /\ k.closing \in Nat
      /\ k.saved \in Nat /\ k.lost \in Nat
  BY DEF Kills
<1>2. PICK a \in Nat, b \in Nat : a = k[how] - n /\ b = k[to] + n
  BY <1>1
<1>3. PICK d : d = [k EXCEPT ![how] = a, ![to] = b]
  OBVIOUS
<1>4. Moved(k, how, to, n) = d
  BY <1>2, <1>3 DEF Moved, Kills
<1>5. d \in Kills /\ d.earned = k.earned /\ d.queued = k.queued
  BY <1>3 DEF Kills
<1>6. /\ d.sent = (IF how = "sent" THEN a ELSE k.sent)
      /\ d.closing = (IF how = "closing" THEN a ELSE k.closing)
      /\ d.saved = (IF to = "saved" THEN b ELSE k.saved)
      /\ d.lost = (IF to = "lost" THEN b ELSE k.lost)
  BY <1>3 DEF Kills
<1>7. Sum(d) = Sum(k)
  BY <1>1, <1>2, <1>5, <1>6 DEF Sum
<1>. QED
  BY <1>1, <1>2, <1>4, <1>5, <1>6, <1>7

\* What dies with the process is lost.
LEMMA ForgottenKeeps ==
  ASSUME NEW k \in Kills
  PROVE  LET d == Forgotten(k) IN
         d \in Kills /\ d.earned = k.earned /\ d.queued = 0 /\ d.closing = 0 /\ Sum(d) = Sum(k)
<1>1. /\ k.earned \in Nat /\ k.queued \in Nat /\ k.sent \in Nat /\ k.closing \in Nat
      /\ k.saved \in Nat /\ k.lost \in Nat
  BY DEF Kills
<1>2. PICK n \in Nat : n = k.lost + k.queued + k.sent + k.closing
  BY <1>1
<1>3. PICK d : d = [k EXCEPT !.queued = 0, !.sent = 0, !.closing = 0, !.lost = n]
  OBVIOUS
<1>4. Forgotten(k) = d
  BY <1>2, <1>3 DEF Forgotten, Kills
<1>5. d \in Kills
  BY <1>3 DEF Kills
<1>6. /\ d.queued = 0 /\ d.sent = 0 /\ d.closing = 0 /\ d.lost = n
      /\ d.saved = k.saved /\ d.earned = k.earned
  BY <1>3 DEF Kills
<1>. QED
  BY <1>1, <1>2, <1>4, <1>5, <1>6 DEF Sum

Stats == [User -> Kills]

Balanced(st) == \A u \in User : st[u].earned = Sum(st[u])

LEMMA TotalIsSum == \A u \in User : Total(u) = Sum(stats[u])
BY DEF Total, Sum

\* A flush, of anybody's kills, into any batch.
LEMMA FlushedKeeps ==
  ASSUME NEW st \in Stats, NEW U, NEW how \in {"sent", "closing"}
  PROVE  LET to == Flushed(st, U, how) IN
         /\ to \in Stats /\ (Balanced(st) => Balanced(to))
         /\ \A u \in User : /\ st[u].queued = 0 \/ u \in U => to[u].queued = 0
                            /\ how = "sent" \/ st[u].queued = 0 => to[u].closing = st[u].closing
<1>. DEFINE to == Flushed(st, U, how)
<1>1. \A u \in User : to[u] = IF u \in U THEN Detached(st[u], how) ELSE st[u]
  BY DEF Flushed
<1>2. \A u \in User : /\ to[u] \in Kills /\ to[u].earned = st[u].earned /\ Sum(to[u]) = Sum(st[u])
                      /\ st[u].queued = 0 \/ u \in U => to[u].queued = 0
                      /\ how = "sent" \/ st[u].queued = 0 => to[u].closing = st[u].closing
  <2>. TAKE u \in User
  <2>1. CASE u \in U
    BY <1>1, <2>1, DetachedKeeps DEF Stats
  <2>2. CASE u \notin U
    BY <1>1, <2>2 DEF Stats
  <2>. QED
    BY <2>1, <2>2
<1>3. to \in Stats
  BY <1>2 DEF Stats, Flushed
<1>4. Balanced(st) => Balanced(to)
  BY <1>2 DEF Balanced
<1>. QED
  BY <1>2, <1>3, <1>4

\* A tick: kills of the current state are earned and queued alike, and then
\* flushed or not.
LEMMA TickKeeps ==
  ASSUME stats \in Stats, NEW r \in Round, NEW K \in SUBSET User, NEW due \in BOOLEAN, NEW away
  PROVE  LET to == AfterFlush(AfterKills(r, K), due, away) IN
         /\ to \in Stats
         /\ \A u \in User : to[u].closing = stats[u].closing
         /\ r = state /\ K \subseteq Present /\ Balanced(stats) => Balanced(to)
<1>. DEFINE base == IF r = state THEN Earned(stats, K) ELSE stats
            mid == AfterKills(r, K)
<1>1. /\ base \in Stats
      /\ \A u \in User : base[u].closing = stats[u].closing
      /\ \A u \in User : /\ base[u].queued = stats[u].queued /\ base[u].sent = stats[u].sent
                         /\ base[u].saved = stats[u].saved /\ base[u].lost = stats[u].lost
      /\ r = state => \A u \in User : base[u].earned = IF u \in K THEN stats[u].earned + 1 ELSE stats[u].earned
  BY DEF Earned, Stats, Kills
<1>2. mid = [u \in User |-> IF u \in Counted(K) THEN [base[u] EXCEPT !.queued = @ + 1] ELSE base[u]]
  BY DEF AfterKills, Queued
<1>3. \A u \in User : /\ base[u] \in Kills /\ base[u].queued \in Nat /\ base[u].sent \in Nat /\ base[u].closing \in Nat
                      /\ base[u].saved \in Nat /\ base[u].lost \in Nat /\ base[u].earned \in Nat
  BY <1>1 DEF Stats, Kills
<1>4. \A u \in User :
        /\ mid[u] \in Kills /\ mid[u].earned = base[u].earned /\ mid[u].sent = base[u].sent
        /\ mid[u].closing = base[u].closing /\ mid[u].saved = base[u].saved /\ mid[u].lost = base[u].lost
        /\ mid[u].queued = IF u \in Counted(K) THEN base[u].queued + 1 ELSE base[u].queued
  BY <1>2, <1>3 DEF Kills
<1>5. mid \in Stats
  BY <1>2, <1>4 DEF Stats
<1>6. ASSUME r = state, K \subseteq Present, Balanced(stats)
      PROVE  Balanced(mid)
  <2>. SUFFICES ASSUME NEW u \in User
                PROVE  mid[u].earned = Sum(mid[u])
    BY DEF Balanced
  <2>1. u \in Counted(K) <=> u \in K
    BY <1>6 DEF Counted
  <2>2. stats[u].earned = Sum(stats[u])
    BY <1>6 DEF Balanced
  <2>. QED
    BY <1>1, <1>3, <1>4, <1>6, <2>1, <2>2 DEF Sum
<1>7. AfterFlush(mid, due, away) = Flushed(mid, IF due THEN User ELSE away, "sent")
  BY DEF AfterFlush
<1>. QED
  BY <1>1, <1>4, <1>5, <1>6, <1>7, FlushedKeeps

\* The end of the process.
LEMMA GoneKeeps ==
  ASSUME stats \in Stats, stats' = [u \in User |-> Forgotten(stats[u])]
  PROVE  /\ stats' \in Stats /\ (Balanced(stats) => Balanced(stats'))
         /\ \A u \in User : stats'[u].queued = 0 /\ stats'[u].closing = 0
<1>1. \A u \in User : LET d == Forgotten(stats[u]) IN
        d \in Kills /\ d.earned = stats[u].earned /\ d.queued = 0 /\ d.closing = 0 /\ Sum(d) = Sum(stats[u])
  BY ForgottenKeeps DEF Stats
<1>2. \A u \in User : /\ stats'[u] \in Kills /\ stats'[u].earned = stats[u].earned
                      /\ stats'[u].queued = 0 /\ stats'[u].closing = 0 /\ Sum(stats'[u]) = Sum(stats[u])
  BY <1>1
<1>. QED
  BY <1>2 DEF Stats, Balanced

\* An answer of the database.
LEMMA WriteKeeps ==
  ASSUME stats \in Stats, NEW u \in User, Written(u, "sent") \/ Written(u, "closing")
  PROVE  /\ stats' \in Stats /\ (Balanced(stats) => Balanced(stats'))
         /\ \A v \in User : /\ stats'[v].queued = stats[v].queued
                            /\ stats[v].closing = 0 => stats'[v].closing = 0
<1>0. PICK how \in {"sent", "closing"} : Written(u, how)
  OBVIOUS
<1>1. PICK n \in 1 .. stats[u][how], to \in {"saved", "lost"} :
        stats' = [stats EXCEPT ![u] = Moved(stats[u], how, to, n)]
  BY <1>0 DEF Written
<1>2. LET d == Moved(stats[u], how, to, n) IN
        /\ d \in Kills /\ d.earned = stats[u].earned /\ d.queued = stats[u].queued /\ Sum(d) = Sum(stats[u])
        /\ stats[u].closing = 0 => d.closing = 0
  BY MovedKeeps DEF Stats
<1>. QED
  BY <1>1, <1>2 DEF Stats, Balanced

-----------------------------------------------------------------------------
(* Types *)

LEMMA InitTyped == Init => TypeOK
<1>1. Zero \in Kills
  BY DEF Zero, Kills
<1>. QED
  <2>1. ASSUME Init PROVE stats \in [User -> Kills] /\ calls \in [Admin -> Call]
    BY <1>1, <2>1 DEF Init, Call, Idle
  <2>2. 0 \in 0 .. MaxChanges /\ 0 \in 0 .. MaxRestarts
    BY OpenWorldAssumption
  <2>. QED
    BY <2>1, <2>2 DEF Init, TypeOK

LEMMA FreshIsUnused ==
  ASSUME Unused # {}
  PROVE  Fresh \in Round \ (running \cup {state, loop})
<1>1. Fresh \in Unused
  BY DEF Fresh
<1>. QED
  BY <1>1 DEF Unused

\* Whichever way a shutdown goes.
LEMMA ShutdownTyped ==
  ASSUME TypeOK, NEW on \in BOOLEAN, Shutdown(on)
  PROVE  /\ enabled' \in BOOLEAN /\ frozen' \in BOOLEAN /\ stopping' \in BOOLEAN
         /\ overlap' = overlap /\ tripped' = tripped
         /\ state' \in {state, None} /\ loop' \in {loop, None} /\ running' \subseteq running
         /\ events' \in SUBSET User /\ stats' \in Stats
         /\ players' \in [User -> Socket \cup {None}] /\ seat' \in [Socket -> User \cup {None}]
<1>1. Flushed(stats, User, "closing") \in Stats
  BY FlushedKeeps DEF TypeOK, Stats
<1>2. CASE stopping
  BY <1>2 DEF Shutdown, TypeOK, Stats
<1>3. CASE ~stopping
  <2>1. stats' \in Stats /\ running' = running \ {loop} /\ overlap' = overlap /\ tripped' = tripped
    BY <1>1, <1>3 DEF Shutdown
  <2>2. CASE ClosedWorld
    BY <2>1, <2>2 DEF ClosedWorld, TypeOK
  <2>3. CASE ~ClosedWorld
    BY <1>3, <2>1, <2>3 DEF Shutdown, TypeOK
  <2>. QED
    BY <2>2, <2>3
<1>. QED
  BY <1>2, <1>3

\* A round begins.
LEMMA NewRoundTyped ==
  ASSUME TypeOK, NEW S, NewRound(S)
  PROVE  /\ state' \in Round /\ loop' = state' /\ running' = (running \ S) \cup {state'} /\ running' \in SUBSET Round
         /\ frozen' = FALSE /\ events' = {}
BY FreshIsUnused DEF NewRound, TypeOK

LEMMA LeaveTyped ==
  ASSUME TypeOK, NEW S, Leave(S)
  PROVE  players' \in [User -> Socket \cup {None}] /\ seat' \in [Socket -> User \cup {None}]
BY DEF TypeOK, Leave

LEMMA TypeNext == TypeOK /\ [Next]_vars => TypeOK'
<1>. SUFFICES ASSUME TypeOK, [Next]_vars
              PROVE  TypeOK'
  OBVIOUS
<1>0. /\ Idle \in Call /\ stats \in Stats
      /\ setting \in BOOLEAN /\ calls \in [Admin -> Call] /\ changes \in 0 .. MaxChanges
  BY DEF TypeOK, Idle, Call, Stats
<1>. USE DEF admin, process, world, people
<1>1. ASSUME NEW a \in Admin, NEW v \in BOOLEAN, PutSetting(a, v) PROVE TypeOK'
  <2>1. calls' = [calls EXCEPT ![a] = [Idle EXCEPT !.at = "read"]]
    BY <1>0, <1>1 DEF PutSetting
  <2>2. calls' \in [Admin -> Call]
    BY <1>0, <2>1 DEF Idle, Call
  <2>3. changes' \in 0 .. MaxChanges
    BY <1>1, OpenWorldAssumption DEF PutSetting, TypeOK
  <2>. QED
    BY <1>1, <2>2, <2>3 DEF PutSetting, TypeOK
<1>2. ASSUME NEW a \in Admin, ReadSetting(a) PROVE TypeOK'
  <2>1. calls' \in [Admin -> Call]
    BY <1>0, <1>2 DEF ReadSetting, Call
  <2>. QED
    BY <1>2, <2>1 DEF ReadSetting, TypeOK
<1>3. ASSUME NEW a \in Admin, HandleSettingsChange(a) PROVE TypeOK'
  <2>1. calls' \in [Admin -> Call]
    <3>. DEFINE stop == [at |-> "stop", value |-> FALSE]
    <3>1. calls' = [calls EXCEPT ![a] = Idle] \/ calls' = [calls EXCEPT ![a] = stop]
      <4>1. CASE SwitchOn(a) \/ Keep(a)
        BY <4>1 DEF SwitchOn, Keep, Answered
      <4>2. CASE SwitchOff(a) /\ stopping'
        BY <4>2 DEF SwitchOff
      <4>3. CASE SwitchOff(a) /\ ~stopping'
        BY <4>3 DEF SwitchOff
      <4>. QED
        BY <1>3, <4>1, <4>2, <4>3 DEF HandleSettingsChange
    <3>2. Idle \in Call /\ stop \in Call
      BY <1>0 DEF Call
    <3>. QED
      BY <1>0, <3>1, <3>2
  <2>2. CASE SwitchOn(a)
    <3>1. /\ state' \in Round /\ loop' = state' /\ running' \in SUBSET Round
          /\ frozen' = FALSE /\ events' = {} /\ overlap' \in BOOLEAN
      BY <2>2, NewRoundTyped DEF SwitchOn, Open
    <3>. QED
      BY <1>3, <2>1, <2>2, <3>1 DEF HandleSettingsChange, SwitchOn, TypeOK
  <2>3. CASE SwitchOff(a)
    <3>1. Shutdown(FALSE)
      BY <2>3 DEF SwitchOff
    <3>2. /\ enabled' \in BOOLEAN /\ frozen' \in BOOLEAN /\ stopping' \in BOOLEAN
          /\ overlap' = overlap /\ tripped' = tripped
          /\ state' \in {state, None} /\ loop' \in {loop, None} /\ running' \subseteq running
          /\ events' \in SUBSET User /\ stats' \in Stats
          /\ players' \in [User -> Socket \cup {None}] /\ seat' \in [Socket -> User \cup {None}]
      BY <3>1, ShutdownTyped
    <3>. QED
      BY <1>3, <2>1, <3>2 DEF HandleSettingsChange, TypeOK, Stats
  <2>4. CASE Keep(a)
    BY <1>3, <2>1, <2>4 DEF HandleSettingsChange, Keep, TypeOK
  <2>. QED
    BY <1>3, <2>2, <2>3, <2>4 DEF HandleSettingsChange
<1>4. CASE InitRead
  BY <1>4 DEF InitRead, TypeOK
<1>5. CASE InitOff
  BY <1>5 DEF InitOff, Initialised, TypeOK
<1>6. CASE InitOn
  BY <1>6, NewRoundTyped DEF InitOn, Initialised, Open, TypeOK
<1>7. CASE Terminate
  <2>1. enabled \in BOOLEAN /\ Shutdown(enabled)
    BY <1>7 DEF Terminate, TypeOK
  <2>2. /\ enabled' \in BOOLEAN /\ frozen' \in BOOLEAN /\ stopping' \in BOOLEAN
        /\ overlap' = overlap /\ tripped' = tripped
        /\ state' \in {state, None} /\ loop' \in {loop, None} /\ running' \subseteq running
        /\ events' \in SUBSET User /\ stats' \in Stats
        /\ players' \in [User -> Socket \cup {None}] /\ seat' \in [Socket -> User \cup {None}]
    BY <2>1, ShutdownTyped
  <2>3. restarts' \in 0 .. MaxRestarts
    BY <1>7, OpenWorldAssumption DEF Terminate, TypeOK
  <2>. QED
    BY <1>7, <2>2, <2>3 DEF Terminate, TypeOK, Stats
<1>8. CASE Exit \/ Crash
  <2>1. restarts' \in 0 .. MaxRestarts
    BY <1>8, OpenWorldAssumption DEF Exit, Crash, TypeOK
  <2>2. Gone
    BY <1>8 DEF Exit, Crash
  <2>3. stats' \in Stats
    BY <1>0, <2>2, GoneKeeps DEF Gone
  <2>4. calls' \in [Admin -> Call]
    BY <1>0, <2>2 DEF Gone
  <2>. QED
    BY <2>1, <2>2, <2>3, <2>4 DEF Gone, TypeOK, Stats
<1>9. CASE Restart
  BY <1>9 DEF Restart, TypeOK
<1>10. ASSUME NEW s \in Socket, Connect(s) PROVE TypeOK'
  BY <1>10 DEF Connect, TypeOK
<1>11. ASSUME NEW s \in Socket, Join(s) PROVE TypeOK'
  <2>1. Owner[s] \in User
    BY OpenWorldAssumption
  <2>. QED
    BY <1>11, <2>1 DEF Join, Seated, TypeOK
<1>12. ASSUME NEW s \in Socket, LeaveWorld(s) \/ Drop(s) PROVE TypeOK'
  <2>1. Flushed(stats, Leaving({s}), "sent") \in Stats
    BY <1>0, FlushedKeeps
  <2>2. /\ players' \in [User -> Socket \cup {None}] /\ seat' \in [Socket -> User \cup {None}]
        /\ stats' \in Stats
    BY <1>0, <1>12, <2>1, LeaveTyped DEF LeaveWorld, Drop, TypeOK
  <2>. QED
    <3>1. sock' \in [Socket -> {"off", "on"}] /\ inWorld' \in [Socket -> BOOLEAN]
      BY <1>12 DEF LeaveWorld, Drop, TypeOK
    <3>2. UNCHANGED <<admin, process, world, events>>
      BY <1>12 DEF LeaveWorld, Drop
    <3>. QED
      BY <2>2, <3>1, <3>2 DEF TypeOK, Stats
<1>13. ASSUME NEW r \in Round, Tick(r) PROVE TypeOK'
  <2>1. PICK K \in SUBSET User, due \in BOOLEAN, away \in SUBSET Present :
       /\ Leave({players[u] : u \in away})
       /\ inWorld' = [s \in Socket |-> inWorld[s] /\ ~\E u \in away : players[u] = s]
       /\ \/ /\ SameRound
             /\ events' = K
             /\ stats' = AfterFlush(AfterKills(r, K), due, away)
          \/ /\ NextRound
             /\ stats' = AfterFlush(AfterKills(r, K), TRUE, away)
    BY <1>13 DEF Tick
  <2>2. stats' \in Stats
    BY <1>0, <2>1, TickKeeps
  <2>3. players' \in [User -> Socket \cup {None}] /\ seat' \in [Socket -> User \cup {None}]
    BY <2>1, LeaveTyped
  <2>4. inWorld' \in [Socket -> BOOLEAN]
    BY <2>1 DEF TypeOK
  <2>5. /\ state' \in Round \cup {None} /\ loop' \in Round \cup {None} /\ running' \in SUBSET Round
        /\ frozen' \in BOOLEAN /\ events' \in SUBSET User
    <3>1. CASE NextRound
      BY <3>1, NewRoundTyped DEF NextRound
    <3>2. CASE ~NextRound
      BY <2>1, <3>2 DEF SameRound, TypeOK
    <3>. QED
      BY <3>1, <3>2
  <2>. QED
    BY <1>13, <2>2, <2>3, <2>4, <2>5 DEF Tick, TypeOK, Stats
<1>14. ASSUME NEW r \in Round, Breaker(r) PROVE TypeOK'
  BY <1>14 DEF Breaker, TypeOK
<1>15. ASSUME NEW u \in User, WriteStats(u) PROVE TypeOK'
  <2>1. stats' \in Stats
    BY <1>0, <1>15, WriteKeeps DEF WriteStats
  <2>. QED
    BY <1>15, <2>1 DEF WriteStats, TypeOK, Stats
<1>16. CASE FinishShutdown
  <2>1. calls' \in [Admin -> Call]
    BY <1>0, <1>16 DEF FinishShutdown
  <2>. QED
    BY <1>16, <2>1 DEF FinishShutdown, ClosedWorld, TypeOK
<1>17. CASE UNCHANGED vars
  BY <1>17 DEF vars, TypeOK
<1>. QED
  BY <1>1, <1>2, <1>3, <1>4, <1>5, <1>6, <1>7, <1>8, <1>9, <1>10, <1>11, <1>12, <1>13, <1>14, <1>15,
     <1>16, <1>17 DEF Next

\* Every variable keeps its type.
THEOREM TypeCorrect == Spec => []TypeOK
BY InitTyped, TypeNext, PTL DEF Spec

-----------------------------------------------------------------------------
(* Players *)

\* A world that closes has neither players nor seats.
LEMMA EmptyStrands ==
  ASSUME players' = [u \in User |-> None], seat' = [s \in Socket |-> None]
  PROVE  NobodyStrands'
BY OpenWorldAssumption DEF NobodyStrands

LEMMA ShutdownStrands ==
  ASSUME NEW on, Shutdown(on)
  PROVE  \/ players' = [u \in User |-> None] /\ seat' = [s \in Socket |-> None]
         \/ players' = players /\ seat' = seat
BY DEF Shutdown, ClosedWorld

\* Whoever leaves is taken out of both maps.
LEMMA LeaveStrands ==
  ASSUME TypeOK, NobodyStrands, NEW S \in SUBSET Socket, Leave(S),
         \A s \in Socket \ S : sock'[s] = sock[s] /\ inWorld'[s] = inWorld[s]
  PROVE  NobodyStrands'
<1>. SUFFICES ASSUME NEW u \in User
              PROVE  /\ \A s \in Socket : players'[u] = s <=> seat'[s] = u
                     /\ players'[u] # None => LET s == players'[u] IN Owner[s] = u /\ sock'[s] = "on" /\ inWorld'[s]
  BY DEF NobodyStrands
<1>0. /\ players'[u] = IF u \in Leaving(S) THEN None ELSE players[u]
      /\ \A s \in Socket : seat'[s] = IF s \in S /\ seat[s] \in Leaving(S) THEN None ELSE seat[s]
  BY DEF Leave
<1>1. /\ \A s \in Socket : players[u] = s <=> seat[s] = u
      /\ players[u] # None => Owner[players[u]] = u /\ sock[players[u]] = "on" /\ inWorld[players[u]]
      /\ players[u] \in Socket \cup {None}
  BY DEF NobodyStrands, TypeOK
<1>2. u \in Leaving(S) <=> players[u] \in S
  BY <1>1, OpenWorldAssumption DEF Leaving
<1>3. \A s \in Socket : seat[s] = u /\ s \in S => u \in Leaving(S)
  BY <1>1, <1>2
<1>4. CASE u \in Leaving(S)
  BY <1>0, <1>1, <1>2, <1>4, OpenWorldAssumption
<1>5. CASE u \notin Leaving(S)
  BY <1>0, <1>1, <1>2, <1>3, <1>5, OpenWorldAssumption
<1>. QED
  BY <1>4, <1>5

LEMMA StrandsNext == TypeOK /\ NobodyStrands /\ [Next]_vars => NobodyStrands'
<1>. SUFFICES ASSUME TypeOK, NobodyStrands, [Next]_vars
              PROVE  NobodyStrands'
  OBVIOUS
<1>. USE DEF admin, process, world, people
<1>0. ASSUME UNCHANGED people PROVE NobodyStrands'
  BY <1>0 DEF NobodyStrands
<1>1. ASSUME NEW a \in Admin, NEW v \in BOOLEAN, PutSetting(a, v) PROVE NobodyStrands'
  BY <1>0, <1>1 DEF PutSetting
<1>2. ASSUME NEW a \in Admin, ReadSetting(a) PROVE NobodyStrands'
  BY <1>0, <1>2 DEF ReadSetting
<1>3. ASSUME NEW a \in Admin, HandleSettingsChange(a) PROVE NobodyStrands'
  <2>1. CASE SwitchOff(a)
    <3>1. Shutdown(FALSE)
      BY <2>1 DEF SwitchOff
    <3>. QED
      BY <1>0, <1>3, <3>1, ShutdownStrands, EmptyStrands DEF HandleSettingsChange
  <2>2. CASE SwitchOn(a) \/ Keep(a)
    BY <1>0, <1>3, <2>2 DEF HandleSettingsChange, SwitchOn, Keep
  <2>. QED
    BY <1>3, <2>1, <2>2 DEF HandleSettingsChange
<1>4. CASE InitRead \/ InitOff \/ InitOn \/ Restart
  BY <1>0, <1>4 DEF InitRead, InitOff, InitOn, Initialised, Restart
<1>5. CASE Terminate
  BY <1>0, <1>5, ShutdownStrands, EmptyStrands DEF Terminate
<1>6. CASE Exit \/ Crash
  BY <1>6, EmptyStrands DEF Exit, Crash, Gone
<1>7. ASSUME NEW s \in Socket, Connect(s) PROVE NobodyStrands'
  <2>1. \A t \in Socket : sock[t] = "on" => sock'[t] = "on"
    BY <1>7 DEF Connect, TypeOK
  <2>. QED
    BY <1>7, <2>1, OpenWorldAssumption DEF Connect, NobodyStrands, TypeOK
<1>8. ASSUME NEW s \in Socket, Join(s) PROVE NobodyStrands'
  <2>. DEFINE o == Owner[s]
  <2>1. o \in User /\ s # None
    BY OpenWorldAssumption
  <2>2. /\ \A u \in User : players'[u] = IF u = o THEN s ELSE players[u]
        /\ \A t \in Socket : seat'[t] = IF t = s THEN o ELSE IF t = players[o] THEN None ELSE seat[t]
        /\ inWorld'[s] /\ \A t \in Socket : inWorld[t] => inWorld'[t]
        /\ sock' = sock /\ sock[s] = "on" /\ seat[s] = None
    BY <1>8, <2>1 DEF Join, Seated, TypeOK
  <2>3. \A u \in User : /\ \A t \in Socket : players[u] = t <=> seat[t] = u
                        /\ players[u] # None => Owner[players[u]] = u /\ sock[players[u]] = "on" /\ inWorld[players[u]]
                        /\ players[u] \in Socket \cup {None}
    BY DEF NobodyStrands, TypeOK
  <2>. SUFFICES ASSUME NEW u \in User
                PROVE  /\ \A t \in Socket : players'[u] = t <=> seat'[t] = u
                       /\ players'[u] # None => Owner[players'[u]] = u /\ sock'[players'[u]] = "on" /\ inWorld'[players'[u]]
    BY DEF NobodyStrands
  <2>. HIDE DEF o
  <2>4. None \notin User /\ None \notin Socket
    BY OpenWorldAssumption
  <2>5. \A t \in Socket : players'[u] = t <=> seat'[t] = u
    <3>. TAKE t \in Socket
    <3>1. CASE u = o
      BY <2>1, <2>2, <2>3, <2>4, <3>1
    <3>2. CASE u # o
      <4>1. players'[u] = players[u] /\ players[u] # s
        BY <2>2, <2>3, <2>4, <3>2
      <4>2. CASE t = s
        BY <2>2, <3>2, <4>1, <4>2
      <4>3. CASE t # s /\ t = players[o]
        BY <2>1, <2>2, <2>3, <2>4, <3>2, <4>1, <4>3
      <4>4. CASE t # s /\ t # players[o]
        BY <2>2, <2>3, <4>1, <4>4
      <4>. QED
        BY <4>2, <4>3, <4>4
    <3>. QED
      BY <3>1, <3>2
  <2>6. players'[u] # None => Owner[players'[u]] = u /\ sock'[players'[u]] = "on" /\ inWorld'[players'[u]]
    <3>1. CASE u = o
      BY <2>2, <3>1 DEF o
    <3>2. CASE u # o
      BY <2>2, <2>3, <3>2
    <3>. QED
      BY <3>1, <3>2
  <2>. QED
    BY <2>5, <2>6
<1>9. ASSUME NEW s \in Socket, LeaveWorld(s) PROVE NobodyStrands'
  <2>1. /\ Leave({s})
        /\ \A t \in Socket \ {s} : sock'[t] = sock[t] /\ inWorld'[t] = inWorld[t]
    BY <1>9 DEF LeaveWorld, TypeOK
  <2>. QED
    BY <2>1, LeaveStrands
<1>10. ASSUME NEW s \in Socket, Drop(s) PROVE NobodyStrands'
  <2>1. \A t \in Socket \ {s} : sock'[t] = sock[t] /\ inWorld'[t] = inWorld[t]
    BY <1>10 DEF Drop, TypeOK
  <2>2. CASE inWorld[s]
    BY <1>10, <2>1, <2>2, LeaveStrands DEF Drop
  <2>3. CASE ~inWorld[s]
    <3>1. players' = players /\ seat' = seat
      BY <1>10, <2>3 DEF Drop
    <3>2. \A u \in User : players[u] # None => players[u] \in Socket \ {s}
      BY <2>3 DEF NobodyStrands, TypeOK
    <3>. QED
      BY <2>1, <3>1, <3>2 DEF NobodyStrands
  <2>. QED
    BY <2>2, <2>3
<1>11. ASSUME NEW r \in Round, Tick(r) PROVE NobodyStrands'
  <2>1. PICK away \in SUBSET Present :
       /\ Leave({players[u] : u \in away})
       /\ inWorld' = [s \in Socket |-> inWorld[s] /\ ~\E u \in away : players[u] = s]
    BY <1>11 DEF Tick
  <2>2. PICK S : S = {players[u] : u \in away}
    OBVIOUS
  <2>3. S \in SUBSET Socket
    BY <2>2 DEF Present, TypeOK
  <2>4. \A s \in Socket \ S : sock'[s] = sock[s] /\ inWorld'[s] = inWorld[s]
    <3>1. sock' = sock
      BY <1>11 DEF Tick
    <3>2. ASSUME NEW s \in Socket \ S PROVE inWorld'[s] = inWorld[s]
      <4>1. ~\E u \in away : players[u] = s
        BY <2>2, <3>2
      <4>2. inWorld[s] \in BOOLEAN
        BY DEF TypeOK
      <4>. QED
        BY <2>1, <4>1, <4>2
    <3>. QED
      BY <3>1, <3>2
  <2>. QED
    BY <2>1, <2>2, <2>3, <2>4, LeaveStrands
<1>12. ASSUME NEW r \in Round, Breaker(r) PROVE NobodyStrands'
  BY <1>0, <1>12 DEF Breaker
<1>13. ASSUME NEW u \in User, WriteStats(u) PROVE NobodyStrands'
  BY <1>0, <1>13 DEF WriteStats
<1>14. CASE FinishShutdown
  BY <1>14, EmptyStrands DEF FinishShutdown, ClosedWorld
<1>15. CASE UNCHANGED vars
  BY <1>0, <1>15 DEF vars
<1>. QED
  BY <1>1, <1>2, <1>3, <1>4, <1>5, <1>6, <1>7, <1>8, <1>9, <1>10, <1>11, <1>12, <1>13, <1>14, <1>15 DEF Next

\* Through takeovers by a second tab, drops, idle kicks, rounds and shutdowns
\* each player in the world has the one open connection that plays them.
THEOREM NobodyEverStrands == Spec => []NobodyStrands
<1>1. Init => NobodyStrands
  BY OpenWorldAssumption DEF Init, NobodyStrands
<1>. QED
  BY <1>1, InitTyped, TypeNext, StrandsNext, PTL DEF Spec

-----------------------------------------------------------------------------
(* The process and its shutdowns *)

\* init() has done when the process is up, and none is closing anything when
\* it is down or no shutdown is under way.
Quiet ==
  /\ phase = "up" => found = "none"
  /\ phase = "down" => ~stopping
  /\ ~stopping => \A u \in User : stats[u].closing = 0

\* What a shutdown does to the statistics.
LEMMA ShutdownFlushes ==
  ASSUME TypeOK, Quiet, NEW on, Shutdown(on)
  PROVE  /\ stats' \in Stats /\ (Balanced(stats) => Balanced(stats'))
         /\ NothingQueued \/ ~stopping => NothingQueued'
         /\ ~stopping' => \A u \in User : stats'[u].closing = 0
<1>0. stats \in Stats
  BY DEF TypeOK, Stats
<1>1. CASE stopping
  BY <1>0, <1>1 DEF Shutdown, NothingQueued
<1>2. CASE ~stopping
  <2>1. stats' = Flushed(stats, User, "closing")
    BY <1>2 DEF Shutdown
  <2>2. /\ stats' \in Stats /\ (Balanced(stats) => Balanced(stats'))
        /\ \A u \in User : /\ stats'[u].queued = 0
                           /\ stats[u].queued = 0 => stats'[u].closing = stats[u].closing
    BY <1>0, <2>1, FlushedKeeps
  <2>3. ~stopping' => NothingQueued
    BY <1>2 DEF Shutdown
  <2>. QED
    BY <1>2, <2>2, <2>3 DEF Quiet, NothingQueued
<1>. QED
  BY <1>1, <1>2

LEMMA QuietNext == TypeOK /\ Quiet /\ [Next]_vars => Quiet'
<1>. SUFFICES ASSUME TypeOK, Quiet, [Next]_vars
              PROVE  Quiet'
  OBVIOUS
<1>. USE DEF admin, process, world, people
<1>0. stats \in Stats
  BY DEF TypeOK, Stats
<1>1. ASSUME NEW a \in Admin, NEW v \in BOOLEAN, PutSetting(a, v) PROVE Quiet'
  BY <1>1 DEF PutSetting, Quiet
<1>2. ASSUME NEW a \in Admin, ReadSetting(a) PROVE Quiet'
  BY <1>2 DEF ReadSetting, Quiet
<1>3. ASSUME NEW a \in Admin, HandleSettingsChange(a) PROVE Quiet'
  <2>1. Alive /\ UNCHANGED process
    BY <1>3 DEF HandleSettingsChange
  <2>2. CASE SwitchOff(a)
    BY <2>1, <2>2, ShutdownFlushes DEF SwitchOff, Quiet, Alive
  <2>3. CASE SwitchOn(a) \/ Keep(a)
    BY <2>1, <2>3 DEF SwitchOn, Keep, Quiet
  <2>. QED
    BY <1>3, <2>2, <2>3 DEF HandleSettingsChange
<1>4. CASE InitRead
  BY <1>4 DEF InitRead, Quiet
<1>5. CASE InitOff \/ InitOn
  BY <1>5 DEF InitOff, InitOn, Initialised, Quiet
<1>6. CASE Terminate
  BY <1>6, ShutdownFlushes DEF Terminate, Quiet
<1>7. CASE Exit \/ Crash
  <2>1. Gone
    BY <1>7 DEF Exit, Crash
  <2>2. \A u \in User : stats'[u].closing = 0
    BY <1>0, <2>1, GoneKeeps DEF Gone
  <2>. QED
    BY <2>1, <2>2 DEF Gone, Quiet
<1>8. CASE Restart
  BY <1>8 DEF Restart, Quiet
<1>9. ASSUME NEW s \in Socket, Connect(s) \/ Join(s) PROVE Quiet'
  BY <1>9 DEF Connect, Join, Quiet
<1>10. ASSUME NEW s \in Socket, LeaveWorld(s) \/ Drop(s) PROVE Quiet'
  <2>1. \A u \in User : stats'[u].closing = stats[u].closing
    BY <1>0, <1>10, FlushedKeeps DEF LeaveWorld, Drop
  <2>2. UNCHANGED <<process, stopping>>
    BY <1>10 DEF LeaveWorld, Drop
  <2>. QED
    BY <2>1, <2>2 DEF Quiet
<1>11. ASSUME NEW r \in Round, Tick(r) PROVE Quiet'
  <2>1. PICK K \in SUBSET User, due \in BOOLEAN, away \in SUBSET Present :
          stats' = AfterFlush(AfterKills(r, K), due, away)
    BY <1>11 DEF Tick
  <2>3. \A u \in User : stats'[u].closing = stats[u].closing
    BY <1>0, <2>1, TickKeeps
  <2>2. UNCHANGED <<process, stopping>>
    BY <1>11 DEF Tick
  <2>. QED
    BY <2>2, <2>3 DEF Quiet
<1>12. ASSUME NEW r \in Round, Breaker(r) PROVE Quiet'
  BY <1>12 DEF Breaker, Quiet
<1>13. ASSUME NEW u \in User, WriteStats(u) PROVE Quiet'
  BY <1>0, <1>13, WriteKeeps DEF WriteStats, Quiet
<1>14. CASE FinishShutdown
  BY <1>14 DEF FinishShutdown, ClosedWorld, Quiet, Alive
<1>15. CASE UNCHANGED vars
  BY <1>15 DEF vars, Quiet
<1>. QED
  BY <1>1, <1>2, <1>3, <1>4, <1>5, <1>6, <1>7, <1>8, <1>9, <1>10, <1>11, <1>12, <1>13, <1>14, <1>15 DEF Next

-----------------------------------------------------------------------------
(* One world *)

\* The loop of the world that is on, and none while one closes.
Loops ==
  /\ running \subseteq {loop} /\ loop = state
  /\ enabled => state # None
  /\ state # None => enabled \/ stopping
  /\ running # {} => enabled
  /\ enabled /\ phase # "exit" => running = {loop} \/ tripped
  /\ stopping \/ phase = "exit" => running = {} /\ NothingQueued

\* As long as no world has been opened beside another.
Single == ~overlap => Loops /\ Balanced(stats)

LEMMA ShutdownSingle ==
  ASSUME TypeOK, Quiet, Loops, NEW on, Shutdown(on),
         on => enabled /\ phase' = "exit"
  PROVE  Loops'
<1>0. on => enabled /\ phase' = "exit"
  OBVIOUS
<1>1. CASE stopping
  <2>1. /\ enabled' = on /\ stopping'
        /\ state' = state /\ loop' = loop /\ running' = running /\ stats' = stats
    BY <1>1 DEF Shutdown
  <2>2. enabled' => enabled /\ phase' = "exit"
    BY <1>0, <2>1
  <2>3. running = {} /\ NothingQueued'
    BY <1>1, <2>1 DEF Loops, NothingQueued
  <2>. QED
    BY <2>1, <2>2, <2>3 DEF Loops
<1>2. CASE ~stopping
  <2>1. running' = {}
    BY <1>2 DEF Loops, Shutdown
  <2>2. NothingQueued'
    BY <1>2, ShutdownFlushes
  <2>3. CASE ClosedWorld
    BY <2>1, <2>2, <2>3 DEF ClosedWorld, Loops
  <2>4. CASE ~ClosedWorld
    <3>1. enabled' = on /\ stopping' /\ state' = state /\ loop' = loop
      BY <1>2, <2>4 DEF Shutdown
    <3>2. enabled' => enabled /\ phase' = "exit"
      BY <1>0, <3>1
    <3>. QED
      BY <2>1, <2>2, <3>1, <3>2 DEF Loops
  <2>. QED
    BY <2>3, <2>4
<1>. QED
  BY <1>1, <1>2

\* A world is opened where none was, neither running nor closing.
LEMMA OpenSingle ==
  ASSUME TypeOK, Quiet, Open, ~overlap', enabled' = TRUE, stopping' = stopping,
         phase' \in {phase, "up"}
  PROVE  Loops'
<1>1. running = {} /\ ~stopping /\ phase # "exit" /\ NewRound({})
  BY DEF Open
<1>2. state' \in Round /\ loop' = state' /\ running' = {state'}
  BY <1>1, NewRoundTyped
<1>. QED
  BY <1>1, <1>2, OpenWorldAssumption DEF Loops

LEMMA SingleNext == TypeOK /\ Quiet /\ Single /\ [Next]_vars => Single'
<1>. SUFFICES ASSUME TypeOK, Quiet, Single, [Next]_vars, ~overlap'
              PROVE  Loops' /\ Balanced(stats')
  BY DEF Single, Balanced
<1>. USE DEF admin, process, world, people
<1>0. stats \in Stats
  BY DEF TypeOK, Stats
<1>00. ~overlap => Loops /\ Balanced(stats)
  BY DEF Single
<1>1. ASSUME NEW a \in Admin, NEW v \in BOOLEAN, PutSetting(a, v) PROVE Loops' /\ Balanced(stats')
  BY <1>00, <1>1 DEF PutSetting, Loops, NothingQueued
<1>2. ASSUME NEW a \in Admin, ReadSetting(a) PROVE Loops' /\ Balanced(stats')
  BY <1>00, <1>2 DEF ReadSetting, Loops, NothingQueued
<1>3. ASSUME NEW a \in Admin, HandleSettingsChange(a) PROVE Loops' /\ Balanced(stats')
  <2>1. UNCHANGED process
    BY <1>3 DEF HandleSettingsChange
  <2>2. CASE SwitchOff(a)
    <3>1. Shutdown(FALSE)
      BY <2>2 DEF SwitchOff
    <3>2. overlap' = overlap
      BY <3>1, ShutdownTyped
    <3>3. Loops'
      <4>1. Loops
        BY <1>00, <3>2
      <4>. QED
        BY <3>1, <4>1, ShutdownSingle
    <3>4. Balanced(stats')
      BY <1>00, <3>1, <3>2, ShutdownFlushes
    <3>. QED
      BY <3>3, <3>4
  <2>3. CASE SwitchOn(a)
    <3>1. ~overlap /\ Open /\ enabled' = TRUE /\ stats' = stats /\ stopping' = stopping
      BY <2>3 DEF SwitchOn, Open
    <3>. QED
      BY <1>00, <2>1, <3>1, OpenSingle
  <2>4. CASE Keep(a)
    BY <1>00, <2>1, <2>4 DEF Keep, Loops, NothingQueued
  <2>. QED
    BY <1>3, <2>2, <2>3, <2>4 DEF HandleSettingsChange
<1>4. CASE InitRead
  BY <1>00, <1>4 DEF InitRead, Loops, NothingQueued
<1>5. CASE InitOff
  <2>1. ~overlap /\ state = None /\ stats' = stats
    BY <1>5 DEF InitOff, Initialised
  <2>2. running = {}
    BY <1>00, <2>1, OpenWorldAssumption DEF Loops, TypeOK
  <2>. QED
    BY <1>00, <1>5, <2>1, <2>2 DEF InitOff, Initialised, Loops, NothingQueued
<1>6. CASE InitOn
  <2>1. /\ ~overlap /\ Open /\ enabled' = TRUE /\ stats' = stats /\ stopping' = stopping
        /\ phase' \in {phase, "up"}
    BY <1>6 DEF InitOn, Initialised, Open
  <2>. QED
    BY <1>00, <2>1, OpenSingle
<1>7. CASE Terminate
  <2>1. enabled \in BOOLEAN /\ Shutdown(enabled) /\ phase' = "exit"
    BY <1>7 DEF Terminate, TypeOK
  <2>2. overlap' = overlap
    BY <2>1, ShutdownTyped
  <2>. QED
    BY <1>00, <2>1, <2>2, ShutdownSingle, ShutdownFlushes
<1>8. CASE Exit \/ Crash
  <2>1. Gone
    BY <1>8 DEF Exit, Crash
  <2>. QED
    BY <1>0, <1>00, <2>1, GoneKeeps DEF Gone, Loops
<1>9. CASE Restart
  BY <1>00, <1>9 DEF Restart, Loops, NothingQueued
<1>10. ASSUME NEW s \in Socket, Connect(s) \/ Join(s) PROVE Loops' /\ Balanced(stats')
  BY <1>00, <1>10 DEF Connect, Join, Loops, NothingQueued
<1>11. ASSUME NEW s \in Socket, LeaveWorld(s) \/ Drop(s) PROVE Loops' /\ Balanced(stats')
  <2>1. stats' = stats \/ stats' = Flushed(stats, Leaving({s}), "sent")
    BY <1>11 DEF LeaveWorld, Drop
  <2>2. (NothingQueued => NothingQueued') /\ (Balanced(stats) => Balanced(stats'))
    BY <1>0, <2>1, FlushedKeeps DEF NothingQueued
  <2>3. UNCHANGED <<process, world>>
    BY <1>11 DEF LeaveWorld, Drop
  <2>. QED
    BY <1>00, <2>2, <2>3 DEF Loops
<1>12. ASSUME NEW r \in Round, Tick(r) PROVE Loops' /\ Balanced(stats')
  <2>1. Loops /\ Balanced(stats) /\ r \in running /\ UNCHANGED <<process, enabled, stopping, overlap, tripped>>
    BY <1>00, <1>12 DEF Tick
  <2>2. r = state /\ running = {loop} /\ enabled /\ ~stopping /\ phase # "exit"
    BY <2>1 DEF Loops
  <2>3. PICK K \in SUBSET User, due \in BOOLEAN, away \in SUBSET Present :
       /\ Happens(r, K)
       /\ \/ /\ SameRound
             /\ stats' = AfterFlush(AfterKills(r, K), due, away)
          \/ /\ NextRound
             /\ stats' = AfterFlush(AfterKills(r, K), TRUE, away)
    BY <1>12 DEF Tick
  <2>4. K \subseteq Present
    BY <2>2, <2>3 DEF Happens
  <2>5. Balanced(stats')
    BY <1>0, <2>1, <2>2, <2>3, <2>4, TickKeeps
  <2>8. enabled' /\ ~stopping' /\ phase' # "exit"
    BY <2>1, <2>2
  <2>6. CASE SameRound
    <3>1. loop' = loop /\ state' = state /\ running' = {loop}
      BY <2>2, <2>6 DEF SameRound
    <3>. QED
      <4>1. state # None /\ loop = state
        BY <2>1, <2>2 DEF Loops
      <4>2. running' = {loop'} /\ loop' = state' /\ state' # None
        BY <3>1, <4>1
      <4>. QED
        BY <2>5, <2>8, <4>2 DEF Loops
  <2>7. CASE NextRound
    <3>1. state' \in Round /\ loop' = state' /\ running' = {state'}
      BY <2>2, <2>7, NewRoundTyped DEF NextRound
    <3>. QED
      <4>1. running' = {loop'} /\ loop' = state' /\ state' # None
        BY <3>1, OpenWorldAssumption
      <4>. QED
        BY <2>5, <2>8, <4>1 DEF Loops
  <2>. QED
    BY <2>3, <2>5, <2>6, <2>7
<1>13. ASSUME NEW r \in Round, Breaker(r) PROVE Loops' /\ Balanced(stats')
  <2>1. Loops /\ Balanced(stats) /\ r \in running
    BY <1>00, <1>13 DEF Breaker
  <2>. QED
    BY <1>13, <2>1 DEF Breaker, Loops
<1>14. ASSUME NEW u \in User, WriteStats(u) PROVE Loops' /\ Balanced(stats')
  <2>1. (NothingQueued => NothingQueued') /\ (Balanced(stats) => Balanced(stats'))
    BY <1>0, <1>14, WriteKeeps DEF WriteStats, NothingQueued
  <2>. QED
    BY <1>00, <1>14, <2>1 DEF WriteStats, Loops
<1>15. CASE FinishShutdown
  BY <1>00, <1>15 DEF FinishShutdown, ClosedWorld, Loops, NothingQueued
<1>16. CASE UNCHANGED vars
  BY <1>00, <1>16 DEF vars, Loops, NothingQueued
<1>. QED
  BY <1>1, <1>2, <1>3, <1>4, <1>5, <1>6, <1>7, <1>8, <1>9, <1>10, <1>11, <1>12, <1>13, <1>14, <1>15,
     <1>16 DEF Next

LEMMA InitSingle == Init => Quiet /\ Single
BY OpenWorldAssumption DEF Init, Quiet, Single, Loops, Balanced, Sum, Zero, NothingQueued

\* Each kill is queued, under way, saved or known to be lost, exactly once,
\* whatever flushes, leaves, rounds, shutdowns and restarts come between.
THEOREM EveryKillCountsOnce == Spec => []KillsAddUp
<1>1. Single => KillsAddUp
  BY TotalIsSum DEF Single, KillsAddUp, Balanced
<1>. QED
  BY <1>1, InitTyped, InitSingle, TypeNext, QuietNext, SingleNext, PTL DEF Spec

\* When the process may exit, every kill has been tried to be written.
THEOREM NothingIsLeftBehind == Spec => []StopsClean
<1>1. Quiet /\ Single => StopsClean
  BY DEF Quiet, Single, Loops, NothingQueued, StopsClean
<1>. QED
  BY <1>1, InitTyped, InitSingle, TypeNext, QuietNext, SingleNext, PTL DEF Spec

-----------------------------------------------------------------------------
(* The setting *)

AllIdle == \A a \in Admin : calls[a] = Idle

\* As long as requests come one at a time, and none while the process starts
\* or stops, the last one under way knows the setting and decides.
Heeds ==
  /\ \A a, b \in Admin : calls[a] # Idle /\ calls[b] # Idle => a = b
  /\ phase # "up" => AllIdle
  /\ phase = "boot" => ~stopping /\ (found = "on" => setting) /\ (found = "off" => ~setting)
  /\ phase = "up" /\ AllIdle => (enabled <=> setting)
  /\ phase = "up" /\ stopping => \E a \in Admin : calls[a].at = "stop"
  /\ \A a \in Admin : /\ calls[a].at = "apply" => (calls[a].value <=> setting)
                      /\ calls[a].at = "stop" => ~enabled /\ ~setting

Heeded == ~crossed => Heeds

LEMMA HeedsNext == TypeOK /\ Quiet /\ Heeded /\ [Next]_vars => Heeded'
<1>. SUFFICES ASSUME TypeOK, Quiet, Heeded, [Next]_vars, ~crossed'
              PROVE  Heeds'
  BY DEF Heeded
<1>. USE DEF admin, process, world, people
<1>0. ~crossed => Heeds
  BY DEF Heeded
<1>00. calls \in [Admin -> Call] /\ \A a \in Admin : calls[a] = Idle => calls[a].at = "idle"
  BY DEF TypeOK, Idle
<1>1. ASSUME NEW a \in Admin, NEW v \in BOOLEAN, PutSetting(a, v) PROVE Heeds'
  <2>1. Heeds /\ phase = "up" /\ AllIdle /\ UNCHANGED <<phase, found, stopping, enabled>>
    BY <1>0, <1>1 DEF PutSetting, AllIdle
  <2>2. /\ calls'[a] = [Idle EXCEPT !.at = "read"]
        /\ \A b \in Admin \ {a} : calls'[b] = Idle
    BY <1>00, <1>1, <2>1 DEF PutSetting, AllIdle
  <2>3. calls'[a].at = "read" /\ calls'[a] # Idle
    BY <2>2 DEF Idle
  <2>4. ~stopping
    BY <1>00, <2>1 DEF Heeds, AllIdle, Idle
  <2>. QED
    BY <2>1, <2>2, <2>3, <2>4 DEF Heeds, AllIdle, Idle
<1>2. ASSUME NEW a \in Admin, ReadSetting(a) PROVE Heeds'
  <2>1. Heeds /\ UNCHANGED <<phase, found, stopping, enabled, setting>>
    BY <1>0, <1>2 DEF ReadSetting
  <2>2. /\ calls'[a].at = "apply" /\ calls'[a].value = setting
        /\ \A b \in Admin \ {a} : calls'[b] = calls[b]
    BY <1>00, <1>2 DEF ReadSetting
  <2>3. calls[a].at = "read" /\ calls[a] # Idle /\ calls'[a] # Idle
    BY <1>2, <2>2 DEF ReadSetting, Idle
  <2>4. phase = "up"
    BY <2>1, <2>3 DEF Heeds, AllIdle
  <2>5. \A b \in Admin \ {a} : calls[b] = Idle
    BY <2>1, <2>3 DEF Heeds
  <2>6. ~stopping
    BY <2>1, <2>3, <2>4, <2>5 DEF Heeds, Idle
  <2>. QED
    BY <2>1, <2>2, <2>3, <2>4, <2>5, <2>6 DEF Heeds, AllIdle, Idle
<1>3. ASSUME NEW a \in Admin, HandleSettingsChange(a) PROVE Heeds'
  <2>1. Heeds /\ UNCHANGED <<phase, found, setting>> /\ calls[a].at = "apply"
    BY <1>0, <1>3 DEF HandleSettingsChange
  <2>2. calls[a] # Idle /\ (calls[a].value <=> setting)
    BY <2>1 DEF Heeds, Idle
  <2>3. phase = "up" /\ \A b \in Admin \ {a} : calls[b] = Idle
    BY <2>1, <2>2 DEF Heeds, AllIdle
  <2>4. ~stopping
    BY <2>1, <2>3 DEF Heeds, Idle
  <2>5. ASSUME calls' = [calls EXCEPT ![a] = Idle], ~stopping', enabled' <=> setting
        PROVE  Heeds'
    <3>1. \A b \in Admin : calls'[b] = Idle /\ calls'[b].at = "idle"
      BY <1>00, <2>3, <2>5 DEF Idle
    <3>. QED
      BY <2>1, <2>3, <2>5, <3>1 DEF Heeds, AllIdle
  <2>6. CASE SwitchOn(a)
    BY <2>2, <2>4, <2>5, <2>6 DEF SwitchOn, Answered
  <2>7. CASE Keep(a)
    <3>1. enabled = calls[a].value /\ enabled' = enabled /\ stopping' = stopping
      BY <2>7 DEF Keep
    <3>2. enabled' <=> setting
      BY <2>2, <3>1
    <3>. QED
      BY <2>4, <2>5, <2>7, <3>1, <3>2 DEF Keep, Answered
  <2>8. CASE SwitchOff(a)
    <3>1. ~setting /\ Shutdown(FALSE)
      BY <2>2, <2>8 DEF SwitchOff
    <3>2. ~enabled'
      BY <3>1 DEF Shutdown, ClosedWorld
    <3>3. CASE ~stopping'
      BY <2>5, <2>8, <3>1, <3>2, <3>3 DEF SwitchOff
    <3>4. CASE stopping'
      <4>1. /\ calls'[a] = [at |-> "stop", value |-> FALSE]
            /\ \A b \in Admin \ {a} : calls'[b] = Idle
        BY <1>00, <2>3, <2>8, <3>4 DEF SwitchOff
      <4>2. calls'[a].at = "stop" /\ calls'[a] # Idle
        BY <4>1 DEF Idle
      <4>. QED
        BY <2>1, <2>3, <3>1, <3>2, <4>1, <4>2 DEF Heeds, AllIdle, Idle
    <3>. QED
      BY <3>3, <3>4
  <2>. QED
    BY <1>3, <2>6, <2>7, <2>8 DEF HandleSettingsChange
<1>4. CASE InitRead
  BY <1>0, <1>4 DEF InitRead, Heeds, AllIdle
<1>5. CASE InitOff \/ InitOn
  <2>1. /\ Heeds /\ phase # "up" /\ UNCHANGED <<setting, calls, stopping>>
        /\ phase' = IF phase = "boot" THEN "up" ELSE phase
        /\ found' = "none"
    BY <1>0, <1>5 DEF InitOff, InitOn, Initialised, Quiet
  <2>2. phase = "boot" => (enabled' <=> setting) /\ ~stopping
    BY <1>5, <2>1 DEF InitOff, InitOn, Heeds
  <2>3. \A a \in Admin : calls'[a] = Idle /\ calls'[a].at = "idle"
    BY <2>1 DEF Heeds, AllIdle, Idle
  <2>. QED
    BY <2>1, <2>2, <2>3 DEF Heeds, AllIdle
<1>6. CASE Terminate
  <2>1. phase' = "exit" /\ \A a \in Admin : calls'[a] = Idle /\ calls'[a].at = "idle"
    <3>1. phase' = "exit" /\ calls' = calls /\ crossed' = (crossed \/ phase = "boot" \/ \E a \in Admin : calls[a] # Idle)
      BY <1>6 DEF Terminate
    <3>2. \A a \in Admin : calls[a] = Idle
      BY <3>1
    <3>. QED
      BY <1>00, <3>1, <3>2
  <2>. QED
    BY <2>1 DEF Heeds, AllIdle
<1>7. CASE Exit \/ Crash
  <2>1. phase' = "down" /\ \A a \in Admin : calls'[a] = Idle /\ calls'[a].at = "idle"
    <3>1. phase' = "down" /\ calls' = [a \in Admin |-> Idle]
      BY <1>7 DEF Exit, Crash, Gone
    <3>2. \A a \in Admin : calls'[a] = Idle
      BY <3>1
    <3>. QED
      BY <3>1, <3>2 DEF Idle
  <2>. QED
    BY <2>1 DEF Heeds, AllIdle
<1>8. CASE Restart
  <2>1. /\ Heeds /\ phase' = "boot" /\ found' = "unread" /\ ~stopping' /\ calls' = calls /\ phase = "down"
    BY <1>0, <1>8 DEF Restart, Quiet
  <2>2. \A a \in Admin : calls'[a] = Idle /\ calls'[a].at = "idle"
    BY <2>1 DEF Heeds, AllIdle, Idle
  <2>. QED
    BY <2>1, <2>2 DEF Heeds, AllIdle
<1>9. ASSUME UNCHANGED <<setting, calls, phase, found, stopping, enabled, crossed>>
      PROVE  Heeds'
  BY <1>0, <1>9 DEF Heeds, AllIdle
<1>10. ASSUME NEW s \in Socket, Connect(s) \/ Join(s) \/ LeaveWorld(s) \/ Drop(s) PROVE Heeds'
  BY <1>9, <1>10 DEF Connect, Join, LeaveWorld, Drop
<1>11. ASSUME NEW r \in Round, Tick(r) \/ Breaker(r) PROVE Heeds'
  BY <1>9, <1>11 DEF Tick, Breaker
<1>12. ASSUME NEW u \in User, WriteStats(u) PROVE Heeds'
  BY <1>9, <1>12 DEF WriteStats
<1>13. CASE FinishShutdown
  <2>1. /\ Heeds /\ stopping /\ ~stopping' /\ enabled' = FALSE /\ UNCHANGED <<phase, found, setting>>
        /\ \A a \in Admin : calls'[a] = IF calls[a].at = "stop" THEN Idle ELSE calls[a]
    BY <1>0, <1>13 DEF FinishShutdown, ClosedWorld
  <2>2. phase = "up" => ~setting
    BY <2>1 DEF Heeds
  <2>3. \A a \in Admin : /\ calls'[a] # Idle => calls[a] # Idle /\ calls'[a] = calls[a]
                         /\ calls'[a].at # "stop" /\ (calls[a] = Idle => calls'[a] = Idle)
    BY <2>1 DEF Idle
  <2>4. \A a \in Admin : calls'[a].at = "apply" => calls'[a] = calls[a]
    BY <2>1 DEF Idle
  <2>. QED
    BY <2>1, <2>2, <2>3, <2>4 DEF Heeds, AllIdle
<1>14. CASE UNCHANGED vars
  BY <1>9, <1>14 DEF vars
<1>. QED
  BY <1>1, <1>2, <1>3, <1>4, <1>5, <1>6, <1>7, <1>8, <1>10, <1>11, <1>12, <1>13, <1>14 DEF Next

\* Unless one was opened beside another the world that is on has one loop,
\* that of its state, and one that is off has none; and it is on if and only
\* if the setting says so, once requests made one at a time have returned.
THEOREM ThereIsOneWorld == Spec => []OneWorld
<1>1. Init => Heeded
  BY DEF Init, Heeded, Heeds, AllIdle, Idle
<1>2. TypeOK /\ Single /\ Heeded => OneWorld
  <2>. SUFFICES ASSUME TypeOK, Single, Heeded
                PROVE  OneWorld
    OBVIOUS
  <2>1. ASSUME ~overlap PROVE Loops
    BY <2>1 DEF Single
  <2>2. ASSUME phase = "up", ~crossed, \A a \in Admin : calls[a] = Idle
        PROVE  enabled = setting
    <3>1. enabled <=> setting
      BY <2>2 DEF Heeded, Heeds, AllIdle
    <3>. QED
      BY <3>1 DEF TypeOK
  <2>. QED
    BY <2>1, <2>2 DEF Loops, OneWorld
<1>. QED
  BY <1>1, <1>2, InitTyped, InitSingle, TypeNext, QuietNext, SingleNext, HeedsNext, PTL DEF Spec
=============================================================================
