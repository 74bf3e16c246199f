-------------------------- MODULE RoomSessionProofs --------------------------
(***************************************************************************)
(* Proofs about the room handlers, for any users, tabs, codes, matches and *)
(* kinds of request: their types, the honesty of a room's status, one loop *)
(* per room, one room per user with one tab, and no player left behind in  *)
(* a room that waits.                                                      *)
(***************************************************************************)
EXTENDS RoomSession, SequenceTheorems, FiniteSetTheorems, TLAPS

-----------------------------------------------------------------------------
(* The wire *)

Wire == 1 .. Len(wire)

LEMMA FrameFields ==
  ASSUME NEW f \in Frame
  PROVE  /\ f.at \in {"cleanup", "cleaned"} =>
              f.kind \in {"create", "join"} /\ f.tab \in Tab /\ f.code \in MaybeCode /\ f.seen \in MaybeCode
         /\ f.at \in {"createMapping", "createIndex", "enter", "left"} => f.tab \in Tab /\ f.code \in Code
         /\ f.at \in {"checkStart", "restart", "voteYes", "voteNo"} =>
              f.tab \in Tab /\ f.code \in Code /\ f.copy \in MaybeRoom
         /\ f.at = "started" => f.code \in Code /\ f.copy \in Room
         /\ f.at = "setCallbacks" => f.game \in Game
         /\ f.at = "restoreParty" => f.tab \in Tab
         /\ f.at \in {"restoreRoom", "lookup"} => f.tab \in Tab /\ f.seen \in MaybeCode
         /\ f.at = "kicked" => f.user \in User /\ f.code \in Code
         /\ f.at = "closed" => f.tabs \in SUBSET Tab /\ f.code \in Code
         /\ f.at = "deleteKeys" => f.code \in Code /\ f.copy \in MaybeRoom
         /\ f.at = "deleteIndex" => f.code \in Code
<1>1. CASE f \in [at : {"cleanup", "cleaned"}, kind : {"create", "join"}, tab : Tab,
                  code : MaybeCode, seen : MaybeCode]
  BY <1>1
<1>2. CASE f \in [at : {"createMapping", "createIndex", "enter", "left"}, tab : Tab, code : Code]
  BY <1>2
<1>3. CASE f \in [at : {"checkStart", "restart", "voteYes", "voteNo"}, tab : Tab, code : Code,
                  copy : MaybeRoom]
  BY <1>3
<1>4. CASE f \in [at : {"started"}, code : Code, copy : Room]
  BY <1>4
<1>5. CASE f \in [at : {"setCallbacks"}, game : Game] \cup [at : {"restoreParty"}, tab : Tab]
  BY <1>5
<1>6. CASE f \in [at : {"restoreRoom", "lookup"}, tab : Tab, seen : MaybeCode]
                   \cup [at : {"kicked"}, user : User, code : Code]
  BY <1>6
<1>7. CASE f \in [at : {"closed"}, tabs : SUBSET Tab, code : Code]
                   \cup [at : {"deleteKeys"}, code : Code, copy : MaybeRoom]
                   \cup [at : {"deleteIndex"}, code : Code]
  BY <1>7
<1>. QED
  BY <1>1, <1>2, <1>3, <1>4, <1>5, <1>6, <1>7, Zenon DEF Frame

\* The wire loses its head, or not, and is followed by new frames.
Moves(k, new) ==
  /\ k \in {0, 1} /\ k =< Len(wire) /\ new \in Seq(Frame)
  /\ wire' \in Seq(Frame)
  /\ Len(wire') = Len(wire) - k + Len(new)
  /\ \A i \in 1 .. Len(wire) - k : wire'[i] = wire[i + k]
  /\ \A i \in 1 .. Len(new) : wire'[Len(wire) - k + i] = new[i]

LEMMA StaysMoves == ASSUME wire \in Seq(Frame), UNCHANGED wire PROVE Moves(0, <<>>)
BY DEF Moves

LEMMA IssueMoves == ASSUME wire \in Seq(Frame), NEW f \in Frame, Issue(f) PROVE Moves(0, <<f>>)
<1>1. wire' = Append(wire, f)
  BY DEF Issue
<1>2. /\ wire' \in Seq(Frame) /\ Len(wire') = Len(wire) + 1 /\ wire'[Len(wire) + 1] = f
      /\ \A i \in 1 .. Len(wire) : wire'[i] = wire[i]
  BY <1>1, AppendProperties
<1>3. <<f>> \in Seq(Frame) /\ Len(<<f>>) = 1 /\ <<f>>[1] = f
  OBVIOUS
<1>. QED
  BY <1>2, <1>3 DEF Moves

LEMMA ReturnMoves == ASSUME wire \in Seq(Frame), wire # <<>>, Return PROVE Moves(1, <<>>)
<1>1. /\ wire' \in Seq(Frame) /\ Len(wire') = Len(wire) - 1 /\ Len(wire) >= 1
      /\ \A i \in 1 .. Len(wire') : wire'[i] = wire[i + 1]
  BY HeadTailProperties DEF Return
<1>. QED
  BY <1>1 DEF Moves

LEMMA ThenMoves == ASSUME wire \in Seq(Frame), wire # <<>>, NEW f \in Frame, Then(f) PROVE Moves(1, <<f>>)
<1>. DEFINE rest == Tail(wire)
<1>1. /\ rest \in Seq(Frame) /\ Len(rest) = Len(wire) - 1 /\ Len(wire) >= 1
      /\ \A i \in 1 .. Len(rest) : rest[i] = wire[i + 1]
  BY HeadTailProperties
<1>2. wire' = Append(rest, f)
  BY DEF Then
<1>. HIDE DEF rest
<1>3. /\ wire' \in Seq(Frame) /\ Len(wire') = Len(rest) + 1 /\ wire'[Len(rest) + 1] = f
      /\ \A i \in 1 .. Len(rest) : wire'[i] = rest[i]
  BY <1>1, <1>2, AppendProperties
<1>4. <<f>> \in Seq(Frame) /\ Len(<<f>>) = 1 /\ <<f>>[1] = f
  OBVIOUS
<1>. QED
  BY <1>1, <1>3, <1>4 DEF Moves

LEMMA FollowedMoves ==
  ASSUME wire \in Seq(Frame), NEW new \in Seq(Frame), wire' = wire \o new
  PROVE  Moves(0, new)
<1>1. /\ wire' \in Seq(Frame) /\ Len(wire') = Len(wire) + Len(new)
      /\ \A i \in 1 .. Len(wire) + Len(new) :
           wire'[i] = IF i <= Len(wire) THEN wire[i] ELSE new[i - Len(wire)]
  BY ConcatProperties
<1>2. Len(wire) \in Nat /\ Len(new) \in Nat
  OBVIOUS
<1>. QED
  BY <1>1, <1>2 DEF Moves

\* Where a frame of the wire comes from.
Stayed(k, i) == i + k \in Wire /\ i =< Len(wire) - k /\ wire'[i] = wire[i + k]

IsNew(k, new, i) ==
  /\ i > Len(wire) - k
  /\ \E j \in 1 .. Len(new) : i = Len(wire) - k + j /\ wire'[i] = new[j]

LEMMA Origin ==
  ASSUME wire \in Seq(Frame), NEW k, NEW new, Moves(k, new)
  PROVE  \A i \in Wire' : Stayed(k, i) \/ IsNew(k, new, i)
<1>. SUFFICES ASSUME NEW i \in Wire' PROVE Stayed(k, i) \/ IsNew(k, new, i)
  OBVIOUS
<1>1. Len(wire) \in Nat /\ Len(new) \in Nat /\ k \in {0, 1} /\ i \in 1 .. Len(wire) - k + Len(new)
  BY DEF Moves, Wire
<1>2. CASE i =< Len(wire) - k
  BY <1>1, <1>2 DEF Moves, Wire, Stayed
<1>3. CASE i > Len(wire) - k
  <2>1. i - (Len(wire) - k) \in 1 .. Len(new) /\ i = Len(wire) - k + (i - (Len(wire) - k))
    BY <1>1, <1>3
  <2>. QED
    BY <1>3, <2>1 DEF Moves, IsNew
<1>. QED
  BY <1>1, <1>2, <1>3

\* A frame that is not answered stays, one place further on at most.
LEMMA Remains ==
  ASSUME wire \in Seq(Frame), NEW k, NEW new, Moves(k, new), NEW i \in Wire, i > k
  PROVE  i - k \in Wire' /\ wire'[i - k] = wire[i]
<1>1. Len(wire) \in Nat /\ Len(new) \in Nat /\ k \in {0, 1}
  BY DEF Moves
<1>2. i - k \in 1 .. Len(wire) - k /\ (i - k) + k = i
  BY <1>1 DEF Wire
<1>. QED
  BY <1>1, <1>2 DEF Moves, Wire

\* What is said of every frame.
LEMMA EachMoves ==
  ASSUME wire \in Seq(Frame), NEW k, NEW new, Moves(k, new), NEW S,
         \A i \in Wire : i > k => wire[i] \in S,
         \A j \in 1 .. Len(new) : new[j] \in S
  PROVE  \A i \in Wire' : wire'[i] \in S
<1>. SUFFICES ASSUME NEW i \in Wire' PROVE wire'[i] \in S
  OBVIOUS
<1>1. k \in {0, 1}
  BY DEF Moves
<1>. QED
  BY <1>1, Origin DEF Wire, Stayed, IsNew

LEMMA NewFrames ==
  ASSUME NEW f \in Frame
  PROVE  /\ <<f>> \in Seq(Frame) /\ Len(<<f>>) = 1 /\ <<f>>[1] = f
         /\ <<>> \in Seq(Frame) /\ Len(<<>>) = 0
OBVIOUS

-----------------------------------------------------------------------------
(* Types *)

LEMMA RoomFields ==
  ASSUME NEW r \in Room
  PROVE  r.status \in Status /\ r.host \in User /\ r.players \in SUBSET User /\ r.ready \in SUBSET User
BY DEF Room

LEMMA MaybeRooms == ASSUME StoreTypeOK, NEW c \in Code PROVE rooms[c] \in MaybeRoom /\ (Exists(c) => rooms[c] \in Room)
BY DEF StoreTypeOK, Exists, MaybeRoom

LEMMA SetRoomTyped ==
  ASSUME StoreTypeOK, NEW c \in Code, NEW r \in MaybeRoom, SetRoom(c, r)
  PROVE  StoreTypeOK'
BY DEF StoreTypeOK, SetRoom, MaybeRoom

LEMMA ResetTyped == ASSUME NEW r \in Room PROVE Reset(r) \in Room
BY DEF Reset, Room, Status

LEMMA NewRoomTyped == ASSUME NEW u \in User PROVE NewRoom(u) \in Room
BY DEF NewRoom, Room, Status

LEMMA SetPlayerRoomTyped ==
  ASSUME StoreTypeOK, NEW u \in User, NEW c \in MaybeCode, SetPlayerRoom(u, c)
  PROVE  StoreTypeOK'
BY DEF StoreTypeOK, SetPlayerRoom, MaybeCode

LEMMA IndexTyped ==
  ASSUME StoreTypeOK, NEW c \in Code, AddToIndex(c) \/ RemoveFromIndex({c})
  PROVE  StoreTypeOK'
BY DEF StoreTypeOK, AddToIndex, RemoveFromIndex

LEMMA ForgetTyped ==
  ASSUME StoreTypeOK, NEW us, NEW c, ForgetPlayerRoom(us, c)
  PROVE  playerRoom' \in [User -> Code \cup {NoCode}]
BY DEF StoreTypeOK, ForgetPlayerRoom

LEMMA DeleteKeysTyped ==
  ASSUME StoreTypeOK, NEW c \in Code, NEW us, DeleteKeys(c, us)
  PROVE  StoreTypeOK'
BY DEF StoreTypeOK, DeleteKeys

LEMMA LeaveScriptTyped ==
  ASSUME StoreTypeOK, NEW c \in Code, NEW us, LeaveScript(c, us)
  PROVE  StoreTypeOK'
<1>1. playerRoom' \in [User -> Code \cup {NoCode}]
  BY ForgetTyped DEF LeaveScript, LeaveMissing, LeaveLast, LeaveOthers
<1>2. CASE LeaveMissing(c, us)
  BY <1>1, <1>2 DEF LeaveMissing, StoreTypeOK
<1>3. CASE LeaveLast(c, us)
  BY <1>1, <1>3 DEF LeaveLast, StoreTypeOK
<1>4. CASE LeaveOthers(c, us)
  <2>1. rooms[c] \in Room /\ UNCHANGED index
    BY <1>4, MaybeRooms DEF LeaveOthers
  <2>2. PICK h \in User : rooms' = [rooms EXCEPT ![c].players = rooms[c].players \ us,
                                                 ![c].ready = @ \ us, ![c].host = h]
    BY <1>4, <2>1, RoomFields DEF LeaveOthers
  <2>3. rooms'[c] \in Room /\ \A d \in Code \ {c} : rooms'[d] = rooms[d]
    BY <2>1, <2>2 DEF Room, StoreTypeOK
  <2>4. rooms' \in [Code -> Room \cup {NoRoom}]
    BY <2>2, <2>3 DEF StoreTypeOK
  <2>. QED
    BY <1>1, <2>1, <2>4 DEF StoreTypeOK
<1>. QED
  BY <1>2, <1>3, <1>4 DEF LeaveScript

LEMMA JoinScriptTyped ==
  ASSUME StoreTypeOK, NEW c \in Code, NEW u \in User, JoinScript(c, u)
  PROVE  StoreTypeOK'
<1>1. rooms[c] \in Room
  BY MaybeRooms DEF JoinScript, CanJoin
<1>. QED
  BY <1>1 DEF StoreTypeOK, JoinScript, Room

LEMMA ReadyScriptTyped ==
  ASSUME StoreTypeOK, NEW c \in Code, NEW u \in User, NEW b, ReadyScript(c, u, b)
  PROVE  StoreTypeOK'
<1>1. rooms[c] \in Room
  BY MaybeRooms DEF ReadyScript
<1>. QED
  BY <1>1 DEF StoreTypeOK, ReadyScript, Room

\* A script that sets the status.
LEMMA StatusTyped ==
  ASSUME StoreTypeOK, NEW c \in Code, Exists(c), NEW s \in Status,
         rooms' = [rooms EXCEPT ![c].status = s], UNCHANGED <<playerRoom, index>>
  PROVE  StoreTypeOK' /\ rooms'[c] \in Room /\ rooms'[c].status = s
<1>1. rooms[c] \in Room
  BY MaybeRooms
<1>. QED
  BY <1>1 DEF StoreTypeOK, Room

LEMMA StatusScriptTyped ==
  ASSUME StoreTypeOK, NEW c \in Code, NEW s \in Status, NEW E, StatusScript(c, s, E)
  PROVE  StoreTypeOK'
<1>1. CASE UNCHANGED storeVars
  BY <1>1 DEF storeVars, StoreTypeOK
<1>2. CASE Exists(c) /\ rooms' = [rooms EXCEPT ![c].status = s] /\ UNCHANGED <<playerRoom, index>>
  BY <1>2, StatusTyped
<1>. QED
  BY <1>1, <1>2 DEF StatusScript

LEMMA MatchFields ==
  ASSUME NEW m \in Match
  PROVE  /\ m.phase \in {"unmade", "loading", "starting", "running", "saving", "stopped"}
         /\ m.code \in MaybeCode /\ m.players \in SUBSET User /\ m.alive \in SUBSET User
         /\ m.grace \in SUBSET User /\ m.departed \in SUBSET User /\ m.fast \in BOOLEAN /\ m.hides \in BOOLEAN
BY DEF Match

\* What the life of a match leaves alone: its phase and its room.
SameMatch(m, n) == n \in Match /\ n.phase = m.phase /\ n.code = m.code

LEMMA DroppedSame == ASSUME NEW m \in Match, NEW u \in User PROVE SameMatch(m, Dropped(m, u))
BY DEF SameMatch, Dropped, Match

LEMMA ReturnedSame == ASSUME NEW m \in Match, NEW u \in User PROVE SameMatch(m, Returned(m, u))
BY DEF SameMatch, Returned, Match

LEMMA DepartedSame ==
  ASSUME NEW m \in Match, NEW u \in User
  PROVE  /\ SameMatch(m, Departed(m, u))
         /\ Departed(m, u).fast /\ ~m.fast => m.phase = "running"
<1>1. PICK l : l = [m EXCEPT !.grace = @ \ {u}, !.alive = @ \ {u}, !.departed = @ \cup ({u} \cap m.players)]
  OBVIOUS
<1>2. l \in Match /\ l.phase = m.phase /\ l.code = m.code /\ l.fast = m.fast
  BY <1>1 DEF Match
<1>3. PICK b \in BOOLEAN : b = (l.fast \/ (m.phase = "running" /\ l.alive \subseteq l.departed))
  BY <1>2, MatchFields
<1>4. PICK n : n = [l EXCEPT !.fast = b]
  OBVIOUS
<1>5. Departed(m, u) = n
  BY <1>1, <1>2, <1>3, <1>4 DEF Departed, Match
<1>. QED
  BY <1>2, <1>3, <1>4, <1>5 DEF SameMatch, Match

LEMMA MatchOfTyped ==
  ASSUME NEW phase \in {"loading", "starting"}, NEW c \in Code, NEW P \in SUBSET User
  PROVE  LET m == MatchOf(phase, c, P) IN m \in Match /\ m.phase = phase /\ m.code = c
BY DEF MatchOf, Unmade, Match, MaybeCode

-----------------------------------------------------------------------------
(* What holds of every state *)

\* Which requests have a tab that waits for their end, and which frames speak
\* of a room that was made.
Asks == {"cleanup", "cleaned", "createMapping", "createIndex", "enter", "left",
         "checkStart", "restart", "voteYes", "voteNo"}

Named == {"createMapping", "createIndex", "enter", "left", "checkStart", "restart", "voteYes", "voteNo", "started"}

Naming(f) == f.at \in Named \/ (f.at \in {"cleanup", "cleaned"} /\ f.kind = "join")

\* A tab has one request in flight, but for those who did not wait.
OneAsk ==
  \A i, j \in Wire :
    wire[i].at \in Asks /\ wire[j].at \in Asks /\ wire[i].tab = wire[j].tab /\ Owner[wire[i].tab] \notin hurried
      => i = j

\* Nothing speaks of a code before it is minted.
Minted ==
  /\ \A c \in Code : Exists(c) => c \in minted
  /\ \A t \in Tab : active[t] \in minted \cup {NoCode}
  /\ \A i \in Wire : Naming(wire[i]) => wire[i].code \in minted
  /\ \A g \in Game : games[g].phase # "unmade" => games[g].code \in minted

\* The manager finds a match under the code of its room.
Manages ==
  \A c \in Code : Managed(c) =>
    games[managed[c]].code = c /\ games[managed[c]].phase \notin {"unmade", "loading"}

Basic == TypeOK /\ OneAsk /\ Minted /\ Manages

LEMMA TypeFields ==
  ASSUME TypeOK
  PROVE  /\ StoreTypeOK /\ minted \in SUBSET Code /\ sock \in [Tab -> {"new", "on", "gone"}]
         /\ active \in [Tab -> MaybeCode] /\ joined \in [Tab -> SUBSET Code] /\ parting \in [Tab -> MaybeCode]
         /\ hurried \in SUBSET User /\ cut \in SUBSET User
         /\ games \in [Game -> Match] /\ managed \in [Code -> Game \cup {NoGame}]
         /\ votes \in [Code -> Ballot] /\ wire \in Seq(Frame) /\ budget \in 0 .. MaxRequests
         /\ putBack \in SUBSET User /\ reopened \in SUBSET Code /\ astray \in SUBSET User
BY DEF TypeOK

LEMMA AskingIs ==
  ASSUME TypeOK, NEW t \in Tab, ~Asking(t)
  PROVE  \A i \in Wire : wire[i].at \in Asks => wire[i].tab # t
<1>1. DOMAIN wire = Wire
  BY TypeFields DEF Wire
<1>. QED
  BY <1>1 DEF Asking, Asks

\* The head of the wire.
LEMMA HeadOfWire ==
  ASSUME TypeOK, wire # <<>>
  PROVE  Reply \in Frame /\ 1 \in Wire /\ wire[1] = Reply
<1>1. wire \in Seq(Frame)
  BY TypeFields
<1>. QED
  BY <1>1 DEF Reply, Wire

-----------------------------------------------------------------------------
(* What most steps do: no room is opened or changes its status, no match goes *)
(* on to another phase, and nobody enters a room.                             *)

StatusQuiet ==
  /\ StoreTypeOK'
  /\ \A c \in Code : Exists(c)' => Exists(c) /\ rooms'[c].status = rooms[c].status

SeatsQuiet ==
  \A u \in User \ (putBack' \cup hurried'), c \in Code :
    Member(u, c)' => Member(u, c) /\ (playerRoom[u] = c => playerRoom'[u] = c)

TabsQuiet ==
  /\ sock' \in [Tab -> {"new", "on", "gone"}] /\ joined' \in [Tab -> SUBSET Code]
  /\ active' \in [Tab -> minted \cup {NoCode}] /\ parting' \in [Tab -> MaybeCode]

GamesQuiet ==
  /\ games' \in [Game -> Match] /\ \A g \in Game : SameMatch(games[g], games'[g])
  /\ managed' \in [Code -> Game \cup {NoGame}] /\ \A c \in Code : managed'[c] \in {managed[c], NoGame}
  /\ votes' \in [Code -> Ballot]

\* Who did not wait for an answer is remembered.
AsksGrow ==
  /\ hurried \subseteq hurried' /\ hurried' \in SUBSET User
  /\ cut \subseteq cut' /\ cut' \in SUBSET User

CountersQuiet ==
  /\ UNCHANGED <<minted, putBack, reopened>> /\ astray' \in SUBSET User
  /\ budget' \in 0 .. MaxRequests /\ AsksGrow

\* The new requests are of tabs that had none, or whose user does not wait, and
\* of rooms that were made.
AsksOnce(k, new) ==
  /\ \A i, j \in 1 .. Len(new) : new[i].at \in Asks /\ new[j].at \in Asks => i = j
  /\ \A i \in Wire, j \in 1 .. Len(new) :
       i > k /\ wire[i].at \in Asks /\ new[j].at \in Asks /\ wire[i].tab = new[j].tab
         => Owner[new[j].tab] \in hurried'

Tame(k, new) ==
  /\ Moves(k, new) /\ AsksOnce(k, new)
  /\ \A j \in 1 .. Len(new) : Naming(new[j]) => new[j].code \in minted'

Plain(k, new) ==
  /\ Tame(k, new)
  /\ k = 1 => Reply.at \notin {"started", "deleteKeys"}
  /\ \A j \in 1 .. Len(new) : new[j].at # "started"

PlainWire == \E k, new : Plain(k, new)

Entering == {"cleanup", "cleaned", "createMapping"}

\* What a match or an admin deletes is what the room is now.
Fresh(f) == f.at = "deleteKeys" => f.code \in Code /\ f.copy = rooms[f.code]

Seated(k, new) ==
  /\ Moves(k, new)
  /\ k = 1 => Reply.at # "createMapping"
  /\ \A j \in 1 .. Len(new) : new[j].at \notin Entering /\ Fresh(new[j])

SeatedWire == \E k, new : Seated(k, new)

Quiet == StatusQuiet /\ TabsQuiet /\ GamesQuiet /\ CountersQuiet /\ PlainWire

Sitting == SeatsQuiet /\ putBack \subseteq putBack' /\ SeatedWire

\* The requests of a tab stay one.
LEMMA OneAskKept ==
  ASSUME TypeOK, OneAsk, NEW k, NEW new, Moves(k, new), AsksOnce(k, new), hurried \subseteq hurried'
  PROVE  OneAsk'
<1>1. wire \in Seq(Frame) /\ Len(wire) \in Nat /\ Len(new) \in Nat /\ k \in {0, 1}
  BY TypeFields DEF Moves
<1>. SUFFICES ASSUME NEW i \in Wire', NEW j \in Wire', wire'[i].at \in Asks, wire'[j].at \in Asks,
                     wire'[i].tab = wire'[j].tab, Owner[wire'[i].tab] \notin hurried'
              PROVE  i = j
  BY DEF OneAsk
<1>2. i \in Nat /\ j \in Nat
  BY DEF Wire
<1>3. (Stayed(k, i) \/ IsNew(k, new, i)) /\ (Stayed(k, j) \/ IsNew(k, new, j))
  BY <1>1, Origin
<1>4. CASE Stayed(k, i) /\ Stayed(k, j)
  <2>1. i + k = j + k
    BY <1>4 DEF OneAsk, Stayed
  <2>. QED
    BY <1>1, <1>2, <2>1
<1>5. CASE Stayed(k, i) /\ IsNew(k, new, j)
  BY <1>1, <1>2, <1>5 DEF AsksOnce, Wire, Stayed, IsNew
<1>6. CASE IsNew(k, new, i) /\ Stayed(k, j)
  BY <1>1, <1>2, <1>6 DEF AsksOnce, Wire, Stayed, IsNew
<1>7. CASE IsNew(k, new, i) /\ IsNew(k, new, j)
  BY <1>7 DEF AsksOnce, IsNew
<1>. QED
  BY <1>3, <1>4, <1>5, <1>6, <1>7

\* The wire of every step.
LEMMA TameWire ==
  ASSUME Basic, NEW k, NEW new, Tame(k, new), minted \subseteq minted', hurried \subseteq hurried'
  PROVE  /\ wire' \in Seq(Frame) /\ OneAsk'
         /\ \A i \in Wire' : Naming(wire'[i]) => wire'[i].code \in minted'
<1>1. wire \in Seq(Frame) /\ TypeOK /\ OneAsk /\ Minted
  BY TypeFields DEF Basic
<1>2. wire' \in Seq(Frame) /\ OneAsk'
  BY <1>1, OneAskKept DEF Tame, Moves
<1>. DEFINE S == {f \in Frame : Naming(f) => f.code \in minted'}
<1>3. \A i \in Wire : wire[i] \in S
  BY <1>1 DEF Minted, Wire
<1>4. \A j \in 1 .. Len(new) : new[j] \in S
  BY DEF Tame, Moves
<1>. HIDE DEF S
<1>5. \A i \in Wire' : wire'[i] \in S
  BY <1>1, <1>3, <1>4, EachMoves DEF Tame
<1>. QED
  BY <1>2, <1>5 DEF S

\* The types, and the codes, of a quiet step.
LEMMA QuietKeepsBasic == ASSUME Basic, Quiet PROVE Basic'
<1>1. /\ TypeOK /\ OneAsk /\ Minted /\ StatusQuiet /\ TabsQuiet /\ GamesQuiet /\ CountersQuiet
      /\ wire \in Seq(Frame) /\ minted \in SUBSET Code /\ minted' = minted
  BY TypeFields DEF Basic, Quiet, CountersQuiet
<1>2. PICK k, new : Plain(k, new)
  BY DEF Quiet, PlainWire
<1>3. /\ wire' \in Seq(Frame) /\ OneAsk'
      /\ \A i \in Wire' : Naming(wire'[i]) => wire'[i].code \in minted'
  BY <1>1, <1>2, TameWire DEF Plain, CountersQuiet, AsksGrow
<1>4. TypeOK'
  <2>1. active' \in [Tab -> MaybeCode]
    BY <1>1 DEF TabsQuiet, MaybeCode
  <2>2. minted' \in SUBSET Code /\ putBack' \in SUBSET User /\ reopened' \in SUBSET Code
    BY <1>1, TypeFields DEF CountersQuiet
  <2>. QED
    BY <1>1, <1>3, <2>1, <2>2 DEF TypeOK, StatusQuiet, TabsQuiet, GamesQuiet, CountersQuiet, AsksGrow
<1>5. \A g \in Game : games'[g].phase # "unmade" => games'[g].code \in minted
  BY <1>1 DEF GamesQuiet, SameMatch, Minted
<1>6. Manages'
  BY <1>1, TypeFields DEF Basic, Manages, Managed, GamesQuiet, SameMatch
<1>. QED
  BY <1>1, <1>3, <1>4, <1>5, <1>6 DEF Basic, Minted, StatusQuiet, TabsQuiet

\* How a handler uses the wire.
LEMMA WireStays ==
  ASSUME Basic, UNCHANGED wire
  PROVE  Tame(0, <<>>) /\ PlainWire /\ SeatedWire
<1>1. Moves(0, <<>>)
  BY StaysMoves, TypeFields DEF Basic
<1>2. Tame(0, <<>>)
  BY <1>1 DEF Tame, AsksOnce
<1>3. Plain(0, <<>>) /\ Seated(0, <<>>)
  BY <1>1, <1>2 DEF Plain, Seated
<1>. QED
  BY <1>2, <1>3 DEF PlainWire, SeatedWire

LEMMA WireReturn ==
  ASSUME Basic, wire # <<>>, Return
  PROVE  /\ Tame(1, <<>>)
         /\ Reply.at \notin {"started", "deleteKeys"} => PlainWire
         /\ Reply.at # "createMapping" => SeatedWire
<1>1. Moves(1, <<>>)
  BY ReturnMoves, TypeFields DEF Basic
<1>2. Tame(1, <<>>)
  BY <1>1 DEF Tame, AsksOnce
<1>3. Reply.at \notin {"started", "deleteKeys"} => Plain(1, <<>>)
  BY <1>2 DEF Plain
<1>4. Reply.at # "createMapping" => Seated(1, <<>>)
  BY <1>1 DEF Seated
<1>. QED
  BY <1>2, <1>3, <1>4 DEF PlainWire, SeatedWire

LEMMA WireIssue ==
  ASSUME Basic, NEW f \in Frame, Issue(f),
         f.at \in Asks => f.tab \in Tab /\ (Asking(f.tab) => Owner[f.tab] \in hurried'),
         Naming(f) => f.code \in minted'
  PROVE  /\ Tame(0, <<f>>)
         /\ f.at # "started" => PlainWire
         /\ f.at \notin Entering /\ Fresh(f) => SeatedWire
<1>0. TypeOK /\ wire \in Seq(Frame)
  BY TypeFields DEF Basic
<1>1. Moves(0, <<f>>)
  BY <1>0, IssueMoves
<1>2. Len(<<f>>) = 1 /\ <<f>>[1] = f
  OBVIOUS
<1>3. f.at \in Asks => \A i \in Wire : wire[i].at \in Asks /\ wire[i].tab = f.tab => Owner[f.tab] \in hurried'
  BY <1>0, AskingIs
<1>4. Tame(0, <<f>>)
  BY <1>1, <1>2, <1>3 DEF Tame, AsksOnce
<1>5. f.at # "started" => Plain(0, <<f>>)
  BY <1>2, <1>4 DEF Plain
<1>6. f.at \notin Entering /\ Fresh(f) => Seated(0, <<f>>)
  BY <1>1, <1>2 DEF Seated
<1>. QED
  BY <1>4, <1>5, <1>6 DEF PlainWire, SeatedWire

LEMMA WireThen ==
  ASSUME Basic, wire # <<>>, NEW f \in Frame, Then(f), UNCHANGED asks,
         f.at \in Asks => Reply.at \in Asks /\ f.tab = Reply.tab,
         Naming(f) => f.code \in minted'
  PROVE  /\ Tame(1, <<f>>)
         /\ f.at # "started" /\ Reply.at \notin {"started", "deleteKeys"} => PlainWire
         /\ f.at \notin Entering /\ Fresh(f) /\ Reply.at # "createMapping" => SeatedWire
<1>0. TypeOK /\ OneAsk /\ wire \in Seq(Frame) /\ 1 \in Wire /\ wire[1] = Reply
  BY TypeFields, HeadOfWire DEF Basic
<1>1. Moves(1, <<f>>)
  BY <1>0, ThenMoves
<1>2. Len(<<f>>) = 1 /\ <<f>>[1] = f
  OBVIOUS
<1>3. f.at \in Asks =>
         \A i \in Wire : i > 1 /\ wire[i].at \in Asks /\ wire[i].tab = f.tab => Owner[f.tab] \in hurried'
  BY <1>0 DEF OneAsk, asks
<1>4. Tame(1, <<f>>)
  BY <1>1, <1>2, <1>3 DEF Tame, AsksOnce
<1>5. f.at # "started" /\ Reply.at \notin {"started", "deleteKeys"} => Plain(1, <<f>>)
  BY <1>2, <1>4 DEF Plain
<1>6. f.at \notin Entering /\ Fresh(f) /\ Reply.at # "createMapping" => Seated(1, <<f>>)
  BY <1>1, <1>2 DEF Seated
<1>. QED
  BY <1>4, <1>5, <1>6 DEF PlainWire, SeatedWire

\* What a step leaves alone is quiet.
LEMMA StoreStays ==
  ASSUME Basic, UNCHANGED storeVars
  PROVE  StatusQuiet /\ SeatsQuiet
<1>1. StoreTypeOK
  BY TypeFields DEF Basic
<1>. QED
  BY <1>1 DEF storeVars, StoreTypeOK, StatusQuiet, SeatsQuiet, Exists, Member

LEMMA TabsStay == ASSUME Basic, UNCHANGED tabVars PROVE TabsQuiet
<1>1. TypeOK /\ Minted /\ active \in [Tab -> MaybeCode]
  BY TypeFields DEF Basic
<1>2. active \in [Tab -> minted \cup {NoCode}]
  BY <1>1 DEF Minted
<1>. QED
  BY <1>1, <1>2, TypeFields DEF tabVars, TabsQuiet

LEMMA GamesStay == ASSUME Basic, UNCHANGED <<games, managed>>, votes' \in [Code -> Ballot] PROVE GamesQuiet
BY TypeFields DEF Basic, GamesQuiet, SameMatch

LEMMA VotesStay == ASSUME Basic, UNCHANGED votes PROVE votes' \in [Code -> Ballot]
BY TypeFields DEF Basic

LEMMA NobodyHurries == ASSUME Basic, UNCHANGED <<hurried, cut>> PROVE AsksGrow
BY TypeFields DEF Basic, AsksGrow

LEMMA CountersStay ==
  ASSUME Basic, UNCHANGED <<minted, marks>>,
         UNCHANGED asks \/ (budget > 0 /\ budget' = budget - 1 /\ AsksGrow)
  PROVE  CountersQuiet
<1>1. /\ budget \in 0 .. MaxRequests /\ astray \in SUBSET User
      /\ hurried \in SUBSET User /\ cut \in SUBSET User
  BY TypeFields DEF Basic
<1>. QED
  BY <1>1, RoomSessionAssumption DEF CountersQuiet, AsksGrow, marks, asks

\* Who is let into a room is marked at most as being in two.
LEMMA LetInMarks ==
  ASSUME Basic, NEW u \in User, NEW c, LetIn(u, c)
  PROVE  astray' \in SUBSET User /\ UNCHANGED <<putBack, reopened>>
BY TypeFields DEF Basic, LetIn

LEMMA MarksStay == ASSUME UNCHANGED marks PROVE putBack \subseteq putBack' /\ reopened' = reopened /\ putBack' = putBack
BY DEF marks

-----------------------------------------------------------------------------
(* What the scripts and the match helpers do *)

LEMMA LeaveQuiet ==
  ASSUME Basic, NEW c \in Code, NEW us, LeaveScript(c, us)
  PROVE  /\ StatusQuiet /\ SeatsQuiet
         /\ \A u \in us \cap User : ~Member(u, c)'
<1>0. StoreTypeOK
  BY TypeFields DEF Basic
<1>1. StoreTypeOK'
  BY <1>0, LeaveScriptTyped
<1>2. playerRoom' = [u \in User |-> IF u \in us /\ playerRoom[u] = c THEN NoCode ELSE playerRoom[u]]
  BY DEF LeaveScript, LeaveMissing, LeaveLast, LeaveOthers, ForgetPlayerRoom
<1>3. \/ UNCHANGED rooms /\ ~Exists(c)
      \/ rooms' = [rooms EXCEPT ![c] = NoRoom]
      \/ /\ Exists(c)
         /\ \E h \in User : rooms' = [rooms EXCEPT ![c].players = rooms[c].players \ us,
                                                  ![c].ready = @ \ us, ![c].host = h]
  <2>1. CASE LeaveMissing(c, us) \/ LeaveLast(c, us)
    BY <2>1 DEF LeaveMissing, LeaveLast
  <2>2. CASE LeaveOthers(c, us)
    BY <1>0, <2>2, MaybeRooms, RoomFields DEF LeaveOthers
  <2>. QED
    BY <2>1, <2>2 DEF LeaveScript
<1>4. \A d \in Code \ {c} : rooms'[d] = rooms[d]
  BY <1>0, <1>3 DEF StoreTypeOK
<1>5. Exists(c)' => /\ Exists(c) /\ rooms'[c].status = rooms[c].status
                    /\ rooms'[c].players = rooms[c].players \ us
  <2>1. CASE UNCHANGED rooms /\ ~Exists(c)
    BY <2>1 DEF Exists
  <2>2. CASE rooms' = [rooms EXCEPT ![c] = NoRoom]
    BY <1>0, <2>2 DEF Exists, StoreTypeOK
  <2>3. CASE Exists(c) /\ \E h \in User : rooms' = [rooms EXCEPT ![c].players = rooms[c].players \ us,
                                                  ![c].ready = @ \ us, ![c].host = h]
    <3>1. rooms[c] \in Room
      BY <1>0, <2>3, MaybeRooms
    <3>. QED
      BY <1>0, <2>3, <3>1 DEF Exists, StoreTypeOK, Room
  <2>. QED
    BY <1>3, <2>1, <2>2, <2>3
<1>6. StatusQuiet
  BY <1>1, <1>4, <1>5 DEF StatusQuiet, Exists
<1>7. SeatsQuiet
  BY <1>0, <1>2, <1>4, <1>5 DEF SeatsQuiet, Member, Exists, StoreTypeOK
<1>. QED
  BY <1>5, <1>6, <1>7 DEF Member

LEMMA ReadyQuiet ==
  ASSUME Basic, NEW c \in Code, NEW u \in User, NEW b, ReadyScript(c, u, b)
  PROVE  StatusQuiet /\ SeatsQuiet
<1>0. StoreTypeOK /\ StoreTypeOK'
  BY TypeFields, ReadyScriptTyped DEF Basic
<1>1. rooms[c] \in Room
  BY <1>0, MaybeRooms DEF ReadyScript
<1>2. PICK s : rooms' = [rooms EXCEPT ![c].ready = s]
  BY DEF ReadyScript
<1>. QED
  BY <1>0, <1>1, <1>2 DEF ReadyScript, StatusQuiet, SeatsQuiet, Member, Exists, StoreTypeOK, Room

LEMMA IndexQuiet ==
  ASSUME Basic, NEW c \in Code, AddToIndex(c) \/ RemoveFromIndex({c})
  PROVE  StatusQuiet /\ SeatsQuiet
<1>0. StoreTypeOK /\ StoreTypeOK'
  BY TypeFields, IndexTyped DEF Basic
<1>. QED
  BY <1>0 DEF AddToIndex, RemoveFromIndex, StatusQuiet, SeatsQuiet, Member, Exists

\* The votes without one voter.
LEMMA ForgetVotesTyped ==
  ASSUME Basic, NEW u \in User, ForgetVotes(u)
  PROVE  votes' \in [Code -> Ballot]
<1>1. votes \in [Code -> Ballot]
  BY TypeFields DEF Basic
<1>2. \A b \in Ballot : WithoutVoter(b, u) \in Ballot
  BY DEF WithoutVoter, NoVote, Ballot
<1>. QED
  BY <1>1, <1>2 DEF ForgetVotes

LEMMA EvictTabs ==
  ASSUME Basic, NEW ts, NEW c, Evict(ts, c), UNCHANGED <<sock, parting>>
  PROVE  TabsQuiet
<1>1. /\ Minted /\ active \in [Tab -> MaybeCode] /\ joined \in [Tab -> SUBSET Code]
      /\ sock \in [Tab -> {"new", "on", "gone"}] /\ parting \in [Tab -> MaybeCode]
  BY TypeFields DEF Basic
<1>. QED
  BY <1>1 DEF Evict, TabsQuiet, Minted

\* One match, at most, that stays in its phase.
LEMMA OneGameQuiet ==
  ASSUME Basic, NEW g \in Game, NEW m, SameMatch(games[g], m), games' = [games EXCEPT ![g] = m],
         UNCHANGED managed, votes' \in [Code -> Ballot]
  PROVE  GamesQuiet
<1>1. games \in [Game -> Match] /\ managed \in [Code -> Game \cup {NoGame}]
  BY TypeFields DEF Basic
<1>. QED
  BY <1>1 DEF GamesQuiet, SameMatch

LEMMA DropQuiet ==
  ASSUME Basic, NEW c \in Code, NEW u \in User, DropFromMatch(c, u), UNCHANGED managed,
         votes' \in [Code -> Ballot]
  PROVE  GamesQuiet
<1>1. CASE Running(c)
  <2>1. managed[c] \in Game /\ games[managed[c]] \in Match
    BY <1>1, TypeFields DEF Basic, Running, Managed
  <2>2. PICK m : m = Dropped(games[managed[c]], u)
    OBVIOUS
  <2>3. SameMatch(games[managed[c]], m)
    BY <2>1, <2>2, DroppedSame
  <2>4. games' = [games EXCEPT ![managed[c]] = m]
    BY <1>1, <2>2 DEF DropFromMatch
  <2>. QED
    BY <2>1, <2>3, <2>4, OneGameQuiet
<1>2. CASE ~Running(c)
  BY <1>2, GamesStay DEF DropFromMatch
<1>. QED
  BY <1>1, <1>2

\* Frames issued together.
LEMMA WireFollowed ==
  ASSUME Basic, NEW new \in Seq(Frame), wire' = wire \o new, AsksOnce(0, new), UNCHANGED minted,
         \A j \in 1 .. Len(new) : /\ new[j].at # "started" /\ new[j].at \notin Entering
                                  /\ Naming(new[j]) => new[j].code \in minted
                                  /\ Fresh(new[j])
  PROVE  PlainWire /\ SeatedWire
<1>1. Moves(0, new)
  BY FollowedMoves, TypeFields DEF Basic
<1>2. Plain(0, new) /\ Seated(0, new)
  BY <1>1 DEF Plain, Seated, Tame
<1>. QED
  BY <1>2 DEF PlainWire, SeatedWire

DeleteFrame(c) == [at |-> "deleteKeys", code |-> c, copy |-> rooms[c]]

LEMMA DeleteFrames ==
  ASSUME Basic, NEW c \in Code
  PROVE  DeleteFrame(c) \in Frame /\ DeleteFrame(c).at = "deleteKeys" /\ Fresh(DeleteFrame(c))
<1>1. rooms[c] \in MaybeRoom
  BY MaybeRooms, TypeFields DEF Basic
<1>. QED
  BY <1>1 DEF Frame, Fresh, DeleteFrame

\* A match that speeds up hides its room.
LEMMA HidingIs ==
  ASSUME Basic, NEW g \in Game, NEW u \in User, NEW m, m = games[g]
  PROVE  \/ Hiding(m, Departed(m, u)) = <<>>
         \/ m.code \in Code /\ Hiding(m, Departed(m, u)) = <<DeleteFrame(m.code)>>
<1>1. m \in Match /\ minted \in SUBSET Code /\ (m.phase # "unmade" => m.code \in minted)
  BY TypeFields DEF Basic, Minted
<1>2. Departed(m, u).fast /\ ~m.fast => m.phase = "running"
  BY <1>1, DepartedSame
<1>. QED
  BY <1>1, <1>2 DEF Hiding, DeleteFrame

LEMMA LeaveForQuiet ==
  ASSUME Basic, NEW c \in Code, NEW u \in User, NEW f \in Frame, LeaveFor(c, u, f),
         UNCHANGED <<minted, managed, votes>>,
         f.at \notin Entering \cup {"started", "deleteKeys"},
         f.at \in Asks => f.tab \in Tab /\ (Asking(f.tab) => Owner[f.tab] \in hurried'),
         Naming(f) => f.code \in minted
  PROVE  StatusQuiet /\ SeatsQuiet /\ GamesQuiet /\ PlainWire /\ SeatedWire
<1>0. TypeOK /\ wire \in Seq(Frame) /\ votes' \in [Code -> Ballot] /\ managed \in [Code -> Game \cup {NoGame}]
  BY TypeFields, VotesStay DEF Basic
<1>1. StatusQuiet /\ SeatsQuiet
  BY LeaveQuiet DEF LeaveFor
<1>2. Fresh(f)
  BY DEF Fresh
<1>3. CASE ~Managed(c)
  <2>1. Issue(f) /\ UNCHANGED games
    BY <1>3 DEF LeaveFor
  <2>2. GamesQuiet
    BY <1>0, <2>1, GamesStay
  <2>3. PlainWire /\ SeatedWire
    BY <1>2, <2>1, WireIssue
  <2>. QED
    BY <1>1, <2>2, <2>3
<1>4. CASE Managed(c)
  <2>1. PICK g \in Game : g = managed[c]
    BY <1>0, <1>4 DEF Managed
  <2>2. PICK m \in Match : m = games[g]
    BY TypeFields DEF Basic
  <2>3. PICK n : n = Departed(m, u)
    OBVIOUS
  <2>4. games' = [games EXCEPT ![g] = n] /\ wire' = wire \o Hiding(m, n) \o <<f>>
    BY <1>4, <2>1, <2>2, <2>3 DEF LeaveFor
  <2>5. SameMatch(m, n)
    BY <2>3, DepartedSame
  <2>6. GamesQuiet
    BY <1>0, <2>2, <2>4, <2>5, OneGameQuiet
  <2>7. f.at \in Asks => \A i \in Wire : wire[i].at \in Asks /\ wire[i].tab = f.tab => Owner[f.tab] \in hurried'
    BY <1>0, AskingIs
  <2>8. PlainWire /\ SeatedWire
    <3>1. CASE Hiding(m, n) = <<>>
      <4>1. wire' = Append(wire, f)
        BY <1>0, <2>4, <3>1
      <4>. QED
        BY <1>2, <4>1, WireIssue DEF Issue
    <3>2. CASE m.code \in Code /\ Hiding(m, n) = <<DeleteFrame(m.code)>>
      <4>1. PICK d : d = DeleteFrame(m.code)
        OBVIOUS
      <4>2. d \in Frame /\ d.at = "deleteKeys" /\ Fresh(d)
        BY <3>2, <4>1, DeleteFrames
      <4>. DEFINE new == <<d, f>>
      <4>3. new \in Seq(Frame) /\ Len(new) = 2 /\ new[1] = d /\ new[2] = f
        BY <4>2
      <4>4. wire' = (wire \o <<d>>) \o <<f>>
        BY <2>4, <3>2, <4>1
      <4>5. wire' = wire \o new
        BY <1>0, <4>2, <4>4
      <4>. HIDE DEF new
      <4>6. AsksOnce(0, new)
        BY <2>7, <4>2, <4>3 DEF AsksOnce, Asks
      <4>7. \A j \in 1 .. Len(new) : /\ new[j].at # "started" /\ new[j].at \notin Entering
                                     /\ Naming(new[j]) => new[j].code \in minted
                                     /\ Fresh(new[j])
        BY <1>2, <4>2, <4>3 DEF Entering, Named, Naming
      <4>. QED
        BY <4>3, <4>5, <4>6, <4>7, WireFollowed
    <3>. QED
      BY <2>2, <2>3, <3>1, <3>2, HidingIs
  <2>. QED
    BY <1>1, <2>6, <2>8
<1>. QED
  BY <1>3, <1>4

-----------------------------------------------------------------------------
(* The ordinary steps *)

LEMMA AskFields ==
  ASSUME Basic, NEW t \in Tab, NEW kind, Ask(t, kind)
  PROVE  /\ budget > 0 /\ budget' = budget - 1 /\ AsksGrow
         /\ Asking(t) => Owner[t] \in hurried'
         /\ Owner[t] \in User /\ active[t] \in Code \cup {NoCode}
         /\ active[t] # NoCode => active[t] \in minted /\ active[t] \in Code
<1>1. /\ active \in [Tab -> MaybeCode] /\ minted \in SUBSET Code /\ active[t] \in minted \cup {NoCode}
      /\ hurried \in SUBSET User /\ cut \in SUBSET User
  BY TypeFields DEF Basic, Minted
<1>. QED
  BY <1>1, RoomSessionAssumption DEF Ask, Spend, MaybeCode, AsksGrow

LEMMA AskLeaveQuiet == ASSUME Basic, NEW t \in Tab, AskLeave(t) PROVE Quiet /\ Sitting
<1>. DEFINE f == [at |-> "left", tab |-> t, code |-> active[t]]
<1>1. /\ LeaveFor(active[t], Owner[t], f) /\ active[t] # NoCode
      /\ UNCHANGED <<minted, marks, tabVars, managed, votes>>
  BY DEF AskLeave
<1>2. /\ Asking(t) => Owner[t] \in hurried'
      /\ budget > 0 /\ budget' = budget - 1 /\ AsksGrow /\ Owner[t] \in User
      /\ active[t] \in minted /\ active[t] \in Code
  BY <1>1, AskFields DEF AskLeave
<1>3. f \in Frame /\ f.at = "left" /\ f.tab = t /\ f.code = active[t]
  BY <1>2 DEF Frame
<1>. HIDE DEF f
<1>4. StatusQuiet /\ SeatsQuiet /\ GamesQuiet /\ PlainWire /\ SeatedWire
  BY <1>1, <1>2, <1>3, LeaveForQuiet DEF Entering
<1>5. TabsQuiet /\ CountersQuiet /\ putBack \subseteq putBack'
  BY <1>1, <1>2, TabsStay, CountersStay, MarksStay
<1>. QED
  BY <1>4, <1>5 DEF Quiet, Sitting

LEMMA AskReadyQuiet == ASSUME Basic, NEW t \in Tab, NEW b, AskReady(t, b) PROVE Quiet /\ Sitting
<1>1. /\ ReadyScript(active[t], Owner[t], b) /\ active[t] # NoCode
      /\ UNCHANGED <<minted, marks, tabVars, games, managed, votes, wire>>
  BY DEF AskReady, gameVars
<1>2. budget > 0 /\ budget' = budget - 1 /\ AsksGrow /\ Owner[t] \in User /\ active[t] \in Code
  BY <1>1, AskFields DEF AskReady
<1>3. StatusQuiet /\ SeatsQuiet
  BY <1>1, <1>2, ReadyQuiet
<1>4. GamesQuiet /\ TabsQuiet /\ CountersQuiet /\ putBack \subseteq putBack'
  BY <1>1, <1>2, GamesStay, VotesStay, TabsStay, CountersStay, MarksStay
<1>. QED
  BY <1>1, <1>3, <1>4, WireStays DEF Quiet, Sitting

LEMMA AskAboutQuiet ==
  ASSUME Basic, NEW t \in Tab, NEW kind, NEW step \in {"checkStart", "restart", "voteYes", "voteNo"},
         AskAbout(t, kind, step)
  PROVE  Quiet /\ Sitting
<1>. DEFINE f == [at |-> step, tab |-> t, code |-> active[t], copy |-> rooms[active[t]]]
<1>1. /\ active[t] # NoCode /\ Issue(f)
      /\ UNCHANGED <<storeVars, minted, marks, tabVars, games, managed, votes>>
  BY DEF AskAbout, gameVars
<1>2. /\ Asking(t) => Owner[t] \in hurried'
      /\ budget > 0 /\ budget' = budget - 1 /\ AsksGrow /\ Owner[t] \in User
      /\ active[t] \in minted /\ active[t] \in Code
  BY <1>1, AskFields DEF AskAbout
<1>3. rooms[active[t]] \in MaybeRoom
  BY <1>2, MaybeRooms, TypeFields DEF Basic
<1>4. f \in Frame /\ f.at = step /\ f.tab = t /\ f.code = active[t]
  BY <1>2, <1>3 DEF Frame
<1>. HIDE DEF f
<1>5. PlainWire /\ SeatedWire
  BY <1>1, <1>2, <1>4, WireIssue DEF Entering, Fresh
<1>6. StatusQuiet /\ SeatsQuiet /\ GamesQuiet /\ TabsQuiet /\ CountersQuiet /\ putBack \subseteq putBack'
  BY <1>1, <1>2, StoreStays, GamesStay, VotesStay, TabsStay, CountersStay, MarksStay
<1>. QED
  BY <1>5, <1>6 DEF Quiet, Sitting

LEMMA Resumed ==
  ASSUME Basic, NEW step, Resumes(step)
  PROVE  /\ wire # <<>> /\ Reply \in Frame /\ Reply.at = step /\ 1 \in Wire /\ wire[1] = Reply
         /\ step \in Named => Reply.code \in minted
         /\ step \in Asks \cup {"restoreParty", "restoreRoom", "lookup"} => Reply.tab \in Tab /\ Owner[Reply.tab] \in User
<1>1. wire # <<>> /\ Reply.at = step /\ TypeOK /\ Minted
  BY DEF Resumes, Basic
<1>2. Reply \in Frame /\ 1 \in Wire /\ wire[1] = Reply
  BY <1>1, HeadOfWire
<1>3. step \in Asks \cup {"restoreParty", "restoreRoom", "lookup"} => Reply.tab \in Tab
  BY <1>1, <1>2, FrameFields DEF Asks
<1>. QED
  BY <1>1, <1>2, <1>3, RoomSessionAssumption DEF Minted, Naming

\* A handler's end that changes its tab only.
LEMMA EndQuiet ==
  ASSUME Basic, wire # <<>>, Return, Reply.at \notin {"started", "deleteKeys", "createMapping"},
         UNCHANGED <<storeVars, minted, marks, games, managed, asks>>, TabsQuiet,
         votes' \in [Code -> Ballot]
  PROVE  Quiet /\ Sitting
BY StoreStays, GamesStay, CountersStay, MarksStay, WireReturn DEF Quiet, Sitting

LEMMA RefuseElsewhereQuiet == ASSUME Basic, RefuseElsewhere PROVE Quiet /\ Sitting
<1>1. wire # <<>> /\ Reply.at = "cleanup" /\ Return /\ UNCHANGED <<storeVars, minted, marks, tabVars, gameVars, asks>>
  BY DEF RefuseElsewhere, Resumes
<1>. QED
  BY <1>1, EndQuiet, TabsStay, VotesStay DEF gameVars

LEMMA CreateIndexQuiet == ASSUME Basic, CreateIndex PROVE Quiet /\ Sitting
<1>. DEFINE f == [Reply EXCEPT !.at = "enter"]
<1>1. /\ Resumes("createIndex") /\ AddToIndex(Reply.code) /\ Then(f)
      /\ UNCHANGED <<minted, marks, tabVars, games, managed, votes, asks>>
  BY DEF CreateIndex, gameVars
<1>2. wire # <<>> /\ Reply \in Frame /\ Reply.at = "createIndex" /\ Reply.code \in minted /\ minted \in SUBSET Code
  BY <1>1, Resumed, TypeFields DEF Named, Naming, Basic
<1>3. Reply \in [at : {"createMapping", "createIndex", "enter", "left"}, tab : Tab, code : Code]
  BY <1>2 DEF Frame
<1>4. f \in Frame /\ f.at = "enter" /\ f.tab = Reply.tab /\ f.code = Reply.code
  BY <1>3 DEF Frame
<1>. HIDE DEF f
<1>5. PlainWire /\ SeatedWire
  BY <1>1, <1>2, <1>4, WireThen DEF Asks, Entering, Fresh
<1>6. StatusQuiet /\ SeatsQuiet
  BY <1>1, <1>2, IndexQuiet
<1>. QED
  BY <1>1, <1>5, <1>6, GamesStay, VotesStay, TabsStay, CountersStay, MarksStay DEF Quiet, Sitting

LEMMA EnterQuiet == ASSUME Basic, Enter PROVE Quiet /\ Sitting
<1>1. /\ Resumes("enter") /\ Return
      /\ active' = [active EXCEPT ![Reply.tab] = Reply.code]
      /\ joined' = [joined EXCEPT ![Reply.tab] = @ \cup {Reply.code}]
      /\ UNCHANGED <<storeVars, minted, marks, sock, parting, games, managed, votes, asks>>
  BY DEF Enter, gameVars
<1>2. /\ wire # <<>> /\ Reply.at = "enter" /\ Reply.tab \in Tab /\ Reply.code \in minted
      /\ Minted /\ minted \in SUBSET Code
      /\ active \in [Tab -> MaybeCode] /\ joined \in [Tab -> SUBSET Code] /\ sock \in [Tab -> {"new", "on", "gone"}]
      /\ parting \in [Tab -> MaybeCode]
  BY <1>1, Resumed, TypeFields DEF Named, Naming, Asks, Basic
<1>3. TabsQuiet
  BY <1>1, <1>2 DEF TabsQuiet, Minted
<1>. QED
  BY <1>1, <1>2, <1>3, EndQuiet, VotesStay

LEMMA LeftQuiet == ASSUME Basic, Left PROVE Quiet /\ Sitting
<1>1. /\ Resumes("left") /\ Return /\ ForgetVotes(Owner[Reply.tab])
      /\ active' = [active EXCEPT ![Reply.tab] = NoCode]
      /\ joined' = [joined EXCEPT ![Reply.tab] = @ \ {Reply.code}]
      /\ UNCHANGED <<storeVars, minted, marks, sock, parting, games, managed, asks>>
  BY DEF Left
<1>2. /\ wire # <<>> /\ Reply.at = "left" /\ Reply.tab \in Tab /\ Owner[Reply.tab] \in User /\ Minted
      /\ active \in [Tab -> MaybeCode] /\ joined \in [Tab -> SUBSET Code] /\ sock \in [Tab -> {"new", "on", "gone"}]
      /\ parting \in [Tab -> MaybeCode]
  BY <1>1, Resumed, TypeFields DEF Named, Naming, Asks, Basic
<1>3. TabsQuiet
  BY <1>1, <1>2 DEF TabsQuiet, Minted
<1>. QED
  BY <1>1, <1>2, <1>3, EndQuiet, ForgetVotesTyped

LEMMA SetCallbacksQuiet == ASSUME Basic, SetCallbacks PROVE Quiet /\ Sitting
<1>1. /\ Resumes("setCallbacks") /\ Return /\ games' = [games EXCEPT ![Reply.game].hides = TRUE]
      /\ UNCHANGED <<storeVars, minted, marks, tabVars, managed, votes, asks>>
  BY DEF SetCallbacks
<1>2. wire # <<>> /\ Reply.at = "setCallbacks" /\ Reply.game \in Game /\ games \in [Game -> Match]
  BY <1>1, Resumed, FrameFields, TypeFields DEF Basic
<1>3. PICK m : m = [games[Reply.game] EXCEPT !.hides = TRUE]
  OBVIOUS
<1>4. SameMatch(games[Reply.game], m)
  <2>1. games[Reply.game] \in Match
    BY <1>2
  <2>. QED
    BY <1>3, <2>1 DEF SameMatch, Match
<1>5. GamesQuiet
  <2>1. games' = [games EXCEPT ![Reply.game] = m]
    BY <1>1, <1>2, <1>3
  <2>. QED
    BY <1>1, <1>2, <1>4, <2>1, OneGameQuiet, VotesStay
<1>. QED
  BY <1>1, <1>2, <1>5, StoreStays, TabsStay, CountersStay, MarksStay, WireReturn DEF Quiet, Sitting

LEMMA KickedQuiet == ASSUME Basic, Kicked PROVE Quiet /\ Sitting
<1>1. /\ Resumes("kicked") /\ Return
      /\ Evict({t \in InSocketRoom(Reply.code) : Owner[t] = Reply.user}, Reply.code)
      /\ UNCHANGED <<storeVars, minted, marks, sock, parting, games, managed, votes, asks>>
  BY DEF Kicked, gameVars
<1>2. wire # <<>> /\ Reply.at = "kicked" /\ TabsQuiet
  BY <1>1, Resumed, EvictTabs
<1>. QED
  BY <1>1, <1>2, EndQuiet, VotesStay

LEMMA DeleteRoomIndexQuiet == ASSUME Basic, DeleteRoomIndex PROVE Quiet /\ Sitting
<1>1. /\ Resumes("deleteIndex") /\ RemoveFromIndex({Reply.code}) /\ Return
      /\ UNCHANGED <<minted, marks, tabVars, games, managed, votes, asks>>
  BY DEF DeleteRoomIndex, gameVars
<1>2. wire # <<>> /\ Reply.at = "deleteIndex" /\ Reply.code \in Code
  BY <1>1, Resumed, FrameFields
<1>3. StatusQuiet /\ SeatsQuiet
  BY <1>1, <1>2, IndexQuiet
<1>. QED
  BY <1>1, <1>2, <1>3, GamesStay, VotesStay, TabsStay, CountersStay, MarksStay, WireReturn DEF Quiet, Sitting

LEMMA VoteTimeoutQuiet == ASSUME Basic, NEW c \in Code, VoteTimeout(c) PROVE Quiet /\ Sitting
<1>1. /\ votes' = [votes EXCEPT ![c] = NoVote]
      /\ UNCHANGED <<storeVars, minted, marks, tabVars, games, managed, wire, asks>>
  BY DEF VoteTimeout
<1>2. votes' \in [Code -> Ballot]
  BY <1>1, TypeFields DEF Basic, NoVote, Ballot
<1>. QED
  BY <1>1, <1>2, StoreStays, GamesStay, TabsStay, CountersStay, MarksStay, WireStays DEF Quiet, Sitting

LEMMA ReapQuiet == ASSUME Basic, Reap PROVE Quiet /\ Sitting
<1>1. /\ managed' = [c \in Code |-> IF Running(c) THEN managed[c] ELSE NoGame]
      /\ UNCHANGED <<storeVars, minted, marks, tabVars, games, votes, wire, asks>>
  BY DEF Reap
<1>2. GamesQuiet
  BY <1>1, TypeFields DEF Basic, GamesQuiet, SameMatch
<1>. QED
  BY <1>1, <1>2, StoreStays, TabsStay, CountersStay, MarksStay, WireStays DEF Quiet, Sitting

LEMMA PlayerDiesQuiet == ASSUME Basic, NEW g \in Game, NEW u \in User, PlayerDies(g, u) PROVE Quiet /\ Sitting
<1>1. /\ games' = [games EXCEPT ![g].alive = @ \ {u}]
      /\ UNCHANGED <<storeVars, minted, marks, tabVars, managed, votes, wire, asks>>
  BY DEF PlayerDies
<1>2. games[g] \in Match /\ games \in [Game -> Match]
  BY TypeFields DEF Basic
<1>3. PICK m : m = [games[g] EXCEPT !.alive = @ \ {u}]
  OBVIOUS
<1>4. SameMatch(games[g], m)
  BY <1>2, <1>3 DEF SameMatch, Match
<1>5. games' = [games EXCEPT ![g] = m]
  BY <1>1, <1>2, <1>3
<1>6. GamesQuiet
  BY <1>1, <1>4, <1>5, OneGameQuiet, VotesStay
<1>. QED
  BY <1>1, <1>6, StoreStays, TabsStay, CountersStay, MarksStay, WireStays DEF Quiet, Sitting

LEMMA GraceExpiresQuiet == ASSUME Basic, NEW g \in Game, NEW u \in User, GraceExpires(g, u) PROVE Quiet /\ Sitting
<1>. DEFINE n == Departed(games[g], u)
<1>1. /\ games' = [games EXCEPT ![g] = n] /\ wire' = wire \o Hiding(games[g], n)
      /\ UNCHANGED <<storeVars, minted, marks, tabVars, managed, votes, asks>>
  BY DEF GraceExpires
<1>2. games[g] \in Match /\ wire \in Seq(Frame)
  BY TypeFields DEF Basic
<1>3. SameMatch(games[g], n)
  BY <1>2, DepartedSame
<1>4. GamesQuiet
  BY <1>1, <1>3, OneGameQuiet, VotesStay
<1>5. CASE Hiding(games[g], n) = <<>>
  <2>1. UNCHANGED wire
    BY <1>1, <1>2, <1>5
  <2>. QED
    BY <1>1, <1>4, <2>1, StoreStays, TabsStay, CountersStay, MarksStay, WireStays DEF Quiet, Sitting
<1>6. CASE games[g].code \in Code /\ Hiding(games[g], n) = <<DeleteFrame(games[g].code)>>
  <2>1. PICK d : d = DeleteFrame(games[g].code)
    OBVIOUS
  <2>2. d \in Frame /\ d.at = "deleteKeys" /\ Fresh(d)
    BY <1>6, <2>1, DeleteFrames
  <2>3. Issue(d)
    BY <1>1, <1>2, <1>6, <2>1, <2>2 DEF Issue
  <2>4. PlainWire /\ SeatedWire
    BY <2>2, <2>3, WireIssue DEF Asks, Named, Naming, Entering
  <2>. QED
    BY <1>1, <1>4, <2>4, StoreStays, TabsStay, CountersStay, MarksStay DEF Quiet, Sitting
<1>. QED
  BY <1>5, <1>6, HidingIs

LEMMA AskKickQuiet == ASSUME Basic, NEW c \in Code, NEW u \in User, AskKick(c, u) PROVE Quiet /\ Sitting
<1>. DEFINE f == [at |-> "kicked", user |-> u, code |-> c]
<1>1. /\ LeaveFor(c, u, f) /\ budget > 0 /\ budget' = budget - 1 /\ UNCHANGED <<hurried, cut>>
      /\ UNCHANGED <<minted, marks, tabVars, managed, votes>>
  BY DEF AskKick, Spend
<1>2. f \in Frame /\ f.at = "kicked"
  BY DEF Frame
<1>. HIDE DEF f
<1>3. StatusQuiet /\ SeatsQuiet /\ GamesQuiet /\ PlainWire /\ SeatedWire
  BY <1>1, <1>2, LeaveForQuiet DEF Entering, Asks, Named, Naming
<1>. QED
  BY <1>1, <1>3, TabsStay, NobodyHurries, CountersStay, MarksStay DEF Quiet, Sitting

LEMMA AskCloseQuiet == ASSUME Basic, NEW c \in Code, AskClose(c) PROVE Quiet /\ Sitting
<1>. DEFINE f == [at |-> "closed", tabs |-> InSocketRoom(c), code |-> c]
<1>1. /\ LeaveScript(c, {Owner[t] : t \in InSocketRoom(c)}) /\ Issue(f) /\ budget > 0 /\ budget' = budget - 1
      /\ UNCHANGED <<hurried, cut, minted, marks, tabVars, games, managed, votes>>
  BY DEF AskClose, Spend, gameVars
<1>2. f \in Frame /\ f.at = "closed"
  BY DEF Frame, InSocketRoom
<1>. HIDE DEF f
<1>3. PlainWire /\ SeatedWire
  BY <1>1, <1>2, WireIssue DEF Entering, Asks, Named, Naming, Fresh
<1>4. StatusQuiet /\ SeatsQuiet
  BY <1>1, LeaveQuiet
<1>. QED
  BY <1>1, <1>3, <1>4, GamesStay, VotesStay, TabsStay, NobodyHurries, CountersStay, MarksStay DEF Quiet, Sitting

LEMMA ConnectQuiet == ASSUME Basic, NEW t \in Tab, Connect(t) PROVE Quiet /\ Sitting
<1>. DEFINE f == [at |-> "restoreParty", tab |-> t]
<1>1. /\ sock' = [sock EXCEPT ![t] = "on"] /\ Issue(f)
      /\ UNCHANGED <<storeVars, minted, marks, active, joined, parting, games, managed, votes, asks>>
  BY DEF Connect, gameVars
<1>2. f \in Frame /\ f.at = "restoreParty"
  BY DEF Frame
<1>. HIDE DEF f
<1>3. PlainWire /\ SeatedWire
  BY <1>1, <1>2, WireIssue DEF Entering, Asks, Named, Naming, Fresh
<1>4. /\ active \in [Tab -> MaybeCode] /\ joined \in [Tab -> SUBSET Code] /\ sock \in [Tab -> {"new", "on", "gone"}]
      /\ Minted /\ parting \in [Tab -> MaybeCode]
  BY TypeFields DEF Basic
<1>5. TabsQuiet
  BY <1>1, <1>4 DEF TabsQuiet, Minted
<1>. QED
  BY <1>1, <1>3, <1>5, StoreStays, GamesStay, VotesStay, CountersStay, MarksStay DEF Quiet, Sitting

LEMMA RestorePartyQuiet == ASSUME Basic, RestoreParty PROVE Quiet /\ Sitting
<1>. DEFINE f == [at |-> "restoreRoom", tab |-> Reply.tab, seen |-> playerRoom[Owner[Reply.tab]]]
<1>1. /\ Resumes("restoreParty") /\ Then(f)
      /\ UNCHANGED <<storeVars, minted, marks, tabVars, games, managed, votes, asks>>
  BY DEF RestoreParty, gameVars
<1>2. wire # <<>> /\ Reply.at = "restoreParty" /\ Reply.tab \in Tab /\ Owner[Reply.tab] \in User /\ StoreTypeOK
  BY <1>1, Resumed, TypeFields DEF Basic
<1>3. f \in Frame /\ f.at = "restoreRoom"
  BY <1>2 DEF Frame, StoreTypeOK, MaybeCode
<1>. HIDE DEF f
<1>4. PlainWire /\ SeatedWire
  BY <1>1, <1>2, <1>3, WireThen DEF Asks, Named, Naming, Entering, Fresh
<1>. QED
  BY <1>1, <1>4, StoreStays, GamesStay, VotesStay, TabsStay, CountersStay, MarksStay DEF Quiet, Sitting

LEMMA RestoreRoomQuiet == ASSUME Basic, RestoreRoom PROVE Quiet /\ Sitting
<1>1. /\ Resumes("restoreRoom") /\ Return
      /\ UNCHANGED <<storeVars, minted, marks, sock, parting, managed, votes, asks>>
  BY DEF RestoreRoom
<1>2. /\ wire # <<>> /\ Reply.at = "restoreRoom" /\ Reply.tab \in Tab /\ Owner[Reply.tab] \in User
      /\ Reply.seen \in MaybeCode
  BY <1>1, Resumed, FrameFields
<1>3. CASE ~InGrace(Reply.seen, Owner[Reply.tab])
  <2>1. UNCHANGED <<active, joined, games>>
    BY <1>3 DEF RestoreRoom
  <2>. QED
    BY <1>1, <1>2, <2>1, EndQuiet, TabsStay, VotesStay DEF tabVars
<1>4. CASE InGrace(Reply.seen, Owner[Reply.tab])
  <2>. DEFINE c == Reply.seen
             t == Reply.tab
  <2>1. /\ active' = [active EXCEPT ![t] = c] /\ joined' = [joined EXCEPT ![t] = @ \cup {c}]
        /\ games' = [games EXCEPT ![managed[c]] = Returned(@, Owner[t])]
        /\ c \in Code /\ Running(c)
    BY <1>2, <1>4 DEF RestoreRoom, InGrace, MaybeCode
  <2>. HIDE DEF c, t
  <2>2. /\ active \in [Tab -> MaybeCode] /\ joined \in [Tab -> SUBSET Code] /\ sock \in [Tab -> {"new", "on", "gone"}]
        /\ parting \in [Tab -> MaybeCode] /\ Minted /\ Manages /\ games \in [Game -> Match] /\ managed \in [Code -> Game \cup {NoGame}]
    BY TypeFields DEF Basic
  <2>3. PICK g \in Game : g = managed[c]
    BY <2>1, <2>2 DEF Running, Managed
  <2>4. c \in minted
    BY <2>1, <2>2, <2>3 DEF Running, Manages, Minted
  <2>5. TabsQuiet
    BY <1>1, <1>2, <2>1, <2>2, <2>4 DEF TabsQuiet, Minted, t
  <2>6. PICK m : m = Returned(games[g], Owner[t])
    OBVIOUS
  <2>7. SameMatch(games[g], m) /\ games' = [games EXCEPT ![g] = m]
    BY <1>2, <2>1, <2>2, <2>3, <2>6, ReturnedSame DEF t
  <2>8. GamesQuiet
    BY <1>1, <2>7, OneGameQuiet, VotesStay
  <2>. QED
    BY <1>1, <1>2, <2>5, <2>8, StoreStays, CountersStay, MarksStay, WireReturn DEF Quiet, Sitting
<1>. QED
  BY <1>3, <1>4

LEMMA GoOfflineQuiet ==
  ASSUME Basic, NEW t \in Tab, GoOffline(t), parting' \in [Tab -> MaybeCode]
  PROVE  TabsQuiet /\ CountersQuiet /\ putBack \subseteq putBack' /\ UNCHANGED <<storeVars, games, managed>>
<1>1. /\ sock' = [sock EXCEPT ![t] = "gone"] /\ active' = [active EXCEPT ![t] = NoCode]
      /\ joined' = [joined EXCEPT ![t] = {}] /\ UNCHANGED <<storeVars, minted, marks, games, managed, hurried>>
      /\ budget > 0 /\ budget' = budget - 1
      /\ cut' = IF Asking(t) THEN cut \cup {Owner[t]} ELSE cut
  BY DEF GoOffline, Spend
<1>2. /\ active \in [Tab -> MaybeCode] /\ joined \in [Tab -> SUBSET Code] /\ sock \in [Tab -> {"new", "on", "gone"}]
      /\ Minted /\ hurried \in SUBSET User /\ cut \in SUBSET User
  BY TypeFields DEF Basic
<1>3. TabsQuiet
  BY <1>1, <1>2 DEF TabsQuiet, Minted
<1>4. AsksGrow
  BY <1>1, <1>2, RoomSessionAssumption DEF AsksGrow
<1>. QED
  BY <1>1, <1>3, <1>4, CountersStay, MarksStay

LEMMA DropSeatedQuiet == ASSUME Basic, NEW t \in Tab, DropSeated(t) PROVE Quiet /\ Sitting
<1>1. /\ active[t] # NoCode /\ GoOffline(t) /\ UNCHANGED wire
      /\ \/ UNCHANGED <<parting, votes>>
         \/ ForgetVotes(Owner[t]) /\ parting' = [parting EXCEPT ![t] = active[t]]
  BY DEF DropSeated
<1>2. active[t] \in MaybeCode /\ Owner[t] \in User /\ parting \in [Tab -> MaybeCode]
  BY TypeFields, RoomSessionAssumption DEF Basic
<1>3. votes' \in [Code -> Ballot] /\ parting' \in [Tab -> MaybeCode]
  BY <1>1, <1>2, ForgetVotesTyped, VotesStay
<1>4. TabsQuiet /\ CountersQuiet /\ putBack \subseteq putBack' /\ UNCHANGED <<storeVars, games, managed>>
  BY <1>1, <1>3, GoOfflineQuiet
<1>. QED
  BY <1>1, <1>3, <1>4, StoreStays, GamesStay, WireStays DEF Quiet, Sitting

LEMMA DropUnseatedQuiet == ASSUME Basic, NEW t \in Tab, DropUnseated(t) PROVE Quiet /\ Sitting
<1>. DEFINE f == [at |-> "lookup", tab |-> t, seen |-> playerRoom[Owner[t]]]
<1>1. /\ GoOffline(t) /\ UNCHANGED parting
      /\ \/ Issue(f) /\ UNCHANGED votes
         \/ ForgetVotes(Owner[t]) /\ UNCHANGED wire
  BY DEF DropUnseated
<1>2. Owner[t] \in User /\ StoreTypeOK /\ parting \in [Tab -> MaybeCode]
  BY TypeFields, RoomSessionAssumption DEF Basic
<1>3. f \in Frame /\ f.at = "lookup"
  BY <1>2 DEF Frame, StoreTypeOK, MaybeCode
<1>. HIDE DEF f
<1>4. TabsQuiet /\ CountersQuiet /\ putBack \subseteq putBack' /\ UNCHANGED <<storeVars, games, managed>>
  BY <1>1, <1>2, GoOfflineQuiet
<1>5. votes' \in [Code -> Ballot]
  BY <1>1, <1>2, ForgetVotesTyped, VotesStay
<1>6. PlainWire /\ SeatedWire
  BY <1>1, <1>3, WireIssue, WireStays DEF Asks, Named, Naming, Entering, Fresh
<1>. QED
  BY <1>1, <1>4, <1>5, <1>6, StoreStays, GamesStay DEF Quiet, Sitting

LEMMA DropLookupQuiet == ASSUME Basic, DropLookup PROVE Quiet /\ Sitting
<1>1. /\ Resumes("lookup") /\ Return /\ ForgetVotes(Owner[Reply.tab])
      /\ parting' = [parting EXCEPT ![Reply.tab] = Reply.seen]
      /\ UNCHANGED <<storeVars, minted, marks, sock, active, joined, games, managed, asks>>
  BY DEF DropLookup
<1>2. /\ wire # <<>> /\ Reply.at = "lookup" /\ Reply.tab \in Tab /\ Owner[Reply.tab] \in User
      /\ Reply.seen \in MaybeCode
  BY <1>1, Resumed, FrameFields
<1>3. /\ active \in [Tab -> MaybeCode] /\ joined \in [Tab -> SUBSET Code] /\ sock \in [Tab -> {"new", "on", "gone"}]
      /\ parting \in [Tab -> MaybeCode] /\ Minted
  BY TypeFields DEF Basic
<1>4. TabsQuiet
  BY <1>1, <1>2, <1>3 DEF TabsQuiet, Minted
<1>. QED
  BY <1>1, <1>2, <1>4, EndQuiet, ForgetVotesTyped

LEMMA GiveUpQuiet == ASSUME Basic, NEW t \in Tab, GiveUp(t) PROVE Quiet /\ Sitting
<1>. DEFINE c == parting[t]
<1>1. /\ c # NoCode /\ parting' = [parting EXCEPT ![t] = NoCode]
      /\ \/ DropFromMatch(c, Owner[t]) /\ UNCHANGED storeVars
         \/ LeaveScript(c, {Owner[t]}) /\ UNCHANGED games
      /\ UNCHANGED <<minted, marks, sock, active, joined, managed, votes, wire, asks>>
  BY DEF GiveUp
<1>2. /\ active \in [Tab -> MaybeCode] /\ joined \in [Tab -> SUBSET Code] /\ sock \in [Tab -> {"new", "on", "gone"}]
      /\ parting \in [Tab -> MaybeCode] /\ Minted
  BY TypeFields DEF Basic
<1>3. c \in Code /\ Owner[t] \in User
  BY <1>1, <1>2, RoomSessionAssumption DEF MaybeCode
<1>4. TabsQuiet
  BY <1>1, <1>2 DEF TabsQuiet, Minted, MaybeCode
<1>. HIDE DEF c
<1>5. StatusQuiet /\ SeatsQuiet /\ GamesQuiet
  BY <1>1, <1>3, LeaveQuiet, DropQuiet, StoreStays, GamesStay, VotesStay
<1>. QED
  BY <1>1, <1>4, <1>5, CountersStay, MarksStay, WireStays DEF Quiet, Sitting

-----------------------------------------------------------------------------
(* One start at a time, and an honest status *)

Engaged(g, c) == games[g].code = c /\ games[g].phase \in {"loading", "starting", "running", "saving"}

StartedAt(i, c) == wire[i].at = "started" /\ wire[i].code = c

Open(c) == Exists(c) /\ rooms[c].status \in {"waiting", "finished"}

\* From the script that lets a start pass to the end of its match there is one
\* start of a room, and none while it waits or has finished.
OneStartAt(c) ==
  /\ \A i, j \in Wire : StartedAt(i, c) /\ StartedAt(j, c) => i = j
  /\ \A i \in Wire, g \in Game : ~(StartedAt(i, c) /\ Engaged(g, c))
  /\ \A g, h \in Game : Engaged(g, c) /\ Engaged(h, c) => g = h
  /\ Open(c) => (\A i \in Wire : ~StartedAt(i, c)) /\ (\A g \in Game : ~Engaged(g, c))

HonestAt(c) ==
  /\ Exists(c) /\ rooms[c].status = "countdown" =>
       (\E i \in Wire : StartedAt(i, c)) \/ MatchIn(c, {"loading", "starting"})
  /\ Exists(c) /\ rooms[c].status = "playing" =>
       MatchIn(c, {"running", "saving"}) \/ \E i \in Wire : wire[i].at = "deleteKeys" /\ wire[i].code = c

Loops ==
  /\ \A c \in Code \ reopened : OneStartAt(c)
  /\ \A c \in Code : HonestAt(c)

\* No start of room c is under way that was not before.
CalmStart(c, new) ==
  /\ \A j \in 1 .. Len(new) : ~(new[j].at = "started" /\ new[j].code = c)
  /\ \A g \in Game : Engaged(g, c)' => Engaged(g, c)
  /\ Open(c)' => Open(c)

\* What the status of room c says is as true as before.
CalmStatus(c, k) ==
  /\ Exists(c)' => Exists(c) /\ rooms'[c].status = rooms[c].status
  /\ k = 1 => ~(Reply.at \in {"started", "deleteKeys"} /\ Reply.code = c)
  /\ MatchIn(c, {"loading", "starting"}) => MatchIn(c, {"loading", "starting"})'
  /\ MatchIn(c, {"running", "saving"}) => MatchIn(c, {"running", "saving"})'

LEMMA OneStartKept ==
  ASSUME Basic, NEW c \in Code, NEW k, NEW new, Moves(k, new), CalmStart(c, new), OneStartAt(c)
  PROVE  OneStartAt(c)'
<1>1. wire \in Seq(Frame) /\ k \in {0, 1}
  BY TypeFields DEF Basic, Moves
<1>2. \A i \in Wire' : StartedAt(i, c)' => i \in Nat /\ i + k \in Wire /\ StartedAt(i + k, c)
  <2>. SUFFICES ASSUME NEW i \in Wire', StartedAt(i, c)' PROVE i \in Nat /\ i + k \in Wire /\ StartedAt(i + k, c)
    OBVIOUS
  <2>1. Stayed(k, i) \/ IsNew(k, new, i)
    BY <1>1, Origin
  <2>2. ~IsNew(k, new, i)
    BY DEF IsNew, CalmStart, StartedAt
  <2>. QED
    BY <2>1, <2>2 DEF Stayed, StartedAt, Wire
<1>3. \A i, j \in Wire' : StartedAt(i, c)' /\ StartedAt(j, c)' => i = j
  <2>. SUFFICES ASSUME NEW i \in Wire', NEW j \in Wire', StartedAt(i, c)', StartedAt(j, c)' PROVE i = j
    OBVIOUS
  <2>1. i + k = j + k /\ i \in Nat /\ j \in Nat
    BY <1>2 DEF OneStartAt
  <2>. QED
    BY <1>1, <2>1
<1>4. \A i \in Wire', g \in Game : ~(StartedAt(i, c)' /\ Engaged(g, c)')
  BY <1>2 DEF OneStartAt, CalmStart
<1>5. \A g, h \in Game : Engaged(g, c)' /\ Engaged(h, c)' => g = h
  BY DEF OneStartAt, CalmStart
<1>6. Open(c)' => (\A i \in Wire' : ~StartedAt(i, c)') /\ (\A g \in Game : ~Engaged(g, c)')
  BY <1>2 DEF OneStartAt, CalmStart
<1>. QED
  BY <1>3, <1>4, <1>5, <1>6 DEF OneStartAt

LEMMA HonestKept ==
  ASSUME Basic, NEW c \in Code, NEW k, NEW new, Moves(k, new), CalmStatus(c, k), HonestAt(c)
  PROVE  HonestAt(c)'
<1>1. wire \in Seq(Frame) /\ k \in {0, 1} /\ TypeOK
  BY TypeFields DEF Basic, Moves
<1>2. \A i \in Wire : wire[i].at \in {"started", "deleteKeys"} /\ wire[i].code = c => i > k
  <2>. SUFFICES ASSUME NEW i \in Wire, wire[i].at \in {"started", "deleteKeys"} /\ wire[i].code = c, ~(i > k)
                PROVE  FALSE
    OBVIOUS
  <2>1. k = 1 /\ i = 1 /\ wire # <<>>
    BY <1>1 DEF Wire
  <2>. QED
    BY <1>1, <2>1, HeadOfWire DEF CalmStatus
<1>3. \A i \in Wire : i > k => i - k \in Wire' /\ wire'[i - k] = wire[i]
  BY <1>1, Remains
<1>4. (\E i \in Wire : StartedAt(i, c)) => \E i \in Wire' : StartedAt(i, c)'
  BY <1>2, <1>3 DEF StartedAt
<1>5. (\E i \in Wire : wire[i].at = "deleteKeys" /\ wire[i].code = c)
        => \E i \in Wire' : wire'[i].at = "deleteKeys" /\ wire'[i].code = c
  BY <1>2, <1>3
<1>. QED
  BY <1>4, <1>5 DEF HonestAt, CalmStatus

LEMMA QuietKeepsLoops == ASSUME Basic, Loops, Quiet PROVE Loops'
<1>1. PICK k, new : Plain(k, new)
  BY DEF Quiet, PlainWire
<1>2. Moves(k, new) /\ reopened' = reopened /\ StatusQuiet /\ GamesQuiet
  BY <1>1 DEF Plain, Tame, Quiet, CountersQuiet
<1>3. \A c \in Code : CalmStart(c, new)
  BY <1>1, <1>2 DEF CalmStart, Plain, Engaged, GamesQuiet, SameMatch, StatusQuiet, Open
<1>4. \A c \in Code : CalmStatus(c, k)
  BY <1>1, <1>2 DEF CalmStatus, Plain, MatchIn, GamesQuiet, SameMatch, StatusQuiet
<1>. QED
  BY <1>2, <1>3, <1>4, OneStartKept, HonestKept DEF Loops

\* What Basic asks of the parts of a step.
StoreSound == StoreTypeOK' /\ \A c \in Code : Exists(c)' => c \in minted'

TabsSound ==
  /\ sock' \in [Tab -> {"new", "on", "gone"}] /\ joined' \in [Tab -> SUBSET Code]
  /\ active' \in [Tab -> minted' \cup {NoCode}] /\ parting' \in [Tab -> MaybeCode]

GamesSound ==
  /\ games' \in [Game -> Match] /\ managed' \in [Code -> Game \cup {NoGame}] /\ votes' \in [Code -> Ballot]
  /\ \A g \in Game : games'[g].phase # "unmade" => games'[g].code \in minted'
  /\ Manages'

CountersSound ==
  /\ minted \subseteq minted' /\ minted' \in SUBSET Code /\ budget' \in 0 .. MaxRequests
  /\ putBack' \in SUBSET User /\ reopened' \in SUBSET Code /\ astray' \in SUBSET User
  /\ AsksGrow

LEMMA SoundKeepsBasic ==
  ASSUME Basic, StoreSound, TabsSound, GamesSound, CountersSound, NEW k, NEW new, Tame(k, new)
  PROVE  Basic'
<1>1. /\ wire' \in Seq(Frame) /\ OneAsk'
      /\ \A i \in Wire' : Naming(wire'[i]) => wire'[i].code \in minted'
  BY TameWire DEF CountersSound, AsksGrow
<1>2. TypeOK'
  <2>1. active' \in [Tab -> MaybeCode]
    BY DEF TabsSound, CountersSound, MaybeCode
  <2>. QED
    BY <1>1, <2>1 DEF TypeOK, StoreSound, TabsSound, GamesSound, CountersSound, AsksGrow
<1>. QED
  BY <1>1, <1>2 DEF Basic, Minted, StoreSound, TabsSound, GamesSound

LEMMA StoreSounds == ASSUME Basic, StatusQuiet, UNCHANGED minted PROVE StoreSound
BY DEF Basic, Minted, StatusQuiet, StoreSound

LEMMA TabsSounds == ASSUME TabsQuiet, UNCHANGED minted PROVE TabsSound
BY DEF TabsQuiet, TabsSound

LEMMA GamesSounds == ASSUME Basic, GamesQuiet, UNCHANGED minted PROVE GamesSound
<1>1. Minted /\ Manages /\ managed \in [Code -> Game \cup {NoGame}]
  BY TypeFields DEF Basic
<1>2. Manages'
  BY <1>1 DEF Manages, Managed, GamesQuiet, SameMatch
<1>. QED
  BY <1>1, <1>2 DEF Minted, GamesQuiet, SameMatch, GamesSound

LEMMA CountersSounds == ASSUME Basic, CountersQuiet PROVE CountersSound
BY TypeFields DEF Basic, CountersQuiet, CountersSound

\* Where nothing of a room is touched.
LEMMA OthersCalm ==
  ASSUME Basic, Loops, NEW c \in Code, NEW k, NEW new, Moves(k, new), reopened \subseteq reopened',
         CalmStart(c, new)
  PROVE  /\ c \notin reopened' => OneStartAt(c)'
         /\ CalmStatus(c, k) => HonestAt(c)'
<1>1. c \notin reopened' => OneStartAt(c)
  BY DEF Loops
<1>. QED
  BY <1>1, OneStartKept, HonestKept DEF Loops

-----------------------------------------------------------------------------
(* The steps that open a room, start a match or end it *)

LEMMA CleanedUpFields ==
  ASSUME Basic, NEW kind, CleanedUp(kind)
  PROVE  /\ wire # <<>> /\ Reply \in Frame /\ Reply.at \in {"cleanup", "cleaned"} /\ 1 \in Wire /\ wire[1] = Reply
         /\ Reply.kind = kind /\ Reply.tab \in Tab /\ Owner[Reply.tab] \in User
         /\ Reply.code \in MaybeCode /\ Reply.seen \in MaybeCode
         /\ Reply.at = "cleanup" => Reply.seen = NoCode
         /\ joined' \in [Tab -> SUBSET Code]
<1>1. /\ wire # <<>> /\ Reply.at \in {"cleanup", "cleaned"} /\ Reply.kind = kind
      /\ Reply.at = "cleanup" => Reply.seen = NoCode
      /\ joined' = [joined EXCEPT ![Reply.tab] = @ \ {Reply.seen}]
  BY DEF CleanedUp, Resumes
<1>2. Reply \in Frame /\ 1 \in Wire /\ wire[1] = Reply
  BY <1>1, HeadOfWire DEF Basic
<1>3. Reply.tab \in Tab /\ Reply.code \in MaybeCode /\ Reply.seen \in MaybeCode
  BY <1>1, <1>2, FrameFields
<1>. QED
  BY <1>1, <1>2, <1>3, TypeFields, RoomSessionAssumption DEF Basic

LEMMA CreateRoomStep ==
  ASSUME Basic, NEW c \in Code, CreateRoom(c)
  PROVE  Basic' /\ (Loops => Loops')
<1>. DEFINE t == Reply.tab
           u == Owner[t]
           f == [at |-> "createMapping", tab |-> t, code |-> c]
<1>1. /\ CleanedUp("create") /\ c \notin minted /\ minted' = minted \cup {c}
      /\ rooms' = [rooms EXCEPT ![c] = NewRoom(u)] /\ UNCHANGED <<playerRoom, index>> /\ Then(f)
      /\ UNCHANGED <<sock, parting, active, games, managed, votes, asks>> /\ LetIn(u, c)
  BY DEF CreateRoom, SetRoom, gameVars
<1>2. /\ wire # <<>> /\ Reply.at \in {"cleanup", "cleaned"} /\ t \in Tab /\ u \in User
      /\ joined' \in [Tab -> SUBSET Code]
  BY <1>1, CleanedUpFields
<1>3. f \in Frame /\ f.at = "createMapping" /\ f.tab = Reply.tab /\ f.code = c
  BY <1>2 DEF Frame
<1>. HIDE DEF u, f
<1>4. /\ StoreTypeOK /\ Minted /\ Manages /\ minted \in SUBSET Code /\ active \in [Tab -> MaybeCode]
      /\ sock \in [Tab -> {"new", "on", "gone"}] /\ games \in [Game -> Match]
      /\ managed \in [Code -> Game \cup {NoGame}] /\ votes \in [Code -> Ballot]
      /\ budget \in 0 .. MaxRequests /\ putBack \in SUBSET User /\ reopened \in SUBSET Code
      /\ parting \in [Tab -> MaybeCode] /\ AsksGrow
      /\ astray' \in SUBSET User /\ putBack' = putBack /\ reopened' = reopened
  BY <1>1, <1>2, TypeFields, LetInMarks, NobodyHurries DEF Basic, asks
<1>5. Tame(1, <<f>>)
  BY <1>1, <1>2, <1>3, WireThen DEF Asks
<1>6. Basic'
  <2>1. StoreTypeOK'
    BY <1>1, <1>2, <1>4, NewRoomTyped, SetRoomTyped DEF SetRoom, MaybeRoom
  <2>2. StoreSound
    BY <1>1, <1>4, <2>1 DEF StoreSound, StoreTypeOK, Exists, Minted
  <2>3. TabsSound
    BY <1>1, <1>2, <1>4 DEF TabsSound, Minted
  <2>4. GamesSound
    BY <1>1, <1>4 DEF GamesSound, Minted, Manages, Managed
  <2>5. CountersSound
    BY <1>1, <1>4 DEF CountersSound, asks
  <2>. QED
    BY <1>5, <2>2, <2>3, <2>4, <2>5, SoundKeepsBasic
<1>7. ASSUME Loops PROVE Loops'
  <2>1. Moves(1, <<f>>) /\ reopened' = reopened /\ putBack' = putBack
    BY <1>1, <1>4, <1>5 DEF Tame
  <2>2. \A d \in Code : \A j \in 1 .. Len(<<f>>) : ~(<<f>>[j].at = "started" /\ <<f>>[j].code = d)
    BY <1>3
  <2>3. \A d \in Code \ {c} : CalmStart(d, <<f>>) /\ CalmStatus(d, 1)
    BY <1>1, <1>2, <1>4, <2>2 DEF CalmStart, CalmStatus, Engaged, Open, Exists, MatchIn, StoreTypeOK
  <2>4. OneStartAt(c)' /\ HonestAt(c)'
    <3>1. \A g \in Game : ~Engaged(g, c)'
      BY <1>1, <1>4 DEF Engaged, Minted
    <3>2. \A i \in Wire' : ~StartedAt(i, c)'
      <4>. SUFFICES ASSUME NEW i \in Wire', StartedAt(i, c)' PROVE FALSE
        OBVIOUS
      <4>1. wire \in Seq(Frame) /\ (Stayed(1, i) \/ IsNew(1, <<f>>, i))
        BY <2>1, Origin, TypeFields DEF Basic
      <4>2. ~IsNew(1, <<f>>, i)
        BY <2>2 DEF IsNew, StartedAt
      <4>. QED
        BY <1>1, <1>4, <4>1, <4>2 DEF Stayed, StartedAt, Minted, Named, Naming
    <3>3. rooms'[c].status = "waiting"
      BY <1>1, <1>4 DEF StoreTypeOK, NewRoom
    <3>. QED
      BY <3>1, <3>2, <3>3 DEF OneStartAt, HonestAt
  <2>. QED
    BY <1>7, <2>1, <2>3, <2>4, OthersCalm DEF Loops
<1>. QED
  BY <1>6, <1>7

\* A match changes its phase, or is made.
LEMMA NewStatus ==
  ASSUME Basic, NEW c \in Code, Exists(c), NEW s \in Status,
         rooms' = [rooms EXCEPT ![c].status = s], UNCHANGED <<playerRoom, index, minted>>
  PROVE  /\ StoreSound /\ SeatsQuiet
         /\ Exists(c)' /\ rooms'[c].status = s /\ rooms'[c] \in Room
         /\ \A d \in Code \ {c} : rooms'[d] = rooms[d]
<1>1. StoreTypeOK /\ Minted /\ rooms[c] \in Room
  BY TypeFields, MaybeRooms DEF Basic
<1>2. StoreTypeOK' /\ rooms'[c] \in Room /\ rooms'[c].status = s
  BY <1>1, StatusTyped
<1>3. /\ \A d \in Code \ {c} : rooms'[d] = rooms[d]
      /\ rooms'[c].players = rooms[c].players
  BY <1>1 DEF StoreTypeOK, Room
<1>4. \A d \in Code : (Exists(d)' <=> Exists(d))
  <2>1. Exists(c)'
    BY <1>2, RoomStoreAssumption DEF Exists
  <2>. QED
    BY <1>3, <2>1 DEF Exists
<1>5. StoreSound
  BY <1>1, <1>2, <1>4 DEF StoreSound, Minted
<1>6. SeatsQuiet
  BY <1>3, <1>4 DEF SeatsQuiet, Member
<1>. QED
  BY <1>2, <1>3, <1>4, <1>5, <1>6

LEMMA CheckStartStep ==
  ASSUME Basic, CheckStart
  PROVE  Basic' /\ Sitting /\ (Loops => Loops')
<1>1. Resumes("checkStart") /\ UNCHANGED <<minted, marks, tabVars, games, managed, votes, asks>>
  BY DEF CheckStart, gameVars
<1>2. wire # <<>> /\ Reply \in Frame /\ Reply.at = "checkStart" /\ Reply.code \in minted /\ minted \in SUBSET Code
  BY <1>1, Resumed, TypeFields DEF Named, Naming, Basic
<1>3. CASE Return /\ UNCHANGED storeVars
  <2>1. Quiet /\ Sitting
    BY <1>1, <1>2, <1>3, EndQuiet, TabsStay, VotesStay
  <2>. QED
    BY <2>1, QuietKeepsBasic, QuietKeepsLoops
<1>4. CASE StartScript(Reply.code) /\ Then([at |-> "started", code |-> Reply.code, copy |-> rooms'[Reply.code]])
  <2>1. PICK c \in Code : c = Reply.code
    BY <1>2
  <2>. DEFINE f == [at |-> "started", code |-> c, copy |-> rooms'[c]]
  <2>2. /\ Exists(c) /\ rooms[c].status = "waiting"
        /\ rooms' = [rooms EXCEPT ![c].status = "countdown"] /\ UNCHANGED <<playerRoom, index>>
        /\ Then(f)
    BY <1>4, <2>1 DEF StartScript, CanStart
  <2>3. /\ StoreSound /\ SeatsQuiet /\ rooms'[c].status = "countdown" /\ rooms'[c] \in Room
        /\ \A d \in Code \ {c} : rooms'[d] = rooms[d]
    BY <1>1, <2>2, NewStatus DEF Status
  <2>4. f \in Frame /\ f.at = "started" /\ f.code = c
    BY <2>3 DEF Frame
  <2>. HIDE DEF f
  <2>5. Tame(1, <<f>>) /\ SeatedWire
    BY <1>1, <1>2, <2>1, <2>2, <2>4, WireThen DEF Asks, Entering, Fresh
  <2>6. TabsQuiet /\ GamesQuiet /\ CountersQuiet /\ putBack \subseteq putBack'
    BY <1>1, TabsStay, GamesStay, VotesStay, CountersStay, MarksStay
  <2>7. Basic'
    BY <1>1, <2>3, <2>5, <2>6, TabsSounds, GamesSounds, CountersSounds, SoundKeepsBasic
  <2>8. ASSUME Loops PROVE Loops'
    <3>1. Moves(1, <<f>>) /\ reopened' = reopened /\ wire \in Seq(Frame) /\ Len(<<f>>) = 1 /\ <<f>>[1] = f
      BY <1>1, <2>5, MarksStay, TypeFields DEF Tame, Basic
    <3>2. \A d \in Code \ {c} : CalmStart(d, <<f>>) /\ CalmStatus(d, 1)
      BY <1>1, <1>2, <2>3, <2>4, <3>1 DEF CalmStart, CalmStatus, Engaged, Open, Exists, MatchIn
    <3>3. \A i \in Wire' : StartedAt(i, c)' => IsNew(1, <<f>>, i) \/ (i + 1 \in Wire /\ StartedAt(i + 1, c))
      BY <3>1, Origin DEF Stayed, StartedAt
    <3>4. c \notin reopened => OneStartAt(c)'
      <4>. SUFFICES ASSUME c \notin reopened PROVE OneStartAt(c)'
        OBVIOUS
      <4>1. (\A i \in Wire : ~StartedAt(i, c)) /\ (\A g \in Game : ~Engaged(g, c))
        BY <2>2, <2>8 DEF Loops, OneStartAt, Open
      <4>2. \A i, j \in Wire' : StartedAt(i, c)' /\ StartedAt(j, c)' => i = j
        BY <3>1, <3>3, <4>1 DEF IsNew
      <4>3. \A g \in Game : ~Engaged(g, c)'
        BY <1>1, <4>1 DEF Engaged
      <4>4. ~Open(c)'
        BY <2>3 DEF Open
      <4>. QED
        BY <4>2, <4>3, <4>4 DEF OneStartAt
    <3>5. HonestAt(c)'
      <4>1. PICK n \in Nat : n = Len(wire)
        BY <3>1
      <4>2. n \in Wire' /\ wire'[n] = f
        BY <3>1, <4>1 DEF Moves, Wire
      <4>3. \E i \in Wire' : StartedAt(i, c)'
        BY <2>4, <4>2 DEF StartedAt
      <4>. QED
        BY <2>3, <4>3 DEF HonestAt
    <3>. QED
      BY <2>8, <3>1, <3>2, <3>4, <3>5, OthersCalm DEF Loops
  <2>. QED
    BY <2>3, <2>5, <2>6, <2>7, <2>8 DEF Sitting
<1>. QED
  BY <1>3, <1>4 DEF CheckStart

\* The match of a start, with or without a map to read first.
LEMMA NewMatchStep ==
  ASSUME Basic, NEW g \in Game, NEW phase \in {"starting", "loading"},
         Resumes("started"), games[g].phase = "unmade", Return,
         games' = [games EXCEPT ![g] = MatchOf(phase, Reply.code, Reply.copy.players)],
         \/ managed' = [managed EXCEPT ![Reply.code] = g] /\ phase = "starting"
         \/ UNCHANGED managed,
         UNCHANGED <<storeVars, minted, marks, tabVars, votes, asks>>
  PROVE  Basic' /\ Sitting /\ (Loops => Loops')
<1>1. /\ wire # <<>> /\ Reply \in Frame /\ Reply.at = "started" /\ Reply.code \in minted
      /\ 1 \in Wire /\ wire[1] = Reply /\ minted \in SUBSET Code
      /\ games \in [Game -> Match] /\ managed \in [Code -> Game \cup {NoGame}] /\ votes \in [Code -> Ballot]
      /\ Minted /\ Manages /\ wire \in Seq(Frame)
  BY Resumed, TypeFields DEF Named, Naming, Basic
<1>2. PICK c \in Code : c = Reply.code
  BY <1>1
<1>3. PICK m : m = MatchOf(phase, c, Reply.copy.players)
  OBVIOUS
<1>4. m \in Match /\ m.phase = phase /\ m.code = c
  <2>1. Reply.copy.players \in SUBSET User
    BY <1>1, FrameFields, RoomFields
  <2>. QED
    BY <1>3, <2>1, MatchOfTyped
<1>5. games' = [games EXCEPT ![g] = m] /\ games' \in [Game -> Match] /\ games'[g] = m
      /\ \A h \in Game \ {g} : games'[h] = games[h]
  BY <1>1, <1>2, <1>3, <1>4
<1>6. Tame(1, <<>>) /\ SeatedWire
  BY <1>1, WireReturn
<1>7. StatusQuiet /\ SeatsQuiet /\ TabsQuiet /\ CountersQuiet /\ putBack \subseteq putBack'
  BY StoreStays, TabsStay, CountersStay, MarksStay
<1>8. GamesSound
  <2>1. managed' \in [Code -> Game \cup {NoGame}] /\ votes' \in [Code -> Ballot]
    BY <1>1
  <2>2. Manages'
    <3>. SUFFICES ASSUME NEW d \in Code, managed'[d] # NoGame
                  PROVE  games'[managed'[d]].code = d /\ games'[managed'[d]].phase \notin {"unmade", "loading"}
      BY DEF Manages, Managed
    <3>1. CASE managed'[d] = managed[d]
      <4>1. managed[d] \in Game \ {g}
        BY <1>1, <3>1 DEF Manages, Managed
      <4>. QED
        BY <1>1, <1>5, <3>1, <4>1 DEF Manages, Managed
    <3>2. CASE managed'[d] # managed[d]
      <4>1. d = c /\ managed'[d] = g /\ phase = "starting"
        BY <1>1, <1>2, <3>2
      <4>. QED
        BY <1>4, <1>5, <4>1
    <3>. QED
      BY <3>1, <3>2
  <2>. QED
    BY <1>1, <1>2, <1>4, <1>5, <2>1, <2>2 DEF GamesSound, Minted
<1>9. Basic'
  BY <1>6, <1>7, <1>8, StoreSounds, TabsSounds, CountersSounds, SoundKeepsBasic
<1>10. ASSUME Loops PROVE Loops'
  <2>1. Moves(1, <<>>) /\ reopened' = reopened /\ Len(<<>>) = 0 /\ UNCHANGED rooms
    BY <1>6, MarksStay DEF Tame, storeVars
  <2>2. ~Engaged(g, c) /\ Engaged(g, c)' /\ \A d \in Code \ {c} : ~Engaged(g, d)'
    BY <1>4, <1>5 DEF Engaged
  <2>3. \A h \in Game \ {g}, d \in Code : Engaged(h, d)' <=> Engaged(h, d)
    BY <1>5 DEF Engaged
  <2>4. \A d \in Code \ {c} : CalmStart(d, <<>>)
    BY <2>1, <2>2, <2>3 DEF CalmStart, Open, Exists
  <2>5. \A d \in Code : /\ MatchIn(d, {"loading", "starting"}) => MatchIn(d, {"loading", "starting"})'
                        /\ MatchIn(d, {"running", "saving"}) => MatchIn(d, {"running", "saving"})'
    <3>. SUFFICES ASSUME NEW d \in Code, NEW P \in {{"loading", "starting"}, {"running", "saving"}}, MatchIn(d, P)
                  PROVE  MatchIn(d, P)'
      OBVIOUS
    <3>1. PICK h \in Game : games[h].code = d /\ games[h].phase \in P
      BY DEF MatchIn
    <3>2. games'[h] = games[h]
      BY <1>5, <3>1
    <3>. QED
      BY <3>1, <3>2 DEF MatchIn
  <2>6. \A d \in Code \ {c} : CalmStatus(d, 1)
    BY <1>2, <2>1, <2>5 DEF CalmStatus, Exists
  <2>7. c \notin reopened => OneStartAt(c)'
    <3>. SUFFICES ASSUME c \notin reopened PROVE OneStartAt(c)'
      OBVIOUS
    <3>1. OneStartAt(c) /\ StartedAt(1, c)
      BY <1>1, <1>2, <1>10 DEF Loops, StartedAt
    <3>2. \A h \in Game : ~Engaged(h, c)
      BY <1>1, <3>1 DEF OneStartAt
    <3>3. \A i \in Wire' : ~StartedAt(i, c)'
      <4>. SUFFICES ASSUME NEW i \in Wire', StartedAt(i, c)' PROVE FALSE
        OBVIOUS
      <4>1. Stayed(1, i)
        BY <1>1, <2>1, Origin DEF IsNew
      <4>2. i + 1 = 1 /\ i \in Nat /\ i >= 1
        BY <1>1, <3>1, <4>1 DEF OneStartAt, Stayed, StartedAt, Wire
      <4>. QED
        BY <4>2
    <3>4. \A h, n \in Game : Engaged(h, c)' /\ Engaged(n, c)' => h = n
      BY <2>3, <3>2
    <3>5. ~Open(c)'
      BY <1>1, <2>1, <3>1 DEF OneStartAt, Open, Exists
    <3>. QED
      BY <3>3, <3>4, <3>5 DEF OneStartAt
  <2>8. HonestAt(c)'
    <3>1. MatchIn(c, {"loading", "starting"})'
      BY <1>4, <1>5 DEF MatchIn
    <3>2. Exists(c)' /\ rooms'[c].status = "playing" =>
             MatchIn(c, {"running", "saving"})' \/ \E i \in Wire' : wire'[i].at = "deleteKeys" /\ wire'[i].code = c
      <4>. SUFFICES ASSUME Exists(c), rooms[c].status = "playing", ~MatchIn(c, {"running", "saving"})
                    PROVE  \E i \in Wire' : wire'[i].at = "deleteKeys" /\ wire'[i].code = c
        BY <2>1, <2>5 DEF Exists
      <4>1. PICK i \in Wire : wire[i].at = "deleteKeys" /\ wire[i].code = c
        BY <1>10 DEF Loops, HonestAt
      <4>2. i # 1
        BY <1>1, <4>1
      <4>3. i > 1
        BY <4>2 DEF Wire
      <4>4. i - 1 \in Wire' /\ wire'[i - 1] = wire[i]
        BY <1>1, <2>1, <4>3, Remains
      <4>. QED
        BY <4>1, <4>4
    <3>. QED
      BY <3>1, <3>2 DEF HonestAt
  <2>. QED
    BY <1>10, <2>1, <2>4, <2>6, <2>7, <2>8, OthersCalm DEF Loops
<1>. QED
  BY <1>6, <1>7, <1>9, <1>10 DEF Sitting

\* A match that goes on to another phase.
Phases == {"loading", "starting", "running", "saving", "stopped"}

Goes(g, q) ==
  /\ games[g].phase \in Phases /\ q \in Phases
  /\ games' = [games EXCEPT ![g].phase = q]

LEMMA PhaseFacts ==
  ASSUME Basic, NEW g \in Game, NEW q, Goes(g, q)
  PROVE  /\ games' \in [Game -> Match]
         /\ games'[g].code = games[g].code /\ games'[g].phase = q
         /\ \A h \in Game \ {g} : games'[h] = games[h]
         /\ games[g].code \in minted /\ games[g].code \in Code
         /\ \A h \in Game : games'[h].phase # "unmade" => games'[h].code \in minted
<1>1. games \in [Game -> Match] /\ games[g] \in Match /\ minted \in SUBSET Code /\ Minted
  BY TypeFields DEF Basic
<1>2. PICK m : m = [games[g] EXCEPT !.phase = q]
  OBVIOUS
<1>3. m \in Match /\ m.code = games[g].code /\ m.phase = q
  BY <1>1, <1>2 DEF Match, Phases, Goes
<1>4. games' = [games EXCEPT ![g] = m]
  BY <1>1, <1>2 DEF Goes
<1>5. games' \in [Game -> Match] /\ games'[g] = m /\ \A h \in Game \ {g} : games'[h] = games[h]
  BY <1>1, <1>3, <1>4
<1>6. games[g].code \in minted
  BY <1>1 DEF Minted, Phases, Goes
<1>. QED
  BY <1>1, <1>3, <1>5, <1>6 DEF Minted

LEMMA PhaseManages ==
  ASSUME Basic, NEW g \in Game, NEW q, Goes(g, q), q # "loading", UNCHANGED <<minted, managed, votes>>
  PROVE  GamesSound
<1>1. managed \in [Code -> Game \cup {NoGame}] /\ votes \in [Code -> Ballot] /\ Manages
  BY TypeFields DEF Basic
<1>2. Manages'
  <2>. SUFFICES ASSUME NEW d \in Code, managed[d] # NoGame
                PROVE  games'[managed[d]].code = d /\ games'[managed[d]].phase \notin {"unmade", "loading"}
    BY DEF Manages, Managed
  <2>1. managed[d] \in Game /\ games[managed[d]].code = d /\ games[managed[d]].phase \notin {"unmade", "loading"}
    BY <1>1 DEF Manages, Managed
  <2>2. games'[managed[d]] = games[managed[d]] \/ managed[d] = g
    BY <2>1, PhaseFacts
  <2>. QED
    BY <2>1, <2>2, PhaseFacts DEF Phases, Goes
<1>. QED
  BY <1>1, <1>2, PhaseFacts DEF GamesSound

LEMMA PhaseMatchIn ==
  ASSUME Basic, NEW g \in Game, NEW q, Goes(g, q),
         NEW d \in Code, NEW P, d = games[g].code /\ games[g].phase \in P => q \in P, MatchIn(d, P)
  PROVE  MatchIn(d, P)'
<1>1. PICK h \in Game : games[h].code = d /\ games[h].phase \in P
  BY DEF MatchIn
<1>2. h = g \/ games'[h] = games[h]
  BY PhaseFacts
<1>3. games'[h].code = d /\ games'[h].phase \in P
  BY <1>1, <1>2, PhaseFacts
<1>. QED
  BY <1>3 DEF MatchIn

LEMMA PhaseEngaged ==
  ASSUME Basic, NEW g \in Game, NEW q, Goes(g, q),
         q # "stopped" => games[g].phase # "stopped"
  PROVE  /\ \A h \in Game, d \in Code : Engaged(h, d)' => Engaged(h, d)
         /\ q = "stopped" => \A d \in Code : ~Engaged(g, d)'
BY PhaseFacts DEF Engaged, Phases, Goes

LEMMA StatusScriptFacts ==
  ASSUME Basic, NEW c \in Code, NEW s \in Status, NEW E, StatusScript(c, s, E), UNCHANGED minted
  PROVE  /\ StoreSound /\ SeatsQuiet
         /\ \A d \in Code \ {c} : rooms'[d] = rooms[d]
         /\ Exists(c)' <=> Exists(c)
         /\ Exists(c) /\ rooms[c].status \in E => rooms'[c].status = s
         /\ ~(Exists(c) /\ rooms[c].status \in E) => UNCHANGED rooms
<1>1. CASE Exists(c) /\ rooms[c].status \in E
  BY <1>1, NewStatus DEF StatusScript
<1>2. CASE ~(Exists(c) /\ rooms[c].status \in E)
  <2>1. UNCHANGED storeVars
    BY <1>2 DEF StatusScript
  <2>2. StoreSound /\ SeatsQuiet
    BY <2>1, StoreStays, StoreSounds
  <2>. QED
    BY <1>2, <2>1, <2>2 DEF storeVars, Exists
<1>. QED
  BY <1>1, <1>2

\* The last of a start.
LEMMA StartOver ==
  ASSUME Basic, NEW c \in Code, OneStartAt(c), NEW g \in Game, Engaged(g, c), UNCHANGED wire,
         \A h \in Game : Engaged(h, c)' => Engaged(h, c), ~Engaged(g, c)'
  PROVE  OneStartAt(c)'
<1>1. \A h \in Game : ~Engaged(h, c)'
  BY DEF OneStartAt
<1>2. \A i \in Wire' : ~StartedAt(i, c)'
  BY DEF OneStartAt, Wire, StartedAt
<1>. QED
  BY <1>1, <1>2 DEF OneStartAt

LEMMA MapLoadedStep ==
  ASSUME Basic, NEW g \in Game, MapLoaded(g)
  PROVE  Basic' /\ Sitting /\ (Loops => Loops')
<1>1. /\ games[g].phase = "loading" /\ games' = [games EXCEPT ![g].phase = "starting"]
      /\ managed' = [managed EXCEPT ![games[g].code] = g]
      /\ UNCHANGED <<storeVars, minted, marks, tabVars, votes, wire, asks>>
  BY DEF MapLoaded
<1>2. /\ managed \in [Code -> Game \cup {NoGame}] /\ votes \in [Code -> Ballot] /\ Manages
      /\ Goes(g, "starting")
  BY <1>1, TypeFields DEF Basic, Phases, Goes
<1>3. StatusQuiet /\ SeatsQuiet /\ TabsQuiet /\ CountersQuiet /\ putBack \subseteq putBack' /\ reopened' = reopened
  BY <1>1, StoreStays, TabsStay, CountersStay, MarksStay
<1>4. Tame(0, <<>>) /\ SeatedWire
  BY <1>1, WireStays
<1>5. GamesSound
  <2>1. Manages'
    <3>. SUFFICES ASSUME NEW d \in Code, managed'[d] # NoGame
                  PROVE  games'[managed'[d]].code = d /\ games'[managed'[d]].phase \notin {"unmade", "loading"}
      BY DEF Manages, Managed
    <3>1. CASE d = games[g].code
      <4>1. games'[g].code = d /\ games'[g].phase = "starting"
        BY <1>2, <3>1, PhaseFacts
      <4>2. managed'[d] = g
        BY <1>1, <1>2, <3>1
      <4>. QED
        BY <4>1, <4>2
    <3>2. CASE d # games[g].code
      <4>1. managed'[d] = managed[d] /\ managed[d] \in Game \ {g}
        BY <1>1, <1>2, <3>2 DEF Manages, Managed
      <4>2. games'[managed[d]] = games[managed[d]]
        BY <1>1, <1>2, <4>1, PhaseFacts
      <4>. QED
        BY <1>2, <4>1, <4>2 DEF Manages, Managed
    <3>. QED
      BY <3>1, <3>2
  <2>. QED
    BY <1>1, <1>2, <2>1, PhaseFacts DEF GamesSound
<1>6. Basic'
  BY <1>1, <1>3, <1>4, <1>5, StoreSounds, TabsSounds, CountersSounds, SoundKeepsBasic
<1>7. ASSUME Loops PROVE Loops'
  <2>1. Moves(0, <<>>) /\ Len(<<>>) = 0 /\ UNCHANGED rooms
    BY <1>1, <1>4 DEF Tame, storeVars
  <2>2. \A d \in Code : CalmStart(d, <<>>)
    <3>1. \A h \in Game, d \in Code : Engaged(h, d)' => Engaged(h, d)
      BY <1>1, <1>2, PhaseEngaged
    <3>. QED
      BY <2>1, <3>1 DEF CalmStart, Open, Exists
  <2>3. \A d \in Code : CalmStatus(d, 0)
    <3>1. \A d \in Code : MatchIn(d, {"loading", "starting"}) => MatchIn(d, {"loading", "starting"})'
      BY <1>1, <1>2, PhaseMatchIn
    <3>2. \A d \in Code : MatchIn(d, {"running", "saving"}) => MatchIn(d, {"running", "saving"})'
      BY <1>1, <1>2, PhaseMatchIn
    <3>. QED
      BY <2>1, <3>1, <3>2 DEF CalmStatus, Exists
  <2>. QED
    BY <1>3, <1>7, <2>1, <2>2, <2>3, OthersCalm DEF Loops
<1>. QED
  BY <1>3, <1>4, <1>6, <1>7 DEF Sitting

LEMMA GameOverStep ==
  ASSUME Basic, NEW g \in Game, GameOver(g)
  PROVE  Basic' /\ Sitting /\ (Loops => Loops')
<1>1. /\ games[g].phase = "running" /\ games' = [games EXCEPT ![g].phase = "saving"]
      /\ UNCHANGED <<storeVars, minted, marks, tabVars, managed, votes, wire, asks>>
  BY DEF GameOver
<1>2. Goes(g, "saving")
  BY <1>1 DEF Phases, Goes
<1>3. StatusQuiet /\ SeatsQuiet /\ TabsQuiet /\ CountersQuiet /\ putBack \subseteq putBack' /\ reopened' = reopened
  BY <1>1, StoreStays, TabsStay, CountersStay, MarksStay
<1>4. Tame(0, <<>>) /\ SeatedWire /\ GamesSound
  BY <1>1, <1>2, WireStays, PhaseManages
<1>5. Basic'
  BY <1>1, <1>3, <1>4, StoreSounds, TabsSounds, CountersSounds, SoundKeepsBasic
<1>6. ASSUME Loops PROVE Loops'
  <2>1. Moves(0, <<>>) /\ Len(<<>>) = 0 /\ UNCHANGED rooms
    BY <1>1, <1>4 DEF Tame, storeVars
  <2>2. \A d \in Code : CalmStart(d, <<>>)
    <3>1. \A h \in Game, d \in Code : Engaged(h, d)' => Engaged(h, d)
      BY <1>1, <1>2, PhaseEngaged
    <3>. QED
      BY <2>1, <3>1 DEF CalmStart, Open, Exists
  <2>3. \A d \in Code : CalmStatus(d, 0)
    <3>1. \A d \in Code : MatchIn(d, {"loading", "starting"}) => MatchIn(d, {"loading", "starting"})'
      BY <1>1, <1>2, PhaseMatchIn
    <3>2. \A d \in Code : MatchIn(d, {"running", "saving"}) => MatchIn(d, {"running", "saving"})'
      BY <1>1, <1>2, PhaseMatchIn
    <3>. QED
      BY <2>1, <3>1, <3>2 DEF CalmStatus, Exists
  <2>. QED
    BY <1>3, <1>6, <2>1, <2>2, <2>3, OthersCalm DEF Loops
<1>. QED
  BY <1>3, <1>4, <1>5, <1>6 DEF Sitting

\* A start or a match that ends: what it makes of the status is true then.
LEMMA OverStep ==
  ASSUME Basic, NEW g \in Game, NEW p \in {"loading", "saving"}, games[g].phase = p,
         games' = [games EXCEPT ![g].phase = "stopped"], NEW s \in {"waiting", "finished"}, NEW E,
         StatusScript(games[g].code, s, E),
         p = "loading" => "countdown" \in E, p = "saving" => E = Status,
         UNCHANGED <<minted, marks, tabVars, managed, votes, wire, asks>>
  PROVE  Basic' /\ Sitting /\ (Loops => Loops')
<1>1. Goes(g, "stopped") /\ s \in Status
  BY DEF Phases, Status, Goes
<1>2. PICK c \in Code : c = games[g].code
  BY <1>1, PhaseFacts
<1>3. /\ StoreSound /\ SeatsQuiet
      /\ \A d \in Code \ {c} : rooms'[d] = rooms[d]
      /\ Exists(c)' <=> Exists(c)
      /\ Exists(c) /\ rooms[c].status \in E => rooms'[c].status = s
      /\ ~(Exists(c) /\ rooms[c].status \in E) => UNCHANGED rooms
  BY <1>1, <1>2, StatusScriptFacts
<1>4. TabsQuiet /\ CountersQuiet /\ putBack \subseteq putBack' /\ reopened' = reopened
  BY TabsStay, CountersStay, MarksStay
<1>5. Tame(0, <<>>) /\ SeatedWire /\ GamesSound
  BY <1>1, WireStays, PhaseManages
<1>6. Basic'
  BY <1>3, <1>4, <1>5, TabsSounds, CountersSounds, SoundKeepsBasic
<1>7. ASSUME Loops PROVE Loops'
  <2>1. Moves(0, <<>>) /\ Len(<<>>) = 0
    BY <1>5 DEF Tame
  <2>2. /\ \A h \in Game, d \in Code : Engaged(h, d)' => Engaged(h, d)
        /\ ~Engaged(g, c)' /\ Engaged(g, c)
    BY <1>1, <1>2, PhaseEngaged DEF Engaged
  <2>3. \A d \in Code \ {c} : CalmStart(d, <<>>)
    BY <1>3, <2>1, <2>2 DEF CalmStart, Open, Exists
  <2>4. \A d \in Code \ {c} : CalmStatus(d, 0)
    <3>1. \A d \in Code \ {c} : MatchIn(d, {"loading", "starting"}) => MatchIn(d, {"loading", "starting"})'
      BY <1>1, <1>2, PhaseMatchIn
    <3>2. \A d \in Code \ {c} : MatchIn(d, {"running", "saving"}) => MatchIn(d, {"running", "saving"})'
      BY <1>1, <1>2, PhaseMatchIn
    <3>. QED
      BY <1>3, <3>1, <3>2 DEF CalmStatus, Exists
  <2>5. c \notin reopened => OneStartAt(c)'
    BY <1>7, <2>2, StartOver DEF Loops
  <2>6. HonestAt(c)'
    <3>1. CASE Exists(c) /\ rooms[c].status \in E
      BY <1>3, <3>1 DEF HonestAt
    <3>2. CASE ~Exists(c)
      BY <1>3, <3>2 DEF HonestAt
    <3>3. CASE Exists(c) /\ rooms[c].status \notin E
      <4>1. UNCHANGED rooms /\ p = "loading" /\ rooms[c].status # "countdown"
        <5>1. rooms[c] \in Room
          BY <3>3, MaybeRooms, TypeFields DEF Basic
        <5>. QED
          BY <1>3, <3>3, <5>1, RoomFields
      <4>2. MatchIn(c, {"running", "saving"}) => MatchIn(c, {"running", "saving"})'
        BY <1>1, <4>1, PhaseMatchIn
      <4>. QED
        BY <1>7, <4>1, <4>2 DEF Loops, HonestAt, Exists, Wire
    <3>. QED
      BY <3>1, <3>2, <3>3
  <2>. QED
    BY <1>4, <1>7, <2>1, <2>3, <2>4, <2>5, <2>6, OthersCalm DEF Loops
<1>. QED
  BY <1>3, <1>4, <1>5, <1>6, <1>7 DEF Sitting

LEMMA MapMissingStep ==
  ASSUME Basic, NEW g \in Game, MapMissing(g)
  PROVE  Basic' /\ Sitting /\ (Loops => Loops')
BY OverStep DEF MapMissing

LEMMA MarkFinishedStep ==
  ASSUME Basic, NEW g \in Game, MarkFinished(g)
  PROVE  Basic' /\ Sitting /\ (Loops => Loops')
BY OverStep DEF MarkFinished

LEMMA StartLoopStep ==
  ASSUME Basic, NEW g \in Game, StartLoop(g)
  PROVE  Basic' /\ Sitting /\ (Loops => Loops')
<1>. DEFINE f == [at |-> "setCallbacks", game |-> g]
<1>1. /\ games[g].phase = "starting" /\ games' = [games EXCEPT ![g].phase = "running"]
      /\ StatusScript(games[g].code, "playing", Status) /\ Issue(f)
      /\ UNCHANGED <<minted, marks, tabVars, managed, votes, asks>>
  BY DEF StartLoop
<1>2. Goes(g, "running") /\ "playing" \in Status
  BY <1>1 DEF Phases, Goes, Status
<1>3. PICK c \in Code : c = games[g].code
  BY <1>2, PhaseFacts
<1>4. /\ StoreSound /\ SeatsQuiet
      /\ \A d \in Code \ {c} : rooms'[d] = rooms[d]
      /\ Exists(c)' <=> Exists(c)
      /\ Exists(c) => rooms'[c].status = "playing"
  <2>1. Exists(c) => rooms[c].status \in Status
    BY MaybeRooms, RoomFields, TypeFields DEF Basic
  <2>. QED
    BY <1>1, <1>2, <1>3, <2>1, StatusScriptFacts
<1>5. f \in Frame /\ f.at = "setCallbacks"
  BY DEF Frame
<1>. HIDE DEF f
<1>6. Tame(0, <<f>>) /\ SeatedWire
  BY <1>1, <1>5, WireIssue DEF Asks, Named, Naming, Entering, Fresh
<1>7. TabsQuiet /\ CountersQuiet /\ putBack \subseteq putBack' /\ reopened' = reopened /\ GamesSound
  BY <1>1, <1>2, TabsStay, CountersStay, MarksStay, PhaseManages
<1>8. Basic'
  BY <1>1, <1>4, <1>6, <1>7, TabsSounds, CountersSounds, SoundKeepsBasic
<1>9. ASSUME Loops PROVE Loops'
  <2>1. Moves(0, <<f>>) /\ Len(<<f>>) = 1 /\ <<f>>[1] = f
    BY <1>6 DEF Tame
  <2>2. \A d \in Code : CalmStart(d, <<f>>)
    <3>1. \A h \in Game, d \in Code : Engaged(h, d)' => Engaged(h, d)
      BY <1>1, <1>2, PhaseEngaged
    <3>2. \A d \in Code : Open(d)' => Open(d)
      BY <1>4 DEF Open, Exists
    <3>. QED
      BY <1>5, <2>1, <3>1, <3>2 DEF CalmStart
  <2>3. \A d \in Code \ {c} : CalmStatus(d, 0)
    <3>1. \A d \in Code \ {c} : MatchIn(d, {"loading", "starting"}) => MatchIn(d, {"loading", "starting"})'
      BY <1>2, <1>3, PhaseMatchIn
    <3>2. \A d \in Code \ {c} : MatchIn(d, {"running", "saving"}) => MatchIn(d, {"running", "saving"})'
      BY <1>2, <1>3, PhaseMatchIn
    <3>. QED
      BY <1>4, <3>1, <3>2 DEF CalmStatus, Exists
  <2>4. HonestAt(c)'
    <3>1. MatchIn(c, {"running", "saving"})'
      BY <1>2, <1>3, PhaseFacts DEF MatchIn
    <3>. QED
      BY <1>4, <3>1 DEF HonestAt
  <2>. QED
    BY <1>7, <1>9, <2>1, <2>2, <2>3, <2>4, OthersCalm DEF Loops
<1>. QED
  BY <1>4, <1>6, <1>7, <1>8, <1>9 DEF Sitting

\* The manager drops a match, and stops its loop.
LEMMA RemoveGameFacts ==
  ASSUME Basic, NEW c \in Code, RemoveGame(c), votes' \in [Code -> Ballot], UNCHANGED minted
  PROVE  /\ GamesSound
         /\ \A h \in Game, d \in Code : Engaged(h, d)' => Engaged(h, d)
         /\ \A d \in Code \ {c} : /\ MatchIn(d, {"loading", "starting"}) => MatchIn(d, {"loading", "starting"})'
                                  /\ MatchIn(d, {"running", "saving"}) => MatchIn(d, {"running", "saving"})'
         /\ MatchIn(c, {"loading", "starting"}) => MatchIn(c, {"loading", "starting"})'
<1>1. /\ managed' = [managed EXCEPT ![c] = NoGame] /\ managed \in [Code -> Game \cup {NoGame}]
      /\ Manages /\ Minted /\ games \in [Game -> Match]
  BY TypeFields DEF RemoveGame, Basic
<1>2. CASE ~Running(c)
  <2>1. UNCHANGED games
    BY <1>2 DEF RemoveGame
  <2>2. Manages'
    BY <1>1, <2>1 DEF Manages, Managed
  <2>3. GamesSound
    BY <1>1, <2>1, <2>2 DEF GamesSound, Minted
  <2>. QED
    BY <2>1, <2>3 DEF Engaged, MatchIn
<1>3. CASE Running(c)
  <2>1. PICK g \in Game : g = managed[c]
    BY <1>1, <1>3 DEF Running, Managed
  <2>2. games[g].code = c /\ games[g].phase = "running" /\ Goes(g, "stopped")
    BY <1>1, <1>3, <2>1 DEF Running, Managed, Manages, Goes, Phases, RemoveGame
  <2>3. /\ games' \in [Game -> Match] /\ games'[g].code = c /\ games'[g].phase = "stopped"
        /\ \A h \in Game \ {g} : games'[h] = games[h]
        /\ \A h \in Game : games'[h].phase # "unmade" => games'[h].code \in minted
    BY <2>2, PhaseFacts
  <2>4. Manages'
    <3>. SUFFICES ASSUME NEW d \in Code, managed'[d] # NoGame
                  PROVE  games'[managed'[d]].code = d /\ games'[managed'[d]].phase \notin {"unmade", "loading"}
      BY DEF Manages, Managed
    <3>1. d # c /\ managed'[d] = managed[d] /\ managed[d] \in Game
      BY <1>1
    <3>2. games[managed[d]].code = d /\ games[managed[d]].phase \notin {"unmade", "loading"}
      BY <1>1, <3>1 DEF Manages, Managed
    <3>3. games'[managed[d]] = games[managed[d]]
      BY <2>2, <2>3, <3>1, <3>2
    <3>. QED
      BY <3>1, <3>2, <3>3
  <2>5. GamesSound
    BY <1>1, <2>3, <2>4 DEF GamesSound
  <2>6. \A h \in Game, d \in Code : Engaged(h, d)' => Engaged(h, d)
    BY <2>2, PhaseEngaged
  <2>7. \A d \in Code \ {c} : MatchIn(d, {"loading", "starting"}) => MatchIn(d, {"loading", "starting"})'
    BY <2>2, PhaseMatchIn
  <2>8. \A d \in Code \ {c} : MatchIn(d, {"running", "saving"}) => MatchIn(d, {"running", "saving"})'
    BY <2>2, PhaseMatchIn
  <2>9. MatchIn(c, {"loading", "starting"}) => MatchIn(c, {"loading", "starting"})'
    BY <2>2, PhaseMatchIn
  <2>. QED
    BY <2>5, <2>6, <2>7, <2>8, <2>9
<1>. QED
  BY <1>2, <1>3

\* A finished room is put back to waiting, or another room with its code.
LEMMA ResetStep ==
  ASSUME Basic, wire # <<>>, Reply.at \in {"restart", "voteYes", "voteNo"}, CopyFinished,
         ResetRoom, Return, UNCHANGED <<minted, tabVars, asks>>
  PROVE  Basic' /\ Sitting /\ (Loops => Loops')
<1>1. Reply \in Frame /\ 1 \in Wire /\ wire[1] = Reply
  BY HeadOfWire DEF Basic
<1>2. PICK c \in Code : c = Reply.code
  BY <1>1, FrameFields
<1>3. PICK r \in Room : r = Reply.copy
  BY <1>1, FrameFields DEF CopyFinished, MaybeRoom
<1>4. /\ votes' = [votes EXCEPT ![c] = NoVote] /\ RemoveGame(c) /\ SetRoom(c, Reset(r))
      /\ putBack' = putBack \cup (r.players \ Players(c))
      /\ reopened' = IF Finished(c) THEN reopened ELSE reopened \cup {c}
      /\ astray' = astray \cup {u \in r.players : ~SeatedIn(u, c)}
  BY <1>2, <1>3 DEF ResetRoom
<1>5. /\ StoreTypeOK /\ Minted /\ minted \in SUBSET Code /\ votes \in [Code -> Ballot]
      /\ putBack \in SUBSET User /\ reopened \in SUBSET Code /\ astray \in SUBSET User
      /\ budget \in 0 .. MaxRequests /\ AsksGrow
  BY TypeFields, NobodyHurries DEF Basic, asks
<1>6. c \in minted
  BY <1>1, <1>2, <1>5 DEF Minted, Named, Naming
<1>7. /\ Reset(r) \in Room /\ Reset(r).players = r.players /\ Reset(r).status = "waiting"
      /\ StoreTypeOK' /\ rooms'[c] = Reset(r) /\ UNCHANGED playerRoom
      /\ \A d \in Code \ {c} : rooms'[d] = rooms[d]
  <2>1. Reset(r) \in Room /\ Reset(r).players = r.players /\ Reset(r).status = "waiting"
    BY ResetTyped DEF Reset, Room
  <2>2. StoreTypeOK'
    BY <1>4, <1>5, <2>1, SetRoomTyped DEF MaybeRoom
  <2>. QED
    BY <1>4, <1>5, <2>1, <2>2 DEF SetRoom, StoreTypeOK
<1>8. StoreSound
  BY <1>5, <1>6, <1>7 DEF StoreSound, Minted, Exists
<1>9. /\ GamesSound
      /\ \A h \in Game, d \in Code : Engaged(h, d)' => Engaged(h, d)
      /\ \A d \in Code \ {c} : /\ MatchIn(d, {"loading", "starting"}) => MatchIn(d, {"loading", "starting"})'
                               /\ MatchIn(d, {"running", "saving"}) => MatchIn(d, {"running", "saving"})'
  <2>1. votes' \in [Code -> Ballot]
    BY <1>4, <1>5 DEF NoVote, Ballot
  <2>. QED
    BY <1>4, <2>1, RemoveGameFacts
<1>10. TabsSound /\ CountersSound
  <2>1. putBack' \in SUBSET User /\ reopened' \in SUBSET Code /\ astray' \in SUBSET User
    BY <1>4, <1>5, RoomFields
  <2>. QED
    BY <1>5, <2>1, TabsStay, TabsSounds DEF CountersSound, asks
<1>11. Tame(1, <<>>) /\ SeatedWire
  BY WireReturn
<1>12. SeatsQuiet /\ putBack \subseteq putBack'
  <2>1. \A u \in User \ putBack' : u \in r.players => Member(u, c)
    BY <1>4 DEF Players, Member
  <2>2. \A u \in User, d \in Code \ {c} : Member(u, d)' => Member(u, d)
    BY <1>7 DEF Member, Exists
  <2>3. \A u \in User : Member(u, c)' => u \in r.players
    BY <1>7 DEF Member
  <2>. QED
    BY <1>4, <1>7, <2>1, <2>2, <2>3 DEF SeatsQuiet
<1>13. Basic'
  BY <1>8, <1>9, <1>10, <1>11, SoundKeepsBasic
<1>14. ASSUME Loops PROVE Loops'
  <2>1. Moves(1, <<>>) /\ Len(<<>>) = 0 /\ reopened \subseteq reopened'
    BY <1>4, <1>11 DEF Tame
  <2>2. \A d \in Code \ {c} : CalmStart(d, <<>>) /\ CalmStatus(d, 1)
    BY <1>2, <1>7, <1>9, <2>1 DEF CalmStart, CalmStatus, Open, Exists
  <2>3. c \notin reopened' => OneStartAt(c)'
    <3>. SUFFICES ASSUME c \notin reopened' PROVE OneStartAt(c)'
      OBVIOUS
    <3>1. Open(c)
      BY <1>4 DEF Finished, Open
    <3>2. CalmStart(c, <<>>)
      BY <1>9, <2>1, <3>1 DEF CalmStart
    <3>. QED
      BY <1>14, <2>1, <3>2, OthersCalm
  <2>4. HonestAt(c)'
    BY <1>7 DEF HonestAt
  <2>. QED
    BY <1>14, <2>1, <2>2, <2>3, <2>4, OthersCalm DEF Loops
<1>. QED
  BY <1>11, <1>12, <1>13, <1>14 DEF Sitting

LEMMA RestartStep == ASSUME Basic, Restart PROVE Basic' /\ Sitting /\ (Loops => Loops')
<1>1. Resumes("restart") /\ Return /\ UNCHANGED <<minted, tabVars, asks>>
  BY DEF Restart
<1>2. wire # <<>> /\ Reply.at = "restart"
  BY <1>1, Resumed
<1>3. CASE CopyFinished /\ ResetRoom
  BY <1>1, <1>2, <1>3, ResetStep
<1>4. CASE UNCHANGED <<storeVars, gameVars, marks>>
  <2>1. Quiet /\ Sitting
    BY <1>1, <1>2, <1>4, EndQuiet, TabsStay, VotesStay DEF gameVars
  <2>. QED
    BY <2>1, QuietKeepsBasic, QuietKeepsLoops
<1>. QED
  BY <1>3, <1>4 DEF Restart

LEMMA VoteStep == ASSUME Basic, Vote PROVE Basic' /\ Sitting /\ (Loops => Loops')
<1>1. (Resumes("voteYes") \/ Resumes("voteNo")) /\ Return /\ UNCHANGED <<minted, tabVars, asks>>
  BY DEF Vote
<1>2. /\ wire # <<>> /\ Reply.at \in {"voteYes", "voteNo"} /\ Reply \in Frame
      /\ Reply.tab \in Tab /\ Owner[Reply.tab] \in User
  BY <1>1, Resumed DEF Asks
<1>3. CASE CopyFinished /\ ResetRoom
  BY <1>1, <1>2, <1>3, ResetStep
<1>4. CASE /\ votes' = IF CopyFinished THEN [votes EXCEPT ![Reply.code] = Tally] ELSE votes
           /\ UNCHANGED <<storeVars, games, managed, marks>>
  <2>1. votes \in [Code -> Ballot]
    BY TypeFields DEF Basic
  <2>2. Reply.code \in Code /\ (CopyFinished => Reply.copy \in Room)
    BY <1>2, FrameFields DEF CopyFinished, MaybeRoom
  <2>3. CopyFinished => OpenBallot \in Ballot
    BY <2>1, <2>2, RoomFields DEF OpenBallot, Ballot, NoVote
  <2>4. CopyFinished => Tally \in Ballot
    BY <1>2, <2>3 DEF Tally, Ballot
  <2>5. votes' \in [Code -> Ballot]
    BY <1>4, <2>1, <2>2, <2>4
  <2>6. Quiet /\ Sitting
    BY <1>1, <1>2, <1>4, <2>5, EndQuiet, TabsStay
  <2>. QED
    BY <2>6, QuietKeepsBasic, QuietKeepsLoops
<1>. QED
  BY <1>3, <1>4 DEF Vote

LEMMA ClosedStep == ASSUME Basic, Closed PROVE Basic' /\ Sitting /\ (Loops => Loops')
<1>1. Resumes("closed") /\ UNCHANGED <<storeVars, minted, marks, sock, parting, asks>>
  BY DEF Closed
<1>2. wire # <<>> /\ Reply.at = "closed" /\ Reply.code \in Code /\ wire \in Seq(Frame)
  BY <1>1, Resumed, FrameFields, TypeFields DEF Basic
<1>3. PICK c \in Code : c = Reply.code
  BY <1>2
<1>4. PICK f : f = DeleteFrame(c)
  OBVIOUS
<1>5. /\ Evict(Reply.tabs, c) /\ votes' = [votes EXCEPT ![c] = NoVote] /\ RemoveGame(c) /\ Then(f)
  BY <1>3, <1>4 DEF Closed, DeleteFrame
<1>6. f \in Frame /\ f.at = "deleteKeys" /\ f.code = c /\ Fresh(f)
  BY <1>4, DeleteFrames DEF DeleteFrame
<1>7. Tame(1, <<f>>) /\ SeatedWire
  BY <1>1, <1>2, <1>5, <1>6, WireThen DEF Asks, Named, Naming, Entering
<1>8. /\ GamesSound
      /\ \A h \in Game, d \in Code : Engaged(h, d)' => Engaged(h, d)
      /\ \A d \in Code \ {c} : /\ MatchIn(d, {"loading", "starting"}) => MatchIn(d, {"loading", "starting"})'
                               /\ MatchIn(d, {"running", "saving"}) => MatchIn(d, {"running", "saving"})'
      /\ MatchIn(c, {"loading", "starting"}) => MatchIn(c, {"loading", "starting"})'
  <2>1. votes' \in [Code -> Ballot]
    BY <1>5, TypeFields DEF Basic, NoVote, Ballot
  <2>. QED
    BY <1>1, <1>5, <2>1, RemoveGameFacts
<1>9. StatusQuiet /\ SeatsQuiet /\ TabsQuiet /\ CountersQuiet /\ putBack \subseteq putBack' /\ reopened' = reopened
  BY <1>1, <1>5, StoreStays, EvictTabs, CountersStay, MarksStay
<1>10. Basic'
  BY <1>1, <1>7, <1>8, <1>9, StoreSounds, TabsSounds, CountersSounds, SoundKeepsBasic
<1>11. ASSUME Loops PROVE Loops'
  <2>1. Moves(1, <<f>>) /\ Len(<<f>>) = 1 /\ <<f>>[1] = f /\ UNCHANGED rooms
    BY <1>1, <1>7 DEF Tame, storeVars
  <2>2. \A d \in Code : CalmStart(d, <<f>>)
    BY <1>6, <1>8, <2>1 DEF CalmStart, Open, Exists
  <2>3. \A d \in Code \ {c} : CalmStatus(d, 1)
    BY <1>2, <1>8, <2>1 DEF CalmStatus, Exists
  <2>4. HonestAt(c)'
    <3>1. PICK n \in Nat : n = Len(wire)
      BY <1>2
    <3>2. n \in Wire' /\ wire'[n] = f
      BY <2>1, <3>1 DEF Moves, Wire
    <3>3. (\E i \in Wire : StartedAt(i, c)) => \E i \in Wire' : StartedAt(i, c)'
      <4>. SUFFICES ASSUME NEW i \in Wire, StartedAt(i, c) PROVE \E j \in Wire' : StartedAt(j, c)'
        OBVIOUS
      <4>1. i > 1
        BY <1>1, <1>2, Resumed DEF StartedAt, Wire
      <4>2. i - 1 \in Wire' /\ wire'[i - 1] = wire[i]
        BY <1>2, <2>1, <4>1, Remains
      <4>. QED
        BY <4>2 DEF StartedAt
    <3>4. Exists(c)' /\ rooms'[c].status = "countdown" =>
            (\E i \in Wire' : StartedAt(i, c)') \/ MatchIn(c, {"loading", "starting"})'
      BY <1>8, <1>11, <2>1, <3>3 DEF Loops, HonestAt, Exists
    <3>. QED
      BY <1>6, <3>2, <3>4 DEF HonestAt
  <2>. QED
    BY <1>9, <1>11, <2>1, <2>2, <2>3, <2>4, OthersCalm DEF Loops
<1>. QED
  BY <1>7, <1>9, <1>10, <1>11 DEF Sitting

LEMMA DeleteRoomKeysStep == ASSUME Basic, DeleteRoomKeys PROVE Basic' /\ (Loops => Loops')
<1>1. Resumes("deleteKeys") /\ UNCHANGED <<minted, marks, tabVars, games, managed, votes, asks>>
  BY DEF DeleteRoomKeys, gameVars
<1>2. wire # <<>> /\ Reply.at = "deleteKeys" /\ Reply.code \in Code /\ StoreTypeOK
  BY <1>1, Resumed, FrameFields, TypeFields DEF Basic
<1>3. PICK c \in Code : c = Reply.code
  BY <1>2
<1>. DEFINE us == IF Reply.copy = NoRoom THEN {} ELSE Reply.copy.players
           f == [at |-> "deleteIndex", code |-> c]
<1>4. DeleteKeys(c, us) /\ Then(f)
  BY <1>3 DEF DeleteRoomKeys
<1>. HIDE DEF us
<1>5. StatusQuiet
  <2>1. StoreTypeOK'
    BY <1>2, <1>4, DeleteKeysTyped
  <2>. QED
    BY <1>2, <1>4, <2>1 DEF DeleteKeys, StatusQuiet, Exists, StoreTypeOK
<1>6. f \in Frame /\ f.at = "deleteIndex"
  BY DEF Frame
<1>. HIDE DEF f
<1>7. Tame(1, <<f>>)
  BY <1>1, <1>2, <1>4, <1>6, WireThen DEF Asks, Named, Naming
<1>8. TabsQuiet /\ GamesQuiet /\ CountersQuiet /\ reopened' = reopened
  BY <1>1, TabsStay, GamesStay, VotesStay, CountersStay, MarksStay
<1>9. Basic'
  BY <1>1, <1>5, <1>7, <1>8, StoreSounds, TabsSounds, GamesSounds, CountersSounds, SoundKeepsBasic
<1>10. ASSUME Loops PROVE Loops'
  <2>1. Moves(1, <<f>>) /\ Len(<<f>>) = 1 /\ <<f>>[1] = f
    BY <1>7 DEF Tame
  <2>2. \A d \in Code : CalmStart(d, <<f>>)
    BY <1>1, <1>5, <1>6, <2>1 DEF CalmStart, Open, StatusQuiet, Engaged
  <2>3. \A d \in Code \ {c} : CalmStatus(d, 1)
    BY <1>1, <1>3, <1>5 DEF CalmStatus, StatusQuiet, MatchIn
  <2>4. HonestAt(c)'
    BY <1>2, <1>4 DEF DeleteKeys, HonestAt, Exists, StoreTypeOK
  <2>. QED
    BY <1>8, <1>10, <2>1, <2>2, <2>3, <2>4, OthersCalm DEF Loops
<1>. QED
  BY <1>9, <1>10

-----------------------------------------------------------------------------
(* The steps that change rooms for a player, quiet for matches and statuses *)

LEMMA AskCreateQuiet == ASSUME Basic, NEW t \in Tab, AskCreate(t) PROVE Quiet
<1>. DEFINE f == [at |-> "cleanup", kind |-> "create", tab |-> t, code |-> NoCode, seen |-> playerRoom[Owner[t]]]
<1>1. /\ Ask(t, "create") /\ Issue(f) /\ UNCHANGED <<storeVars, minted, marks, tabVars, games, managed, votes>>
  BY DEF AskCreate, gameVars
<1>2. /\ Asking(t) => Owner[t] \in hurried'
      /\ budget > 0 /\ budget' = budget - 1 /\ AsksGrow /\ Owner[t] \in User
  BY <1>1, AskFields
<1>3. f \in Frame /\ f.at = "cleanup" /\ f.tab = t /\ f.kind = "create"
  BY <1>2, TypeFields DEF Frame, Basic, StoreTypeOK, MaybeCode
<1>. HIDE DEF f
<1>4. PlainWire
  BY <1>1, <1>2, <1>3, WireIssue DEF Named, Naming
<1>. QED
  BY <1>1, <1>2, <1>4, StoreStays, GamesStay, VotesStay, TabsStay, CountersStay DEF Quiet

LEMMA AskJoinQuiet == ASSUME Basic, NEW t \in Tab, NEW c \in Code, AskJoin(t, c) PROVE Quiet
<1>. DEFINE f == [at |-> "cleanup", kind |-> "join", tab |-> t, code |-> c, seen |-> playerRoom[Owner[t]]]
<1>1. /\ Ask(t, "join") /\ c \in minted /\ Issue(f)
      /\ UNCHANGED <<storeVars, minted, marks, tabVars, games, managed, votes>>
  BY DEF AskJoin, Known, gameVars
<1>2. /\ Asking(t) => Owner[t] \in hurried'
      /\ budget > 0 /\ budget' = budget - 1 /\ AsksGrow /\ Owner[t] \in User
  BY <1>1, AskFields
<1>3. f \in Frame /\ f.at = "cleanup" /\ f.tab = t /\ f.code = c
  BY <1>2, TypeFields DEF Frame, Basic, StoreTypeOK, MaybeCode
<1>. HIDE DEF f
<1>4. PlainWire
  BY <1>1, <1>2, <1>3, WireIssue DEF Named, Naming
<1>. QED
  BY <1>1, <1>2, <1>4, StoreStays, GamesStay, VotesStay, TabsStay, CountersStay DEF Quiet

LEMMA LeaveStaleQuiet ==
  ASSUME Basic, LeaveStale
  PROVE  /\ Quiet /\ SeatsQuiet /\ UNCHANGED putBack
         /\ Reply.seen \in Code
         /\ \A u \in User, c \in Code : u = Owner[Reply.tab] /\ c = Reply.seen => ~Member(u, c)'
         /\ Moves(1, <<[Reply EXCEPT !.at = "cleaned"]>>)
<1>. DEFINE f == [Reply EXCEPT !.at = "cleaned"]
<1>1. /\ Resumes("cleanup") /\ Reply.seen # NoCode /\ Then(f)
      /\ DropFromMatch(Reply.seen, Owner[Reply.tab]) /\ LeaveScript(Reply.seen, {Owner[Reply.tab]})
      /\ UNCHANGED <<minted, marks, tabVars, managed, votes, asks>>
  BY DEF LeaveStale
<1>2. /\ wire # <<>> /\ Reply \in Frame /\ Reply.at = "cleanup" /\ Reply.tab \in Tab /\ Owner[Reply.tab] \in User
      /\ Reply.seen \in MaybeCode
  BY <1>1, Resumed, FrameFields DEF Asks
<1>3. Reply.seen \in Code
  BY <1>1, <1>2 DEF MaybeCode
<1>4. Reply \in [at : {"cleanup", "cleaned"}, kind : {"create", "join"}, tab : Tab,
                 code : MaybeCode, seen : MaybeCode]
  BY <1>2 DEF Frame
<1>5. f \in Frame /\ f.at = "cleaned" /\ f.tab = Reply.tab /\ f.kind = Reply.kind /\ f.code = Reply.code
  BY <1>4 DEF Frame
<1>. HIDE DEF f
<1>6. PlainWire /\ Moves(1, <<f>>)
  <2>1. Naming(f) => f.code \in minted
    BY <1>1, <1>2, <1>5, Resumed DEF Basic, Minted, Naming, Named
  <2>. QED
    BY <1>1, <1>2, <1>5, <2>1, WireThen DEF Asks, Tame
<1>7. /\ StatusQuiet /\ SeatsQuiet
      /\ \A u \in User, c \in Code : u = Owner[Reply.tab] /\ c = Reply.seen => ~Member(u, c)'
  BY <1>1, <1>2, <1>3, LeaveQuiet
<1>8. GamesQuiet
  BY <1>1, <1>2, <1>3, DropQuiet, VotesStay
<1>9. Quiet /\ UNCHANGED putBack
  BY <1>1, <1>6, <1>7, <1>8, TabsStay, CountersStay, MarksStay DEF Quiet
<1>. QED
  BY <1>3, <1>6, <1>7, <1>9 DEF f

LEMMA CreateMappingQuiet ==
  ASSUME Basic, CreateMapping
  PROVE  Quiet /\ Moves(1, <<[Reply EXCEPT !.at = "createIndex"]>>)
<1>. DEFINE f == [Reply EXCEPT !.at = "createIndex"]
<1>1. /\ Resumes("createMapping") /\ SetPlayerRoom(Owner[Reply.tab], Reply.code) /\ Then(f)
      /\ UNCHANGED <<minted, marks, tabVars, games, managed, votes, asks>>
  BY DEF CreateMapping, gameVars
<1>2. /\ wire # <<>> /\ Reply \in Frame /\ Reply.at = "createMapping" /\ Reply.tab \in Tab
      /\ Owner[Reply.tab] \in User /\ Reply.code \in minted /\ minted \in SUBSET Code /\ StoreTypeOK
  BY <1>1, Resumed, TypeFields DEF Asks, Named, Naming, Basic
<1>3. Reply \in [at : {"createMapping", "createIndex", "enter", "left"}, tab : Tab, code : Code]
  BY <1>2 DEF Frame
<1>4. f \in Frame /\ f.at = "createIndex" /\ f.tab = Reply.tab /\ f.code = Reply.code
  BY <1>3 DEF Frame
<1>. HIDE DEF f
<1>5. PlainWire /\ Moves(1, <<f>>)
  BY <1>1, <1>2, <1>4, WireThen DEF Asks, Tame
<1>6. StatusQuiet
  <2>1. StoreTypeOK'
    BY <1>1, <1>2, SetPlayerRoomTyped DEF MaybeCode
  <2>. QED
    BY <1>1, <2>1 DEF SetPlayerRoom, StatusQuiet, Exists
<1>7. Quiet
  BY <1>1, <1>5, <1>6, GamesStay, VotesStay, TabsStay, CountersStay DEF Quiet
<1>. QED
  BY <1>5, <1>7 DEF f

LEMMA JoinRoomQuiet ==
  ASSUME Basic, JoinRoom
  PROVE  /\ Quiet /\ Reply.code \in MaybeCode
         /\ \/ Sitting
            \/ /\ JoinScript(Reply.code, Owner[Reply.tab]) /\ Reply.code \in Code
               /\ Moves(1, <<[at |-> "enter", tab |-> Reply.tab, code |-> Reply.code]>>)
<1>1. CleanedUp("join") /\ UNCHANGED <<minted, sock, parting, active, games, managed, votes, asks>>
  BY DEF JoinRoom, gameVars
<1>2. /\ wire # <<>> /\ Reply.at \in {"cleanup", "cleaned"} /\ Reply.tab \in Tab /\ Owner[Reply.tab] \in User
      /\ Reply.code \in MaybeCode /\ joined' \in [Tab -> SUBSET Code]
  BY <1>1, CleanedUpFields
<1>3. TabsQuiet
  BY <1>1, <1>2, TypeFields DEF TabsQuiet, Basic, Minted
<1>4. Reply.code \in minted /\ minted \in SUBSET Code
  <2>1. 1 \in Wire /\ wire[1] = Reply /\ Reply.kind = "join"
    BY <1>1, CleanedUpFields
  <2>. QED
    BY <1>2, <2>1, TypeFields DEF Basic, Minted, Naming
<1>5. CASE Return /\ UNCHANGED <<storeVars, marks>>
  BY <1>1, <1>2, <1>3, <1>5, EndQuiet, VotesStay
<1>6. CASE /\ JoinScript(Reply.code, Owner[Reply.tab])
           /\ Then([at |-> "enter", tab |-> Reply.tab, code |-> Reply.code])
           /\ LetIn(Owner[Reply.tab], Reply.code)
  <2>. DEFINE f == [at |-> "enter", tab |-> Reply.tab, code |-> Reply.code]
  <2>1. PICK c \in Code : c = Reply.code
    BY <1>4
  <2>2. f \in Frame /\ f.at = "enter" /\ f.tab = Reply.tab /\ f.code = c
    BY <1>2, <2>1 DEF Frame
  <2>3. Then(f)
    BY <1>6
  <2>. HIDE DEF f
  <2>4. PlainWire /\ Moves(1, <<f>>)
    BY <1>1, <1>2, <1>4, <2>1, <2>2, <2>3, WireThen DEF Asks, Tame
  <2>5. StatusQuiet
    <3>1. StoreTypeOK'
      BY <1>2, <1>6, <2>1, JoinScriptTyped, TypeFields DEF Basic
    <3>2. rooms[c] \in Room
      BY <1>6, <2>1, MaybeRooms, TypeFields DEF Basic, JoinScript, CanJoin
    <3>. QED
      BY <1>6, <2>1, <3>1, <3>2, TypeFields
      DEF Basic, JoinScript, CanJoin, StatusQuiet, Exists, StoreTypeOK, Room
  <2>6. CountersQuiet
    BY <1>1, <1>2, <1>6, LetInMarks, NobodyHurries, TypeFields DEF Basic, CountersQuiet, asks
  <2>7. Quiet
    BY <1>1, <1>3, <2>4, <2>5, <2>6, GamesStay, VotesStay DEF Quiet
  <2>. QED
    BY <1>2, <1>6, <2>1, <2>4, <2>7 DEF f
<1>. QED
  BY <1>2, <1>5, <1>6 DEF JoinRoom

LEMMA ExpireMappingQuiet == ASSUME Basic, NEW u \in User, ExpireMapping(u) PROVE Quiet
<1>1. /\ SetPlayerRoom(u, NoCode) /\ budget > 0 /\ budget' = budget - 1
      /\ UNCHANGED <<hurried, cut, minted, marks, tabVars, games, managed, votes, wire>>
  BY DEF ExpireMapping, ExpirePlayerRoom, Spend, gameVars
<1>2. StatusQuiet
  <2>1. StoreTypeOK'
    BY <1>1, SetPlayerRoomTyped, TypeFields DEF Basic, MaybeCode
  <2>. QED
    BY <1>1, <2>1 DEF SetPlayerRoom, StatusQuiet, Exists
<1>. QED
  BY <1>1, <1>2, GamesStay, VotesStay, TabsStay, NobodyHurries, CountersStay, WireStays DEF Quiet

-----------------------------------------------------------------------------
(* Every step *)

LEMMA QuietKeeps == ASSUME Basic, Quiet PROVE Basic' /\ (Loops => Loops')
BY QuietKeepsBasic, QuietKeepsLoops

LEMMA RequestKeeps == ASSUME Basic, NEW t \in Tab, Request(t) PROVE Quiet
<1>1. CASE AskCreate(t) \/ AskLeave(t) \/ \E c \in Code : AskJoin(t, c)
  BY <1>1, AskCreateQuiet, AskLeaveQuiet, AskJoinQuiet
<1>2. CASE AskStart(t) \/ AskRestart(t) \/ \E b \in BOOLEAN : AskVote(t, b)
  BY <1>2, AskAboutQuiet DEF AskStart, AskRestart, AskVote
<1>3. CASE \E b \in BOOLEAN : AskReady(t, b)
  BY <1>3, AskReadyQuiet
<1>. QED
  BY <1>1, <1>2, <1>3 DEF Request

LEMMA ResumeKeeps == ASSUME Basic, Resume PROVE Basic' /\ (Loops => Loops')
<1>1. CASE RefuseElsewhere \/ CreateIndex \/ Enter \/ Left \/ SetCallbacks \/ Kicked \/ DeleteRoomIndex
           \/ RestoreParty \/ RestoreRoom \/ DropLookup
  BY <1>1, QuietKeeps, RefuseElsewhereQuiet, CreateIndexQuiet, EnterQuiet, LeftQuiet, SetCallbacksQuiet,
     KickedQuiet, DeleteRoomIndexQuiet, RestorePartyQuiet, RestoreRoomQuiet, DropLookupQuiet
<1>2. CASE LeaveStale \/ CreateMapping \/ JoinRoom
  BY <1>2, QuietKeeps, LeaveStaleQuiet, CreateMappingQuiet, JoinRoomQuiet
<1>3. CASE (\E c \in Code : CreateRoom(c)) \/ CheckStart \/ Restart \/ Vote \/ Closed \/ DeleteRoomKeys
  BY <1>3, CreateRoomStep, CheckStartStep, RestartStep, VoteStep, ClosedStep, DeleteRoomKeysStep
<1>4. CASE \E g \in Game : CreateGame(g) \/ LoadMap(g)
  BY <1>4, NewMatchStep DEF CreateGame, LoadMap
<1>. QED
  BY <1>1, <1>2, <1>3, <1>4 DEF Resume

LEMMA NextKeeps == ASSUME Basic, [Next]_vars PROVE Basic' /\ (Loops => Loops')
<1>1. CASE \E t \in Tab : Request(t) \/ Connect(t) \/ DropSeated(t) \/ DropUnseated(t) \/ GiveUp(t)
  BY <1>1, QuietKeeps, RequestKeeps, ConnectQuiet, DropSeatedQuiet, DropUnseatedQuiet,
     GiveUpQuiet
<1>2. CASE AdminRequest
  BY <1>2, QuietKeeps, AskCloseQuiet, AskKickQuiet DEF AdminRequest
<1>3. CASE Resume
  BY <1>3, ResumeKeeps
<1>4. CASE \E g \in Game : ResumeMatch(g) \/ GameOver(g)
  BY <1>4, MapLoadedStep, MapMissingStep, StartLoopStep, MarkFinishedStep, GameOverStep DEF ResumeMatch
<1>5. CASE \E g \in Game, u \in User : PlayerDies(g, u) \/ GraceExpires(g, u)
  BY <1>5, QuietKeeps, PlayerDiesQuiet, GraceExpiresQuiet
<1>6. CASE (\E c \in Code : VoteTimeout(c)) \/ Reap \/ \E u \in User : ExpireMapping(u)
  BY <1>6, QuietKeeps, VoteTimeoutQuiet, ReapQuiet, ExpireMappingQuiet
<1>7. CASE UNCHANGED vars
  <2>1. UNCHANGED <<storeVars, minted, marks, tabVars, games, managed, votes, wire, asks>>
    BY <1>7 DEF vars, gameVars
  <2>2. Quiet
    BY <2>1, StoreStays, GamesStay, VotesStay, TabsStay, CountersStay, WireStays DEF Quiet
  <2>. QED
    BY <2>2, QuietKeeps
<1>. QED
  BY <1>1, <1>2, <1>3, <1>4, <1>5, <1>6, <1>7 DEF Next

LEMMA InitBasic == ASSUME Init PROVE Basic /\ Loops
<1>1. StoreTypeOK
  BY DEF Init, StoreInit, StoreTypeOK
<1>2. TypeOK
  BY <1>1, RoomSessionAssumption DEF Init, TypeOK, MaybeCode, Match, Unmade, Ballot, NoVote
<1>3. Wire = {}
  BY DEF Init, Wire
<1>4. \A c \in Code : ~Exists(c) /\ ~Managed(c)
  BY DEF Init, StoreInit, Exists, Managed
<1>5. \A g \in Game : games[g].phase = "unmade"
  BY DEF Init, Unmade
<1>6. \A t \in Tab : active[t] = NoCode
  BY DEF Init
<1>7. Basic
  BY <1>2, <1>3, <1>4, <1>5, <1>6 DEF Basic, OneAsk, Minted, Manages
<1>8. Loops
  BY <1>3, <1>4, <1>5 DEF Loops, OneStartAt, HonestAt, Engaged, Open
<1>. QED
  BY <1>7, <1>8

LEMMA BasicHolds == Spec => [](Basic /\ Loops)
<1>1. Init => Basic /\ Loops
  BY InitBasic
<1>2. Basic /\ Loops /\ [Next]_vars => (Basic /\ Loops)'
  BY NextKeeps
<1>. QED
  BY <1>1, <1>2, PTL DEF Spec

\* The room handlers of a server never leave the types of their state: rooms
\* and mappings, sockets and their rooms, matches, ballots, and what the
\* replies in flight are to be answered with (socket.ts, RoomManager).
THEOREM TypeCorrect == Spec => []TypeOK
<1>1. Basic => TypeOK
  BY DEF Basic
<1>. QED
  BY <1>1, BasicHolds, PTL

\* Two game loops never play one room at a time, whatever is voted, closed,
\* reaped, left or lost on the way: the room:start script is the only way out
\* of "waiting", and a room is "waiting" again only with its start and its
\* match over.  A room that a late restart or vote reopened is excepted.
THEOREM LoopsAreSingle == Spec => []OneLoopPerRoom
<1>1. Basic /\ Loops => OneLoopPerRoom
  <2>. SUFFICES ASSUME Basic, Loops, NEW g \in Game, NEW h \in Game,
                       games[g].phase = "running", games[h].phase = "running",
                       games[g].code = games[h].code, games[g].code \notin reopened
                PROVE  g = h
    BY DEF OneLoopPerRoom
  <2>1. games[g].code \in Code
    BY TypeFields DEF Basic, Minted
  <2>. QED
    BY <2>1 DEF Loops, OneStartAt, Engaged
<1>. QED
  BY <1>1, BasicHolds, PTL

\* A room that shows "countdown" has a start under way, one that shows
\* "playing" a match that is played or saved, or its deletion under way: also
\* after a map that is gone, a close in mid-match and a reset written late.
THEOREM StatusIsHonest == Spec => []StatusHonest
<1>1. Basic /\ Loops => StatusHonest
  <2>. SUFFICES ASSUME Basic, Loops, NEW c \in Code, Exists(c)
                PROVE  /\ rooms[c].status = "countdown" =>
                            Pending({"started"}, c) \/ MatchIn(c, {"loading", "starting"})
                       /\ rooms[c].status = "playing" =>
                            MatchIn(c, {"running", "saving"}) \/ Pending({"deleteKeys"}, c)
    BY DEF StatusHonest
  <2>1. DOMAIN wire = Wire
    BY TypeFields DEF Basic, Wire
  <2>. QED
    BY <2>1 DEF Loops, HonestAt, Pending, StartedAt
<1>. QED
  BY <1>1, BasicHolds, PTL

-----------------------------------------------------------------------------
(* One room per user, for users with one tab *)

OwnTab == \A s, t \in Tab : Owner[s] = Owner[t] => s = t

\* Who always waits for the answer to a request, and is not put back by a reset.
Orderly == User \ (putBack \cup hurried)

LEMMA OrderlyStays == ASSUME UNCHANGED <<putBack, hurried>> PROVE Orderly' = Orderly
BY DEF Orderly

\* The mapping follows the seat, but for a room that is being created.
Mapped ==
  \A u \in Orderly, c \in Code : Member(u, c) =>
    \/ playerRoom[u] = c
    \/ \E i \in Wire : wire[i].at = "createMapping" /\ Owner[wire[i].tab] = u /\ wire[i].code = c

\* Who is about to enter a room sits in none but the one to be left first.
Steps ==
  \A i \in Wire, u \in Orderly, c \in Code :
    wire[i].at \in Entering /\ Owner[wire[i].tab] = u /\ Member(u, c) =>
      \/ wire[i].at = "cleanup" /\ wire[i].seen = c
      \/ wire[i].at = "createMapping" /\ wire[i].code = c

Clean(f) == f.at = "cleaned" \/ (f.at = "cleanup" /\ f.seen = NoCode)

Listed(f) == IF f.copy = NoRoom THEN {} ELSE f.copy.players

\* A deletion clears the mapping of no one who sits elsewhere, or who may
\* before it is done.
Deletes ==
  \A j \in Wire : wire[j].at = "deleteKeys" =>
    \A u \in Listed(wire[j]) \cap Orderly :
      /\ \A c \in Code : Member(u, c) => c = wire[j].code
      /\ \A i \in Wire : i < j /\ Clean(wire[i]) => Owner[wire[i].tab] # u

Seats == Mapped /\ Steps /\ Deletes

LEMMA EnteringTabs ==
  ASSUME Basic, NEW i \in Wire, wire[i].at \in Entering
  PROVE  wire[i].tab \in Tab /\ wire[i].at \in Asks
<1>1. wire[i] \in Frame
  BY TypeFields DEF Basic, Wire
<1>. QED
  BY <1>1, FrameFields DEF Entering, Asks

LEMMA SeatsAreOne == ASSUME Basic, OwnTab, Seats PROVE OneRoomPerUser
<1>. SUFFICES ASSUME NEW u \in Orderly, NEW c \in Code, NEW d \in Code, Member(u, c), Member(u, d), c # d
              PROVE  FALSE
  BY DEF OneRoomPerUser, Orderly
<1>. DEFINE Made(i, e) == wire[i].at = "createMapping" /\ Owner[wire[i].tab] = u /\ wire[i].code = e
<1>1. \A i \in Wire, e \in Code : Made(i, e) /\ Member(u, e) => \A b \in Code : Member(u, b) => b = e
  BY DEF Seats, Steps, Entering
<1>2. \A e \in Code : Member(u, e) => playerRoom[u] = e \/ \E i \in Wire : Made(i, e)
  BY DEF Seats, Mapped
<1>. QED
  BY <1>1, <1>2

LEMMA SittingKeepsSeats == ASSUME Basic, OwnTab, Seats, Sitting, hurried \subseteq hurried' PROVE Seats'
<1>1. PICK k, new : Seated(k, new)
  BY DEF Sitting, SeatedWire
<1>2. /\ wire \in Seq(Frame) /\ Moves(k, new) /\ k \in {0, 1} /\ putBack \subseteq putBack' /\ SeatsQuiet
      /\ TypeOK /\ Len(wire) \in Nat
  BY <1>1, TypeFields DEF Seated, Basic, Moves, Sitting
<1>3. \A i \in Wire' : Stayed(k, i) \/ IsNew(k, new, i)
  BY <1>2, Origin
<1>0. Orderly' \subseteq Orderly
  BY <1>2 DEF Orderly
<1>4. \A u \in Orderly', c \in Code :
        Member(u, c)' => Member(u, c) /\ u \in Orderly /\ (playerRoom[u] = c => playerRoom'[u] = c)
  BY <1>0, <1>2 DEF SeatsQuiet, Orderly
<1>5. Mapped'
  <2>. SUFFICES ASSUME NEW u \in Orderly', NEW c \in Code, Member(u, c)', playerRoom'[u] # c
                PROVE  \E i \in Wire' : wire'[i].at = "createMapping" /\ Owner[wire'[i].tab] = u /\ wire'[i].code = c
    BY DEF Mapped
  <2>1. PICK i \in Wire : wire[i].at = "createMapping" /\ Owner[wire[i].tab] = u /\ wire[i].code = c
    BY <1>4 DEF Seats, Mapped
  <2>2. i > k
    <3>1. CASE k = 0
      BY <3>1 DEF Wire
    <3>2. CASE k = 1
      <4>1. wire # <<>> /\ wire[1] = Reply
        BY <1>2, <3>2, HeadOfWire DEF Moves
      <4>2. i # 1
        BY <1>1, <2>1, <3>2, <4>1 DEF Seated
      <4>. QED
        BY <3>2, <4>2 DEF Wire
    <3>. QED
      BY <1>2, <3>1, <3>2
  <2>3. i - k \in Wire' /\ wire'[i - k] = wire[i]
    BY <1>2, <2>2, Remains
  <2>. QED
    BY <2>1, <2>3
<1>6. Steps'
  <2>. SUFFICES ASSUME NEW i \in Wire', NEW u \in Orderly', NEW c \in Code,
                       wire'[i].at \in Entering, Owner[wire'[i].tab] = u, Member(u, c)'
                PROVE  \/ wire'[i].at = "cleanup" /\ wire'[i].seen = c
                       \/ wire'[i].at = "createMapping" /\ wire'[i].code = c
    BY DEF Steps, Entering
  <2>1. Stayed(k, i)
    BY <1>1, <1>3 DEF IsNew, Seated
  <2>. QED
    BY <1>4, <2>1 DEF Stayed, Seats, Steps
<1>7. Deletes'
  <2>. SUFFICES ASSUME NEW j \in Wire', wire'[j].at = "deleteKeys", NEW u \in Listed(wire'[j]) \cap Orderly'
                PROVE  /\ \A c \in Code : Member(u, c)' => c = wire'[j].code
                       /\ \A i \in Wire' : i < j /\ Clean(wire'[i]) => Owner[wire'[i].tab] # u
    BY DEF Deletes, Listed, Clean
  <2>1. wire' \in Seq(Frame)
    BY <1>2 DEF Moves
  <2>2. u \in Orderly /\ u \in User
    BY <1>0 DEF Orderly
  <2>3. CASE Stayed(k, j)
    <3>1. /\ j + k \in Wire /\ wire[j + k].at = "deleteKeys" /\ wire'[j] = wire[j + k]
          /\ u \in Listed(wire[j + k]) \cap Orderly
      BY <1>2, <2>2, <2>3 DEF Stayed, Listed
    <3>2. \A c \in Code : Member(u, c)' => c = wire'[j].code
      BY <1>4, <2>2, <3>1 DEF Seats, Deletes
    <3>3. ASSUME NEW i \in Wire', i < j, Clean(wire'[i]) PROVE Owner[wire'[i].tab] # u
      <4>1. Stayed(k, i)
        BY <1>2, <1>3, <2>3, <3>3 DEF Stayed, IsNew, Wire
      <4>2. i + k \in Wire /\ i + k < j + k /\ Clean(wire[i + k])
        BY <1>2, <3>3, <4>1 DEF Stayed, Wire
      <4>. QED
        BY <3>1, <4>1, <4>2 DEF Stayed, Seats, Deletes
    <3>. QED
      BY <3>2, <3>3
  <2>4. CASE IsNew(k, new, j)
    <3>1. PICK d \in Code : d = wire'[j].code /\ wire'[j].copy = rooms[d]
      BY <1>1, <2>4 DEF IsNew, Seated, Fresh
    <3>2. Member(u, d) /\ u \in Orderly
      BY <1>2, <2>2, <3>1 DEF Listed, Member, Exists
    <3>3. \A c \in Code : Member(u, c)' => c = d
      BY <1>4, <2>2, <3>2, SeatsAreOne DEF OneRoomPerUser, Orderly
    <3>4. ASSUME NEW i \in Wire', i < j, Clean(wire'[i]), Owner[wire'[i].tab] = u PROVE FALSE
      <4>1. wire'[i].at \in Entering
        BY <3>4 DEF Clean, Entering
      <4>2. Stayed(k, i)
        BY <1>1, <1>3, <4>1 DEF IsNew, Seated
      <4>3. wire[i + k].at = "cleanup" /\ wire[i + k].seen = d
        BY <3>2, <3>4, <4>1, <4>2 DEF Stayed, Seats, Steps, Clean
      <4>. QED
        BY <3>4, <4>2, <4>3, RoomStoreAssumption DEF Stayed, Clean
    <3>. QED
      BY <3>1, <3>3, <3>4
  <2>. QED
    BY <1>3, <2>3, <2>4
<1>. QED
  BY <1>5, <1>6, <1>7 DEF Seats

\* No other request of the tab, or of its user, is in flight.
Alone(k, u) == \A i \in Wire : i > k /\ wire[i].at \in Entering => Owner[wire[i].tab] # u

LEMMA AskerAlone == ASSUME Basic, OwnTab, NEW t \in Tab, ~Asking(t) PROVE Alone(0, Owner[t])
<1>1. \A i \in Wire : wire[i].at \in Asks => wire[i].tab # t
  BY AskingIs DEF Basic
<1>. QED
  BY <1>1, EnteringTabs DEF Alone, OwnTab

LEMMA ReplyAlone ==
  ASSUME Basic, OwnTab, wire # <<>>, Reply.at \in Entering, Owner[Reply.tab] \notin hurried
  PROVE  Alone(1, Owner[Reply.tab])
<1>1. 1 \in Wire /\ wire[1] = Reply
  BY HeadOfWire DEF Basic
<1>2. \A i \in Wire : i > 1 /\ wire[i].at \in Asks => wire[i].tab # Reply.tab
  BY <1>1, EnteringTabs DEF Basic, OneAsk
<1>. QED
  BY <1>1, <1>2, EnteringTabs DEF Alone, OwnTab

\* A step towards a room, of a user with one tab.
LEMMA MoverKeepsSeats ==
  ASSUME Basic, Seats, NEW k, NEW f, Moves(k, <<f>>), NEW u \in User, Orderly' \subseteq Orderly,
         u \in Orderly' => Alone(k, u), f.at # "deleteKeys", Owner[f.tab] = u,
         k = 1 => wire # <<>> /\ Reply.at \in Entering /\ Owner[Reply.tab] = u,
         \A w \in Orderly', c \in Code : w # u /\ Member(w, c)' =>
           Member(w, c) /\ (playerRoom[w] = c => playerRoom'[w] = c),
         u \in Orderly' => \A c \in Code : Member(u, c)' =>
           /\ playerRoom'[u] = c \/ (f.at = "createMapping" /\ f.code = c)
           /\ f.at \in Entering => \/ f.at = "cleanup" /\ f.seen = c
                                   \/ f.at = "createMapping" /\ f.code = c
           /\ \A j \in Wire : j > k /\ wire[j].at = "deleteKeys" /\ u \in Listed(wire[j]) => c = wire[j].code
  PROVE  Seats'
<1>1. /\ wire \in Seq(Frame) /\ k \in {0, 1} /\ TypeOK /\ Len(wire) \in Nat
      /\ Len(<<f>>) = 1 /\ <<f>>[1] = f
  BY TypeFields DEF Moves, Basic
<1>2. \A i \in Wire' : Stayed(k, i) \/ IsNew(k, <<f>>, i)
  BY <1>1, Origin
<1>3. \A i \in Wire' : IsNew(k, <<f>>, i) => wire'[i] = f /\ i > Len(wire) - k
  BY <1>1 DEF IsNew
<1>4. PICK n \in Wire' : wire'[n] = f
  <2>1. Len(wire) - k + 1 \in Wire' /\ wire'[Len(wire) - k + 1] = f
    BY <1>1 DEF Moves, Wire
  <2>. QED
    BY <2>1
<1>5. Mapped'
  <2>. SUFFICES ASSUME NEW w \in Orderly', NEW c \in Code, Member(w, c)', playerRoom'[w] # c
                PROVE  \E i \in Wire' : wire'[i].at = "createMapping" /\ Owner[wire'[i].tab] = w /\ wire'[i].code = c
    BY <1>1 DEF Mapped
  <2>1. CASE w = u
    BY <1>4, <2>1
  <2>2. CASE w # u
    <3>1. PICK i \in Wire : wire[i].at = "createMapping" /\ Owner[wire[i].tab] = w /\ wire[i].code = c
      BY <2>2 DEF Seats, Mapped
    <3>2. i > k
      <4>1. CASE k = 0
        BY <4>1 DEF Wire
      <4>2. CASE k = 1
        <5>1. i # 1
          BY <1>1, <2>2, <3>1, <4>2, HeadOfWire
        <5>. QED
          BY <4>2, <5>1 DEF Wire
      <4>. QED
        BY <1>1, <4>1, <4>2
    <3>3. i - k \in Wire' /\ wire'[i - k] = wire[i]
      BY <1>1, <3>2, Remains
    <3>. QED
      BY <3>1, <3>3
  <2>. QED
    BY <2>1, <2>2
<1>6. Steps'
  <2>. SUFFICES ASSUME NEW i \in Wire', NEW w \in Orderly', NEW c \in Code,
                       wire'[i].at \in Entering, Owner[wire'[i].tab] = w, Member(w, c)'
                PROVE  \/ wire'[i].at = "cleanup" /\ wire'[i].seen = c
                       \/ wire'[i].at = "createMapping" /\ wire'[i].code = c
    BY <1>1 DEF Steps, Entering
  <2>1. CASE IsNew(k, <<f>>, i)
    BY <1>3, <2>1
  <2>2. CASE Stayed(k, i)
    <3>1. w # u
      BY <1>1, <2>2 DEF Stayed, Alone, Wire
    <3>. QED
      BY <2>2, <3>1 DEF Stayed, Seats, Steps
  <2>. QED
    BY <1>2, <2>1, <2>2
<1>7. Deletes'
  <2>. SUFFICES ASSUME NEW j \in Wire', wire'[j].at = "deleteKeys", NEW w \in Listed(wire'[j]) \cap Orderly'
                PROVE  /\ \A c \in Code : Member(w, c)' => c = wire'[j].code
                       /\ \A i \in Wire' : i < j /\ Clean(wire'[i]) => Owner[wire'[i].tab] # w
    BY <1>1 DEF Deletes, Listed, Clean
  <2>1. Stayed(k, j)
    BY <1>2, <1>3
  <2>2. /\ j + k \in Wire /\ wire[j + k].at = "deleteKeys" /\ wire'[j] = wire[j + k] /\ j + k > k
        /\ w \in Listed(wire[j + k]) \cap Orderly
    BY <1>1, <2>1 DEF Stayed, Wire
  <2>3. w \in User
    BY DEF Orderly
  <2>4. \A c \in Code : Member(w, c)' => c = wire'[j].code
    BY <2>2, <2>3 DEF Seats, Deletes
  <2>5. ASSUME NEW i \in Wire', i < j, Clean(wire'[i]) PROVE Owner[wire'[i].tab] # w
    <3>1. Stayed(k, i)
      BY <1>1, <1>2, <1>3, <2>1, <2>5 DEF Stayed, Wire
    <3>2. i + k \in Wire /\ i + k < j + k /\ Clean(wire[i + k])
      BY <1>1, <2>5, <3>1 DEF Stayed, Wire
    <3>. QED
      BY <2>2, <3>1, <3>2 DEF Stayed, Seats, Deletes
  <2>. QED
    BY <2>4, <2>5
<1>. QED
  BY <1>5, <1>6, <1>7 DEF Seats

\* Asking to enter a room: what the mapping says is what is to be left.
LEMMA AskSeats ==
  ASSUME Basic, OwnTab, Seats, NEW t \in Tab, NEW f \in Frame, Issue(f),
         Asking(t) => Owner[t] \in hurried', hurried \subseteq hurried',
         f.at = "cleanup", f.tab = t, f.seen = playerRoom[Owner[t]], UNCHANGED <<storeVars, putBack>>
  PROVE  Seats'
<1>1. PICK u \in User : u = Owner[t]
  BY RoomSessionAssumption
<1>2. /\ Moves(0, <<f>>) /\ UNCHANGED <<rooms, playerRoom, putBack>>
      /\ Orderly' \subseteq Orderly /\ (u \in Orderly' => Alone(0, u))
  BY <1>1, IssueMoves, AskerAlone, TypeFields DEF Basic, storeVars, Orderly
<1>3. \A w \in User, c \in Code : Member(w, c)' => Member(w, c)
  BY <1>2 DEF Member, Exists
<1>4. ASSUME u \in Orderly', NEW c \in Code, Member(u, c) PROVE playerRoom[u] = c
  <2>1. ASSUME NEW i \in Wire, wire[i].at = "createMapping", Owner[wire[i].tab] = u PROVE FALSE
    BY <1>2, <1>4, <2>1 DEF Alone, Entering, Wire
  <2>. QED
    BY <1>2, <1>4, <2>1 DEF Seats, Mapped
<1>5. u \in Orderly' => \A c \in Code : Member(u, c)' =>
           /\ playerRoom'[u] = c \/ (f.at = "createMapping" /\ f.code = c)
           /\ f.at \in Entering => \/ f.at = "cleanup" /\ f.seen = c
                                   \/ f.at = "createMapping" /\ f.code = c
           /\ \A j \in Wire : j > 0 /\ wire[j].at = "deleteKeys" /\ u \in Listed(wire[j]) => c = wire[j].code
  BY <1>1, <1>2, <1>3, <1>4 DEF Seats, Deletes
<1>6. \A w \in Orderly', c \in Code : w # u /\ Member(w, c)' =>
        Member(w, c) /\ (playerRoom[w] = c => playerRoom'[w] = c)
  BY <1>2, <1>3 DEF Orderly
<1>7. /\ f.at # "deleteKeys" /\ Owner[f.tab] = u
  BY <1>1
<1>. QED
  BY <1>2, <1>5, <1>6, <1>7, MoverKeepsSeats

LEMMA AskCreateSeats == ASSUME Basic, OwnTab, Seats, NEW t \in Tab, AskCreate(t) PROVE Seats'
<1>. DEFINE f == [at |-> "cleanup", kind |-> "create", tab |-> t, code |-> NoCode, seen |-> playerRoom[Owner[t]]]
<1>1. Ask(t, "create") /\ Issue(f) /\ UNCHANGED <<storeVars, putBack>>
  BY DEF AskCreate, marks
<1>2. (Asking(t) => Owner[t] \in hurried') /\ hurried \subseteq hurried' /\ Owner[t] \in User
  BY <1>1, AskFields DEF AsksGrow
<1>3. f \in Frame /\ f.at = "cleanup" /\ f.tab = t /\ f.seen = playerRoom[Owner[t]]
  BY <1>2, TypeFields DEF Frame, Basic, StoreTypeOK, MaybeCode
<1>. QED
  BY <1>1, <1>2, <1>3, AskSeats

LEMMA AskJoinSeats == ASSUME Basic, OwnTab, Seats, NEW t \in Tab, NEW c \in Code, AskJoin(t, c) PROVE Seats'
<1>. DEFINE f == [at |-> "cleanup", kind |-> "join", tab |-> t, code |-> c, seen |-> playerRoom[Owner[t]]]
<1>1. Ask(t, "join") /\ Issue(f) /\ UNCHANGED <<storeVars, putBack>>
  BY DEF AskJoin, marks
<1>2. (Asking(t) => Owner[t] \in hurried') /\ hurried \subseteq hurried' /\ Owner[t] \in User
  BY <1>1, AskFields DEF AsksGrow
<1>3. f \in Frame /\ f.at = "cleanup" /\ f.tab = t /\ f.seen = playerRoom[Owner[t]]
  BY <1>2, TypeFields DEF Frame, Basic, StoreTypeOK, MaybeCode
<1>. QED
  BY <1>1, <1>2, <1>3, AskSeats

\* The user at the head of the wire.
LEMMA HeadSteps ==
  ASSUME Basic, Seats, wire # <<>>, Reply.at \in Entering, NEW u \in Orderly, u = Owner[Reply.tab],
         NEW c \in Code, Member(u, c)
  PROVE  \/ Reply.at = "cleanup" /\ Reply.seen = c
         \/ Reply.at = "createMapping" /\ Reply.code = c
BY HeadOfWire DEF Seats, Steps, Basic

\* Whom a deletion lists has not cleaned up before it.
LEMMA HeadDeletes ==
  ASSUME Basic, Seats, wire # <<>>, Clean(Reply), NEW u \in Orderly, u = Owner[Reply.tab],
         NEW j \in Wire, j > 1, wire[j].at = "deleteKeys"
  PROVE  u \notin Listed(wire[j])
BY HeadOfWire DEF Seats, Deletes, Basic

LEMMA LeaveStaleSeats == ASSUME Basic, OwnTab, Seats, LeaveStale PROVE Seats'
<1>. DEFINE f == [Reply EXCEPT !.at = "cleaned"]
<1>1. /\ wire # <<>> /\ Reply \in Frame /\ Reply.at = "cleanup" /\ Reply.tab \in Tab /\ Owner[Reply.tab] \in User
      /\ 1 \in Wire /\ wire[1] = Reply
  BY Resumed DEF LeaveStale, Asks
<1>2. PICK u \in User : u = Owner[Reply.tab]
  BY <1>1
<1>3. f.at = "cleaned" /\ f.tab = Reply.tab
  <2>1. Reply \in [at : {"cleanup", "cleaned"}, kind : {"create", "join"}, tab : Tab,
                   code : MaybeCode, seen : MaybeCode]
    BY <1>1 DEF Frame
  <2>. QED
    BY <2>1
<1>4. Moves(1, <<f>>) /\ SeatsQuiet /\ UNCHANGED <<putBack, hurried>> /\ Orderly' = Orderly
  BY LeaveStaleQuiet, OrderlyStays DEF LeaveStale, asks
<1>5. \A c \in Code : c = Reply.seen => ~Member(u, c)'
  BY <1>2, LeaveStaleQuiet
<1>. HIDE DEF f
<1>6. u \in Orderly' => Alone(1, u)
  BY <1>1, <1>2, <1>4, ReplyAlone DEF Entering, Orderly
<1>7. u \in Orderly' => \A c \in Code : ~Member(u, c)'
  <2>. SUFFICES ASSUME u \in Orderly', NEW c \in Code, Member(u, c)' PROVE FALSE
    OBVIOUS
  <2>1. Member(u, c)
    BY <1>4 DEF SeatsQuiet, Orderly
  <2>2. Reply.seen = c
    BY <1>1, <1>2, <1>4, <2>1, HeadSteps DEF Entering
  <2>. QED
    BY <1>5, <2>2
<1>8. \A w \in Orderly', c \in Code : w # u /\ Member(w, c)' =>
        Member(w, c) /\ (playerRoom[w] = c => playerRoom'[w] = c)
  BY <1>4 DEF SeatsQuiet, Orderly
<1>. QED
  BY <1>1, <1>2, <1>3, <1>4, <1>6, <1>7, <1>8, MoverKeepsSeats DEF Entering

LEMMA CreateRoomSeats == ASSUME Basic, OwnTab, Seats, NEW c \in Code, CreateRoom(c) PROVE Seats'
<1>. DEFINE f == [at |-> "createMapping", tab |-> Reply.tab, code |-> c]
<1>1. /\ CleanedUp("create") /\ c \notin minted /\ Then(f) /\ UNCHANGED <<playerRoom, putBack, hurried>>
      /\ rooms' = [rooms EXCEPT ![c] = NewRoom(Owner[Reply.tab])]
  BY DEF CreateRoom, SetRoom, LetIn, asks
<1>2. /\ wire # <<>> /\ Reply.at \in {"cleanup", "cleaned"} /\ Reply.tab \in Tab /\ Owner[Reply.tab] \in User
      /\ Reply.at = "cleanup" => Reply.seen = NoCode
  BY <1>1, CleanedUpFields
<1>3. PICK u \in User : u = Owner[Reply.tab]
  BY <1>2
<1>4. Clean(Reply) /\ Reply.at \in Entering
  BY <1>2 DEF Clean, Entering
<1>0. Orderly' = Orderly
  BY <1>1, OrderlyStays
<1>5. u \in Orderly' => Alone(1, u)
  BY <1>0, <1>2, <1>3, <1>4, ReplyAlone DEF Orderly
<1>6. f \in Frame /\ f.at = "createMapping" /\ f.code = c /\ Owner[f.tab] = u
  BY <1>2, <1>3 DEF Frame
<1>. HIDE DEF f
<1>7. Moves(1, <<f>>)
  BY <1>1, <1>2, <1>6, ThenMoves, TypeFields DEF Basic
<1>8. /\ \A w \in User, d \in Code : d # c => (Member(w, d)' <=> Member(w, d))
      /\ \A w \in User : Member(w, c)' => w = u
  BY <1>1, <1>3, TypeFields DEF Basic, StoreTypeOK, Member, Exists, NewRoom
<1>9. u \in Orderly' => \A d \in Code : Member(u, d)' => d = c
  <2>. SUFFICES ASSUME u \in Orderly', NEW d \in Code, Member(u, d), d # c PROVE FALSE
    BY <1>8
  <2>. QED
    BY <1>0, <1>2, <1>3, <1>4, HeadSteps, RoomStoreAssumption DEF Clean
<1>10. \A j \in Wire : u \in Orderly' /\ j > 1 /\ wire[j].at = "deleteKeys" => u \notin Listed(wire[j])
  BY <1>0, <1>2, <1>3, <1>4, HeadDeletes
<1>11. \A w \in Orderly', d \in Code : w # u /\ Member(w, d)' =>
         Member(w, d) /\ (playerRoom[w] = d => playerRoom'[w] = d)
  BY <1>1, <1>8 DEF Orderly
<1>. QED
  BY <1>0, <1>1, <1>2, <1>3, <1>4, <1>5, <1>6, <1>7, <1>9, <1>10, <1>11, MoverKeepsSeats

LEMMA CreateMappingSeats == ASSUME Basic, OwnTab, Seats, CreateMapping PROVE Seats'
<1>. DEFINE f == [Reply EXCEPT !.at = "createIndex"]
<1>1. /\ Resumes("createMapping") /\ UNCHANGED <<rooms, putBack, hurried>>
      /\ playerRoom' = [playerRoom EXCEPT ![Owner[Reply.tab]] = Reply.code]
  BY DEF CreateMapping, SetPlayerRoom, marks, asks
<1>2. /\ wire # <<>> /\ Reply \in Frame /\ Reply.at = "createMapping" /\ Reply.tab \in Tab /\ Owner[Reply.tab] \in User
  BY <1>1, Resumed DEF Asks
<1>3. PICK u \in User : u = Owner[Reply.tab]
  BY <1>2
<1>4. f.at = "createIndex" /\ Owner[f.tab] = u
  <2>1. Reply \in [at : {"createMapping", "createIndex", "enter", "left"}, tab : Tab, code : Code]
    BY <1>2 DEF Frame
  <2>. QED
    BY <1>3, <2>1
<1>5. Moves(1, <<f>>)
  BY CreateMappingQuiet
<1>. HIDE DEF f
<1>0. Orderly' = Orderly
  BY <1>1, OrderlyStays
<1>6. u \in Orderly' => Alone(1, u)
  BY <1>0, <1>2, <1>3, ReplyAlone DEF Entering, Orderly
<1>7. \A w \in User, d \in Code : Member(w, d)' => Member(w, d)
  BY <1>1 DEF Member, Exists
<1>8. \A w \in User \ {u} : playerRoom'[w] = playerRoom[w]
  BY <1>1, <1>3, TypeFields DEF Basic, StoreTypeOK
<1>9. playerRoom'[u] = Reply.code
  BY <1>1, <1>3, TypeFields DEF Basic, StoreTypeOK
<1>10. u \in Orderly' => \A d \in Code : Member(u, d)' => d = Reply.code
  BY <1>0, <1>2, <1>3, <1>7, HeadSteps DEF Entering
<1>11. u \in Orderly' => \A d \in Code : Member(u, d)' =>
         \A j \in Wire : wire[j].at = "deleteKeys" /\ u \in Listed(wire[j]) => d = wire[j].code
  BY <1>0, <1>3, <1>7 DEF Seats, Deletes
<1>. QED
  BY <1>0, <1>1, <1>2, <1>3, <1>4, <1>5, <1>6, <1>7, <1>8, <1>9, <1>10, <1>11, MoverKeepsSeats
  DEF Entering, Orderly

LEMMA JoinRoomSeats == ASSUME Basic, OwnTab, Seats, JoinRoom PROVE Seats'
<1>1. CASE Sitting
  BY <1>1, SittingKeepsSeats DEF JoinRoom, asks
<1>2. CASE /\ JoinScript(Reply.code, Owner[Reply.tab]) /\ Reply.code \in Code
           /\ Moves(1, <<[at |-> "enter", tab |-> Reply.tab, code |-> Reply.code]>>)
  <2>. DEFINE f == [at |-> "enter", tab |-> Reply.tab, code |-> Reply.code]
  <2>1. CleanedUp("join") /\ UNCHANGED <<putBack, hurried>> /\ Orderly' = Orderly
    BY OrderlyStays DEF JoinRoom, LetIn, marks, asks
  <2>2. /\ wire # <<>> /\ Reply.at \in {"cleanup", "cleaned"} /\ Reply.tab \in Tab /\ Owner[Reply.tab] \in User
        /\ Reply.at = "cleanup" => Reply.seen = NoCode
    BY <2>1, CleanedUpFields
  <2>3. PICK u \in User : u = Owner[Reply.tab]
    BY <2>2
  <2>4. PICK c \in Code : c = Reply.code
    BY <1>2
  <2>5. Clean(Reply) /\ Reply.at \in Entering
    BY <2>2 DEF Clean, Entering
  <2>6. u \in Orderly' => Alone(1, u)
    BY <2>1, <2>2, <2>3, <2>5, ReplyAlone DEF Orderly
  <2>7. f.at = "enter" /\ Owner[f.tab] = u /\ Moves(1, <<f>>)
    BY <1>2, <2>3
  <2>. HIDE DEF f
  <2>8. /\ Exists(c) /\ rooms' = [rooms EXCEPT ![c].players = @ \cup {u}]
        /\ playerRoom' = [playerRoom EXCEPT ![u] = c]
    BY <1>2, <2>3, <2>4 DEF JoinScript, CanJoin
  <2>9. /\ \A w \in User, d \in Code : Member(w, d)' => Member(w, d) \/ (w = u /\ d = c)
        /\ playerRoom'[u] = c /\ \A w \in User \ {u} : playerRoom'[w] = playerRoom[w]
    <3>1. StoreTypeOK /\ rooms[c] \in Room
      BY <2>8, MaybeRooms, TypeFields DEF Basic
    <3>2. \A d \in Code \ {c} : rooms'[d] = rooms[d]
      BY <2>8, <3>1 DEF StoreTypeOK
    <3>3. rooms'[c].players = rooms[c].players \cup {u}
      BY <2>8, <3>1 DEF StoreTypeOK, Room
    <3>4. playerRoom'[u] = c /\ \A w \in User \ {u} : playerRoom'[w] = playerRoom[w]
      BY <2>8, <3>1 DEF StoreTypeOK
    <3>. QED
      BY <2>8, <3>2, <3>3, <3>4 DEF Member, Exists
  <2>10. u \in Orderly' => \A d \in Code : Member(u, d)' => d = c
    <3>. SUFFICES ASSUME u \in Orderly', NEW d \in Code, Member(u, d), d # c PROVE FALSE
      BY <2>9
    <3>. QED
      BY <2>1, <2>2, <2>3, <2>5, HeadSteps, RoomStoreAssumption DEF Clean
  <2>11. \A j \in Wire : u \in Orderly' /\ j > 1 /\ wire[j].at = "deleteKeys" => u \notin Listed(wire[j])
    BY <2>1, <2>2, <2>3, <2>5, HeadDeletes
  <2>12. \A w \in Orderly', d \in Code : w # u /\ Member(w, d)' =>
           Member(w, d) /\ (playerRoom[w] = d => playerRoom'[w] = d)
    BY <2>9 DEF Orderly
  <2>. QED
    BY <2>1, <2>2, <2>3, <2>5, <2>6, <2>7, <2>9, <2>10, <2>11, <2>12, MoverKeepsSeats DEF Entering
<1>. QED
  BY <1>1, <1>2, JoinRoomQuiet

\* A deletion clears the mappings of those alone whose only room goes with it.
LEMMA DeleteRoomKeysSits == ASSUME Basic, OwnTab, Seats, DeleteRoomKeys PROVE Sitting
<1>1. /\ Resumes("deleteKeys") /\ Then([at |-> "deleteIndex", code |-> Reply.code])
      /\ DeleteKeys(Reply.code, Listed(Reply)) /\ UNCHANGED <<minted, marks, asks>>
  BY DEF DeleteRoomKeys, Listed
<1>2. wire # <<>> /\ Reply.at = "deleteKeys" /\ Reply.code \in Code /\ 1 \in Wire /\ wire[1] = Reply
  BY <1>1, Resumed, FrameFields
<1>3. PICK c \in Code : c = Reply.code
  BY <1>2
<1>. DEFINE f == [at |-> "deleteIndex", code |-> c]
<1>4. f \in Frame /\ f.at = "deleteIndex" /\ Then(f)
  BY <1>1, <1>3 DEF Frame
<1>. HIDE DEF f
<1>5. SeatedWire
  BY <1>1, <1>2, <1>4, WireThen DEF Asks, Named, Naming, Entering, Fresh
<1>6. SeatsQuiet
  <2>1. /\ rooms' = [rooms EXCEPT ![c] = NoRoom]
        /\ playerRoom' = [u \in User |-> IF u \in Listed(Reply) THEN NoCode ELSE playerRoom[u]]
    BY <1>1, <1>3 DEF DeleteKeys
  <2>2. \A u \in User, d \in Code : Member(u, d)' => Member(u, d) /\ d # c
    BY <2>1, TypeFields DEF Member, Exists, Basic, StoreTypeOK
  <2>3. \A u \in Listed(Reply) \cap Orderly, d \in Code : Member(u, d) => d = c
    BY <1>2, <1>3 DEF Seats, Deletes
  <2>4. putBack' = putBack /\ hurried' = hurried
    BY <1>1 DEF marks, asks
  <2>. QED
    BY <2>1, <2>2, <2>3, <2>4 DEF SeatsQuiet, Orderly
<1>. QED
  BY <1>1, <1>5, <1>6, MarksStay DEF Sitting

\* What is remembered of who was in a hurry.
HurryGrows == hurried \subseteq hurried' /\ cut \subseteq cut'

LEMMA NextHurryGrows == ASSUME [Next]_vars PROVE HurryGrows
<1>1. CASE \E t \in Tab : Request(t) \/ Connect(t) \/ DropSeated(t) \/ DropUnseated(t) \/ GiveUp(t)
  BY <1>1 DEF Request, HurryGrows, AskCreate, AskLeave, AskStart, AskRestart, AskJoin, AskReady, AskVote, AskAbout, Ask,
     Connect, DropSeated, DropUnseated, GoOffline, GiveUp, asks
<1>2. CASE AdminRequest
  BY <1>2 DEF AdminRequest, AskClose, AskKick, HurryGrows
<1>3. CASE Resume
  BY <1>3 DEF Resume, RefuseElsewhere, LeaveStale, CreateRoom, CreateMapping, CreateIndex, JoinRoom, Enter, Left,
     CheckStart, CreateGame, LoadMap, SetCallbacks, Restart, Vote, Kicked, Closed, DeleteRoomKeys,
     DeleteRoomIndex, RestoreParty, RestoreRoom, DropLookup, asks, HurryGrows
<1>4. CASE \E g \in Game : ResumeMatch(g) \/ GameOver(g)
  BY <1>4 DEF ResumeMatch, MapLoaded, MapMissing, StartLoop, MarkFinished, GameOver, asks, HurryGrows
<1>5. CASE \E g \in Game, u \in User : PlayerDies(g, u) \/ GraceExpires(g, u)
  BY <1>5 DEF PlayerDies, GraceExpires, asks, HurryGrows
<1>6. CASE (\E c \in Code : VoteTimeout(c)) \/ Reap \/ \E u \in User : ExpireMapping(u)
  BY <1>6 DEF VoteTimeout, Reap, ExpireMapping, asks, HurryGrows
<1>7. CASE UNCHANGED vars
  BY <1>7 DEF vars, asks, HurryGrows
<1>. QED
  BY <1>1, <1>2, <1>3, <1>4, <1>5, <1>6, <1>7 DEF Next

LEMMA ResumeKeepsSeats == ASSUME Basic, OwnTab, Seats, Resume PROVE Seats'
<1>0. hurried \subseteq hurried'
  BY NextHurryGrows DEF Next, HurryGrows
<1>1. CASE RefuseElsewhere \/ CreateIndex \/ Enter \/ Left \/ SetCallbacks \/ Kicked \/ DeleteRoomIndex
           \/ RestoreParty \/ RestoreRoom \/ DropLookup
  BY <1>0, <1>1, SittingKeepsSeats, RefuseElsewhereQuiet, CreateIndexQuiet, EnterQuiet, LeftQuiet, SetCallbacksQuiet,
     KickedQuiet, DeleteRoomIndexQuiet, RestorePartyQuiet, RestoreRoomQuiet, DropLookupQuiet
<1>2. CASE CheckStart \/ Restart \/ Vote \/ Closed \/ DeleteRoomKeys
  BY <1>0, <1>2, SittingKeepsSeats, CheckStartStep, RestartStep, VoteStep, ClosedStep, DeleteRoomKeysSits
<1>3. CASE \E g \in Game : CreateGame(g) \/ LoadMap(g)
  <2>1. Sitting
    BY <1>3, NewMatchStep DEF CreateGame, LoadMap
  <2>. QED
    BY <1>0, <2>1, SittingKeepsSeats
<1>4. CASE LeaveStale \/ (\E c \in Code : CreateRoom(c)) \/ CreateMapping \/ JoinRoom
  BY <1>4, LeaveStaleSeats, CreateRoomSeats, CreateMappingSeats, JoinRoomSeats
<1>. QED
  BY <1>1, <1>2, <1>3, <1>4 DEF Resume

LEMMA NextKeepsSeats ==
  ASSUME Basic, OwnTab, "expire" \notin Kinds, Seats, [Next]_vars
  PROVE  Seats'
<1>0. hurried \subseteq hurried'
  BY NextHurryGrows DEF HurryGrows
<1>1. CASE \E t \in Tab : Request(t)
  <2>1. PICK t \in Tab : Request(t)
    BY <1>1
  <2>2. CASE AskCreate(t) \/ \E c \in Code : AskJoin(t, c)
    BY <2>2, AskCreateSeats, AskJoinSeats
  <2>3. CASE AskLeave(t) \/ \E b \in BOOLEAN : AskReady(t, b)
    BY <1>0, <2>3, SittingKeepsSeats, AskLeaveQuiet, AskReadyQuiet
  <2>4. CASE AskStart(t) \/ AskRestart(t) \/ \E b \in BOOLEAN : AskVote(t, b)
    <3>1. Sitting
      BY <2>4, AskAboutQuiet DEF AskStart, AskRestart, AskVote
    <3>. QED
      BY <1>0, <3>1, SittingKeepsSeats
  <2>. QED
    BY <2>1, <2>2, <2>3, <2>4 DEF Request
<1>2. CASE \E t \in Tab : Connect(t) \/ DropSeated(t) \/ DropUnseated(t) \/ GiveUp(t)
  BY <1>0, <1>2, SittingKeepsSeats, ConnectQuiet, DropSeatedQuiet, DropUnseatedQuiet, GiveUpQuiet
<1>3. CASE AdminRequest
  BY <1>0, <1>3, SittingKeepsSeats, AskCloseQuiet, AskKickQuiet DEF AdminRequest
<1>4. CASE Resume
  BY <1>4, ResumeKeepsSeats
<1>5. CASE \E g \in Game : ResumeMatch(g) \/ GameOver(g)
  <2>1. Sitting
    BY <1>5, MapLoadedStep, MapMissingStep, StartLoopStep, MarkFinishedStep, GameOverStep DEF ResumeMatch
  <2>. QED
    BY <1>0, <2>1, SittingKeepsSeats
<1>6. CASE (\E g \in Game, u \in User : PlayerDies(g, u) \/ GraceExpires(g, u))
           \/ (\E c \in Code : VoteTimeout(c)) \/ Reap
  BY <1>0, <1>6, SittingKeepsSeats, PlayerDiesQuiet, GraceExpiresQuiet, VoteTimeoutQuiet, ReapQuiet
<1>7. CASE \E u \in User : ExpireMapping(u)
  BY <1>7 DEF ExpireMapping, Spend
<1>8. CASE UNCHANGED vars
  <2>1. UNCHANGED <<storeVars, wire, marks>>
    BY <1>8 DEF vars
  <2>2. Sitting
    BY <2>1, StoreStays, MarksStay, WireStays DEF Sitting
  <2>. QED
    BY <1>0, <2>2, SittingKeepsSeats
<1>. QED
  BY <1>1, <1>2, <1>3, <1>4, <1>5, <1>6, <1>7, <1>8 DEF Next

\* A user with one tab, whose mapping does not lapse, is never a player of two
\* rooms, whatever is created, joined, kicked, closed, lost and deleted in
\* between (cleanupStaleRoom, the join and leave scripts, deleteRoom).  Who is
\* put back by a reset into a room left meanwhile, or asked for something before
\* the last request was answered, is excepted.
THEOREM RoomsAreSingle ==
  ASSUME \A s, t \in Tab : Owner[s] = Owner[t] => s = t, "expire" \notin Kinds
  PROVE  Spec => []OneRoomPerUser
<1>1. OwnTab
  BY DEF OwnTab
<1>2. Init => Basic /\ Seats
  <2>. SUFFICES ASSUME Init PROVE Basic /\ Seats
    OBVIOUS
  <2>1. Wire = {} /\ \A u \in User, c \in Code : ~Member(u, c)
    BY DEF Init, StoreInit, Wire, Member, Exists
  <2>. QED
    BY <2>1, InitBasic DEF Seats, Mapped, Steps, Deletes, Orderly
<1>3. Basic /\ Seats /\ [Next]_vars => (Basic /\ Seats)'
  BY <1>1, NextKeeps, NextKeepsSeats
<1>4. Basic /\ Seats => OneRoomPerUser
  BY <1>1, SeatsAreOne
<1>. QED
  BY <1>2, <1>3, <1>4, PTL DEF Spec

-----------------------------------------------------------------------------
(* In what order a tab connects, asks and leaves *)

\* What restoreSession waits for.
Restoring == {"restoreParty", "restoreRoom"}

\* A tab asks for nothing while its session is restored but a room to enter,
\* and is let into it only afterwards.
InOrder(i, j) ==
  /\ wire[j].at # "left"
  /\ wire[i].at = "restoreParty" => wire[j].at = "cleanup"
  /\ j > i \/ (wire[i].at = "restoreRoom" /\ wire[j].at = "cleanup")

\* A tab that asks is there, unless it dropped within the request.
Present == \A i \in Wire : wire[i].at \in Asks => sock[wire[i].tab] = "on" \/ Owner[wire[i].tab] \in cut

NotNew == \A i \in Wire : wire[i].at \in Asks \cup Restoring => sock[wire[i].tab] # "new"

NewSeats == \A t \in Tab : sock[t] = "new" => active[t] = NoCode

\* Whoever leaves a room, and asks for nothing else meanwhile, sits in no other.
LeftActive ==
  \A i \in Wire : wire[i].at = "left" /\ Owner[wire[i].tab] \notin hurried =>
    active[wire[i].tab] \in {NoCode, wire[i].code}

\* Only a tab that has dropped gives a room up, and one room only.
Partings ==
  /\ \A t \in Tab : sock[t] # "gone" => parting[t] = NoCode
  /\ \A i \in Wire : wire[i].at = "lookup" =>
       /\ sock[wire[i].tab] = "gone" /\ parting[wire[i].tab] = NoCode
       /\ \A j \in Wire : wire[j].at = "lookup" /\ wire[j].tab = wire[i].tab => i = j

Restores ==
  \A i \in Wire : wire[i].at \in Restoring =>
    /\ active[wire[i].tab] = NoCode
    /\ \A j \in Wire : wire[j].at \in Restoring /\ wire[j].tab = wire[i].tab => i = j
    /\ \A j \in Wire : wire[j].at \in Asks /\ wire[j].tab = wire[i].tab => InOrder(i, j)

TabOrder == Present /\ NotNew /\ NewSeats /\ LeftActive /\ Restores /\ Partings

\* A new request goes on with that of the reply, or is made by a tab that is
\* there.
AskSound(k, f) ==
  f.at \in Asks =>
    \/ k = 1 /\ Reply.at \in Asks /\ f.tab = Reply.tab /\ f.at # "left"
    \/ /\ f.tab \in Tab /\ sock[f.tab] = "on"
       /\ f.at = "cleanup" \/ active[f.tab] # NoCode
       /\ f.at = "left" => f.code = active[f.tab]

RestoreSound(k, f) ==
  f.at \in Restoring => k = 1 /\ Reply.at = "restoreParty" /\ f.at = "restoreRoom" /\ f.tab = Reply.tab

\* A tab that drops looks the mapping up once.
LookupSound(k, new) ==
  \A j \in 1 .. Len(new) : new[j].at = "lookup" =>
    /\ new[j].tab \in Tab /\ sock[new[j].tab] = "on" /\ sock'[new[j].tab] = "gone"
    /\ \A i \in 1 .. Len(new) : i = j

Sound(k, new) ==
  /\ Moves(k, new)
  /\ \A j \in 1 .. Len(new) : AskSound(k, new[j]) /\ RestoreSound(k, new[j])
  /\ \A i, j \in 1 .. Len(new) : new[i].at \in Restoring => i = j
  /\ LookupSound(k, new)

ActiveSound(k, new) ==
  \A t \in Tab : \/ active'[t] \in {active[t], NoCode}
                 \/ k = 1 /\ new = <<>> /\ Reply.at \in {"enter", "restoreRoom"} /\ Reply.tab = t

SockSound(k, new) ==
  \A t \in Tab :
    \/ sock'[t] = sock[t]
    \/ /\ sock[t] = "on" /\ sock'[t] = "gone" /\ k = 0
       /\ Asking(t) => Owner[t] \in cut'
       /\ \A j \in 1 .. Len(new) : new[j].at \notin Asks

PartSound(k, new) ==
  \A t \in Tab :
    \/ parting'[t] \in {parting[t], NoCode}
    \/ new = <<>> /\ sock[t] = "on" /\ sock'[t] = "gone"
    \/ k = 1 /\ new = <<>> /\ Reply.at = "lookup" /\ Reply.tab = t

\* The tab of a frame.
LEMMA TabOf ==
  ASSUME Basic
  PROVE  \A i \in Wire : wire[i].at \in Asks \cup Restoring => wire[i].tab \in Tab
<1>. SUFFICES ASSUME NEW i \in Wire, wire[i].at \in Asks \cup Restoring PROVE wire[i].tab \in Tab
  OBVIOUS
<1>1. wire[i] \in Frame
  BY TypeFields DEF Basic, Wire
<1>. QED
  BY <1>1, FrameFields DEF Asks, Restoring

LEMMA HeadMoves ==
  ASSUME Basic, NEW k, NEW new, Moves(k, new)
  PROVE  /\ k \in {0, 1}
         /\ k = 1 => Reply \in Frame /\ 1 \in Wire /\ wire[1] = Reply
         /\ \A i \in Wire' : Stayed(k, i) \/ IsNew(k, new, i)
<1>1. wire \in Seq(Frame) /\ TypeOK
  BY TypeFields DEF Basic
<1>2. k = 1 => wire # <<>>
  BY DEF Moves
<1>. QED
  BY <1>1, <1>2, Origin, HeadOfWire DEF Moves

LEMMA PresentKept ==
  ASSUME Basic, Present, HurryGrows, NEW k, NEW new, Sound(k, new), SockSound(k, new)
  PROVE  Present'
<1>. SUFFICES ASSUME NEW i \in Wire', wire'[i].at \in Asks
              PROVE  sock'[wire'[i].tab] = "on" \/ Owner[wire'[i].tab] \in cut'
  BY DEF Present
<1>1. Moves(k, new) /\ TypeOK
  BY DEF Sound, Basic
<1>2. /\ k \in {0, 1} /\ (k = 1 => 1 \in Wire /\ wire[1] = Reply)
      /\ Stayed(k, i) \/ IsNew(k, new, i)
  BY <1>1, HeadMoves
<1>3. CASE Stayed(k, i)
  <2>1. PICK t \in Tab : t = wire[i + k].tab /\ t = wire'[i].tab
    BY <1>3, TabOf DEF Stayed
  <2>2. sock[t] = "on" \/ Owner[t] \in cut
    BY <1>3, <2>1 DEF Present, Stayed
  <2>3. Asking(t)
    BY <1>1, <1>3, <2>1, AskingIs DEF Stayed
  <2>. QED
    BY <2>1, <2>2, <2>3 DEF SockSound, HurryGrows
<1>4. CASE IsNew(k, new, i)
  <2>1. PICK j \in 1 .. Len(new) : wire'[i] = new[j]
    BY <1>4 DEF IsNew
  <2>2. AskSound(k, new[j]) /\ new[j].at \in Asks
    BY <2>1 DEF Sound
  <2>3. new[j].tab \in Tab /\ (sock[new[j].tab] = "on" \/ Owner[new[j].tab] \in cut)
    BY <1>2, <2>2, TabOf DEF AskSound, Present
  <2>. QED
    BY <2>1, <2>2, <2>3 DEF SockSound, HurryGrows
<1>. QED
  BY <1>2, <1>3, <1>4

LEMMA NotNewKept ==
  ASSUME Basic, NotNew, NewSeats, NEW k, NEW new, Sound(k, new), ActiveSound(k, new), SockSound(k, new)
  PROVE  NotNew' /\ NewSeats'
<1>1. Moves(k, new)
  BY DEF Sound
<1>2. k \in {0, 1} /\ (k = 1 => 1 \in Wire /\ wire[1] = Reply)
  BY <1>1, HeadMoves
<1>3. ASSUME NEW i \in Wire', wire'[i].at \in Asks \cup Restoring PROVE sock'[wire'[i].tab] # "new"
  <2>1. wire'[i].tab \in Tab /\ sock[wire'[i].tab] # "new"
    <3>1. CASE Stayed(k, i)
      BY <1>3, <3>1, TabOf DEF Stayed, NotNew
    <3>2. CASE IsNew(k, new, i)
      <4>1. PICK j \in 1 .. Len(new) : wire'[i] = new[j]
        BY <3>2 DEF IsNew
      <4>. QED
        BY <1>2, <1>3, <4>1, TabOf DEF Sound, AskSound, RestoreSound, NotNew, Restoring
    <3>. QED
      BY <1>1, <3>1, <3>2, HeadMoves
  <2>. QED
    BY <2>1 DEF SockSound
<1>4. ASSUME NEW t \in Tab, sock'[t] = "new" PROVE active'[t] = NoCode
  <2>1. sock[t] = "new"
    BY <1>4 DEF SockSound
  <2>2. ~(k = 1 /\ Reply.at \in {"enter", "restoreRoom"} /\ Reply.tab = t)
    BY <1>2, <2>1 DEF NotNew, Asks, Restoring
  <2>. QED
    BY <2>1, <2>2 DEF ActiveSound, NewSeats
<1>. QED
  BY <1>3, <1>4 DEF NotNew, NewSeats

LEMMA LeftActiveKept ==
  ASSUME Basic, HurryGrows, LeftActive, Restores, NEW k, NEW new, Sound(k, new), ActiveSound(k, new)
  PROVE  LeftActive'
<1>1. Moves(k, new) /\ OneAsk
  BY DEF Sound, Basic
<1>2. k \in {0, 1} /\ (k = 1 => 1 \in Wire /\ wire[1] = Reply)
  BY <1>1, HeadMoves
<1>. SUFFICES ASSUME NEW i \in Wire', wire'[i].at = "left", Owner[wire'[i].tab] \notin hurried'
              PROVE  active'[wire'[i].tab] \in {NoCode, wire'[i].code}
  BY DEF LeftActive
<1>0. Owner[wire'[i].tab] \notin hurried
  BY DEF HurryGrows
<1>3. CASE Stayed(k, i)
  <2>1. /\ i + k \in Wire /\ wire[i + k] = wire'[i] /\ wire[i + k].tab \in Tab
        /\ active[wire[i + k].tab] \in {NoCode, wire[i + k].code} /\ i \in Nat /\ i > 0
    BY <1>0, <1>3, TabOf DEF Stayed, LeftActive, Asks, Wire
  <2>2. ~(k = 1 /\ Reply.at = "enter" /\ Reply.tab = wire[i + k].tab)
    BY <1>0, <1>1, <1>2, <2>1 DEF OneAsk, Asks
  <2>3. ~(k = 1 /\ Reply.at = "restoreRoom" /\ Reply.tab = wire[i + k].tab)
    BY <1>2, <2>1 DEF Restores, Restoring, InOrder, Asks
  <2>. QED
    BY <2>1, <2>2, <2>3 DEF ActiveSound
<1>4. CASE IsNew(k, new, i)
  <2>1. PICK j \in 1 .. Len(new) : wire'[i] = new[j]
    BY <1>4 DEF IsNew
  <2>2. new # <<>>
    BY <2>1
  <2>. QED
    BY <2>1, <2>2 DEF Sound, AskSound, ActiveSound, Asks
<1>. QED
  BY <1>1, <1>3, <1>4, HeadMoves

LEMMA RestoresKept ==
  ASSUME Basic, Restores, NEW k, NEW new, Sound(k, new), ActiveSound(k, new)
  PROVE  Restores'
<1>1. Moves(k, new) /\ Len(wire) \in Nat
  BY TypeFields DEF Sound, Basic
<1>2. k \in {0, 1} /\ (k = 1 => 1 \in Wire /\ wire[1] = Reply)
  BY <1>1, HeadMoves
<1>. SUFFICES ASSUME NEW i \in Wire', wire'[i].at \in Restoring
              PROVE  /\ active'[wire'[i].tab] = NoCode
                     /\ \A j \in Wire' : wire'[j].at \in Restoring /\ wire'[j].tab = wire'[i].tab => i = j
                     /\ \A j \in Wire' : wire'[j].at \in Asks /\ wire'[j].tab = wire'[i].tab => InOrder(i, j)'
  BY DEF Restores
<1>3. i \in Nat /\ i > 0 /\ \A j \in Wire' : j \in Nat /\ j > 0 /\ (Stayed(k, j) \/ IsNew(k, new, j))
  BY <1>1, HeadMoves DEF Wire
<1>4. CASE Stayed(k, i)
  <2>1. PICK p \in Wire : p = i + k /\ p > k /\ wire[p] = wire'[i]
    BY <1>2, <1>3, <1>4 DEF Stayed
  <2>2. PICK t \in Tab : t = wire[p].tab
    BY <1>4, <2>1, TabOf
  <2>3. /\ active[t] = NoCode
        /\ \A j \in Wire : wire[j].at \in Restoring /\ wire[j].tab = t => p = j
        /\ \A j \in Wire : wire[j].at \in Asks /\ wire[j].tab = t => InOrder(p, j)
    BY <1>4, <2>1, <2>2 DEF Restores
  <2>4. k = 1 /\ Reply.tab = t =>
          Reply.at \notin Restoring /\ (Reply.at \in Asks => wire[p].at = "restoreRoom" /\ Reply.at = "cleanup")
    <3>. SUFFICES ASSUME k = 1, Reply.tab = t
                  PROVE  /\ Reply.at \notin Restoring
                         /\ Reply.at \in Asks => wire[p].at = "restoreRoom" /\ Reply.at = "cleanup"
      OBVIOUS
    <3>1. p > 1 /\ p \in Nat /\ 1 \in Wire /\ wire[1] = Reply
      BY <1>2, <2>1 DEF Wire
    <3>2. Reply.at \in Asks => InOrder(p, 1)
      BY <2>3, <3>1
    <3>. QED
      BY <2>3, <3>1, <3>2 DEF InOrder
  <2>5. active'[t] = NoCode
    BY <2>1, <2>3, <2>4 DEF ActiveSound, Restoring, Asks
  <2>6. ASSUME NEW j \in Wire', wire'[j].at \in Restoring, wire'[j].tab = t PROVE i = j
    <3>1. CASE Stayed(k, j)
      <4>1. j + k = p
        BY <2>3, <2>6, <3>1 DEF Stayed
      <4>. QED
        BY <1>2, <1>3, <2>1, <4>1
    <3>2. CASE IsNew(k, new, j)
      BY <2>4, <2>6, <3>2 DEF IsNew, Sound, RestoreSound, Restoring
    <3>. QED
      BY <1>3, <3>1, <3>2
  <2>7. ASSUME NEW j \in Wire', wire'[j].at \in Asks, wire'[j].tab = t PROVE InOrder(i, j)'
    <3>1. CASE Stayed(k, j)
      <4>1. j + k \in Wire /\ wire[j + k] = wire'[j] /\ InOrder(p, j + k)
        BY <2>3, <2>7, <3>1 DEF Stayed
      <4>. QED
        <5>1. j \in Nat /\ (j + k > p => j > i)
          BY <1>2, <1>3, <2>1
        <5>. QED
          BY <2>1, <4>1, <5>1 DEF InOrder
    <3>2. CASE IsNew(k, new, j)
      <4>1. j > i
        BY <1>1, <1>2, <1>3, <1>4, <3>2 DEF Stayed, IsNew
      <4>2. PICK n \in 1 .. Len(new) : wire'[j] = new[n]
        BY <3>2 DEF IsNew
      <4>3. AskSound(k, new[n])
        BY DEF Sound
      <4>4. wire'[j].at # "left"
        <5>1. active[t] # NoCode => FALSE
          BY <2>3
        <5>2. wire'[j].at = "left" => wire'[j].code = active[t] /\ wire'[j].code \in Code
          BY <2>7, <4>2, <4>3, FrameFields DEF AskSound, Sound, Moves
        <5>. QED
          BY <2>3, <5>2, RoomStoreAssumption
      <4>5. wire[p].at = "restoreParty" => wire'[j].at = "cleanup"
        BY <2>3, <2>4, <2>7, <4>2, <4>3 DEF AskSound
      <4>. QED
        BY <2>1, <4>1, <4>4, <4>5 DEF InOrder
    <3>. QED
      BY <1>3, <3>1, <3>2
  <2>. QED
    BY <2>1, <2>2, <2>5, <2>6, <2>7
<1>5. CASE IsNew(k, new, i)
  <2>1. PICK m \in 1 .. Len(new) : i = Len(wire) - k + m /\ wire'[i] = new[m]
    BY <1>5 DEF IsNew
  <2>2. RestoreSound(k, new[m]) /\ \A n \in 1 .. Len(new) : m = n
    BY <1>5, <2>1 DEF Sound
  <2>3. /\ k = 1 /\ Reply.at = "restoreParty" /\ wire'[i].at = "restoreRoom" /\ wire'[i].tab = Reply.tab
        /\ Reply.tab \in Tab
    BY <1>2, <2>1, <2>2, TabOf DEF RestoreSound, Restoring
  <2>. DEFINE t == Reply.tab
  <2>4. /\ active[t] = NoCode
        /\ \A j \in Wire : wire[j].at \in Restoring /\ wire[j].tab = t => 1 = j
        /\ \A j \in Wire : wire[j].at \in Asks /\ wire[j].tab = t => wire[j].at = "cleanup"
    BY <1>2, <2>3 DEF Restores, Restoring, InOrder
  <2>5. active'[t] = NoCode
    BY <2>1, <2>3, <2>4 DEF ActiveSound
  <2>6. ASSUME NEW j \in Wire', wire'[j].at \in Restoring, wire'[j].tab = t PROVE i = j
    <3>1. CASE Stayed(k, j)
      BY <1>3, <2>3, <2>4, <2>6, <3>1 DEF Stayed
    <3>2. CASE IsNew(k, new, j)
      BY <2>1, <2>2, <3>2 DEF IsNew
    <3>. QED
      BY <1>3, <3>1, <3>2
  <2>7. ASSUME NEW j \in Wire', wire'[j].at \in Asks, wire'[j].tab = t PROVE InOrder(i, j)'
    <3>1. CASE Stayed(k, j)
      BY <2>3, <2>4, <2>7, <3>1 DEF Stayed, InOrder
    <3>2. CASE IsNew(k, new, j)
      BY <2>1, <2>2, <2>3, <2>7, <3>2 DEF IsNew, Asks, Restoring
    <3>. QED
      BY <1>3, <3>1, <3>2
  <2>. QED
    BY <2>3, <2>5, <2>6, <2>7
<1>. QED
  BY <1>3, <1>4, <1>5

LEMMA PartingsKept ==
  ASSUME Basic, Partings, NEW k, NEW new, Sound(k, new), SockSound(k, new), PartSound(k, new)
  PROVE  Partings'
<1>1. Moves(k, new)
  BY DEF Sound
<1>2. k \in {0, 1} /\ (k = 1 => 1 \in Wire /\ wire[1] = Reply) /\ Len(wire) \in Nat
  BY <1>1, HeadMoves, TypeFields DEF Basic
<1>3. \A i \in Wire' : i \in Nat /\ i > 0 /\ (Stayed(k, i) \/ IsNew(k, new, i))
  BY <1>1, HeadMoves DEF Wire
<1>4. ASSUME NEW t \in Tab, sock'[t] # "gone" PROVE parting'[t] = NoCode
  <2>1. sock[t] # "gone" /\ parting[t] = NoCode
    BY <1>4 DEF SockSound, Partings
  <2>2. ~(k = 1 /\ Reply.at = "lookup" /\ Reply.tab = t)
    BY <1>2, <2>1 DEF Partings
  <2>. QED
    BY <1>4, <2>1, <2>2 DEF PartSound
<1>5. ASSUME NEW i \in Wire', wire'[i].at = "lookup"
      PROVE  /\ sock'[wire'[i].tab] = "gone" /\ parting'[wire'[i].tab] = NoCode
             /\ \A j \in Wire' : wire'[j].at = "lookup" /\ wire'[j].tab = wire'[i].tab => i = j
  <2>1. CASE Stayed(k, i)
    <3>1. /\ i + k \in Wire /\ wire[i + k] = wire'[i] /\ wire[i + k] \in Frame
          /\ k = 1 => i + k # 1
      BY <1>2, <1>3, <2>1, TypeFields DEF Stayed, Basic, Wire
    <3>2. PICK t \in Tab : t = wire[i + k].tab /\ t = wire'[i].tab
      BY <1>5, <3>1, FrameFields
    <3>3. /\ sock[t] = "gone" /\ parting[t] = NoCode
          /\ \A j \in Wire : wire[j].at = "lookup" /\ wire[j].tab = t => i + k = j
      BY <1>5, <3>1, <3>2 DEF Partings
    <3>4. sock'[t] = "gone"
      BY <3>3 DEF SockSound
    <3>5. ~(k = 1 /\ Reply.at = "lookup" /\ Reply.tab = t)
      BY <1>2, <3>1, <3>3
    <3>6. parting'[t] = NoCode
      BY <3>3, <3>5 DEF PartSound
    <3>7. ASSUME NEW j \in Wire', wire'[j].at = "lookup", wire'[j].tab = t PROVE i = j
      <4>1. CASE Stayed(k, j)
        <5>1. j + k = i + k
          BY <3>3, <3>7, <4>1 DEF Stayed
        <5>. QED
          BY <1>2, <1>3, <5>1
      <4>2. CASE IsNew(k, new, j)
        BY <3>3, <3>7, <4>2 DEF IsNew, Sound, LookupSound
      <4>. QED
        BY <1>3, <4>1, <4>2
    <3>. QED
      BY <3>2, <3>4, <3>6, <3>7
  <2>2. CASE IsNew(k, new, i)
    <3>1. PICK m \in 1 .. Len(new) : i = Len(wire) - k + m /\ wire'[i] = new[m]
      BY <2>2 DEF IsNew
    <3>2. PICK t \in Tab : t = new[m].tab /\ sock[t] = "on" /\ sock'[t] = "gone" /\ \A n \in 1 .. Len(new) : n = m
      BY <1>5, <3>1 DEF Sound, LookupSound
    <3>3. parting[t] = NoCode /\ new # <<>>
      BY <3>1, <3>2 DEF Partings
    <3>4. parting'[t] = NoCode
      BY <3>3 DEF PartSound
    <3>5. ASSUME NEW j \in Wire', wire'[j].at = "lookup", wire'[j].tab = t PROVE i = j
      <4>1. ~Stayed(k, j)
        BY <3>2, <3>5 DEF Stayed, Partings
      <4>2. PICK n \in 1 .. Len(new) : j = Len(wire) - k + n
        BY <1>3, <4>1 DEF IsNew
      <4>. QED
        BY <3>1, <3>2, <4>2
    <3>. QED
      BY <3>1, <3>2, <3>4, <3>5
  <2>. QED
    BY <1>3, <2>1, <2>2
<1>. QED
  BY <1>4, <1>5 DEF Partings

LEMMA TabOrderKept ==
  ASSUME Basic, HurryGrows, TabOrder, NEW k, NEW new,
         Sound(k, new), ActiveSound(k, new), SockSound(k, new), PartSound(k, new)
  PROVE  TabOrder'
BY PresentKept, NotNewKept, LeftActiveKept, RestoresKept, PartingsKept DEF TabOrder

\* A tab that connects waits for its session only.
LEMMA ConnectOrder ==
  ASSUME Basic, HurryGrows, TabOrder, NEW t \in Tab, Connect(t)
  PROVE  TabOrder'
<1>. DEFINE f == [at |-> "restoreParty", tab |-> t]
<1>1. sock[t] = "new" /\ sock' = [sock EXCEPT ![t] = "on"] /\ Issue(f)
      /\ UNCHANGED active /\ UNCHANGED parting
  BY DEF Connect
<1>2. f \in Frame /\ f.at = "restoreParty" /\ f.tab = t
  BY DEF Frame
<1>. HIDE DEF f
<1>3. sock \in [Tab -> {"new", "on", "gone"}] /\ Len(wire) \in Nat
  BY TypeFields DEF Basic
<1>4. Moves(0, <<f>>) /\ Len(<<f>>) = 1 /\ <<f>>[1] = f
  BY <1>1, <1>2, IssueMoves, TypeFields DEF Basic
<1>5. \A i \in Wire' : \/ i \in Wire /\ wire'[i] = wire[i]
                       \/ i \notin Wire /\ i = Len(wire) + 1 /\ wire'[i] = f
  BY <1>3, <1>4, HeadMoves DEF Stayed, IsNew, Wire
<1>6. \A i \in Wire : wire[i].at \in Asks \cup Restoring => wire[i].tab \in Tab /\ wire[i].tab # t
  BY <1>1, TabOf DEF TabOrder, NotNew
<1>7. Present'
  BY <1>1, <1>2, <1>3, <1>5, <1>6 DEF TabOrder, Present, Asks, HurryGrows
<1>8. NotNew' /\ NewSeats'
  BY <1>1, <1>2, <1>3, <1>5, <1>6 DEF TabOrder, NotNew, NewSeats
<1>9. LeftActive'
  BY <1>1, <1>2, <1>5, <1>6 DEF TabOrder, LeftActive, Asks, HurryGrows
<1>10. Restores'
  <2>. SUFFICES ASSUME NEW i \in Wire', wire'[i].at \in Restoring
                PROVE  /\ active'[wire'[i].tab] = NoCode
                       /\ \A j \in Wire' : wire'[j].at \in Restoring /\ wire'[j].tab = wire'[i].tab => i = j
                       /\ \A j \in Wire' : wire'[j].at \in Asks /\ wire'[j].tab = wire'[i].tab => InOrder(i, j)'
    BY DEF Restores
  <2>1. CASE i \in Wire /\ wire'[i] = wire[i]
    <3>1. wire[i].tab # t
      BY <1>6, <2>1
    <3>. QED
      BY <1>1, <1>2, <1>5, <2>1, <3>1 DEF TabOrder, Restores, InOrder, Asks
  <2>2. CASE i \notin Wire /\ i = Len(wire) + 1 /\ wire'[i] = f
    BY <1>1, <1>2, <1>5, <1>6, <2>2 DEF TabOrder, NewSeats, Asks
  <2>. QED
    BY <1>5, <2>1, <2>2
<1>11. Partings'
  <2>1. \A s \in Tab : sock'[s] # "gone" => sock[s] # "gone"
    BY <1>1, <1>3
  <2>2. \A i \in Wire : wire[i].at = "lookup" => wire[i].tab \in Tab /\ sock'[wire[i].tab] = sock[wire[i].tab]
    <3>1. \A i \in Wire : wire[i] \in Frame
      BY TypeFields DEF Basic, Wire
    <3>. QED
      BY <1>1, <1>3, <3>1, FrameFields DEF TabOrder, Partings
  <2>. QED
    BY <1>1, <1>2, <1>5, <2>1, <2>2 DEF TabOrder, Partings
<1>. QED
  BY <1>7, <1>8, <1>9, <1>10, <1>11 DEF TabOrder

-----------------------------------------------------------------------------
(* Who is let in, and who is put out *)

Way == {"createMapping", "createIndex", "enter"}

WayFrame(f, u, c) == f.at \in Way /\ Owner[f.tab] = u /\ f.code = c

PutsOut == {"left", "kicked", "closed"}

EnterFrame(f, u, c) == f.at = "enter" /\ Owner[f.tab] = u /\ f.code = c

\* A reply on which a tab of the user's forgets the room.
Evicts(f, u, c) ==
  \/ f.at = "left" /\ f.code = c /\ Owner[f.tab] = u
  \/ f.at = "kicked" /\ f.code = c /\ f.user = u
  \/ f.at = "closed" /\ f.code = c /\ \E t \in f.tabs : Owner[t] = u

Clear == User \ (putBack \cup astray \cup hurried \cup cut)

Early(c) == Exists(c) /\ rooms[c].status \in {"waiting", "countdown"}

\* On the way into a room, a user is in no other and on the way into no other.
OneWay ==
  \A u \in Clear, c, d \in Code : OnTheWay(u, c) /\ (Member(u, d) \/ OnTheWay(u, d)) => c = d

\* Whoever is being put out of a room and is in it has come back, and is
\* seated again afterwards.
Evicted ==
  \A i \in Wire, u \in Clear, c \in Code : Evicts(wire[i], u, c) /\ Member(u, c) =>
    \E j \in Wire : j > i /\ EnterFrame(wire[j], u, c)

EvictsMinted == \A i \in Wire : wire[i].at \in PutsOut => wire[i].code \in minted

RoomOrder == OneWay /\ Evicted /\ EvictsMinted /\ NoGhost

MarksGrow ==
  /\ putBack \subseteq putBack' /\ astray \subseteq astray' /\ reopened \subseteq reopened' /\ minted \subseteq minted'
  /\ HurryGrows

EvictSound(new) ==
  \A j \in 1 .. Len(new) :
    /\ \A u \in Clear', c \in Code : Evicts(new[j], u, c) => ~Member(u, c)'
    /\ new[j].at \in PutsOut => new[j].code \in minted'

WayKept ==
  \A u \in Clear', c \in Code :
    /\ OnTheWay(u, c)' => OnTheWay(u, c)
    /\ OnTheWay(u, c) => OnTheWay(u, c)' \/ SeatedIn(u, c)'

RoomsKept ==
  /\ \A u \in Clear', c \in Code : Member(u, c)' => Member(u, c)
  /\ \A u \in Clear', c \in Code \ reopened' : Member(u, c)' /\ Early(c)' => Early(c) \/ SeatedIn(u, c)'

SeatsKept ==
  \A u \in Clear', c \in Code \ reopened' :
    (SeatedIn(u, c) \/ Parting(u, c)) /\ Member(u, c)' /\ Early(c)' =>
      SeatedIn(u, c)' \/ OnTheWay(u, c)' \/ Parting(u, c)'

LEMMA OnTheWayIs ==
  ASSUME wire \in Seq(Frame), wire' \in Seq(Frame)
  PROVE  \A u, c : /\ OnTheWay(u, c) <=> \E i \in Wire : WayFrame(wire[i], u, c)
                   /\ OnTheWay(u, c)' <=> \E i \in Wire' : WayFrame(wire'[i], u, c)
BY DEF OnTheWay, WayFrame, Way, Wire

LEMMA WayMoves ==
  ASSUME Basic, NEW k, NEW new, Moves(k, new), NEW u, NEW c
  PROVE  OnTheWay(u, c)' <=> \/ \E i \in Wire : i > k /\ WayFrame(wire[i], u, c)
                             \/ \E j \in 1 .. Len(new) : WayFrame(new[j], u, c)
<1>1. wire \in Seq(Frame) /\ wire' \in Seq(Frame) /\ k \in {0, 1} /\ Len(wire) \in Nat /\ Len(new) \in Nat
  BY TypeFields DEF Basic, Moves
<1>2. OnTheWay(u, c)' <=> \E i \in Wire' : WayFrame(wire'[i], u, c)
  BY <1>1, OnTheWayIs
<1>3. ASSUME NEW i \in Wire', WayFrame(wire'[i], u, c)
      PROVE  \/ \E p \in Wire : p > k /\ WayFrame(wire[p], u, c)
             \/ \E j \in 1 .. Len(new) : WayFrame(new[j], u, c)
  <2>1. CASE Stayed(k, i)
    <3>1. i + k \in Wire /\ i + k > k /\ wire[i + k] = wire'[i]
      BY <1>1, <2>1 DEF Stayed, Wire
    <3>. QED
      BY <1>3, <3>1
  <2>2. CASE IsNew(k, new, i)
    BY <1>3, <2>2 DEF IsNew
  <2>. QED
    BY <2>1, <2>2, HeadMoves
<1>4. ASSUME NEW i \in Wire, i > k, WayFrame(wire[i], u, c) PROVE \E p \in Wire' : WayFrame(wire'[p], u, c)
  BY <1>1, <1>4, Remains
<1>5. ASSUME NEW j \in 1 .. Len(new), WayFrame(new[j], u, c) PROVE \E p \in Wire' : WayFrame(wire'[p], u, c)
  <2>1. Len(wire) - k + j \in Wire' /\ wire'[Len(wire) - k + j] = new[j]
    BY <1>1 DEF Moves, Wire
  <2>. QED
    BY <1>5, <2>1
<1>. QED
  BY <1>2, <1>3, <1>4, <1>5

\* Nobody new on the way, and nobody arrives.
LEMMA WayStays ==
  ASSUME Basic, NEW k, NEW new, Moves(k, new), k = 1 => Reply.at \notin Way,
         \A j \in 1 .. Len(new) : new[j].at \notin Way
  PROVE  \A u, c : OnTheWay(u, c)' <=> OnTheWay(u, c)
<1>. SUFFICES ASSUME NEW u, NEW c PROVE OnTheWay(u, c)' <=> OnTheWay(u, c)
  OBVIOUS
<1>1. wire \in Seq(Frame) /\ wire' \in Seq(Frame) /\ k \in {0, 1} /\ (k = 1 => 1 \in Wire /\ wire[1] = Reply)
  BY TypeFields, HeadMoves DEF Basic, Moves
<1>2. OnTheWay(u, c) <=> \E i \in Wire : WayFrame(wire[i], u, c)
  BY <1>1, OnTheWayIs
<1>3. \A i \in Wire : WayFrame(wire[i], u, c) => i > k
  BY <1>1 DEF WayFrame, Wire
<1>. QED
  BY <1>2, <1>3, WayMoves DEF WayFrame

LEMMA EvictedKept ==
  ASSUME Basic, Evicted, EvictsMinted, NEW k, NEW new, Moves(k, new), EvictSound(new), MarksGrow,
         \A u \in Clear', c \in Code : Member(u, c)' =>
           \/ Member(u, c)
           \/ c \notin minted
           \/ \E n \in 1 .. Len(new) : EnterFrame(new[n], u, c)
  PROVE  Evicted' /\ EvictsMinted'
<1>1. wire \in Seq(Frame) /\ k \in {0, 1} /\ Len(wire) \in Nat /\ Len(new) \in Nat
  BY TypeFields DEF Basic, Moves
<1>2. EvictsMinted'
  <2>. SUFFICES ASSUME NEW i \in Wire', wire'[i].at \in PutsOut
                PROVE  wire'[i].code \in minted'
    BY DEF EvictsMinted
  <2>. QED
    BY HeadMoves DEF Stayed, IsNew, EvictsMinted, EvictSound, MarksGrow
<1>3. ASSUME NEW i \in Wire', NEW u \in Clear', NEW c \in Code, Evicts(wire'[i], u, c), Member(u, c)'
      PROVE  \E j \in Wire' : j > i /\ EnterFrame(wire'[j], u, c)
  <2>1. u \in Clear
    BY DEF Clear, MarksGrow, HurryGrows
  <2>2. CASE Stayed(k, i)
    <3>1. PICK p \in Wire : p = i + k /\ wire[p] = wire'[i] /\ p \in Nat /\ i \in Nat /\ i > 0 /\ i =< Len(wire) - k
      BY <1>1, <2>2 DEF Stayed, Wire
    <3>2. c \in minted
      BY <1>3, <3>1 DEF Evicts, EvictsMinted, PutsOut
    <3>3. CASE Member(u, c)
      <4>1. PICK j \in Wire : j > p /\ EnterFrame(wire[j], u, c) /\ j \in Nat
        BY <1>3, <2>1, <3>1, <3>3 DEF Evicted, Wire
      <4>2. j > k /\ j - k > i
        BY <1>1, <3>1, <4>1
      <4>3. j - k \in Wire' /\ wire'[j - k] = wire[j]
        BY <1>1, <4>1, <4>2, Remains
      <4>. QED
        BY <4>1, <4>2, <4>3
    <3>4. CASE \E n \in 1 .. Len(new) : EnterFrame(new[n], u, c)
      <4>1. PICK n \in 1 .. Len(new) : EnterFrame(new[n], u, c)
        BY <3>4
      <4>2. Len(wire) - k + n \in Wire' /\ wire'[Len(wire) - k + n] = new[n] /\ Len(wire) - k + n > i
        BY <1>1, <3>1 DEF Moves, Wire
      <4>. QED
        BY <4>1, <4>2
    <3>. QED
      BY <1>3, <3>2, <3>3, <3>4
  <2>3. CASE IsNew(k, new, i)
    BY <1>3, <2>3 DEF IsNew, EvictSound
  <2>. QED
    BY <2>2, <2>3, HeadMoves
<1>. QED
  BY <1>2, <1>3 DEF Evicted

LEMMA RoomOrderKept ==
  ASSUME Basic, RoomOrder, NEW k, NEW new, Moves(k, new), EvictSound(new), MarksGrow,
         WayKept, RoomsKept, SeatsKept
  PROVE  RoomOrder'
<1>1. Clear' \subseteq Clear /\ Code \ reopened' \subseteq Code \ reopened
  BY DEF Clear, MarksGrow, HurryGrows
<1>2. OneWay'
  BY <1>1 DEF RoomOrder, OneWay, WayKept, RoomsKept
<1>3. Evicted' /\ EvictsMinted'
  BY EvictedKept DEF RoomOrder, RoomsKept
<1>4. NoGhost'
  BY <1>1 DEF RoomOrder, NoGhost, Member, Early, Clear, WayKept, RoomsKept, SeatsKept
<1>. QED
  BY <1>2, <1>3, <1>4 DEF RoomOrder

\* Steps that let nobody in and put nobody out.
IdleWire(k, new) ==
  /\ Sound(k, new)
  /\ k = 1 => Reply.at \notin Way
  /\ \A j \in 1 .. Len(new) : new[j].at \notin Way \cup PutsOut

LEMMA IdleStays == ASSUME Basic, UNCHANGED wire PROVE IdleWire(0, <<>>)
BY StaysMoves, TypeFields DEF Basic, IdleWire, Sound, LookupSound

LEMMA IdleReturn ==
  ASSUME Basic, wire # <<>>, Return, Reply.at \notin Way
  PROVE  IdleWire(1, <<>>)
BY ReturnMoves, TypeFields DEF Basic, IdleWire, Sound, LookupSound

LEMMA IssueSound ==
  ASSUME Basic, NEW f \in Frame, Issue(f), f.at \notin Restoring, f.at # "lookup", AskSound(0, f)
  PROVE  Sound(0, <<f>>) /\ Len(<<f>>) = 1 /\ <<f>>[1] = f
<1>1. Moves(0, <<f>>) /\ Len(<<f>>) = 1 /\ <<f>>[1] = f
  BY IssueMoves, TypeFields DEF Basic
<1>. QED
  BY <1>1 DEF Sound, RestoreSound, LookupSound

LEMMA ThenSound ==
  ASSUME Basic, wire # <<>>, NEW f \in Frame, Then(f), f.at # "lookup", AskSound(1, f), RestoreSound(1, f)
  PROVE  Sound(1, <<f>>) /\ Len(<<f>>) = 1 /\ <<f>>[1] = f
<1>1. Moves(1, <<f>>) /\ Len(<<f>>) = 1 /\ <<f>>[1] = f
  BY ThenMoves, TypeFields DEF Basic
<1>. QED
  BY <1>1 DEF Sound, LookupSound

LEMMA IdleIssue ==
  ASSUME Basic, NEW f \in Frame, Issue(f), f.at \notin Way \cup PutsOut \cup Restoring,
         f.at # "lookup", AskSound(0, f)
  PROVE  IdleWire(0, <<f>>)
BY IssueSound DEF IdleWire

LEMMA IdleThen ==
  ASSUME Basic, wire # <<>>, NEW f \in Frame, Then(f), f.at \notin Way \cup PutsOut, f.at # "lookup", Reply.at \notin Way,
         AskSound(1, f), RestoreSound(1, f)
  PROVE  IdleWire(1, <<f>>)
BY ThenSound DEF IdleWire

LEMMA IdleWay ==
  ASSUME Basic, NEW k, NEW new, IdleWire(k, new)
  PROVE  Moves(k, new) /\ Sound(k, new) /\ WayKept /\ EvictSound(new)
<1>1. Moves(k, new) /\ Sound(k, new)
  BY DEF IdleWire, Sound
<1>2. WayKept
  BY <1>1, WayStays DEF IdleWire, WayKept
<1>3. EvictSound(new)
  BY DEF IdleWire, EvictSound, Evicts, PutsOut
<1>. QED
  BY <1>1, <1>2, <1>3

LEMMA TabsSame ==
  ASSUME UNCHANGED <<sock, active, parting>>, NEW k, NEW new
  PROVE  ActiveSound(k, new) /\ SockSound(k, new) /\ PartSound(k, new) /\ SeatsKept
BY DEF ActiveSound, SockSound, PartSound, SeatsKept, SeatedIn, Parting

LEMMA IdleKeeps ==
  ASSUME Basic, TabOrder, RoomOrder, NEW k, NEW new, IdleWire(k, new), MarksGrow, RoomsKept,
         UNCHANGED <<sock, active, parting>>
  PROVE  TabOrder' /\ RoomOrder'
BY IdleWay, TabsSame, TabOrderKept, RoomOrderKept DEF MarksGrow

LEMMA MarksKept == ASSUME UNCHANGED <<minted, marks>>, HurryGrows PROVE MarksGrow
BY DEF marks, MarksGrow

LEMMA RoomsQuiet == ASSUME StatusQuiet, SeatsQuiet PROVE RoomsKept
BY DEF StatusQuiet, SeatsQuiet, RoomsKept, Early, Clear

Order == TabOrder /\ RoomOrder

\* A quiet step on an idle wire.
LEMMA IdleQuiet ==
  ASSUME Basic, HurryGrows, Order, NEW k, NEW new, IdleWire(k, new), Quiet /\ Sitting, UNCHANGED <<minted, marks, tabVars>>
  PROVE  Order'
<1>1. StatusQuiet /\ SeatsQuiet /\ UNCHANGED <<sock, active, parting>>
  BY DEF Quiet, Sitting, tabVars
<1>. QED
  BY <1>1, MarksKept, RoomsQuiet, IdleKeeps DEF Order

-----------------------------------------------------------------------------
(* The steps that let nobody in and put nobody out *)

LEMMA RefuseElsewhereOrder == ASSUME Basic, HurryGrows, Order, RefuseElsewhere PROVE Order'
<1>1. wire # <<>> /\ Reply.at = "cleanup" /\ Return /\ UNCHANGED <<minted, marks, tabVars>>
  BY DEF RefuseElsewhere, Resumes
<1>. QED
  BY <1>1, RefuseElsewhereQuiet, IdleReturn, IdleQuiet DEF Way

LEMMA SetCallbacksOrder == ASSUME Basic, HurryGrows, Order, SetCallbacks PROVE Order'
<1>1. wire # <<>> /\ Reply.at = "setCallbacks" /\ Return /\ UNCHANGED <<minted, marks, tabVars>>
  BY DEF SetCallbacks, Resumes
<1>. QED
  BY <1>1, SetCallbacksQuiet, IdleReturn, IdleQuiet DEF Way

LEMMA DeleteRoomIndexOrder == ASSUME Basic, HurryGrows, Order, DeleteRoomIndex PROVE Order'
<1>1. wire # <<>> /\ Reply.at = "deleteIndex" /\ Return /\ UNCHANGED <<minted, marks, tabVars>>
  BY DEF DeleteRoomIndex, Resumes
<1>. QED
  BY <1>1, DeleteRoomIndexQuiet, IdleReturn, IdleQuiet DEF Way

LEMMA VoteTimeoutOrder == ASSUME Basic, HurryGrows, Order, NEW c \in Code, VoteTimeout(c) PROVE Order'
BY VoteTimeoutQuiet, IdleStays, IdleQuiet DEF VoteTimeout

LEMMA ReapOrder == ASSUME Basic, HurryGrows, Order, Reap PROVE Order'
BY ReapQuiet, IdleStays, IdleQuiet DEF Reap

LEMMA PlayerDiesOrder == ASSUME Basic, HurryGrows, Order, NEW g \in Game, NEW u \in User, PlayerDies(g, u) PROVE Order'
BY PlayerDiesQuiet, IdleStays, IdleQuiet DEF PlayerDies

LEMMA AskReadyOrder == ASSUME Basic, HurryGrows, Order, NEW t \in Tab, NEW b, AskReady(t, b) PROVE Order'
<1>1. UNCHANGED <<minted, marks, tabVars, wire>>
  BY DEF AskReady
<1>. QED
  BY <1>1, AskReadyQuiet, IdleStays, IdleQuiet

LEMMA AskAboutOrder ==
  ASSUME Basic, HurryGrows, Order, NEW t \in Tab, NEW kind, NEW step \in {"checkStart", "restart", "voteYes", "voteNo"},
         AskAbout(t, kind, step)
  PROVE  Order'
<1>. DEFINE f == [at |-> step, tab |-> t, code |-> active[t], copy |-> rooms[active[t]]]
<1>1. active[t] # NoCode /\ Issue(f) /\ Ask(t, kind) /\ UNCHANGED <<minted, marks, tabVars>>
  BY DEF AskAbout
<1>2. active[t] \in Code /\ sock[t] = "on"
  BY <1>1, AskFields DEF Ask
<1>3. rooms[active[t]] \in MaybeRoom
  BY <1>2, MaybeRooms, TypeFields DEF Basic
<1>4. f \in Frame /\ f.at = step /\ f.tab = t
  BY <1>2, <1>3 DEF Frame
<1>. HIDE DEF f
<1>5. IdleWire(0, <<f>>)
  BY <1>1, <1>2, <1>4, IdleIssue DEF AskSound, Way, PutsOut, Restoring
<1>. QED
  BY <1>1, <1>5, AskAboutQuiet, IdleQuiet

LEMMA GraceExpiresOrder == ASSUME Basic, HurryGrows, Order, NEW g \in Game, NEW u \in User, GraceExpires(g, u) PROVE Order'
<1>. DEFINE n == Departed(games[g], u)
<1>1. wire' = wire \o Hiding(games[g], n) /\ UNCHANGED <<minted, marks, tabVars>>
  BY DEF GraceExpires
<1>2. wire \in Seq(Frame)
  BY TypeFields DEF Basic
<1>3. CASE Hiding(games[g], n) = <<>>
  BY <1>1, <1>2, <1>3, GraceExpiresQuiet, IdleStays, IdleQuiet
<1>4. CASE games[g].code \in Code /\ Hiding(games[g], n) = <<DeleteFrame(games[g].code)>>
  <2>1. PICK d : d = DeleteFrame(games[g].code)
    OBVIOUS
  <2>2. d \in Frame /\ d.at = "deleteKeys"
    BY <1>4, <2>1, DeleteFrames
  <2>3. Issue(d)
    BY <1>1, <1>2, <1>4, <2>1, <2>2 DEF Issue
  <2>4. IdleWire(0, <<d>>)
    BY <2>2, <2>3, IdleIssue DEF AskSound, Way, PutsOut, Restoring, Asks
  <2>. QED
    BY <1>1, <2>4, GraceExpiresQuiet, IdleQuiet
<1>. QED
  BY <1>3, <1>4, HidingIs

\* The same for a step that is not quiet, but keeps rooms and players.
LEMMA IdleStep ==
  ASSUME Basic, HurryGrows, Order, NEW k, NEW new, IdleWire(k, new), RoomsKept, UNCHANGED <<minted, marks, tabVars>>
  PROVE  Order'
<1>1. UNCHANGED <<sock, active, parting>>
  BY DEF tabVars
<1>. QED
  BY <1>1, MarksKept, IdleKeeps DEF Order

LEMMA RoomsSame == ASSUME UNCHANGED rooms PROVE RoomsKept
BY DEF RoomsKept, Member, Early, Exists

LEMMA EarlyKept == ASSUME SeatsQuiet, \A c \in Code : Early(c)' => Early(c) PROVE RoomsKept
BY DEF SeatsQuiet, RoomsKept, Clear

\* A script that sets a status from one of E sets it early only from early.
LEMMA StatusKept ==
  ASSUME Basic, NEW c \in Code, NEW s \in Status, NEW E, StatusScript(c, s, E), UNCHANGED minted,
         s \in {"playing", "finished"} \/ E = {"countdown"}
  PROVE  RoomsKept
<1>1. /\ SeatsQuiet /\ (Exists(c)' <=> Exists(c))
      /\ \A d \in Code \ {c} : rooms'[d] = rooms[d]
      /\ Exists(c) /\ rooms[c].status \in E => rooms'[c].status = s
      /\ ~(Exists(c) /\ rooms[c].status \in E) => UNCHANGED rooms
  BY StatusScriptFacts
<1>. QED
  BY <1>1, EarlyKept DEF Early, Exists

LEMMA AskCreateOrder == ASSUME Basic, HurryGrows, Order, NEW t \in Tab, AskCreate(t) PROVE Order'
<1>. DEFINE f == [at |-> "cleanup", kind |-> "create", tab |-> t, code |-> NoCode, seen |-> playerRoom[Owner[t]]]
<1>1. Ask(t, "create") /\ Issue(f) /\ UNCHANGED <<storeVars, minted, marks, tabVars>>
  BY DEF AskCreate
<1>2. Owner[t] \in User /\ sock[t] = "on"
  BY <1>1, AskFields DEF Ask
<1>3. f \in Frame /\ f.at = "cleanup" /\ f.tab = t
  BY <1>2, TypeFields DEF Frame, Basic, StoreTypeOK, MaybeCode
<1>. HIDE DEF f
<1>4. IdleWire(0, <<f>>)
  BY <1>1, <1>2, <1>3, IdleIssue DEF AskSound, Way, PutsOut, Restoring
<1>. QED
  BY <1>1, <1>4, RoomsSame, IdleStep DEF storeVars

LEMMA AskJoinOrder == ASSUME Basic, HurryGrows, Order, NEW t \in Tab, NEW c \in Code, AskJoin(t, c) PROVE Order'
<1>. DEFINE f == [at |-> "cleanup", kind |-> "join", tab |-> t, code |-> c, seen |-> playerRoom[Owner[t]]]
<1>1. Ask(t, "join") /\ Issue(f) /\ UNCHANGED <<storeVars, minted, marks, tabVars>>
  BY DEF AskJoin
<1>2. Owner[t] \in User /\ sock[t] = "on"
  BY <1>1, AskFields DEF Ask
<1>3. f \in Frame /\ f.at = "cleanup" /\ f.tab = t
  BY <1>2, TypeFields DEF Frame, Basic, StoreTypeOK, MaybeCode
<1>. HIDE DEF f
<1>4. IdleWire(0, <<f>>)
  BY <1>1, <1>2, <1>3, IdleIssue DEF AskSound, Way, PutsOut, Restoring
<1>. QED
  BY <1>1, <1>4, RoomsSame, IdleStep DEF storeVars

LEMMA ExpireMappingOrder == ASSUME Basic, HurryGrows, Order, NEW u \in User, ExpireMapping(u) PROVE Order'
<1>1. UNCHANGED rooms /\ UNCHANGED <<minted, marks, tabVars, wire>>
  BY DEF ExpireMapping, ExpirePlayerRoom, SetPlayerRoom
<1>. QED
  BY <1>1, RoomsSame, IdleStays, IdleStep

LEMMA LeaveStaleOrder == ASSUME Basic, HurryGrows, Order, LeaveStale PROVE Order'
<1>. DEFINE f == [Reply EXCEPT !.at = "cleaned"]
<1>1. Resumes("cleanup") /\ Then(f) /\ UNCHANGED <<minted, marks, tabVars>>
  BY DEF LeaveStale
<1>2. wire # <<>> /\ Reply \in Frame /\ Reply.at = "cleanup"
  BY <1>1, Resumed
<1>3. Reply \in [at : {"cleanup", "cleaned"}, kind : {"create", "join"}, tab : Tab,
                 code : MaybeCode, seen : MaybeCode]
  BY <1>2 DEF Frame
<1>4. f \in Frame /\ f.at = "cleaned" /\ f.tab = Reply.tab
  BY <1>3 DEF Frame
<1>. HIDE DEF f
<1>5. IdleWire(1, <<f>>)
  BY <1>1, <1>2, <1>4, IdleThen DEF AskSound, RestoreSound, Way, PutsOut, Restoring, Asks
<1>6. RoomsKept
  BY LeaveStaleQuiet, RoomsQuiet DEF Quiet
<1>. QED
  BY <1>1, <1>5, <1>6, IdleStep

LEMMA CheckStartOrder == ASSUME Basic, HurryGrows, Order, CheckStart PROVE Order'
<1>1. Resumes("checkStart") /\ UNCHANGED <<minted, marks, tabVars>>
  BY DEF CheckStart
<1>2. /\ wire # <<>> /\ Reply \in Frame /\ Reply.at = "checkStart" /\ Reply.code \in Code
      /\ StoreTypeOK
  BY <1>1, Resumed, FrameFields, TypeFields DEF Basic
<1>3. SeatsQuiet
  BY CheckStartStep DEF Sitting
<1>4. CASE Return /\ UNCHANGED storeVars
  BY <1>1, <1>2, <1>4, IdleReturn, RoomsSame, IdleStep DEF Way, storeVars
<1>5. CASE StartScript(Reply.code) /\ Then([at |-> "started", code |-> Reply.code, copy |-> rooms'[Reply.code]])
  <2>. DEFINE f == [at |-> "started", code |-> Reply.code, copy |-> rooms'[Reply.code]]
  <2>1. PICK c \in Code : c = Reply.code
    BY <1>2
  <2>2. /\ Exists(c) /\ rooms[c].status = "waiting"
        /\ rooms' = [rooms EXCEPT ![c].status = "countdown"] /\ UNCHANGED <<playerRoom, index>>
    BY <1>5, <2>1 DEF StartScript, CanStart
  <2>3. rooms'[c] \in Room
    BY <1>2, <2>2, StatusTyped DEF Status
  <2>4. f \in Frame /\ f.at = "started"
    BY <2>1, <2>3 DEF Frame
  <2>5. Then(f)
    BY <1>5
  <2>. HIDE DEF f
  <2>6. IdleWire(1, <<f>>)
    BY <1>2, <2>4, <2>5, IdleThen DEF AskSound, RestoreSound, Way, PutsOut, Restoring, Asks
  <2>7. \A d \in Code : Early(d)' => Early(d)
    BY <1>2, <2>2 DEF Early, Exists, StoreTypeOK
  <2>. QED
    BY <1>1, <1>3, <2>6, <2>7, EarlyKept, IdleStep
<1>. QED
  BY <1>4, <1>5 DEF CheckStart

LEMMA CreateGameOrder == ASSUME Basic, HurryGrows, Order, NEW g \in Game, CreateGame(g) \/ LoadMap(g) PROVE Order'
<1>1. /\ wire # <<>> /\ Reply.at = "started" /\ Return
      /\ UNCHANGED rooms /\ UNCHANGED <<minted, marks, tabVars>>
  BY DEF CreateGame, LoadMap, Resumes, storeVars
<1>. QED
  BY <1>1, IdleReturn, RoomsSame, IdleStep DEF Way

LEMMA MapLoadedOrder == ASSUME Basic, HurryGrows, Order, NEW g \in Game, MapLoaded(g) \/ GameOver(g) PROVE Order'
<1>1. UNCHANGED rooms /\ UNCHANGED wire /\ UNCHANGED <<minted, marks, tabVars>>
  BY DEF MapLoaded, GameOver, storeVars
<1>. QED
  BY <1>1, IdleStays, RoomsSame, IdleStep

\* The room of a match.
LEMMA MatchCode == ASSUME Basic, NEW g \in Game, games[g].phase # "unmade" PROVE games[g].code \in Code
BY TypeFields DEF Basic, Minted

LEMMA MapMissingOrder == ASSUME Basic, HurryGrows, Order, NEW g \in Game, MapMissing(g) PROVE Order'
<1>1. /\ games[g].phase = "loading" /\ StatusScript(games[g].code, "waiting", {"countdown"})
      /\ UNCHANGED wire /\ UNCHANGED minted /\ UNCHANGED <<minted, marks, tabVars>>
  BY DEF MapMissing
<1>2. RoomsKept
  BY <1>1, MatchCode, StatusKept DEF Status
<1>. QED
  BY <1>1, <1>2, IdleStays, IdleStep

LEMMA MarkFinishedOrder == ASSUME Basic, HurryGrows, Order, NEW g \in Game, MarkFinished(g) PROVE Order'
<1>1. /\ games[g].phase = "saving" /\ StatusScript(games[g].code, "finished", Status)
      /\ UNCHANGED wire /\ UNCHANGED minted /\ UNCHANGED <<minted, marks, tabVars>>
  BY DEF MarkFinished
<1>2. RoomsKept
  BY <1>1, MatchCode, StatusKept DEF Status
<1>. QED
  BY <1>1, <1>2, IdleStays, IdleStep

LEMMA StartLoopOrder == ASSUME Basic, HurryGrows, Order, NEW g \in Game, StartLoop(g) PROVE Order'
<1>. DEFINE f == [at |-> "setCallbacks", game |-> g]
<1>1. /\ games[g].phase = "starting" /\ StatusScript(games[g].code, "playing", Status) /\ Issue(f)
      /\ UNCHANGED minted /\ UNCHANGED <<minted, marks, tabVars>>
  BY DEF StartLoop
<1>2. f \in Frame /\ f.at = "setCallbacks"
  BY DEF Frame
<1>. HIDE DEF f
<1>3. RoomsKept
  BY <1>1, MatchCode, StatusKept DEF Status
<1>4. IdleWire(0, <<f>>)
  BY <1>1, <1>2, IdleIssue DEF AskSound, Way, PutsOut, Restoring, Asks
<1>. QED
  BY <1>1, <1>3, <1>4, IdleStep

\* deleteRoom forgets players, and lets nobody in.
LEMMA DeleteRoomKeysOrder == ASSUME Basic, HurryGrows, Order, DeleteRoomKeys PROVE Order'
<1>. DEFINE f == [at |-> "deleteIndex", code |-> Reply.code]
<1>1. /\ Resumes("deleteKeys") /\ Then(f) /\ rooms' = [rooms EXCEPT ![Reply.code] = NoRoom]
      /\ UNCHANGED <<minted, marks, tabVars>>
  BY DEF DeleteRoomKeys, DeleteKeys
<1>2. wire # <<>> /\ Reply.at = "deleteKeys" /\ Reply.code \in Code /\ StoreTypeOK
  BY <1>1, Resumed, FrameFields, TypeFields DEF Basic
<1>3. f \in Frame /\ f.at = "deleteIndex"
  BY <1>2 DEF Frame
<1>. HIDE DEF f
<1>4. RoomsKept
  BY <1>1, <1>2 DEF RoomsKept, Member, Early, Exists, StoreTypeOK
<1>5. IdleWire(1, <<f>>)
  BY <1>1, <1>2, <1>3, IdleThen DEF AskSound, RestoreSound, Way, PutsOut, Restoring, Asks
<1>. QED
  BY <1>1, <1>4, <1>5, IdleStep

-----------------------------------------------------------------------------
(* A reset *)

LEMMA ResetOrder ==
  ASSUME Basic, HurryGrows, Order, wire # <<>>, Reply.at \in {"restart", "voteYes", "voteNo"}, CopyFinished,
         ResetRoom, Return, UNCHANGED <<minted, tabVars, asks>>
  PROVE  Order'
<1>1. Reply \in Frame /\ StoreTypeOK
  BY HeadOfWire, TypeFields DEF Basic
<1>2. PICK c \in Code : c = Reply.code
  BY <1>1, FrameFields
<1>3. PICK r \in Room : r = Reply.copy
  BY <1>1, FrameFields DEF CopyFinished, MaybeRoom
<1>4. /\ rooms' = [rooms EXCEPT ![c] = Reset(r)]
      /\ putBack' = putBack \cup (r.players \ Players(c))
      /\ reopened' = IF Finished(c) THEN reopened ELSE reopened \cup {c}
      /\ astray' = astray \cup {u \in r.players : ~SeatedIn(u, c)}
      /\ UNCHANGED <<sock, active, parting>>
  BY <1>2, <1>3 DEF ResetRoom, SetRoom, tabVars
<1>5. Reset(r) \in Room /\ Reset(r).players = r.players
  BY ResetTyped DEF Reset, Room
<1>6. \A d \in Code \ {c} : rooms'[d] = rooms[d]
  BY <1>1, <1>4 DEF StoreTypeOK
<1>7. \A u \in Clear' : Member(u, c)' => SeatedIn(u, c)'
  <2>1. rooms'[c] = Reset(r)
    BY <1>1, <1>4 DEF StoreTypeOK
  <2>2. \A u : SeatedIn(u, c)' <=> SeatedIn(u, c)
    BY <1>4 DEF SeatedIn
  <2>. QED
    BY <1>4, <1>5, <2>1, <2>2 DEF Member, Clear
<1>8. RoomsKept
  <2>1. \A u \in Clear', d \in Code : Member(u, d)' => Member(u, d)
    BY ResetStep DEF Sitting, SeatsQuiet, Clear
  <2>2. \A u \in Clear', d \in Code \ reopened' : Member(u, d)' /\ Early(d)' => Early(d) \/ SeatedIn(u, d)'
    BY <1>6, <1>7 DEF Early, Exists
  <2>. QED
    BY <2>1, <2>2 DEF RoomsKept
<1>9. MarksGrow
  BY <1>4 DEF MarksGrow
<1>10. IdleWire(1, <<>>)
  BY IdleReturn DEF Way
<1>. QED
  BY <1>4, <1>8, <1>9, <1>10, IdleKeeps DEF Order

LEMMA RestartOrder == ASSUME Basic, HurryGrows, Order, Restart PROVE Order'
<1>1. wire # <<>> /\ Reply.at = "restart" /\ Return /\ UNCHANGED <<minted, tabVars, asks>>
  BY DEF Restart, Resumes
<1>2. CASE CopyFinished /\ ResetRoom
  BY <1>1, <1>2, ResetOrder
<1>3. CASE UNCHANGED <<storeVars, marks>>
  BY <1>1, <1>3, IdleReturn, RoomsSame, IdleStep DEF Way, storeVars
<1>. QED
  BY <1>2, <1>3 DEF Restart

LEMMA VoteOrder == ASSUME Basic, HurryGrows, Order, Vote PROVE Order'
<1>1. wire # <<>> /\ Reply.at \in {"voteYes", "voteNo"} /\ Return /\ UNCHANGED <<minted, tabVars, asks>>
  BY DEF Vote, Resumes
<1>2. CASE CopyFinished /\ ResetRoom
  BY <1>1, <1>2, ResetOrder
<1>3. CASE UNCHANGED <<storeVars, marks>>
  BY <1>1, <1>3, IdleReturn, RoomsSame, IdleStep DEF Way, storeVars
<1>. QED
  BY <1>2, <1>3 DEF Vote

-----------------------------------------------------------------------------
(* The steps that put a user out: first the store, then the tabs *)

LEMMA PutOutStep ==
  ASSUME Basic, HurryGrows, Order, NEW new, Sound(0, new), \A j \in 1 .. Len(new) : new[j].at \notin Way,
         EvictSound(new), RoomsKept, UNCHANGED <<minted, marks, tabVars>>
  PROVE  Order'
<1>1. UNCHANGED <<sock, active, parting>> /\ Moves(0, new)
  BY DEF tabVars, Sound
<1>2. WayKept
  BY <1>1, WayStays DEF WayKept
<1>. QED
  BY <1>1, <1>2, MarksKept, TabsSame, TabOrderKept, RoomOrderKept DEF Order

LEMMA LeaveForOrder ==
  ASSUME Basic, HurryGrows, Order, NEW c \in Code, NEW u \in User, NEW f \in Frame, LeaveFor(c, u, f),
         f.at \in {"left", "kicked"}, f.code = c, c \in minted, AskSound(0, f),
         f.at = "left" => Owner[f.tab] = u, f.at = "kicked" => f.user = u,
         UNCHANGED <<minted, marks, tabVars>>
  PROVE  Order'
<1>1. LeaveScript(c, {u}) /\ wire \in Seq(Frame) /\ managed \in [Code -> Game \cup {NoGame}]
  BY TypeFields DEF LeaveFor, Basic
<1>2. RoomsKept /\ ~Member(u, c)'
  BY <1>1, LeaveQuiet, RoomsQuiet
<1>3. \A v, d : Evicts(f, v, d) => ~Member(v, d)'
  BY <1>2 DEF Evicts
<1>4. Issue(f) => Order'
  <2>. SUFFICES ASSUME Issue(f) PROVE Order'
    OBVIOUS
  <2>1. Sound(0, <<f>>) /\ Len(<<f>>) = 1 /\ <<f>>[1] = f
    BY IssueSound DEF Restoring
  <2>2. EvictSound(<<f>>)
    BY <1>3, <2>1 DEF EvictSound
  <2>. QED
    BY <1>2, <2>1, <2>2, PutOutStep DEF Way
<1>5. CASE ~Managed(c)
  BY <1>4, <1>5 DEF LeaveFor
<1>6. CASE Managed(c)
  <2>1. PICK g \in Game : g = managed[c]
    BY <1>1, <1>6 DEF Managed
  <2>2. PICK m : m = games[g]
    OBVIOUS
  <2>3. PICK n : n = Departed(m, u)
    OBVIOUS
  <2>4. wire' = wire \o Hiding(m, n) \o <<f>>
    BY <1>6, <2>1, <2>2, <2>3 DEF LeaveFor
  <2>5. CASE Hiding(m, n) = <<>>
    <3>1. wire' = Append(wire, f)
      BY <1>1, <2>4, <2>5
    <3>. QED
      BY <1>4, <3>1 DEF Issue
  <2>6. CASE m.code \in Code /\ Hiding(m, n) = <<DeleteFrame(m.code)>>
    <3>1. PICK d : d = DeleteFrame(m.code)
      OBVIOUS
    <3>2. d \in Frame /\ d.at = "deleteKeys"
      BY <2>6, <3>1, DeleteFrames
    <3>. DEFINE new == <<d, f>>
    <3>3. new \in Seq(Frame) /\ Len(new) = 2 /\ new[1] = d /\ new[2] = f
      BY <3>2
    <3>4. wire' = (wire \o <<d>>) \o <<f>>
      BY <2>4, <2>6, <3>1
    <3>5. wire' = wire \o new
      BY <1>1, <3>2, <3>4
    <3>. HIDE DEF new
    <3>6. Moves(0, new)
      BY <1>1, <3>3, <3>5, FollowedMoves
    <3>7. \A j \in 1 .. Len(new) : new[j] = d \/ new[j] = f
      BY <3>3
    <3>8. Sound(0, new)
      BY <3>2, <3>6, <3>7 DEF Sound, AskSound, RestoreSound, LookupSound, Restoring, Asks
    <3>9. EvictSound(new)
      BY <1>3, <3>2, <3>7 DEF EvictSound, Evicts, PutsOut
    <3>. QED
      BY <1>2, <3>2, <3>7, <3>8, <3>9, PutOutStep DEF Way
  <2>. QED
    BY <2>2, <2>3, <2>5, <2>6, HidingIs
<1>. QED
  BY <1>5, <1>6

LEMMA AskLeaveOrder == ASSUME Basic, HurryGrows, Order, NEW t \in Tab, AskLeave(t) PROVE Order'
<1>. DEFINE f == [at |-> "left", tab |-> t, code |-> active[t]]
<1>1. /\ LeaveFor(active[t], Owner[t], f) /\ active[t] # NoCode /\ Ask(t, "leave")
      /\ UNCHANGED <<minted, marks, tabVars>>
  BY DEF AskLeave
<1>2. Owner[t] \in User /\ active[t] \in minted /\ active[t] \in Code /\ sock[t] = "on"
  BY <1>1, AskFields DEF Ask
<1>3. f \in Frame /\ f.at = "left" /\ f.tab = t /\ f.code = active[t]
  BY <1>2 DEF Frame
<1>. HIDE DEF f
<1>. QED
  BY <1>1, <1>2, <1>3, LeaveForOrder DEF AskSound

LEMMA AskKickOrder == ASSUME Basic, HurryGrows, Order, NEW c \in Code, NEW u \in User, AskKick(c, u) PROVE Order'
<1>. DEFINE f == [at |-> "kicked", user |-> u, code |-> c]
<1>1. LeaveFor(c, u, f) /\ c \in minted /\ UNCHANGED <<minted, marks, tabVars>>
  BY DEF AskKick, Known
<1>2. f \in Frame /\ f.at = "kicked" /\ f.user = u /\ f.code = c
  BY DEF Frame
<1>. HIDE DEF f
<1>. QED
  BY <1>1, <1>2, LeaveForOrder DEF AskSound, Asks

LEMMA AskCloseOrder == ASSUME Basic, HurryGrows, Order, NEW c \in Code, AskClose(c) PROVE Order'
<1>. DEFINE f == [at |-> "closed", tabs |-> InSocketRoom(c), code |-> c]
            us == {Owner[t] : t \in InSocketRoom(c)}
<1>1. LeaveScript(c, us) /\ Issue(f) /\ c \in minted /\ UNCHANGED <<minted, marks, tabVars>>
  BY DEF AskClose, Known
<1>2. f \in Frame /\ f.at = "closed" /\ f.tabs = InSocketRoom(c) /\ f.code = c
  BY DEF Frame, InSocketRoom
<1>3. RoomsKept /\ \A u \in us \cap User : ~Member(u, c)'
  BY <1>1, LeaveQuiet, RoomsQuiet
<1>4. \A u \in User, d \in Code : Evicts(f, u, d) => ~Member(u, d)'
  BY <1>2, <1>3 DEF Evicts
<1>. HIDE DEF f, us
<1>5. Sound(0, <<f>>) /\ Len(<<f>>) = 1 /\ <<f>>[1] = f
  BY <1>1, <1>2, IssueSound DEF Restoring, AskSound, Asks
<1>6. EvictSound(<<f>>)
  BY <1>1, <1>2, <1>4, <1>5 DEF EvictSound, Clear
<1>. QED
  BY <1>1, <1>2, <1>3, <1>5, <1>6, PutOutStep DEF Way

\* A step of the tabs on an idle wire.
LEMMA SeatStep ==
  ASSUME Basic, HurryGrows, Order, NEW k, NEW new, IdleWire(k, new), ActiveSound(k, new), SockSound(k, new), PartSound(k, new),
         RoomsKept, SeatsKept, UNCHANGED <<minted, marks>>
  PROVE  Order'
BY MarksKept, IdleWay, TabOrderKept, RoomOrderKept DEF Order

\* Who is put out by a reply and is in the room is on the way into it again.
LEMMA ComesBack ==
  ASSUME Basic, RoomOrder, wire # <<>>, NEW new, Moves(1, new), NEW u \in Clear, NEW c \in Code,
         Evicts(Reply, u, c), Member(u, c)
  PROVE  OnTheWay(u, c)'
<1>1. 1 \in Wire /\ wire[1] = Reply
  BY HeadMoves
<1>2. PICK j \in Wire : j > 1 /\ EnterFrame(wire[j], u, c)
  BY <1>1 DEF RoomOrder, Evicted
<1>3. WayFrame(wire[j], u, c)
  BY <1>2 DEF EnterFrame, WayFrame, Way
<1>. QED
  BY <1>2, <1>3, WayMoves

LEMMA LeftOrder == ASSUME Basic, HurryGrows, Order, Left PROVE Order'
<1>. DEFINE t == Reply.tab
<1>1. /\ Resumes("left") /\ Return /\ active' = [active EXCEPT ![t] = NoCode]
      /\ UNCHANGED rooms /\ UNCHANGED sock /\ UNCHANGED parting /\ UNCHANGED <<minted, marks>>
  BY DEF Left, storeVars
<1>2. /\ wire # <<>> /\ Reply.at = "left" /\ 1 \in Wire /\ wire[1] = Reply /\ t \in Tab
      /\ active \in [Tab -> MaybeCode]
  BY <1>1, Resumed, TypeFields DEF Asks, Basic
<1>3. IdleWire(1, <<>>) /\ Moves(1, <<>>)
  BY <1>1, <1>2, IdleReturn, IdleWay DEF Way
<1>4. RoomsKept /\ Clear' \subseteq Clear
  BY <1>1, RoomsSame DEF Clear, marks, HurryGrows
<1>5. ActiveSound(1, <<>>) /\ SockSound(1, <<>>) /\ PartSound(1, <<>>)
  BY <1>1, <1>2 DEF ActiveSound, SockSound, PartSound
<1>6. ASSUME NEW u \in Clear', NEW d \in Code, SeatedIn(u, d), Member(u, d)'
      PROVE  SeatedIn(u, d)' \/ OnTheWay(u, d)'
  <2>1. PICK s \in Tab : Owner[s] = u /\ sock[s] = "on" /\ active[s] = d
    BY <1>6 DEF SeatedIn
  <2>2. CASE s # t
    BY <1>1, <1>2, <2>1, <2>2 DEF SeatedIn
  <2>3. CASE s = t
    <3>1. Reply.code = d
      BY <1>2, <1>4, <1>6, <2>1, <2>3, RoomStoreAssumption DEF Order, TabOrder, LeftActive, Clear
    <3>2. Evicts(Reply, u, d)
      BY <1>2, <2>1, <2>3, <3>1 DEF Evicts
    <3>. QED
      BY <1>2, <1>3, <1>4, <1>6, <3>2, ComesBack DEF Order, RoomsKept
  <2>. QED
    BY <2>2, <2>3
<1>7. SeatsKept
  BY <1>1, <1>6 DEF SeatsKept, Parting
<1>. QED
  BY <1>1, <1>3, <1>4, <1>5, <1>7, SeatStep

\* An admin's kick or close: the tabs ts forget the room.
LEMMA EvictOrder ==
  ASSUME Basic, HurryGrows, Order, wire # <<>>, NEW ts, NEW c \in Code, Evict(ts, c), NEW new, IdleWire(1, new),
         \A t \in ts : Evicts(Reply, Owner[t], c),
         UNCHANGED rooms, UNCHANGED sock, UNCHANGED parting, UNCHANGED <<minted, marks>>
  PROVE  Order'
<1>1. /\ active' = [t \in Tab |-> IF t \in ts /\ active[t] = c THEN NoCode ELSE active[t]]
      /\ active \in [Tab -> MaybeCode]
  BY TypeFields DEF Evict, Basic
<1>2. RoomsKept /\ Clear' \subseteq Clear /\ Moves(1, new)
  BY RoomsSame, IdleWay DEF Clear, marks, HurryGrows
<1>3. ActiveSound(1, new) /\ SockSound(1, new) /\ PartSound(1, new)
  BY <1>1 DEF ActiveSound, SockSound, PartSound
<1>4. ASSUME NEW u \in Clear', NEW d \in Code, SeatedIn(u, d), Member(u, d)'
      PROVE  SeatedIn(u, d)' \/ OnTheWay(u, d)'
  <2>1. PICK s \in Tab : Owner[s] = u /\ sock[s] = "on" /\ active[s] = d
    BY <1>4 DEF SeatedIn
  <2>2. CASE ~(s \in ts /\ active[s] = c)
    BY <1>1, <2>1, <2>2 DEF SeatedIn
  <2>3. CASE s \in ts /\ active[s] = c
    BY <1>2, <1>4, <2>1, <2>3, ComesBack DEF Order, RoomsKept
  <2>. QED
    BY <2>2, <2>3
<1>5. SeatsKept
  BY <1>4 DEF SeatsKept, Parting
<1>. QED
  BY <1>2, <1>3, <1>5, SeatStep

LEMMA KickedOrder == ASSUME Basic, HurryGrows, Order, Kicked PROVE Order'
<1>. DEFINE ts == {t \in InSocketRoom(Reply.code) : Owner[t] = Reply.user}
<1>1. /\ Resumes("kicked") /\ Return /\ Evict(ts, Reply.code)
      /\ UNCHANGED rooms /\ UNCHANGED sock /\ UNCHANGED parting /\ UNCHANGED <<minted, marks>>
  BY DEF Kicked, storeVars
<1>2. wire # <<>> /\ Reply.at = "kicked" /\ Reply.code \in Code
  BY <1>1, Resumed, FrameFields
<1>3. \A t \in ts : Evicts(Reply, Owner[t], Reply.code)
  BY <1>2 DEF Evicts
<1>4. IdleWire(1, <<>>)
  BY <1>1, <1>2, IdleReturn DEF Way
<1>. HIDE DEF ts
<1>. QED
  BY <1>1, <1>2, <1>3, <1>4, EvictOrder

LEMMA ClosedOrder == ASSUME Basic, HurryGrows, Order, Closed PROVE Order'
<1>1. /\ Resumes("closed") /\ Evict(Reply.tabs, Reply.code) /\ Then(DeleteFrame(Reply.code))
      /\ UNCHANGED rooms /\ UNCHANGED sock /\ UNCHANGED parting /\ UNCHANGED <<minted, marks>>
  BY DEF Closed, DeleteFrame, storeVars
<1>2. wire # <<>> /\ Reply.at = "closed" /\ Reply.code \in Code
  BY <1>1, Resumed, FrameFields
<1>3. \A t \in Reply.tabs : Evicts(Reply, Owner[t], Reply.code)
  BY <1>2 DEF Evicts
<1>4. PICK f \in Frame : f = DeleteFrame(Reply.code) /\ f.at = "deleteKeys"
  BY <1>2, DeleteFrames
<1>5. IdleWire(1, <<f>>)
  BY <1>1, <1>2, <1>4, IdleThen DEF Way, PutsOut, AskSound, RestoreSound, Asks, Restoring
<1>. QED
  BY <1>1, <1>2, <1>3, <1>5, EvictOrder

-----------------------------------------------------------------------------
(* A tab connects, has its session restored, and drops *)

LEMMA ConnectKeeps == ASSUME Basic, HurryGrows, Order, NEW t \in Tab, Connect(t) PROVE Order'
<1>. DEFINE f == [at |-> "restoreParty", tab |-> t]
<1>1. /\ sock' = [sock EXCEPT ![t] = "on"] /\ Issue(f) /\ UNCHANGED active /\ UNCHANGED parting
      /\ UNCHANGED rooms /\ UNCHANGED <<minted, marks>>
  BY DEF Connect, storeVars
<1>2. f \in Frame /\ f.at = "restoreParty"
  BY DEF Frame
<1>. HIDE DEF f
<1>3. Moves(0, <<f>>) /\ Len(<<f>>) = 1 /\ <<f>>[1] = f
  BY <1>1, <1>2, IssueMoves, TypeFields DEF Basic
<1>4. EvictSound(<<f>>)
  BY <1>2, <1>3 DEF EvictSound, Evicts, PutsOut
<1>5. WayKept
  BY <1>2, <1>3, WayStays DEF WayKept, Way
<1>6. SeatsKept
  <2>1. sock \in [Tab -> {"new", "on", "gone"}]
    BY TypeFields DEF Basic
  <2>. QED
    BY <1>1, <2>1 DEF SeatsKept, SeatedIn, Parting
<1>7. RoomOrder'
  BY <1>1, <1>3, <1>4, <1>5, <1>6, MarksKept, RoomsSame, RoomOrderKept DEF Order
<1>. QED
  BY <1>7, ConnectOrder DEF Order

LEMMA RestorePartyOrder == ASSUME Basic, HurryGrows, Order, RestoreParty PROVE Order'
<1>. DEFINE f == [at |-> "restoreRoom", tab |-> Reply.tab, seen |-> playerRoom[Owner[Reply.tab]]]
<1>1. Resumes("restoreParty") /\ Then(f) /\ UNCHANGED rooms /\ UNCHANGED <<minted, marks, tabVars>>
  BY DEF RestoreParty, storeVars
<1>2. wire # <<>> /\ Reply.at = "restoreParty" /\ Reply.tab \in Tab /\ Owner[Reply.tab] \in User /\ StoreTypeOK
  BY <1>1, Resumed, TypeFields DEF Basic
<1>3. f \in Frame /\ f.at = "restoreRoom" /\ f.tab = Reply.tab
  BY <1>2 DEF Frame, StoreTypeOK, MaybeCode
<1>. HIDE DEF f
<1>4. IdleWire(1, <<f>>)
  BY <1>1, <1>2, <1>3, IdleThen DEF Way, PutsOut, AskSound, RestoreSound, Asks
<1>. QED
  BY <1>1, <1>4, RoomsSame, IdleStep

LEMMA RestoreRoomOrder == ASSUME Basic, HurryGrows, Order, RestoreRoom PROVE Order'
<1>. DEFINE t == Reply.tab
<1>1. /\ Resumes("restoreRoom") /\ Return
      /\ UNCHANGED active \/ active' = [active EXCEPT ![t] = Reply.seen]
      /\ UNCHANGED rooms /\ UNCHANGED sock /\ UNCHANGED parting /\ UNCHANGED <<minted, marks>>
  BY DEF RestoreRoom, storeVars
<1>2. /\ wire # <<>> /\ Reply.at = "restoreRoom" /\ 1 \in Wire /\ wire[1] = Reply /\ t \in Tab
      /\ active \in [Tab -> MaybeCode]
  BY <1>1, Resumed, TypeFields DEF Basic
<1>3. active[t] = NoCode
  BY <1>2 DEF Order, TabOrder, Restores, Restoring
<1>4. IdleWire(1, <<>>)
  BY <1>1, <1>2, IdleReturn DEF Way
<1>5. ActiveSound(1, <<>>) /\ SockSound(1, <<>>) /\ PartSound(1, <<>>)
  BY <1>1, <1>2 DEF ActiveSound, SockSound, PartSound
<1>6. SeatsKept
  <2>1. \A s \in Tab : active[s] \in Code => active'[s] = active[s]
    BY <1>1, <1>2, <1>3, RoomStoreAssumption
  <2>. QED
    BY <1>1, <2>1 DEF SeatsKept, SeatedIn, Parting
<1>. QED
  BY <1>1, <1>4, <1>5, <1>6, RoomsSame, SeatStep

\* A room whose match runs waits for nobody.
LEMMA RunningIsLate ==
  ASSUME Basic, Loops, NEW c \in Code \ reopened, Running(c)
  PROVE  ~Early(c)
<1>1. PICK g \in Game : g = managed[c]
  BY TypeFields DEF Basic, Running, Managed
<1>2. Engaged(g, c) /\ games[g].phase = "running"
  BY <1>1 DEF Basic, Manages, Running, Engaged
<1>3. OneStartAt(c) /\ HonestAt(c)
  BY DEF Loops
<1>4. ~MatchIn(c, {"loading", "starting"})
  BY <1>2, <1>3 DEF OneStartAt, Engaged, MatchIn
<1>. QED
  BY <1>2, <1>3, <1>4 DEF OneStartAt, HonestAt, Early, Open

LEMMA GoOfflineSock ==
  ASSUME Basic, NEW t \in Tab, GoOffline(t), NEW new, \A j \in 1 .. Len(new) : new[j].at \notin Asks
  PROVE  /\ SockSound(0, new) /\ ActiveSound(0, new)
         /\ sock[t] = "on" /\ sock' = [sock EXCEPT ![t] = "gone"] /\ active' = [active EXCEPT ![t] = NoCode]
         /\ sock \in [Tab -> {"new", "on", "gone"}] /\ active \in [Tab -> MaybeCode]
         /\ UNCHANGED rooms /\ UNCHANGED <<minted, marks>>
<1>1. /\ sock[t] = "on" /\ sock' = [sock EXCEPT ![t] = "gone"] /\ active' = [active EXCEPT ![t] = NoCode]
      /\ UNCHANGED rooms /\ UNCHANGED <<minted, marks>>
  BY DEF GoOffline, storeVars
<1>2. Asking(t) => Owner[t] \in cut'
  BY DEF GoOffline
<1>3. sock \in [Tab -> {"new", "on", "gone"}] /\ active \in [Tab -> MaybeCode]
  BY TypeFields DEF Basic
<1>. QED
  BY <1>1, <1>2, <1>3 DEF SockSound, ActiveSound

\* The room a tab sat in is kept by another tab, or about to be given up.
LEMMA DropSeatedOrder == ASSUME Basic, HurryGrows, Order, NEW t \in Tab, DropSeated(t) PROVE Order'
<1>1. /\ GoOffline(t) /\ UNCHANGED wire
      /\ IF HeldElsewhere(t, active[t]) THEN UNCHANGED parting ELSE parting' = [parting EXCEPT ![t] = active[t]]
  BY DEF DropSeated
<1>2. /\ sock[t] = "on" /\ sock' = [sock EXCEPT ![t] = "gone"] /\ active' = [active EXCEPT ![t] = NoCode]
      /\ sock \in [Tab -> {"new", "on", "gone"}] /\ active \in [Tab -> MaybeCode]
      /\ parting \in [Tab -> MaybeCode] /\ UNCHANGED rooms /\ UNCHANGED <<minted, marks>>
      /\ SockSound(0, <<>>) /\ ActiveSound(0, <<>>)
  BY <1>1, GoOfflineSock, TypeFields DEF Basic
<1>3. IdleWire(0, <<>>) /\ PartSound(0, <<>>)
  BY <1>1, <1>2, IdleStays DEF PartSound
<1>4. parting[t] = NoCode
  BY <1>2 DEF Order, TabOrder, Partings
<1>5. ASSUME NEW u \in User, NEW d \in Code, SeatedIn(u, d) PROVE SeatedIn(u, d)' \/ Parting(u, d)'
  <2>1. PICK s \in Tab : Owner[s] = u /\ sock[s] = "on" /\ active[s] = d
    BY <1>5 DEF SeatedIn
  <2>2. CASE s # t
    BY <1>2, <2>1, <2>2 DEF SeatedIn
  <2>3. CASE s = t /\ HeldElsewhere(t, d)
    <3>1. PICK r \in Tab \ {t} : Owner[r] = u /\ sock[r] = "on" /\ active[r] = d
      BY <2>1, <2>3 DEF HeldElsewhere, Others
    <3>. QED
      BY <1>2, <3>1 DEF SeatedIn
  <2>4. CASE s = t /\ ~HeldElsewhere(t, d)
    BY <1>1, <1>2, <2>1, <2>4 DEF Parting
  <2>. QED
    BY <2>2, <2>3, <2>4
<1>6. ASSUME NEW u \in User, NEW d \in Code, Parting(u, d) PROVE Parting(u, d)'
  BY <1>1, <1>2, <1>4, <1>6, RoomStoreAssumption DEF Parting
<1>7. SeatsKept
  BY <1>5, <1>6 DEF SeatsKept, Clear
<1>. QED
  BY <1>2, <1>3, <1>7, RoomsSame, SeatStep

LEMMA DropUnseatedOrder == ASSUME Basic, HurryGrows, Order, NEW t \in Tab, DropUnseated(t) PROVE Order'
<1>. DEFINE f == [at |-> "lookup", tab |-> t, seen |-> playerRoom[Owner[t]]]
<1>1. GoOffline(t) /\ active[t] = NoCode /\ UNCHANGED parting
  BY DEF DropUnseated
<1>2. /\ sock[t] = "on" /\ sock' = [sock EXCEPT ![t] = "gone"] /\ active' = [active EXCEPT ![t] = NoCode]
      /\ sock \in [Tab -> {"new", "on", "gone"}] /\ active \in [Tab -> MaybeCode]
      /\ UNCHANGED rooms /\ UNCHANGED <<minted, marks>>
      /\ SockSound(0, <<>>) /\ ActiveSound(0, <<>>)
  <2>1. \A j \in 1 .. Len(<<>>) : <<>>[j].at \notin Asks
    OBVIOUS
  <2>. QED
    BY <1>1, <2>1, GoOfflineSock
<1>3. Owner[t] \in User /\ StoreTypeOK
  BY TypeFields, RoomSessionAssumption DEF Basic
<1>4. f \in Frame /\ f.at = "lookup" /\ f.tab = t
  BY <1>3 DEF Frame, StoreTypeOK, MaybeCode
<1>. HIDE DEF f
<1>5. SeatsKept
  <2>1. \A s \in Tab : active[s] \in Code => sock'[s] = sock[s] /\ active'[s] = active[s]
    BY <1>1, <1>2, RoomStoreAssumption
  <2>. QED
    BY <1>1, <2>1 DEF SeatsKept, SeatedIn, Parting
<1>6. CASE Issue(f)
  <2>1. Moves(0, <<f>>) /\ Len(<<f>>) = 1 /\ <<f>>[1] = f
    BY <1>4, <1>6, IssueMoves, TypeFields DEF Basic
  <2>2. IdleWire(0, <<f>>)
    BY <1>2, <1>4, <2>1 DEF IdleWire, Sound, AskSound, RestoreSound, LookupSound, Asks, Restoring, Way, PutsOut
  <2>3. SockSound(0, <<f>>) /\ ActiveSound(0, <<f>>) /\ PartSound(0, <<f>>)
    BY <1>1, <1>4, <2>1, GoOfflineSock DEF Asks, PartSound
  <2>. QED
    BY <1>2, <1>5, <2>2, <2>3, RoomsSame, SeatStep
<1>7. CASE UNCHANGED wire
  <2>1. IdleWire(0, <<>>) /\ PartSound(0, <<>>)
    BY <1>1, <1>7, IdleStays DEF PartSound
  <2>. QED
    BY <1>2, <1>5, <2>1, RoomsSame, SeatStep
<1>. QED
  BY <1>6, <1>7 DEF DropUnseated, f

LEMMA DropLookupOrder == ASSUME Basic, HurryGrows, Order, DropLookup PROVE Order'
<1>. DEFINE t == Reply.tab
<1>1. /\ Resumes("lookup") /\ Return /\ parting' = [parting EXCEPT ![t] = Reply.seen]
      /\ UNCHANGED rooms /\ UNCHANGED sock /\ UNCHANGED active /\ UNCHANGED <<minted, marks>>
  BY DEF DropLookup, storeVars
<1>2. /\ wire # <<>> /\ Reply.at = "lookup" /\ 1 \in Wire /\ wire[1] = Reply /\ t \in Tab
      /\ parting \in [Tab -> MaybeCode]
  BY <1>1, Resumed, FrameFields, TypeFields DEF Basic
<1>3. parting[t] = NoCode
  BY <1>2 DEF Order, TabOrder, Partings
<1>4. IdleWire(1, <<>>)
  BY <1>1, <1>2, IdleReturn DEF Way
<1>5. ActiveSound(1, <<>>) /\ SockSound(1, <<>>) /\ PartSound(1, <<>>)
  BY <1>1, <1>2 DEF ActiveSound, SockSound, PartSound
<1>6. SeatsKept
  <2>1. \A s \in Tab : parting[s] \in Code => parting'[s] = parting[s]
    BY <1>1, <1>2, <1>3, RoomStoreAssumption
  <2>. QED
    BY <1>1, <2>1 DEF SeatsKept, SeatedIn, Parting
<1>. QED
  BY <1>1, <1>4, <1>5, <1>6, RoomsSame, SeatStep

\* Whoever gives a room up is no longer in it, unless its match runs.
LEMMA GiveUpOrder == ASSUME Basic, HurryGrows, Loops, Order, NEW t \in Tab, GiveUp(t) PROVE Order'
<1>1. /\ parting[t] # NoCode /\ parting' = [parting EXCEPT ![t] = NoCode] /\ UNCHANGED wire
      /\ UNCHANGED sock /\ UNCHANGED active /\ UNCHANGED <<minted, marks>>
  BY DEF GiveUp
<1>2. PICK c \in Code : c = parting[t]
  BY <1>1, TypeFields DEF Basic, MaybeCode
<1>3. /\ IF Running(c) THEN UNCHANGED storeVars ELSE LeaveScript(c, {Owner[t]})
      /\ parting \in [Tab -> MaybeCode] /\ Owner[t] \in User
  BY <1>2, TypeFields, RoomSessionAssumption DEF GiveUp, Basic
<1>4. RoomsKept
  BY GiveUpQuiet, RoomsQuiet DEF Quiet, Sitting
<1>5. IdleWire(0, <<>>) /\ ActiveSound(0, <<>>) /\ SockSound(0, <<>>) /\ PartSound(0, <<>>)
  BY <1>1, <1>3, IdleStays DEF ActiveSound, SockSound, PartSound
<1>6. ASSUME NEW u \in Clear', NEW d \in Code \ reopened', Parting(u, d), Member(u, d)', Early(d)'
      PROVE  Parting(u, d)'
  <2>1. PICK s \in Tab : Owner[s] = u /\ parting[s] = d
    BY <1>6 DEF Parting
  <2>2. CASE s # t
    BY <1>1, <1>3, <2>1, <2>2 DEF Parting
  <2>3. CASE s = t /\ Running(c)
    <3>1. c = d /\ d \in Code \ reopened
      BY <1>1, <1>2, <2>1, <2>3 DEF marks
    <3>2. ~Early(d)
      BY <2>3, <3>1, RunningIsLate
    <3>. QED
      BY <1>3, <1>6, <2>3, <3>2 DEF Early, Exists, storeVars
  <2>4. CASE s = t /\ ~Running(c)
    <3>1. c = d /\ Owner[t] = u
      BY <1>2, <2>1, <2>4
    <3>2. ~Member(u, d)'
      BY <1>3, <2>4, <3>1, LeaveQuiet
    <3>. QED
      BY <1>6, <3>2
  <2>. QED
    BY <2>2, <2>3, <2>4
<1>7. SeatsKept
  BY <1>1, <1>6 DEF SeatsKept, SeatedIn
<1>. QED
  BY <1>1, <1>4, <1>5, <1>7, SeatStep

-----------------------------------------------------------------------------
(* The way into a room *)

LEMMA OnTheWayNow ==
  ASSUME Basic, wire # <<>>, NEW u, NEW c
  PROVE  OnTheWay(u, c) <=> (\E i \in Wire : i > 1 /\ WayFrame(wire[i], u, c)) \/ WayFrame(Reply, u, c)
<1>1. wire \in Seq(Frame) /\ 1 \in Wire /\ wire[1] = Reply
  BY HeadOfWire, TypeFields DEF Basic
<1>2. OnTheWay(u, c) <=> \E i \in Wire : WayFrame(wire[i], u, c)
  BY <1>1 DEF OnTheWay, WayFrame, Way, Wire
<1>3. \A i \in Wire : i = 1 \/ i > 1
  BY <1>1 DEF Wire
<1>. QED
  BY <1>1, <1>2, <1>3

\* A step on the way from createRoom to the seat.
LEMMA GoesOn ==
  ASSUME Basic, HurryGrows, Order, wire # <<>>, Reply.at \in {"createMapping", "createIndex"}, NEW f \in Frame, Then(f),
         f.at \in {"createIndex", "enter"}, f.tab = Reply.tab, f.code = Reply.code,
         UNCHANGED rooms, UNCHANGED <<minted, marks, tabVars>>
  PROVE  Order'
<1>1. Sound(1, <<f>>) /\ Len(<<f>>) = 1 /\ <<f>>[1] = f
  BY ThenSound DEF AskSound, RestoreSound, Asks, Restoring
<1>2. Moves(1, <<f>>)
  BY <1>1 DEF Sound
<1>3. \A u, c : WayFrame(f, u, c) <=> WayFrame(Reply, u, c)
  BY DEF WayFrame, Way
<1>4. WayKept
  BY <1>1, <1>2, <1>3, OnTheWayNow, WayMoves DEF WayKept
<1>5. EvictSound(<<f>>)
  BY <1>1 DEF EvictSound, Evicts, PutsOut
<1>6. UNCHANGED <<sock, active, parting>>
  BY DEF tabVars
<1>. QED
  BY <1>1, <1>2, <1>4, <1>5, <1>6, RoomsSame, MarksKept, TabsSame, TabOrderKept, RoomOrderKept DEF Order

LEMMA CreateMappingOrder == ASSUME Basic, HurryGrows, Order, CreateMapping \/ CreateIndex PROVE Order'
<1>. DEFINE f == [Reply EXCEPT !.at = IF Reply.at = "createMapping" THEN "createIndex" ELSE "enter"]
<1>1. /\ Resumes("createMapping") \/ Resumes("createIndex")
      /\ Then(f) /\ UNCHANGED rooms /\ UNCHANGED <<minted, marks, tabVars>>
  BY DEF CreateMapping, CreateIndex, Resumes, SetPlayerRoom, AddToIndex
<1>2. wire # <<>> /\ Reply \in Frame /\ Reply.at \in {"createMapping", "createIndex"}
  BY <1>1, Resumed
<1>3. Reply \in [at : {"createMapping", "createIndex", "enter", "left"}, tab : Tab, code : Code]
  BY <1>2 DEF Frame
<1>4. f \in Frame /\ f.at \in {"createIndex", "enter"} /\ f.tab = Reply.tab /\ f.code = Reply.code
  BY <1>3 DEF Frame
<1>. HIDE DEF f
<1>. QED
  BY <1>1, <1>2, <1>4, GoesOn

LEMMA EnterOrder == ASSUME Basic, HurryGrows, Order, Enter PROVE Order'
<1>0. /\ Resumes("enter") /\ Return /\ active' = [active EXCEPT ![Reply.tab] = Reply.code]
      /\ UNCHANGED rooms /\ UNCHANGED sock /\ UNCHANGED parting /\ UNCHANGED <<minted, marks>>
  BY DEF Enter, storeVars
<1>. PICK t \in Tab, c \in Code, u \in User : t = Reply.tab /\ c = Reply.code /\ u = Owner[t]
  BY <1>0, Resumed, FrameFields DEF Asks
<1>1. /\ Return /\ active' = [active EXCEPT ![t] = c]
      /\ UNCHANGED rooms /\ UNCHANGED sock /\ UNCHANGED parting /\ UNCHANGED <<minted, marks>>
  BY <1>0
<1>2. /\ wire # <<>> /\ Reply.at = "enter" /\ 1 \in Wire /\ wire[1] = Reply
      /\ active \in [Tab -> MaybeCode]
  BY <1>0, Resumed, TypeFields DEF Basic
<1>3. Sound(1, <<>>) /\ Moves(1, <<>>)
  BY <1>1, <1>2, ReturnMoves, TypeFields DEF Basic, Sound, LookupSound
<1>4. ActiveSound(1, <<>>) /\ SockSound(1, <<>>) /\ PartSound(1, <<>>) /\ EvictSound(<<>>)
  BY <1>1, <1>2 DEF ActiveSound, SockSound, PartSound, EvictSound
<1>5. u \in Clear => SeatedIn(u, c)'
  <2>1. u \in Clear => sock[t] = "on"
    BY <1>2 DEF Order, TabOrder, Present, Asks, Clear
  <2>. QED
    BY <1>1, <1>2, <2>1 DEF SeatedIn
<1>6. \A v, d : WayFrame(Reply, v, d) <=> v = u /\ d = c
  BY <1>2 DEF WayFrame, Way
<1>7. RoomsKept /\ MarksGrow /\ Clear' \subseteq Clear
  BY <1>1, RoomsSame, MarksKept DEF Clear, marks, HurryGrows
<1>8. WayKept
  BY <1>2, <1>3, <1>5, <1>6, <1>7, OnTheWayNow, WayMoves DEF WayKept
<1>9. SeatsKept
  <2>. SUFFICES ASSUME NEW v \in Clear', NEW d \in Code, SeatedIn(v, d), Member(v, d)' PROVE SeatedIn(v, d)'
    BY <1>1 DEF SeatsKept, Parting
  <2>1. PICK s \in Tab : Owner[s] = v /\ sock[s] = "on" /\ active[s] = d
    BY DEF SeatedIn
  <2>2. CASE s # t
    BY <1>1, <1>2, <2>1, <2>2 DEF SeatedIn
  <2>3. CASE s = t
    <3>1. OnTheWay(v, c) /\ Member(v, d)
      BY <1>2, <1>6, <1>7, <2>1, <2>3, OnTheWayNow DEF RoomsKept
    <3>2. c = d
      BY <1>2, <1>7, <3>1 DEF Order, RoomOrder, OneWay
    <3>. QED
      BY <1>5, <1>7, <2>1, <2>3, <3>2
  <2>. QED
    BY <2>2, <2>3
<1>. QED
  BY <1>3, <1>4, <1>7, <1>8, <1>9, TabOrderKept, RoomOrderKept DEF Order

\* The user of the reply is let into room c, and into no other unless marked.
LEMMA LetInOrder ==
  ASSUME Basic, HurryGrows, Order, wire # <<>>, Reply.at \in {"cleanup", "cleaned"}, NEW f \in Frame, Then(f),
         f.at \in {"createMapping", "enter"}, f.tab = Reply.tab, NEW c \in Code, f.code = c,
         LetIn(Owner[Reply.tab], c), minted \subseteq minted', UNCHANGED <<sock, active, parting>>,
         \A v \in User, d \in Code : Member(v, d)' =>
           (v = Owner[Reply.tab] /\ d = c) \/ (Member(v, d) /\ (Early(d)' => Early(d))),
         c \notin minted \/ f.at = "enter"
  PROVE  Order'
<1>. DEFINE u == Owner[Reply.tab]
<1>1. Sound(1, <<f>>) /\ Len(<<f>>) = 1 /\ <<f>>[1] = f
  BY ThenSound DEF AskSound, RestoreSound, Asks, Restoring
<1>2. Moves(1, <<f>>)
  BY <1>1 DEF Sound
<1>3. /\ \A v, d : WayFrame(f, v, d) <=> v = u /\ d = c
      /\ \A v, d : ~WayFrame(Reply, v, d)
  BY DEF WayFrame, Way
<1>4. \A v, d : OnTheWay(v, d)' <=> OnTheWay(v, d) \/ (v = u /\ d = c)
  BY <1>1, <1>2, <1>3, OnTheWayNow, WayMoves
<1>5. MarksGrow /\ Clear' \subseteq Clear /\ reopened' = reopened
  BY DEF LetIn, MarksGrow, Clear, HurryGrows
<1>6. u \in Clear' => \A d \in Code \ {c} : ~Member(u, d) /\ ~OnTheWay(u, d)
  BY DEF LetIn, Clear, Players, Member
<1>7. Clear' \subseteq User
  BY DEF Clear
<1>8. OneWay'
  <2>. SUFFICES ASSUME NEW v \in Clear', NEW a \in Code, NEW d \in Code,
                       OnTheWay(v, a)', Member(v, d)' \/ OnTheWay(v, d)'
                PROVE  a = d
    BY DEF OneWay
  <2>1. CASE v = u
    BY <1>4, <1>6, <1>7, <2>1
  <2>2. CASE v # u
    BY <1>4, <1>5, <1>7, <2>2 DEF Order, RoomOrder, OneWay
  <2>. QED
    BY <2>1, <2>2
<1>9. Evicted' /\ EvictsMinted'
  <2>1. EvictSound(<<f>>)
    BY <1>1 DEF EvictSound, Evicts, PutsOut
  <2>2. \A v \in Clear', d \in Code : Member(v, d)' =>
           \/ Member(v, d)
           \/ d \notin minted
           \/ \E n \in 1 .. Len(<<f>>) : EnterFrame(<<f>>[n], v, d)
    BY <1>1, <1>7 DEF EnterFrame
  <2>. QED
    BY <1>2, <1>5, <2>1, <2>2, EvictedKept DEF Order, RoomOrder
<1>10. NoGhost'
  <2>1. \A v, d : (SeatedIn(v, d)' <=> SeatedIn(v, d)) /\ (Parting(v, d)' <=> Parting(v, d))
    BY DEF SeatedIn, Parting
  <2>. QED
    BY <1>4, <1>5, <1>7, <2>1 DEF Order, RoomOrder, NoGhost, Member, Early, Clear
<1>11. TabOrder'
  BY <1>1, TabsSame, TabOrderKept DEF Order
<1>. QED
  BY <1>8, <1>9, <1>10, <1>11 DEF Order, RoomOrder

LEMMA CreateRoomOrder == ASSUME Basic, HurryGrows, Order, NEW c \in Code, CreateRoom(c) PROVE Order'
<1>. DEFINE u == Owner[Reply.tab]
            f == [at |-> "createMapping", tab |-> Reply.tab, code |-> c]
<1>1. /\ CleanedUp("create") /\ c \notin minted /\ minted' = minted \cup {c}
      /\ rooms' = [rooms EXCEPT ![c] = NewRoom(u)] /\ Then(f) /\ LetIn(u, c) /\ UNCHANGED <<sock, active, parting>>
  BY DEF CreateRoom, SetRoom
<1>2. wire # <<>> /\ Reply.at \in {"cleanup", "cleaned"} /\ Reply.tab \in Tab /\ u \in User /\ StoreTypeOK
  BY <1>1, CleanedUpFields, TypeFields DEF Basic
<1>3. f \in Frame /\ f.at = "createMapping" /\ f.tab = Reply.tab /\ f.code = c
  BY <1>2 DEF Frame
<1>4. ASSUME NEW v \in User, NEW d \in Code, Member(v, d)'
      PROVE  (v = u /\ d = c) \/ (Member(v, d) /\ (Early(d)' => Early(d)))
  <2>1. CASE d = c
    <3>1. rooms'[c].players = {u}
      BY <1>1, <1>2 DEF StoreTypeOK, NewRoom
    <3>. QED
      BY <1>4, <2>1, <3>1 DEF Member
  <2>2. CASE d # c
    BY <1>1, <1>2, <1>4, <2>2 DEF Member, Early, Exists, StoreTypeOK
  <2>. QED
    BY <2>1, <2>2
<1>. HIDE DEF f
<1>. QED
  BY <1>1, <1>2, <1>3, <1>4, LetInOrder

LEMMA JoinRoomOrder == ASSUME Basic, HurryGrows, Order, JoinRoom PROVE Order'
<1>. DEFINE u == Owner[Reply.tab]
            f == [at |-> "enter", tab |-> Reply.tab, code |-> Reply.code]
<1>1. CleanedUp("join") /\ UNCHANGED minted /\ UNCHANGED <<sock, active, parting>>
  BY DEF JoinRoom
<1>2. wire # <<>> /\ Reply.at \in {"cleanup", "cleaned"} /\ Reply.tab \in Tab /\ u \in User /\ StoreTypeOK
  BY <1>1, CleanedUpFields, TypeFields DEF Basic
<1>3. CASE Return /\ UNCHANGED <<storeVars, marks>>
  <2>1. UNCHANGED rooms /\ MarksGrow
    BY <1>1, <1>3, MarksKept DEF storeVars
  <2>. QED
    BY <1>1, <1>2, <1>3, <2>1, IdleReturn, RoomsSame, IdleKeeps DEF Way, Order
<1>4. CASE JoinScript(Reply.code, u) /\ Then(f) /\ LetIn(u, Reply.code)
  <2>1. PICK c \in Code : c = Reply.code
    BY <1>1, CleanedUpFields, TypeFields DEF Basic, Minted, Naming
  <2>2. f \in Frame /\ f.at = "enter" /\ f.tab = Reply.tab /\ f.code = c
    BY <1>2, <2>1 DEF Frame
  <2>3. rooms[c] \in Room /\ rooms' = [rooms EXCEPT ![c].players = @ \cup {u}]
    BY <1>2, <1>4, <2>1, MaybeRooms DEF JoinScript, CanJoin
  <2>4. ASSUME NEW v \in User, NEW d \in Code, Member(v, d)'
        PROVE  (v = u /\ d = c) \/ (Member(v, d) /\ (Early(d)' => Early(d)))
    <3>1. CASE d = c
      <4>1. /\ rooms'[c].players = rooms[c].players \cup {u} /\ rooms'[c].status = rooms[c].status
            /\ rooms[c] # NoRoom
        BY <1>2, <2>3, RoomStoreAssumption DEF StoreTypeOK, Room
      <4>. QED
        BY <2>4, <3>1, <4>1 DEF Member, Early, Exists
    <3>2. CASE d # c
      BY <1>2, <2>3, <2>4, <3>2 DEF Member, Early, Exists, StoreTypeOK
    <3>. QED
      BY <3>1, <3>2
  <2>. HIDE DEF f
  <2>. QED
    BY <1>1, <1>2, <1>4, <2>1, <2>2, <2>4, LetInOrder
<1>. QED
  BY <1>3, <1>4 DEF JoinRoom

-----------------------------------------------------------------------------
(* Every step *)

LEMMA RequestOrder == ASSUME Basic, HurryGrows, Order, NEW t \in Tab, Request(t) PROVE Order'
<1>1. CASE AskCreate(t) \/ AskLeave(t) \/ \E c \in Code : AskJoin(t, c)
  BY <1>1, AskCreateOrder, AskLeaveOrder, AskJoinOrder
<1>2. CASE AskStart(t) \/ AskRestart(t) \/ \E b \in BOOLEAN : AskVote(t, b)
  BY <1>2, AskAboutOrder DEF AskStart, AskRestart, AskVote
<1>3. CASE \E b \in BOOLEAN : AskReady(t, b)
  BY <1>3, AskReadyOrder
<1>. QED
  BY <1>1, <1>2, <1>3 DEF Request

LEMMA ResumeOrder == ASSUME Basic, HurryGrows, Order, Resume PROVE Order'
<1>1. CASE RefuseElsewhere \/ SetCallbacks \/ DeleteRoomIndex \/ DropLookup \/ LeaveStale \/ CheckStart
           \/ DeleteRoomKeys \/ RestoreParty \/ \E g \in Game : CreateGame(g) \/ LoadMap(g)
  BY <1>1, RefuseElsewhereOrder, SetCallbacksOrder, DeleteRoomIndexOrder, DropLookupOrder, LeaveStaleOrder,
     CheckStartOrder, DeleteRoomKeysOrder, RestorePartyOrder, CreateGameOrder
<1>2. CASE Restart \/ Vote \/ Left \/ Kicked \/ Closed \/ RestoreRoom
  BY <1>2, RestartOrder, VoteOrder, LeftOrder, KickedOrder, ClosedOrder, RestoreRoomOrder
<1>3. CASE (\E c \in Code : CreateRoom(c)) \/ CreateMapping \/ CreateIndex \/ JoinRoom \/ Enter
  BY <1>3, CreateRoomOrder, CreateMappingOrder, JoinRoomOrder, EnterOrder
<1>. QED
  BY <1>1, <1>2, <1>3 DEF Resume

LEMMA NextOrder == ASSUME Basic, Loops, Order, [Next]_vars PROVE Order'
<1>. USE NextHurryGrows
<1>1. CASE \E t \in Tab : Request(t) \/ Connect(t) \/ DropSeated(t) \/ DropUnseated(t) \/ GiveUp(t)
  BY <1>1, RequestOrder, ConnectKeeps, DropSeatedOrder, DropUnseatedOrder, GiveUpOrder
<1>2. CASE AdminRequest
  BY <1>2, AskCloseOrder, AskKickOrder DEF AdminRequest
<1>3. CASE Resume
  BY <1>3, ResumeOrder
<1>4. CASE \E g \in Game : ResumeMatch(g) \/ GameOver(g)
  BY <1>4, MapLoadedOrder, MapMissingOrder, StartLoopOrder, MarkFinishedOrder DEF ResumeMatch
<1>5. CASE \E g \in Game, u \in User : PlayerDies(g, u) \/ GraceExpires(g, u)
  BY <1>5, PlayerDiesOrder, GraceExpiresOrder
<1>6. CASE (\E c \in Code : VoteTimeout(c)) \/ Reap \/ \E u \in User : ExpireMapping(u)
  BY <1>6, VoteTimeoutOrder, ReapOrder, ExpireMappingOrder
<1>7. CASE UNCHANGED vars
  <2>1. UNCHANGED rooms /\ UNCHANGED wire /\ UNCHANGED <<minted, marks, tabVars>>
    BY <1>7 DEF vars, storeVars
  <2>. QED
    BY <2>1, IdleStays, RoomsSame, IdleStep
<1>. QED
  BY <1>1, <1>2, <1>3, <1>4, <1>5, <1>6, <1>7 DEF Next

LEMMA InitOrder == ASSUME Init PROVE Order
<1>1. Wire = {} /\ \A t \in Tab : active[t] = NoCode /\ parting[t] = NoCode
  BY DEF Init, Wire
<1>2. \A u, c : ~OnTheWay(u, c)
  BY DEF Init, OnTheWay
<1>3. \A u \in User, c \in Code : ~Member(u, c)
  BY DEF Init, StoreInit, Member, Exists
<1>4. TabOrder
  BY <1>1 DEF TabOrder, Present, NotNew, NewSeats, LeftActive, Restores, Partings
<1>5. RoomOrder
  BY <1>1, <1>2, <1>3 DEF RoomOrder, OneWay, Evicted, EvictsMinted, NoGhost, Clear
<1>. QED
  BY <1>4, <1>5 DEF Order

\* Nobody is left behind in a room that waits for players or is about to
\* start, for any users with any number of tabs: each player of it sits in it,
\* is on the way, or is being given up by a tab that has dropped, whatever tabs
\* join, leave, drop, are kicked or come back while the handlers of others are
\* under way, however long those that drop take to leave their party, and
\* whichever mappings lapse (the disconnect handler, room:leave, admin:kick,
\* admin:closeRoom, restoreSession).  Excepted is whom a reset has brought back,
\* who was let into two rooms, and who asked for more, or dropped, within a
\* request.
THEOREM NobodyIsLeftBehind == Spec => []NoGhost
<1>1. Init => Order
  BY InitOrder
<1>2. Basic /\ Loops /\ Order /\ [Next]_vars => Order'
  BY NextOrder
<1>3. Order => NoGhost
  BY DEF Order, RoomOrder
<1>. QED
  BY <1>1, <1>2, <1>3, BasicHolds, PTL DEF Spec

=============================================================================
