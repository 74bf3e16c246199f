------------------------- MODULE LobbyServiceProofs -------------------------
(***************************************************************************)
(* Proofs about the lobby service, for any number of users, codes and      *)
(* concurrent callers: its types, that every stored room is well formed,   *)
(* and that the three kinds of keys agree.  The second is inductive only   *)
(* together with the same fact about the copies in flight, because         *)
(* updateRoom writes such a copy back.                                     *)
(***************************************************************************)
EXTENDS LobbyService, FiniteSetTheorems, TLAPS

-----------------------------------------------------------------------------
(* What the operators on one room give *)

\* createRoom's room object is a well formed room.
LEMMA NewRoomWellFormed ==
  ASSUME NEW u \in User
  PROVE  NewRoom(u) \in Room /\ WellFormed(NewRoom(u))
<1>1. NewRoom(u) \in Room
  BY DEF NewRoom, Room, Status
<1>2. Cardinality({u}) <= MaxPlayers
  BY FS_Singleton, RoomStoreAssumption
<1>. QED
  BY <1>1, <1>2 DEF NewRoom, WellFormed

\* Resetting a finished room for a rematch keeps it a well formed room.
LEMMA ResetWellFormed ==
  ASSUME NEW r \in Room, WellFormed(r)
  PROVE  Reset(r) \in Room /\ WellFormed(Reset(r))
BY DEF Reset, Room, Status, WellFormed

\* The players of a room are finitely many.
LEMMA PlayersFinite ==
  ASSUME NEW r \in Room
  PROVE  IsFiniteSet(r.players) /\ Cardinality(r.players) \in Nat
<1>1. r.players \subseteq User
  BY DEF Room
<1>. QED
  BY <1>1, FS_Subset, FS_CardinalityType, RoomStoreAssumption

\* Seating one more player in a room with a free seat keeps it well formed.
LEMMA JoinedWellFormed ==
  ASSUME NEW r \in Room, NEW u \in User, WellFormed(r),
         Cardinality(r.players) < MaxPlayers, u \notin r.players
  PROVE  LET s == [r EXCEPT !.players = @ \cup {u}] IN s \in Room /\ WellFormed(s)
<1>. DEFINE s == [r EXCEPT !.players = @ \cup {u}]
<1>1. s \in Room
  BY DEF Room
<1>2. s.players = r.players \cup {u} /\ s.host = r.host /\ s.ready = r.ready
  BY DEF Room
<1>3. Cardinality(r.players \cup {u}) = Cardinality(r.players) + 1
  BY PlayersFinite, FS_AddElement
<1>4. Cardinality(s.players) <= MaxPlayers
  BY <1>2, <1>3, PlayersFinite, RoomStoreAssumption
<1>. QED
  BY <1>1, <1>2, <1>4 DEF WellFormed

\* Removing players and handing the host on keeps a room well formed.
LEMMA LeftWellFormed ==
  ASSUME NEW r \in Room, NEW us \in SUBSET User, WellFormed(r),
         NEW h \in r.players \ us
  PROVE  LET s == [r EXCEPT !.players = r.players \ us, !.ready = @ \ us, !.host = h]
         IN  s \in Room /\ WellFormed(s)
<1>. DEFINE s == [r EXCEPT !.players = r.players \ us, !.ready = @ \ us, !.host = h]
<1>1. s \in Room
  BY DEF Room
<1>2. s.players = r.players \ us /\ s.host = h /\ s.ready = r.ready \ us
  BY DEF Room
<1>3. Cardinality(r.players \ us) <= Cardinality(r.players)
  <2>1. r.players \ us \subseteq r.players
    OBVIOUS
  <2>. QED
    BY <2>1, PlayersFinite, FS_Subset
<1>4. Cardinality(r.players \ us) \in Nat
  <2>1. IsFiniteSet(r.players \ us)
    BY PlayersFinite, FS_Subset
  <2>. QED
    BY <2>1, FS_CardinalityType
<1>5. Cardinality(s.players) <= MaxPlayers
  BY <1>2, <1>3, <1>4, PlayersFinite, RoomStoreAssumption DEF WellFormed
<1>. QED
  BY <1>1, <1>2, <1>5 DEF WellFormed

-----------------------------------------------------------------------------
(* What each command preserves *)

StoreInv == StoreTypeOK /\ RoomsWellFormed

\* A well formed room may be written anywhere.
LEMMA SetRoomKeeps ==
  ASSUME StoreInv, NEW c \in Code, NEW r \in Room \cup {NoRoom}, r # NoRoom => WellFormed(r),
         SetRoom(c, r)
  PROVE  StoreInv'
BY DEF StoreInv, StoreTypeOK, RoomsWellFormed, Exists, SetRoom, WellFormed

\* Joining, leaving, getting ready, starting and changing the status.
LEMMA ScriptsKeep ==
  ASSUME StoreInv, NEW c \in Code,
         \/ \E u \in User : JoinScript(c, u)
         \/ \E us \in SUBSET User : LeaveScript(c, us)
         \/ \E u \in User, b \in BOOLEAN : ReadyScript(c, u, b)
         \/ StartScript(c)
         \/ \E s \in Status, e \in SUBSET Status : StatusScript(c, s, e)
  PROVE  StoreInv'
<1>. USE DEF StoreInv, StoreTypeOK, RoomsWellFormed, Exists
<1>0. \A d \in Code : Exists(d) => rooms[d] \in Room
  OBVIOUS
<1>1. ASSUME NEW u \in User, JoinScript(c, u) PROVE StoreInv'
  <2>. DEFINE s == [rooms[c] EXCEPT !.players = @ \cup {u}]
  <2>1. rooms' = [rooms EXCEPT ![c] = s]
    BY <1>1 DEF JoinScript
  <2>2. s \in Room /\ WellFormed(s)
    BY <1>0, <1>1, JoinedWellFormed DEF JoinScript, CanJoin
  <2>. QED
    BY <1>1, <2>1, <2>2 DEF JoinScript, WellFormed
<1>2. ASSUME NEW us \in SUBSET User, LeaveScript(c, us) PROVE StoreInv'
  <2>1. CASE LeaveMissing(c, us)
    BY <2>1 DEF LeaveMissing, ForgetPlayerRoom, WellFormed
  <2>2. CASE LeaveLast(c, us)
    BY <2>2 DEF LeaveLast, ForgetPlayerRoom, WellFormed
  <2>3. CASE LeaveOthers(c, us)
    <3>1. rooms[c] \in Room /\ WellFormed(rooms[c])
      BY <1>0, <2>3 DEF LeaveOthers
    <3>2. PICK h \in IF rooms[c].host \in us THEN rooms[c].players \ us ELSE {rooms[c].host} :
            rooms' = [rooms EXCEPT ![c].players = rooms[c].players \ us,
                                   ![c].ready = @ \ us,
                                   ![c].host = h]
      BY <2>3 DEF LeaveOthers
    <3>3. h \in rooms[c].players \ us
      BY <3>1 DEF WellFormed
    <3>. DEFINE s == [rooms[c] EXCEPT !.players = rooms[c].players \ us, !.ready = @ \ us, !.host = h]
    <3>4. s \in Room /\ WellFormed(s)
      BY <3>1, <3>3, LeftWellFormed
    <3>5. rooms' = [rooms EXCEPT ![c] = s]
      BY <3>2
    <3>. QED
      BY <2>3, <3>4, <3>5 DEF LeaveOthers, ForgetPlayerRoom, WellFormed
  <2>. QED
    BY <1>2, <2>1, <2>2, <2>3 DEF LeaveScript
<1>3. ASSUME NEW u \in User, NEW b \in BOOLEAN, ReadyScript(c, u, b) PROVE StoreInv'
  BY <1>0, <1>3 DEF ReadyScript, WellFormed, Room
<1>4. CASE StartScript(c)
  BY <1>0, <1>4 DEF StartScript, CanStart, WellFormed, Room, Status
<1>5. CASE \E s \in Status, e \in SUBSET Status : StatusScript(c, s, e)
  BY <1>0, <1>5 DEF StatusScript, WellFormed, Room, storeVars
<1>. QED
  BY <1>1, <1>2, <1>3, <1>4, <1>5

\* Deletions and expiries only remove keys.
LEMMA RemovalsKeep ==
  ASSUME StoreInv,
         \/ \E c \in Code, us \in SUBSET User : DeleteKeys(c, us)
         \/ \E cs \in SUBSET Code : RemoveFromIndex(cs)
         \/ \E u \in User : ExpirePlayerRoom(u)
         \/ \E c \in Code : ExpireRoom(c)
  PROVE  StoreInv'
BY DEF StoreInv, StoreTypeOK, RoomsWellFormed, Exists, DeleteKeys, RemoveFromIndex,
       ExpirePlayerRoom, SetPlayerRoom, ExpireRoom, SetRoom, WellFormed

-----------------------------------------------------------------------------
(* The inductive invariant *)

IInv == TypeOK /\ RoomsWellFormed /\ CopiesWellFormed

LEMMA IInvInit == Init => IInv
BY RoomStoreAssumption, MaxCrashesAssumption
DEF Init, IInv, TypeOK, StoreInit, StoreTypeOK, RoomsWellFormed, CopiesWellFormed, Exists,
    Idle, Call

\* A call moves on to a frame that is again a Call with a well formed copy.
LEMMA CallMoves ==
  ASSUME IInv, StoreInv', NEW p \in Proc, NEW call \in Call,
         call.copy # NoRoom => WellFormed(call.copy),
         Goto(p, call),
         minted' \in SUBSET Code, torn' \in SUBSET Code, crashes' = crashes
  PROVE  IInv'
<1>1. TypeOK'
  BY DEF IInv, TypeOK, StoreInv, StoreTypeOK, Goto
<1>2. CopiesWellFormed'
  BY DEF IInv, TypeOK, CopiesWellFormed, Goto, WellFormed
<1>. QED
  BY <1>1, <1>2 DEF IInv, StoreInv

\* The same for a call that leaves the keys alone.
LEMMA StoreUntouched ==
  ASSUME StoreInv, UNCHANGED storeVars
  PROVE  StoreInv'
BY DEF StoreInv, storeVars, StoreTypeOK, RoomsWellFormed, Exists, WellFormed

\* Neither the mapping nor the index is part of a room.
LEMMA MappingAndIndexKeep ==
  ASSUME StoreInv, NEW u \in User, NEW c \in Code,
         SetPlayerRoom(u, c) \/ AddToIndex(c)
  PROVE  StoreInv'
BY DEF StoreInv, SetPlayerRoom, AddToIndex, StoreTypeOK, RoomsWellFormed, Exists, WellFormed

LEMMA IInvNext == IInv /\ [Next]_vars => IInv'
<1>. SUFFICES ASSUME IInv, [Next]_vars
              PROVE  IInv'
  OBVIOUS
<1>0. /\ StoreInv
      /\ \A p \in Proc : calls[p] \in Call
      /\ \A p \in Proc : calls[p].copy # NoRoom => WellFormed(calls[p].copy)
      /\ minted \in SUBSET Code
      /\ torn \in SUBSET Code
      /\ \A c \in Code : rooms[c] \in Room \cup {NoRoom}
      /\ \A c \in Code : rooms[c] # NoRoom => WellFormed(rooms[c])
  BY DEF IInv, StoreInv, TypeOK, StoreTypeOK, CopiesWellFormed, RoomsWellFormed, Exists
<1>I. Idle \in Call /\ Idle.copy = NoRoom
  BY DEF Idle, Call
<1>1. ASSUME NEW p \in Proc, NEW u \in User, NEW c \in Code, CreateRoom(p, u, c)
      PROVE  IInv'
  <2>1. NewRoom(u) \in Room /\ WellFormed(NewRoom(u))
    BY NewRoomWellFormed
  <2>2. Holding("createMapping", c, NewRoom(u)) \in Call
    BY <2>1 DEF Holding, Call
  <2>3. StoreInv'
    BY <1>0, <1>1, <2>1, SetRoomKeeps DEF CreateRoom
  <2>. QED
    BY <1>0, <1>1, <2>1, <2>2, <2>3, CallMoves DEF CreateRoom, Holding
<1>2. ASSUME NEW p \in Proc, CreateMapping(p)
      PROVE  IInv'
  <2>1. calls[p].code \in Code /\ calls[p].copy \in Room
    BY <1>0, <1>2 DEF CreateMapping, Call
  <2>2. calls[p].copy.host \in User
    BY <2>1 DEF Room
  <2>3. StoreInv'
    BY <1>0, <1>2, <2>1, <2>2, MappingAndIndexKeep DEF CreateMapping
  <2>4. [calls[p] EXCEPT !.at = "createIndex"] \in Call
    BY <1>0, <1>2 DEF CreateMapping, Call
  <2>5. [calls[p] EXCEPT !.at = "createIndex"].copy = calls[p].copy
    BY <1>0 DEF Call
  <2>. QED
    BY <1>0, <1>2, <2>3, <2>4, <2>5, CallMoves DEF CreateMapping
<1>3. ASSUME NEW p \in Proc, CreateIndex(p)
      PROVE  IInv'
  <2>1. calls[p].code \in Code /\ calls[p].copy.host \in User
    BY <1>0, <1>3 DEF CreateIndex, Call, Room
  <2>2. StoreInv'
    BY <1>0, <1>3, <2>1, MappingAndIndexKeep DEF CreateIndex
  <2>3. [calls[p] EXCEPT !.at = "created"] \in Call
    BY <1>0, <1>3 DEF CreateIndex, Call
  <2>4. [calls[p] EXCEPT !.at = "created"].copy = calls[p].copy
    BY <1>0 DEF Call
  <2>. QED
    BY <1>0, <1>3, <2>2, <2>3, <2>4, CallMoves DEF CreateIndex
<1>4. ASSUME NEW p \in Proc, CreateReturn(p)
      PROVE  IInv'
  BY <1>0, <1>I, <1>4, StoreUntouched, CallMoves DEF CreateReturn
<1>5. ASSUME NEW p \in Proc, CreateNamed(p)
      PROVE  IInv'
  <2>1. [calls[p] EXCEPT !.at = "update"] \in Call
    BY <1>0, <1>5 DEF CreateNamed, Call
  <2>2. [calls[p] EXCEPT !.at = "update"].copy = calls[p].copy
    BY <1>0 DEF Call
  <2>. QED
    BY <1>0, <1>5, <2>1, <2>2, StoreUntouched, CallMoves DEF CreateNamed
<1>6. ASSUME NEW c \in Code,
             \/ \E u \in User : JoinRoom(c, u) \/ LeaveRoom(c, u) \/ SetPlayerReady(c, u)
             \/ StartRoom(c)
             \/ UpdateRoomStatus(c)
      PROVE  IInv'
  <2>1. OneScript(c)
    BY <1>6 DEF JoinRoom, LeaveRoom, SetPlayerReady, StartRoom, UpdateRoomStatus
  <2>2. \/ \E u \in User : JoinScript(c, u)
        \/ \E us \in SUBSET User : LeaveScript(c, us)
        \/ \E u \in User, b \in BOOLEAN : ReadyScript(c, u, b)
        \/ StartScript(c)
        \/ \E s \in Status, e \in SUBSET Status : StatusScript(c, s, e)
    <3>1. CASE UpdateRoomStatus(c)
      <4>1. {"playing", "finished", "waiting"} \subseteq Status /\ {"countdown"} \subseteq Status
        BY DEF Status
      <4>. QED
        BY <3>1, <4>1 DEF UpdateRoomStatus
    <3>. QED
      BY <1>6, <3>1 DEF JoinRoom, LeaveRoom, SetPlayerReady, StartRoom
  <2>3. StoreInv'
    BY <1>0, <2>2, ScriptsKeep
  <2>. QED
    BY <2>1, <2>3 DEF IInv, StoreInv, TypeOK, OneScript, CopiesWellFormed, WellFormed
<1>7. ASSUME NEW p \in Proc, NEW c \in Code, ReadForUpdate(p, c)
      PROVE  IInv'
  <2>1. rooms[c] \in Room /\ WellFormed(rooms[c])
    BY <1>0, <1>7 DEF ReadForUpdate, Exists
  <2>2. Holding("update", c, rooms[c]) \in Call
    BY <2>1 DEF Holding, Call
  <2>. QED
    BY <1>0, <1>7, <2>1, <2>2, StoreUntouched, CallMoves DEF ReadForUpdate, Holding
<1>8. ASSUME NEW p \in Proc, UpdateRoom(p)
      PROVE  IInv'
  <2>1. calls[p].code \in Code /\ calls[p].copy \in Room
    BY <1>0, <1>8 DEF UpdateRoom, Call
  <2>2. WellFormed(calls[p].copy)
    BY <1>0, <2>1, RoomStoreAssumption
  <2>3. Reset(calls[p].copy) \in Room /\ WellFormed(Reset(calls[p].copy))
    BY <2>1, <2>2, ResetWellFormed
  <2>4. StoreInv'
    BY <1>0, <1>8, <2>1, <2>3, SetRoomKeeps DEF UpdateRoom
  <2>5. torn' \in SUBSET Code
    BY <1>0, <1>8, <2>1 DEF UpdateRoom
  <2>. QED
    BY <1>0, <1>I, <1>8, <2>4, <2>5, CallMoves DEF UpdateRoom
<1>9. ASSUME NEW p \in Proc, NEW c \in Code, DeleteRoom(p, c)
      PROVE  IInv'
  <2>1. Holding("deleteKeys", c, rooms[c]) \in Call
    BY <1>0 DEF Holding, Call
  <2>. QED
    BY <1>0, <1>9, <2>1, StoreUntouched, CallMoves DEF DeleteRoom, Holding
<1>10. ASSUME NEW p \in Proc, DeleteRoomKeys(p)
       PROVE  IInv'
  <2>. DEFINE us == IF calls[p].copy = NoRoom THEN {} ELSE calls[p].copy.players
  <2>1. calls[p].code \in Code /\ us \in SUBSET User
    BY <1>0, <1>10 DEF DeleteRoomKeys, Call, Room
  <2>2. StoreInv'
    BY <1>0, <1>10, <2>1, RemovalsKeep DEF DeleteRoomKeys
  <2>3. [calls[p] EXCEPT !.at = "deleteIndex", !.copy = NoRoom] \in Call
    BY <1>0, <1>10 DEF DeleteRoomKeys, Call
  <2>4. [calls[p] EXCEPT !.at = "deleteIndex", !.copy = NoRoom].copy = NoRoom
    BY <1>0 DEF Call
  <2>. QED
    BY <1>0, <1>10, <2>2, <2>3, <2>4, CallMoves DEF DeleteRoomKeys
<1>11. ASSUME NEW p \in Proc, DeleteRoomIndex(p) \/ ListDrop(p)
       PROVE  IInv'
  <2>1. calls[p].codes \in SUBSET Code
    BY <1>0 DEF Call
  <2>2. DeleteRoomIndex(p) => calls[p].code \in Code
    BY <1>0 DEF DeleteRoomIndex, Call
  <2>3. \E cs \in SUBSET Code : RemoveFromIndex(cs)
    BY <1>11, <2>1, <2>2 DEF DeleteRoomIndex, ListDrop
  <2>4. StoreInv'
    BY <1>0, <2>3, RemovalsKeep
  <2>. QED
    BY <1>0, <1>I, <1>11, <2>4, CallMoves DEF DeleteRoomIndex, ListDrop
<1>12. ASSUME NEW p \in Proc, ListRooms(p)
       PROVE  IInv'
  <2>. DEFINE call == [Idle EXCEPT !.at = "listRead", !.codes = index]
  <2>1. call \in Call /\ call.copy = NoRoom
    BY <1>0 DEF Idle, Call, StoreInv, StoreTypeOK
  <2>. QED
    BY <1>0, <1>12, <2>1, StoreUntouched, CallMoves DEF ListRooms
<1>13. ASSUME NEW p \in Proc, ListRead(p)
       PROVE  IInv'
  <2>. DEFINE stale == {c \in calls[p].codes : ~Exists(c)}
              call == IF stale = {} THEN Idle
                      ELSE [calls[p] EXCEPT !.at = "listDrop", !.codes = stale]
  <2>1. stale \in SUBSET Code
    BY <1>0, <1>13 DEF ListRead, Call
  <2>2. [calls[p] EXCEPT !.at = "listDrop", !.codes = stale] \in Call
    BY <1>0, <1>13, <2>1 DEF ListRead, Call
  <2>3. [calls[p] EXCEPT !.at = "listDrop", !.codes = stale].copy = NoRoom
    BY <1>0, <1>13 DEF ListRead, Call
  <2>4. call \in Call /\ call.copy = NoRoom
    BY <1>I, <2>2, <2>3
  <2>5. Goto(p, call)
    BY <1>13 DEF ListRead
  <2>. QED
    BY <1>0, <1>13, <2>4, <2>5, StoreUntouched, CallMoves DEF ListRead
<1>14. CASE Crash
  <2>1. StoreInv'
    BY <1>0, <1>14, StoreUntouched DEF Crash
  <2>2. calls' \in [Proc -> Call] /\ \A p \in Proc : calls'[p].copy = NoRoom
    BY <1>I, <1>14 DEF Crash
  <2>3. crashes' \in 0 .. MaxCrashes /\ torn' \in SUBSET Code /\ minted' = minted
    BY <1>0, <1>14, MaxCrashesAssumption DEF Crash, IInv, TypeOK
  <2>4. TypeOK'
    BY <1>0, <2>1, <2>2, <2>3 DEF TypeOK, StoreInv
  <2>5. CopiesWellFormed'
    BY <2>2 DEF CopiesWellFormed
  <2>. QED
    BY <2>1, <2>4, <2>5 DEF IInv, StoreInv
<1>15. CASE Expire
  <2>1. StoreInv'
    BY <1>0, <1>15, RemovalsKeep DEF Expire
  <2>. QED
    BY <1>15, <2>1 DEF IInv, StoreInv, TypeOK, Expire, CopiesWellFormed, WellFormed
<1>16. CASE UNCHANGED vars
  BY <1>16 DEF vars, IInv, TypeOK, StoreTypeOK, RoomsWellFormed, CopiesWellFormed, Exists, WellFormed
<1>. QED
  BY <1>1, <1>2, <1>3, <1>4, <1>5, <1>6, <1>7, <1>8, <1>9, <1>10, <1>11, <1>12, <1>13, <1>14,
     <1>15, <1>16 DEF Next

-----------------------------------------------------------------------------
\* The store, the calls in flight and the counters keep their types in every
\* reachable state, for any finite set of users and any number of callers.
THEOREM TypeCorrect == Spec => []TypeOK
<1>1. IInv => TypeOK
  BY DEF IInv
<1>. QED
  BY IInvInit, IInvNext, <1>1, PTL DEF Spec

\* No interleaving of the service's calls, restarts and expiries leaves a
\* stored room without its host, over its seat limit, or with a ready mark of
\* someone who left: LEAVE_ROOM_LUA and JOIN_ROOM_LUA change all of them at once
\* and updateRoom can only write back a copy that was well formed when read.
THEOREM RoomsAlwaysWellFormed == Spec => []RoomsWellFormed
<1>1. IInv => RoomsWellFormed
  BY DEF IInv
<1>. QED
  BY IInvInit, IInvNext, <1>1, PTL DEF Spec

-----------------------------------------------------------------------------
(* That the keys agree: a mapping names a room that lists its user, and a     *)
(* room that lives is in the index, except where a torn sequence is on        *)
(* record.  What the calls hold when they come back from an await makes this  *)
(* hard: a room being created is still its creator's own, and a code about to *)
(* be taken out of the index has no room, or one that a late write has        *)
(* brought back.                                                              *)

\* Codes are seen by nobody before they are minted.
Minted ==
  /\ index \subseteq minted
  /\ \A u \in User : playerRoom[u] \in minted \cup {NoCode}
  /\ \A c \in Code : Exists(c) => c \in minted
  /\ \A p \in Proc : calls[p].code \in minted \cup {NoCode} /\ calls[p].codes \subseteq minted

InCreation(p) == calls[p].at \in {"createMapping", "createIndex"}

\* A room that is being created is as its creator wrote it, or has lapsed, and
\* no other call works on it.
Private ==
  \A p \in Proc : InCreation(p) =>
    /\ rooms[calls[p].code] \in {calls[p].copy, NoRoom}
    /\ \A q \in Proc \ {p} : calls[q].code # calls[p].code

Lost(c) == ~Exists(c) \/ c \in torn

\* What is about to leave the index has no room, or a torn one.
Gone ==
  \A p \in Proc :
    /\ calls[p].at = "deleteIndex" => Lost(calls[p].code)
    /\ calls[p].at = "listDrop" => \A c \in calls[p].codes : Lost(c)

Agree == Minted /\ Private /\ Gone /\ MappedIsMember /\ LiveRoomIndexed

LEMMA AgreeInit == Init => Agree
BY RoomStoreAssumption
DEF Init, Agree, StoreInit, Minted, Private, Gone, InCreation, Lost, MappedIsMember, LiveRoomIndexed,
    Exists, Idle

\* One room changes that nobody is creating, the calls stay: then all there is
\* to see is that its mappings name members, and that the index lets it go only
\* with the room.
LEMMA OneRoomAgrees ==
  ASSUME Agree, TypeOK, NEW c \in Code, Known(c), UNCHANGED <<calls, minted, torn>>,
         \A d \in Code \ {c} : rooms'[d] = rooms[d],
         rooms'[c] # NoRoom => rooms[c] # NoRoom,
         index' \subseteq index,
         \A d \in index \ index' : d = c /\ rooms'[c] = NoRoom,
         \A u \in User : playerRoom'[u] \in {playerRoom[u], NoCode, c},
         \A u \in User : playerRoom'[u] = c /\ rooms'[c] # NoRoom /\ c \notin torn
                            => u \in rooms'[c].players
  PROVE  Agree'
<1>1. c \in minted /\ \A p \in Proc : InCreation(p) => calls[p].code # c
  BY DEF Known, Creating, InCreation
<1>2. Minted'
  BY <1>1 DEF Agree, Minted, Exists
<1>3. Private'
  <2>. SUFFICES ASSUME NEW p \in Proc, InCreation(p)
                PROVE  /\ rooms'[calls[p].code] \in {calls[p].copy, NoRoom}
                       /\ \A q \in Proc \ {p} : calls[q].code # calls[p].code
    BY DEF Private, InCreation
  <2>1. calls[p].code \in Code \ {c}
    BY <1>1 DEF TypeOK, InCreation, Call
  <2>. QED
    BY <2>1 DEF Agree, Private
<1>4. \A d \in Code : Lost(d) => Lost(d)'
  BY DEF Lost, Exists
<1>5. Gone'
  <2>. SUFFICES ASSUME NEW p \in Proc
                PROVE  /\ calls[p].at = "deleteIndex" => Lost(calls[p].code)'
                       /\ calls[p].at = "listDrop" => \A d \in calls[p].codes : Lost(d)'
    BY DEF Gone, Lost, Exists
  <2>1. /\ calls[p].at = "deleteIndex" => calls[p].code \in Code
        /\ calls[p].at = "listDrop" => calls[p].codes \subseteq Code
    BY DEF TypeOK, Call
  <2>. QED
    BY <1>4, <2>1 DEF Agree, Gone
<1>6. MappedIsMember'
  <2>. SUFFICES ASSUME NEW u \in User, NEW d \in Code, playerRoom'[u] = d, rooms'[d] # NoRoom, d \notin torn
                PROVE  u \in rooms'[d].players
    BY DEF MappedIsMember, Exists
  <2>1. CASE d = c
    BY <2>1
  <2>2. CASE d # c
    <3>1. playerRoom[u] = d
      BY <2>2, RoomStoreAssumption
    <3>. QED
      BY <2>2, <3>1 DEF Agree, MappedIsMember, Exists
  <2>. QED
    BY <2>1, <2>2
<1>7. LiveRoomIndexed'
  BY DEF Agree, LiveRoomIndexed, Exists, Creating
<1>. QED
  BY <1>2, <1>3, <1>5, <1>6, <1>7 DEF Agree

\* Outside a creation, a call may take up any code that is known, and let it
\* go again.
LEMMA CallAgrees ==
  ASSUME Agree, TypeOK, UNCHANGED <<storeVars, minted, torn>>,
         NEW p \in Proc, NEW call \in Call, Goto(p, call), ~InCreation(p),
         call.at \notin {"createMapping", "createIndex"},
         call.code \in {calls[p].code, NoCode} \/ Known(call.code),
         call.codes \subseteq minted,
         call.at = "deleteIndex" => Lost(call.code),
         call.at = "listDrop" => \A c \in call.codes : Lost(c)
  PROVE  Agree'
<1>1. /\ calls' = [calls EXCEPT ![p] = call] /\ calls \in [Proc -> Call]
      /\ UNCHANGED <<rooms, playerRoom, index, minted, torn>>
  BY DEF Goto, TypeOK, storeVars
<1>2. calls'[p] = call /\ \A q \in Proc \ {p} : calls'[q] = calls[q]
  BY <1>1
<1>3. \A c : Creating(c)' <=> Creating(c)
  BY <1>2 DEF Creating, InCreation
<1>4. Minted'
  BY <1>1, <1>2 DEF Agree, Minted, Exists, Known
<1>5. Private'
  <2>. SUFFICES ASSUME NEW q \in Proc \ {p}, InCreation(q), NEW r \in Proc \ {q}
                PROVE  /\ rooms[calls[q].code] \in {calls[q].copy, NoRoom}
                       /\ calls'[r].code # calls[q].code
    BY <1>1, <1>2 DEF Private, InCreation
  <2>1. /\ rooms[calls[q].code] \in {calls[q].copy, NoRoom}
        /\ calls[r].code # calls[q].code
    BY DEF Agree, Private
  <2>2. calls[q].code \in Code /\ calls[q].code # NoCode
    BY <1>1, RoomStoreAssumption DEF Call, InCreation
  <2>3. call.code # calls[q].code
    BY <2>1, <2>2 DEF Known, Creating, InCreation, Agree, Private
  <2>. QED
    BY <1>2, <2>1, <2>3
<1>6. Gone'
  BY <1>1, <1>2 DEF Agree, Gone, Lost, Exists
<1>7. MappedIsMember' /\ LiveRoomIndexed'
  BY <1>1, <1>3 DEF Agree, MappedIsMember, LiveRoomIndexed, Exists
<1>. QED
  BY <1>4, <1>5, <1>6, <1>7 DEF Agree

-----------------------------------------------------------------------------
(* Every step *)

LEMMA ScriptsAgree ==
  ASSUME IInv, Agree, NEW c \in Code,
         \/ \E u \in User : JoinRoom(c, u) \/ LeaveRoom(c, u) \/ SetPlayerReady(c, u)
         \/ StartRoom(c)
         \/ UpdateRoomStatus(c)
  PROVE  Agree'
<1>1. /\ Known(c) /\ UNCHANGED <<calls, minted, torn>> /\ TypeOK
      /\ rooms \in [Code -> Room \cup {NoRoom}] /\ playerRoom \in [User -> Code \cup {NoCode}]
      /\ \A u \in User : playerRoom[u] = c /\ rooms[c] # NoRoom /\ c \notin torn => u \in rooms[c].players
  BY DEF JoinRoom, LeaveRoom, SetPlayerReady, StartRoom, UpdateRoomStatus, OneScript, IInv, TypeOK,
         StoreTypeOK, Agree, MappedIsMember, Exists
<1>. USE DEF Exists
<1>2. ASSUME NEW u \in User, JoinRoom(c, u) PROVE Agree'
  <2>1. /\ rooms' = [rooms EXCEPT ![c].players = @ \cup {u}] /\ rooms[c] \in Room
        /\ playerRoom' = [playerRoom EXCEPT ![u] = c] /\ index' = index
    BY <1>1, <1>2 DEF JoinRoom, JoinScript, CanJoin
  <2>2. rooms'[c].players = rooms[c].players \cup {u} /\ rooms[c] # NoRoom
    BY <1>1, <2>1, RoomStoreAssumption DEF Room
  <2>3. \A v \in User : playerRoom'[v] = (IF v = u THEN c ELSE playerRoom[v])
    BY <1>1, <2>1
  <2>4. \A v \in User : playerRoom'[v] = c /\ rooms'[c] # NoRoom /\ c \notin torn => v \in rooms'[c].players
    BY <1>1, <2>2, <2>3
  <2>5. \A d \in Code \ {c} : rooms'[d] = rooms[d]
    BY <1>1, <2>1
  <2>6. index' \subseteq index /\ index \ index' = {}
    BY <2>1
  <2>. QED
    BY <1>1, <2>2, <2>3, <2>4, <2>5, <2>6, OneRoomAgrees
<1>3. ASSUME NEW u \in User, LeaveRoom(c, u) PROVE Agree'
  <2>0. /\ ForgetPlayerRoom({u}, c) /\ playerRoom'[u] # c
        /\ \A v \in User : playerRoom'[v] \in {playerRoom[v], NoCode}
    BY <1>1, <1>3, RoomStoreAssumption
    DEF LeaveRoom, LeaveScript, LeaveMissing, LeaveLast, LeaveOthers, ForgetPlayerRoom
  <2>1. CASE LeaveMissing(c, {u})
    BY <1>1, <2>0, <2>1, OneRoomAgrees DEF LeaveMissing
  <2>2. CASE LeaveLast(c, {u})
    <3>1. rooms' = [rooms EXCEPT ![c] = NoRoom] /\ index' = index \ {c}
      BY <2>2 DEF LeaveLast
    <3>. QED
      BY <1>1, <2>0, <3>1, OneRoomAgrees
  <2>3. CASE LeaveOthers(c, {u})
    <3>1. PICK h \in IF rooms[c].host \in {u} THEN rooms[c].players \ {u} ELSE {rooms[c].host} :
            rooms' = [rooms EXCEPT ![c].players = rooms[c].players \ {u},
                                   ![c].ready = @ \ {u},
                                   ![c].host = h]
      BY <2>3 DEF LeaveOthers
    <3>2. /\ rooms'[c].players = rooms[c].players \ {u} /\ rooms[c] # NoRoom /\ index' = index
          /\ \A d \in Code \ {c} : rooms'[d] = rooms[d]
      BY <1>1, <2>3, <3>1 DEF LeaveOthers, Room
    <3>3. \A v \in User : playerRoom'[v] = c => playerRoom[v] = c /\ v # u
      BY <2>0, RoomStoreAssumption
    <3>4. \A v \in User : playerRoom'[v] = c /\ rooms'[c] # NoRoom /\ c \notin torn => v \in rooms'[c].players
      BY <1>1, <3>2, <3>3
    <3>. QED
      BY <1>1, <2>0, <3>2, <3>4, OneRoomAgrees
  <2>. QED
    BY <1>3, <2>1, <2>2, <2>3 DEF LeaveRoom, LeaveScript
<1>4. ASSUME NEW r \in Room, rooms[c] \in Room, r.players = rooms[c].players,
             rooms' = [rooms EXCEPT ![c] = r], playerRoom' = playerRoom, index' = index
      PROVE  Agree'
  <2>1. rooms'[c] = r /\ rooms[c] # NoRoom
    BY <1>1, <1>4, RoomStoreAssumption
  <2>. QED
    BY <1>1, <1>4, <2>1, OneRoomAgrees
<1>5. CASE \E u \in User : SetPlayerReady(c, u)
  <2>1. PICK u \in User, b \in BOOLEAN : ReadyScript(c, u, b)
    BY <1>5 DEF SetPlayerReady
  <2>. DEFINE r == [rooms[c] EXCEPT !.ready = IF b THEN @ \cup {u} ELSE @ \ {u}]
  <2>2. rooms[c] \in Room /\ r \in Room /\ r.players = rooms[c].players
    BY <1>1, <2>1 DEF ReadyScript, Room
  <2>3. rooms' = [rooms EXCEPT ![c] = r] /\ playerRoom' = playerRoom /\ index' = index
    BY <2>1 DEF ReadyScript
  <2>. QED
    BY <1>4, <2>2, <2>3
<1>6. ASSUME NEW s \in Status, rooms[c] \in Room, rooms' = [rooms EXCEPT ![c].status = s],
             playerRoom' = playerRoom, index' = index
      PROVE  Agree'
  <2>. DEFINE r == [rooms[c] EXCEPT !.status = s]
  <2>1. r \in Room /\ r.players = rooms[c].players /\ rooms' = [rooms EXCEPT ![c] = r]
    BY <1>6 DEF Room
  <2>. QED
    BY <1>4, <1>6, <2>1
<1>7. CASE StartRoom(c)
  <2>1. "countdown" \in Status
    BY DEF Status
  <2>. QED
    BY <1>1, <1>6, <1>7, <2>1 DEF StartRoom, StartScript, CanStart
<1>8. CASE UpdateRoomStatus(c)
  <2>1. PICK s \in Status, e \in SUBSET Status : StatusScript(c, s, e)
    <3>1. {"playing", "finished", "waiting", "countdown"} \subseteq Status
      BY DEF Status
    <3>. QED
      BY <1>8, <3>1 DEF UpdateRoomStatus
  <2>2. CASE rooms[c] # NoRoom /\ rooms[c].status \in e
    BY <1>1, <1>6, <2>1, <2>2 DEF StatusScript
  <2>3. CASE ~(rooms[c] # NoRoom /\ rooms[c].status \in e)
    <3>1. UNCHANGED <<rooms, playerRoom, index>>
      BY <2>1, <2>3 DEF StatusScript, storeVars
    <3>. QED
      BY <1>1, <3>1, OneRoomAgrees
  <2>. QED
    BY <2>2, <2>3
<1>. QED
  BY <1>2, <1>3, <1>5, <1>7, <1>8

\* The creation of a room, whose code nobody else has yet.
LEMMA CreationAgrees ==
  ASSUME IInv, Agree, NEW p \in Proc,
         \/ \E u \in User, c \in Code : CreateRoom(p, u, c)
         \/ CreateMapping(p)
         \/ CreateIndex(p)
  PROVE  Agree'
<1>. USE DEF Exists
<1>0. /\ calls \in [Proc -> Call] /\ playerRoom \in [User -> Code \cup {NoCode}]
      /\ rooms \in [Code -> Room \cup {NoRoom}]
      /\ \A q \in Proc : calls[q].copy # NoRoom => WellFormed(calls[q].copy)
  BY DEF IInv, TypeOK, StoreTypeOK, CopiesWellFormed
<1>1. ASSUME NEW u \in User, NEW c \in Code, CreateRoom(p, u, c) PROVE Agree'
  <2>. DEFINE call == Holding("createMapping", c, NewRoom(u))
  <2>1. /\ c \notin minted /\ minted' = minted \cup {c} /\ calls[p].at = "idle"
        /\ UNCHANGED <<playerRoom, index, torn>>
        /\ calls' = [calls EXCEPT ![p] = call]
        /\ rooms' = [rooms EXCEPT ![c] = NewRoom(u)]
    BY <1>1 DEF CreateRoom, SetRoom, Goto
  <2>2. /\ calls'[p] = call /\ \A q \in Proc \ {p} : calls'[q] = calls[q]
        /\ rooms'[c] = NewRoom(u) /\ \A d \in Code \ {c} : rooms'[d] = rooms[d]
        /\ call.at = "createMapping" /\ call.code = c /\ call.copy = NewRoom(u) /\ call.codes = {}
    BY <1>0, <2>1 DEF Holding
  <2>3. /\ \A q \in Proc : calls[q].code # c /\ c \notin calls[q].codes
        /\ \A v \in User : playerRoom[v] # c
    BY <2>1, RoomStoreAssumption DEF Agree, Minted
  <2>4. Minted'
    BY <2>1, <2>2 DEF Agree, Minted
  <2>5. Private'
    <3>. SUFFICES ASSUME NEW q \in Proc, InCreation(q)', NEW r \in Proc \ {q}
                  PROVE  /\ rooms'[calls'[q].code] \in {calls'[q].copy, NoRoom}
                         /\ calls'[r].code # calls'[q].code
      BY <2>2 DEF Private, InCreation
    <3>1. CASE q = p
      BY <2>2, <2>3, <3>1
    <3>2. CASE q # p
      <4>1. /\ rooms[calls[q].code] \in {calls[q].copy, NoRoom} /\ calls[q].code \in Code \ {c}
            /\ calls[r].code # calls[q].code
        BY <1>0, <2>2, <2>3, <3>2 DEF Agree, Private, InCreation, Call
      <4>. QED
        BY <2>2, <3>2, <4>1
    <3>. QED
      BY <3>1, <3>2
  <2>6. Gone'
    <3>1. \A q \in Proc \ {p} : /\ calls[q].at = "deleteIndex" => calls[q].code \in Code \ {c}
                                /\ calls[q].at = "listDrop" => calls[q].codes \subseteq Code \ {c}
      BY <1>0, <2>3 DEF Call
    <3>. QED
      BY <2>1, <2>2, <3>1 DEF Agree, Gone, Lost
  <2>7. MappedIsMember'
    BY <2>1, <2>2, <2>3 DEF Agree, MappedIsMember
  <2>8. LiveRoomIndexed'
    <3>1. Creating(c)' /\ \A d \in Code \ {c} : Creating(d) => Creating(d)'
      BY <2>1, <2>2 DEF Creating
    <3>. QED
      BY <2>1, <2>2, <3>1 DEF Agree, LiveRoomIndexed
  <2>. QED
    BY <2>4, <2>5, <2>6, <2>7, <2>8 DEF Agree
<1>2. ASSUME InCreation(p), NEW at \in {"createIndex", "created"},
             calls' = [calls EXCEPT ![p] = [calls[p] EXCEPT !.at = at]],
             playerRoom' = playerRoom \/ playerRoom' = [playerRoom EXCEPT ![calls[p].copy.host] = calls[p].code],
             UNCHANGED <<rooms, minted, torn>>,
             index' = index \/ index' = index \cup {calls[p].code},
             at = "created" => calls[p].code \in index'
      PROVE  Agree'
  <2>. DEFINE c == calls[p].code
  <2>1. /\ c \in Code /\ c \in minted /\ calls[p].copy \in Room /\ rooms[c] \in {calls[p].copy, NoRoom}
        /\ calls[p].copy.host \in calls[p].copy.players /\ calls[p].copy.host \in User
    BY <1>0, <1>2, RoomStoreAssumption DEF InCreation, Call, Agree, Private, Minted, WellFormed, Room
  <2>2. /\ calls'[p].at = at /\ calls'[p].code = c /\ calls'[p].copy = calls[p].copy /\ calls'[p].codes = calls[p].codes
        /\ \A q \in Proc \ {p} : calls'[q] = calls[q]
    BY <1>0, <1>2 DEF InCreation, Call
  <2>3. \A u \in User : playerRoom'[u] = playerRoom[u] \/ (u = calls[p].copy.host /\ playerRoom'[u] = c)
    BY <1>0, <1>2, <2>1
  <2>4. Minted'
    BY <1>2, <2>1, <2>2, <2>3 DEF Agree, Minted
  <2>5. Private'
    BY <1>2, <2>2 DEF Agree, Private, InCreation
  <2>6. Gone'
    BY <1>2, <2>2 DEF Agree, Gone, Lost
  <2>7. MappedIsMember'
    BY <1>2, <2>1, <2>3 DEF Agree, MappedIsMember
  <2>8. LiveRoomIndexed'
    <3>1. \A d \in Code : Creating(d)' <=> Creating(d) /\ (at = "created" => d # c)
      <4>1. \A q \in Proc \ {p} : InCreation(q) => calls[q].code # c
        BY <1>2 DEF Agree, Private
      <4>. QED
        BY <1>2, <2>2, <4>1 DEF Creating, InCreation
    <3>. QED
      BY <1>2, <3>1 DEF Agree, LiveRoomIndexed
  <2>. QED
    BY <2>4, <2>5, <2>6, <2>7, <2>8 DEF Agree
<1>3. CASE CreateMapping(p)
  BY <1>2, <1>3 DEF CreateMapping, SetPlayerRoom, Goto, InCreation
<1>4. CASE CreateIndex(p)
  BY <1>2, <1>4 DEF CreateIndex, AddToIndex, Goto, InCreation
<1>. QED
  BY <1>1, <1>3, <1>4

\* A call whose code is nobody's creation writes its room or drops the keys,
\* and goes on: a room that was not the one it had read is torn by that.
LEMMA WritesAgree ==
  ASSUME IInv, Agree, NEW p \in Proc, UpdateRoom(p) \/ DeleteRoomKeys(p),
         NEW c, c = calls[p].code, NEW copy, copy = calls[p].copy
  PROVE  Agree'
<1>. USE DEF Exists
<1>0. /\ calls \in [Proc -> Call] /\ playerRoom \in [User -> Code \cup {NoCode}]
      /\ rooms \in [Code -> Room \cup {NoRoom}]
      /\ calls[p].at \in {"update", "deleteKeys"} /\ minted' = minted
      /\ index' = index /\ torn \subseteq torn'
  BY DEF IInv, TypeOK, StoreTypeOK, UpdateRoom, DeleteRoomKeys, SetRoom, DeleteKeys
<1>1. c \in Code /\ c \in minted /\ (UpdateRoom(p) => copy \in Room /\ copy # NoRoom)
  BY <1>0, RoomStoreAssumption DEF Call, Agree, Minted, UpdateRoom
<1>2. \A q \in Proc : InCreation(q) => q # p /\ calls[q].code # c
  BY <1>0 DEF InCreation, Agree, Private
<1>3. /\ \A q \in Proc \ {p} : calls'[q] = calls[q]
      /\ calls'[p].at \in {"idle", "deleteIndex"} /\ calls'[p].code \in {c, NoCode} /\ calls'[p].codes = {}
      /\ calls'[p].at = "deleteIndex" => DeleteRoomKeys(p) /\ calls'[p].code = c
  <2>1. \A q \in Proc \ {p} : calls'[q] = calls[q]
    BY <1>0 DEF UpdateRoom, DeleteRoomKeys, Goto
  <2>2. CASE UpdateRoom(p)
    <3>1. calls'[p] = Idle
      BY <1>0, <2>2 DEF UpdateRoom, Goto
    <3>. QED
      BY <2>1, <3>1 DEF Idle
  <2>3. CASE DeleteRoomKeys(p)
    <3>1. calls'[p] = [calls[p] EXCEPT !.at = "deleteIndex", !.copy = NoRoom] /\ calls[p].at = "deleteKeys"
      BY <1>0, <2>3 DEF DeleteRoomKeys, Goto
    <3>2. calls'[p].at = "deleteIndex" /\ calls'[p].code = c /\ calls'[p].codes = {}
      BY <1>0, <3>1 DEF Call
    <3>. QED
      BY <2>1, <2>3, <3>2
  <2>. QED
    BY <2>2, <2>3
<1>4. /\ \A d \in Code \ {c} : rooms'[d] = rooms[d]
      /\ UpdateRoom(p) => rooms'[c] = Reset(copy) /\ playerRoom' = playerRoom
                          /\ torn' = IF rooms[c] = copy THEN torn ELSE torn \cup {c}
      /\ DeleteRoomKeys(p) => rooms'[c] = NoRoom /\ torn' = torn
      /\ \A u \in User : playerRoom'[u] \in {playerRoom[u], NoCode}
  BY <1>0, <1>1 DEF UpdateRoom, DeleteRoomKeys, SetRoom, DeleteKeys
<1>5. Reset(copy).players = copy.players \/ ~UpdateRoom(p)
  BY <1>1 DEF Reset, Room
<1>6. \A d \in Code : Lost(d) => Lost(d)'
  BY <1>0, <1>1, <1>4 DEF Lost
<1>7. Minted'
  BY <1>0, <1>1, <1>3, <1>4, RoomStoreAssumption DEF Agree, Minted
<1>8. Private'
  <2>. SUFFICES ASSUME NEW q \in Proc, InCreation(q)'
                PROVE  /\ rooms'[calls'[q].code] \in {calls'[q].copy, NoRoom}
                       /\ \A r \in Proc \ {q} : calls'[r].code # calls'[q].code
    BY DEF Private
  <2>1. q # p /\ InCreation(q) /\ calls'[q] = calls[q] /\ calls[q].code \in Code \ {c}
    BY <1>0, <1>2, <1>3 DEF InCreation, Call
  <2>2. rooms[calls[q].code] \in {calls[q].copy, NoRoom} /\ \A r \in Proc \ {q} : calls[r].code # calls[q].code
    BY <2>1 DEF Agree, Private
  <2>. QED
    BY <1>3, <1>4, <2>1, <2>2, RoomStoreAssumption
<1>9. Gone'
  <2>. SUFFICES ASSUME NEW q \in Proc
                PROVE  /\ calls'[q].at = "deleteIndex" => Lost(calls[q].code)'
                       /\ calls'[q].at = "listDrop" => (\A d \in calls[q].codes : Lost(d))'
    BY DEF Gone, Lost
  <2>1. CASE q = p
    BY <1>3, <1>4, <2>1 DEF Lost
  <2>2. CASE q # p
    <3>1. /\ calls[q].at = "deleteIndex" => calls[q].code \in Code
          /\ calls[q].at = "listDrop" => calls[q].codes \subseteq Code
      BY <1>0 DEF Call
    <3>. QED
      BY <1>3, <1>6, <2>2, <3>1 DEF Agree, Gone
  <2>. QED
    BY <2>1, <2>2
<1>10. MappedIsMember'
  <2>. SUFFICES ASSUME NEW u \in User, NEW d \in Code, playerRoom'[u] = d, rooms'[d] # NoRoom, d \notin torn'
                PROVE  u \in rooms'[d].players
    BY DEF MappedIsMember
  <2>1. playerRoom[u] = d /\ d \notin torn
    BY <1>0, <1>4, RoomStoreAssumption
  <2>2. CASE d # c
    BY <1>4, <2>1, <2>2 DEF Agree, MappedIsMember
  <2>3. CASE d = c
    <3>1. UpdateRoom(p) /\ rooms[c] = copy /\ copy # NoRoom
      BY <1>1, <1>4, <2>3
    <3>. QED
      BY <1>4, <1>5, <2>1, <2>3, <3>1 DEF Agree, MappedIsMember
  <2>. QED
    BY <2>2, <2>3
<1>11. LiveRoomIndexed'
  <2>. SUFFICES ASSUME NEW d \in Code, rooms'[d] # NoRoom, ~Creating(d)', d \notin torn'
                PROVE  d \in index
    BY <1>0 DEF LiveRoomIndexed
  <2>1. ~Creating(d) /\ d \notin torn
    BY <1>0, <1>2, <1>3 DEF Creating, InCreation
  <2>2. rooms[d] # NoRoom
    BY <1>1, <1>4
  <2>. QED
    BY <2>1, <2>2 DEF Agree, LiveRoomIndexed
<1>. QED
  BY <1>7, <1>8, <1>9, <1>10, <1>11 DEF Agree

\* What leaves the index was lost.
LEMMA IndexAgrees ==
  ASSUME IInv, Agree, NEW p \in Proc, DeleteRoomIndex(p) \/ ListDrop(p)
  PROVE  Agree'
<1>. USE DEF Exists
<1>1. PICK cs \in SUBSET Code :
        /\ index' = index \ cs /\ \A c \in cs : Lost(c)
        /\ UNCHANGED <<rooms, playerRoom, minted, torn>>
        /\ calls' = [calls EXCEPT ![p] = Idle] /\ ~InCreation(p) /\ calls \in [Proc -> Call]
  <2>1. CASE DeleteRoomIndex(p)
    <3>1. calls[p].code \in Code /\ calls \in [Proc -> Call] /\ Lost(calls[p].code)
      BY <2>1 DEF DeleteRoomIndex, IInv, TypeOK, Call, Agree, Gone
    <3>2. /\ index' = index \ {calls[p].code} /\ {calls[p].code} \in SUBSET Code
          /\ UNCHANGED <<rooms, playerRoom, minted, torn>>
          /\ calls' = [calls EXCEPT ![p] = Idle] /\ ~InCreation(p)
      BY <2>1, <3>1 DEF DeleteRoomIndex, RemoveFromIndex, Goto, InCreation
    <3>. QED
      BY <3>1, <3>2
  <2>2. CASE ListDrop(p)
    <3>1. calls[p].codes \subseteq Code
      BY <2>2 DEF ListDrop, IInv, TypeOK, Call
    <3>. QED
      BY <2>2, <3>1 DEF ListDrop, RemoveFromIndex, Goto, InCreation, IInv, TypeOK, Agree, Gone
  <2>. QED
    BY <2>1, <2>2
<1>2. /\ calls'[p] = Idle /\ \A q \in Proc \ {p} : calls'[q] = calls[q]
      /\ Idle.at = "idle" /\ Idle.code = NoCode /\ Idle.codes = {}
  BY <1>1 DEF Idle
<1>3. Minted'
  BY <1>1, <1>2 DEF Agree, Minted
<1>4. Private'
  <2>. SUFFICES ASSUME NEW q \in Proc \ {p}, InCreation(q), NEW r \in Proc \ {q}
                PROVE  /\ rooms[calls[q].code] \in {calls[q].copy, NoRoom}
                       /\ calls'[r].code # calls[q].code
    BY <1>1, <1>2 DEF Private, InCreation
  <2>1. calls[q].code \in Code
    BY <1>1 DEF InCreation, Call
  <2>. QED
    BY <1>2, <2>1, RoomStoreAssumption DEF Agree, Private
<1>5. Gone' /\ MappedIsMember'
  BY <1>1, <1>2 DEF Agree, Gone, Lost, MappedIsMember
<1>6. LiveRoomIndexed'
  <2>1. \A d : Creating(d)' <=> Creating(d)
    BY <1>1, <1>2 DEF Creating, InCreation
  <2>. QED
    BY <1>1, <2>1 DEF Agree, LiveRoomIndexed, Lost
<1>. QED
  BY <1>3, <1>4, <1>5, <1>6 DEF Agree

\* Whatever lapses was somebody's, or was on its way to be.
LEMMA ExpireAgrees ==
  ASSUME IInv, Agree, Expire
  PROVE  Agree'
<1>. USE DEF Exists
<1>1. /\ UNCHANGED <<index, calls, minted, torn>>
      /\ \A u \in User : playerRoom'[u] \in {playerRoom[u], NoCode}
      /\ \A c \in Code : rooms'[c] \in {rooms[c], NoRoom}
  BY DEF Expire, ExpirePlayerRoom, ExpireRoom, SetPlayerRoom, SetRoom, IInv, TypeOK, StoreTypeOK
<1>2. Minted'
  BY <1>1, RoomStoreAssumption DEF Agree, Minted
<1>3. Private'
  <2>1. \A p \in Proc : InCreation(p) => calls[p].code \in Code
    BY DEF IInv, TypeOK, InCreation, Call
  <2>. QED
    BY <1>1, <2>1 DEF Agree, Private, InCreation
<1>4. Gone'
  <2>1. \A p \in Proc : /\ calls[p].at = "deleteIndex" => calls[p].code \in Code
                        /\ calls[p].at = "listDrop" => calls[p].codes \subseteq Code
    BY DEF IInv, TypeOK, Call
  <2>2. \A c \in Code : Lost(c) => Lost(c)'
    BY <1>1 DEF Lost
  <2>. QED
    BY <1>1, <2>1, <2>2 DEF Agree, Gone
<1>5. MappedIsMember'
  BY <1>1, RoomStoreAssumption DEF Agree, MappedIsMember
<1>6. LiveRoomIndexed'
  BY <1>1 DEF Agree, LiveRoomIndexed, Creating
<1>. QED
  BY <1>2, <1>3, <1>4, <1>5, <1>6 DEF Agree

\* The calls are gone; the rooms they were creating are torn.
LEMMA CrashAgrees ==
  ASSUME IInv, Agree, Crash
  PROVE  Agree'
<1>. USE DEF Exists
<1>1. /\ UNCHANGED <<rooms, playerRoom, index, minted>>
      /\ \A p \in Proc : calls'[p] = Idle
      /\ Idle.at = "idle" /\ Idle.code = NoCode /\ Idle.codes = {}
      /\ torn' = torn \cup {c \in Code : Creating(c)}
  BY DEF Crash, storeVars, Idle
<1>2. Minted' /\ Private' /\ Gone'
  BY <1>1 DEF Agree, Minted, Private, Gone, InCreation
<1>3. MappedIsMember' /\ LiveRoomIndexed'
  BY <1>1 DEF Agree, MappedIsMember, LiveRoomIndexed
<1>. QED
  BY <1>2, <1>3 DEF Agree

LEMMA AgreeNext == IInv /\ Agree /\ [Next]_vars => Agree'
<1>. SUFFICES ASSUME IInv, Agree, [Next]_vars
              PROVE  Agree'
  OBVIOUS
<1>0. /\ TypeOK /\ calls \in [Proc -> Call] /\ Minted
      /\ Idle \in Call /\ Idle.at = "idle" /\ Idle.code = NoCode /\ Idle.codes = {}
      /\ \A c \in Code : rooms[c] \in Room \cup {NoRoom}
  BY DEF IInv, TypeOK, StoreTypeOK, Agree, Idle, Call
<1>1. ASSUME NEW p \in Proc, CreateReturn(p) PROVE Agree'
  BY <1>0, <1>1, CallAgrees DEF CreateReturn, InCreation
<1>2. ASSUME NEW p \in Proc, CreateNamed(p) PROVE Agree'
  <2>. DEFINE call == [calls[p] EXCEPT !.at = "update"]
  <2>1. call \in Call /\ call.at = "update" /\ call.code = calls[p].code /\ call.codes = {}
    BY <1>0, <1>2 DEF CreateNamed, Call
  <2>. QED
    BY <1>0, <1>2, <2>1, CallAgrees DEF CreateNamed, InCreation
<1>3. ASSUME NEW p \in Proc, NEW c \in Code, ReadForUpdate(p, c) \/ DeleteRoom(p, c) PROVE Agree'
  <2>. DEFINE call(at) == Holding(at, c, rooms[c])
  <2>1. /\ \A at : call(at).at = at /\ call(at).code = c /\ call(at).codes = {}
        /\ call("deleteKeys") \in Call
        /\ rooms[c] # NoRoom => call("update") \in Call
    BY <1>0 DEF Holding, Call
  <2>2. CASE ReadForUpdate(p, c)
    BY <1>0, <2>1, <2>2, CallAgrees DEF ReadForUpdate, InCreation, Exists
  <2>3. CASE DeleteRoom(p, c)
    BY <1>0, <2>1, <2>3, CallAgrees DEF DeleteRoom, InCreation
  <2>. QED
    BY <1>3, <2>2, <2>3
<1>4. ASSUME NEW p \in Proc, ListRooms(p) PROVE Agree'
  <2>. DEFINE call == [Idle EXCEPT !.at = "listRead", !.codes = index]
  <2>1. call \in Call /\ call.at = "listRead" /\ call.code = NoCode /\ call.codes = index
    BY <1>0 DEF Idle, Call, TypeOK, StoreTypeOK
  <2>2. index \subseteq minted
    BY <1>0 DEF Minted
  <2>. QED
    BY <1>0, <1>4, <2>1, <2>2, CallAgrees DEF ListRooms, InCreation
<1>5. ASSUME NEW p \in Proc, ListRead(p) PROVE Agree'
  <2>1. PICK stale : stale = {c \in calls[p].codes : ~Exists(c)}
    OBVIOUS
  <2>. DEFINE call == [calls[p] EXCEPT !.at = "listDrop", !.codes = stale]
  <2>2. calls[p].at = "listRead" /\ calls[p].codes \subseteq Code /\ calls[p].codes \subseteq minted
    BY <1>0, <1>5 DEF ListRead, Call, Minted
  <2>3. call \in Call /\ call.at = "listDrop" /\ call.code = NoCode /\ call.codes = stale
    BY <1>0, <2>1, <2>2 DEF Call
  <2>4. \A c \in stale : Lost(c)
    BY <2>1 DEF Lost
  <2>5. Goto(p, IF stale = {} THEN Idle ELSE call) /\ UNCHANGED <<storeVars, minted, torn>>
    BY <1>5, <2>1 DEF ListRead
  <2>6. CASE stale = {}
    BY <1>0, <2>2, <2>5, <2>6, CallAgrees DEF InCreation
  <2>7. CASE stale # {}
    <3>1. stale \subseteq minted /\ call.code \in {calls[p].code, NoCode} /\ Goto(p, call)
      BY <2>1, <2>2, <2>3, <2>5, <2>7
    <3>. QED
      BY <1>0, <2>2, <2>3, <2>4, <2>5, <3>1, CallAgrees DEF InCreation
  <2>. QED
    BY <2>6, <2>7
<1>6. CASE UNCHANGED vars
  BY <1>6 DEF vars, Agree, Minted, Private, Gone, InCreation, Lost, MappedIsMember, LiveRoomIndexed,
              Exists, Creating
<1>. QED
  BY <1>1, <1>2, <1>3, <1>4, <1>5, <1>6, ScriptsAgree, CreationAgrees, WritesAgree, IndexAgrees,
     ExpireAgrees, CrashAgrees DEF Next

-----------------------------------------------------------------------------
\* For any number of users, codes and callers: a player whose mapping names a
\* live room is one of its players, whatever joins, leaves, deletions,
\* expiries and restarts come between (only a write of an old copy, which is
\* on record in torn, breaks it).
THEOREM MappedAlwaysMember == Spec => []MappedIsMember
<1>1. Init => IInv /\ Agree
  BY IInvInit, AgreeInit
<1>2. IInv /\ Agree /\ [Next]_vars => IInv' /\ Agree'
  BY IInvNext, AgreeNext
<1>3. Agree => MappedIsMember
  BY DEF Agree
<1>. QED
  BY <1>1, <1>2, <1>3, PTL DEF Spec

\* A live room whose creation is over can be listed: neither the listing, which
\* drops what it found without a key some time ago, nor a deletion's last
\* command takes a room out of the index that has one.
THEOREM LiveRoomAlwaysIndexed == Spec => []LiveRoomIndexed
<1>1. Init => IInv /\ Agree
  BY IInvInit, AgreeInit
<1>2. IInv /\ Agree /\ [Next]_vars => IInv' /\ Agree'
  BY IInvNext, AgreeNext
<1>3. Agree => LiveRoomIndexed
  BY DEF Agree
<1>. QED
  BY <1>1, <1>2, <1>3, PTL DEF Spec
=============================================================================
