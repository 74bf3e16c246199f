---------------------------- MODULE LobbyService ----------------------------
(***************************************************************************)
(* The lobby service (backend/src/services/lobby.ts) called by any number  *)
(* of handlers at once.  A function that is one Redis command is one step; *)
(* createRoom, deleteRoom, listActiveRooms and the read-modify-write that  *)
(* ends in updateRoom await several, and other callers run in between.     *)
(*                                                                         *)
(*   calls[p]  the call handler p is in the middle of                      *)
(*   minted    the codes generated so far: generateRoomCode cuts them      *)
(*             out of a UUID (lobby.ts 23) and createRoom does not look    *)
(*             whether a room has the code, so one may come again, once    *)
(*             in 2^24; here none does                                     *)
(*   torn      auxiliary: the codes whose keys a several-command sequence  *)
(*             left inconsistent, because the server died inside           *)
(*             createRoom or because updateRoom overwrote a room that was  *)
(*             no longer the one it had read                               *)
(*   crashes   server restarts so far, at most MaxCrashes                  *)
(***************************************************************************)
EXTENDS RoomStore

CONSTANTS
  Proc,       \* handlers that may be inside the service at once
  MaxCrashes  \* bound on server restarts

ASSUME MaxCrashesAssumption == MaxCrashes \in Nat

VARIABLES calls, minted, torn, crashes

vars == <<rooms, playerRoom, index, calls, minted, torn, crashes>>

\* What a call remembers between two awaits: the code it works on, the room
\* object it wrote or read, and for a listing the codes it has in hand.
Call ==
  [at : {"createMapping", "createIndex", "created", "update"},
   code : Code, copy : Room, codes : {{}}]
    \cup
  [at : {"deleteKeys", "deleteIndex"},
   code : Code, copy : Room \cup {NoRoom}, codes : {{}}]
    \cup
  [at : {"idle", "listRead", "listDrop"},
   code : {NoCode}, copy : {NoRoom}, codes : SUBSET Code]

Idle == [at |-> "idle", code |-> NoCode, copy |-> NoRoom, codes |-> {}]

Holding(step, c, r) == [at |-> step, code |-> c, copy |-> r, codes |-> {}]

TypeOK ==
  /\ StoreTypeOK
  /\ calls \in [Proc -> Call]
  /\ minted \in SUBSET Code
  /\ torn \in SUBSET Code
  /\ crashes \in 0 .. MaxCrashes

Init ==
  /\ StoreInit
  /\ calls = [p \in Proc |-> Idle]
  /\ minted = {}
  /\ torn = {}
  /\ crashes = 0

Goto(p, call) == calls' = [calls EXCEPT ![p] = call]

Creating(c) == \E p \in Proc : calls[p].at \in {"createMapping", "createIndex"} /\ calls[p].code = c

\* Other callers learn a code from createRoom's answer or from the index.
Known(c) == c \in minted /\ ~Creating(c)

-----------------------------------------------------------------------------
(* createRoom: SET the room, SET the mapping, SADD the index *)

CreateRoom(p, u, c) ==
  /\ calls[p].at = "idle"
  /\ c \notin minted
  /\ minted' = minted \cup {c}
  /\ SetRoom(c, NewRoom(u))
  /\ Goto(p, Holding("createMapping", c, NewRoom(u)))
  /\ UNCHANGED <<torn, crashes>>

CreateMapping(p) ==
  /\ calls[p].at = "createMapping"
  /\ SetPlayerRoom(calls[p].copy.host, calls[p].code)
  /\ Goto(p, [calls[p] EXCEPT !.at = "createIndex"])
  /\ UNCHANGED <<minted, torn, crashes>>

CreateIndex(p) ==
  /\ calls[p].at = "createIndex"
  /\ AddToIndex(calls[p].code)
  /\ Goto(p, [calls[p] EXCEPT !.at = "created"])
  /\ UNCHANGED <<minted, torn, crashes>>

\* The caller goes on; a room without a custom map needs no second write.
CreateReturn(p) ==
  /\ calls[p].at = "created"
  /\ Goto(p, Idle)
  /\ UNCHANGED <<storeVars, minted, torn, crashes>>

\* room:create writes the room it created again, with the custom map's name.
CreateNamed(p) ==
  /\ calls[p].at = "created"
  /\ Goto(p, [calls[p] EXCEPT !.at = "update"])
  /\ UNCHANGED <<storeVars, minted, torn, crashes>>

-----------------------------------------------------------------------------
(* Functions that are one script *)

OneScript(c) == Known(c) /\ UNCHANGED <<calls, minted, torn, crashes>>

JoinRoom(c, u) == OneScript(c) /\ JoinScript(c, u)

LeaveRoom(c, u) == OneScript(c) /\ LeaveScript(c, {u})

SetPlayerReady(c, u) == OneScript(c) /\ \E b \in BOOLEAN : ReadyScript(c, u, b)

StartRoom(c) == OneScript(c) /\ StartScript(c)

\* GameRoom marks the room playing, then finished; a failed start reverts.
UpdateRoomStatus(c) ==
  /\ OneScript(c)
  /\ \/ StatusScript(c, "playing", Status)
     \/ StatusScript(c, "finished", Status)
     \/ StatusScript(c, "waiting", {"countdown"})

-----------------------------------------------------------------------------
(* getRoom, change the copy, updateRoom: room:restart and rematch:vote *)

ReadForUpdate(p, c) ==
  /\ calls[p].at = "idle"
  /\ Known(c)
  /\ Exists(c)
  /\ rooms[c].status = "finished"
  /\ Goto(p, Holding("update", c, rooms[c]))
  /\ UNCHANGED <<storeVars, minted, torn, crashes>>

\* A plain SET of the changed copy over whatever the key holds now.
UpdateRoom(p) ==
  LET c == calls[p].code  IN
  /\ calls[p].at = "update"
  /\ SetRoom(c, Reset(calls[p].copy))
  /\ torn' = IF rooms[c] = calls[p].copy THEN torn ELSE torn \cup {c}
  /\ Goto(p, Idle)
  /\ UNCHANGED <<minted, crashes>>

-----------------------------------------------------------------------------
(* deleteRoom: getRoom, one DEL, SREM *)

DeleteRoom(p, c) ==
  /\ calls[p].at = "idle"
  /\ Known(c)
  /\ Goto(p, Holding("deleteKeys", c, rooms[c]))
  /\ UNCHANGED <<storeVars, minted, torn, crashes>>

DeleteRoomKeys(p) ==
  LET copy == calls[p].copy  IN
  /\ calls[p].at = "deleteKeys"
  /\ DeleteKeys(calls[p].code, IF copy = NoRoom THEN {} ELSE copy.players)
  /\ Goto(p, [calls[p] EXCEPT !.at = "deleteIndex", !.copy = NoRoom])
  /\ UNCHANGED <<minted, torn, crashes>>

DeleteRoomIndex(p) ==
  /\ calls[p].at = "deleteIndex"
  /\ RemoveFromIndex({calls[p].code})
  /\ Goto(p, Idle)
  /\ UNCHANGED <<minted, torn, crashes>>

-----------------------------------------------------------------------------
(* listActiveRooms: SMEMBERS, MGET, SREM of the members without a key *)

ListRooms(p) ==
  /\ calls[p].at = "idle"
  /\ index # {}
  /\ Goto(p, [Idle EXCEPT !.at = "listRead", !.codes = index])
  /\ UNCHANGED <<storeVars, minted, torn, crashes>>

\* Mutant: every code that is not shown as waiting is taken for a tombstone.
ListReadEager(p) ==
  LET stale == {c \in calls[p].codes : ~Exists(c) \/ rooms[c].status # "waiting"}  IN
  /\ calls[p].at = "listRead"
  /\ Goto(p, IF stale = {} THEN Idle ELSE [calls[p] EXCEPT !.at = "listDrop", !.codes = stale])
  /\ UNCHANGED <<storeVars, minted, torn, crashes>>

ListRead(p) ==
  LET stale == {c \in calls[p].codes : ~Exists(c)}  IN
  /\ calls[p].at = "listRead"
  /\ Goto(p, IF stale = {} THEN Idle ELSE [calls[p] EXCEPT !.at = "listDrop", !.codes = stale])
  /\ UNCHANGED <<storeVars, minted, torn, crashes>>

ListDrop(p) ==
  /\ calls[p].at = "listDrop"
  /\ RemoveFromIndex(calls[p].codes)
  /\ Goto(p, Idle)
  /\ UNCHANGED <<minted, torn, crashes>>

-----------------------------------------------------------------------------
(* The server process dies: its calls are gone, the keys stay.               *)

Crash ==
  /\ crashes < MaxCrashes
  /\ crashes' = crashes + 1
  /\ calls' = [p \in Proc |-> Idle]
  /\ torn' = torn \cup {c \in Code : Creating(c)}
  /\ UNCHANGED <<storeVars, minted>>

Expire ==
  /\ \/ \E u \in User : ExpirePlayerRoom(u)
     \/ \E c \in Code : ExpireRoom(c)
  /\ UNCHANGED <<calls, minted, torn, crashes>>

-----------------------------------------------------------------------------
Next ==
  \/ \E p \in Proc, u \in User, c \in Code : CreateRoom(p, u, c)
  \/ \E p \in Proc : CreateMapping(p)
  \/ \E p \in Proc : CreateIndex(p)
  \/ \E p \in Proc : CreateReturn(p)
  \/ \E p \in Proc : CreateNamed(p)
  \/ \E c \in Code, u \in User : JoinRoom(c, u)
  \/ \E c \in Code, u \in User : LeaveRoom(c, u)
  \/ \E c \in Code, u \in User : SetPlayerReady(c, u)
  \/ \E c \in Code : StartRoom(c)
  \/ \E c \in Code : UpdateRoomStatus(c)
  \/ \E p \in Proc, c \in Code : ReadForUpdate(p, c)
  \/ \E p \in Proc : UpdateRoom(p)
  \/ \E p \in Proc, c \in Code : DeleteRoom(p, c)
  \/ \E p \in Proc : DeleteRoomKeys(p)
  \/ \E p \in Proc : DeleteRoomIndex(p)
  \/ \E p \in Proc : ListRooms(p)
  \/ \E p \in Proc : ListRead(p)
  \/ \E p \in Proc : ListDrop(p)
  \/ Crash
  \/ Expire

Spec == Init /\ [][Next]_vars

-----------------------------------------------------------------------------
(* Properties *)

\* Whatever joins, leaves, kicks, restarts and deletions interleave, a stored
\* room is hosted by one of its own players, seats no more than maxPlayers and
\* marks nobody ready who is not in it (LEAVE_ROOM_LUA hands the host on in
\* the script that removes the old one, JOIN_ROOM_LUA counts inside it).
RoomsWellFormed == \A c \in Code : Exists(c) => WellFormed(rooms[c])

\* The inductive strengthening: the copies the calls hold are well formed too,
\* since updateRoom will write them back, and createRoom's is a room for one.
CopiesWellFormed ==
  \A p \in Proc : calls[p].copy # NoRoom => WellFormed(calls[p].copy)

\* A player whose mapping names a live room is in that room's player list, so
\* the cleanup a disconnect runs through the mapping finds what it must undo.
\* Only a torn room may break it.
MappedIsMember ==
  \A u \in User, c \in Code :
    playerRoom[u] = c /\ Exists(c) /\ c \notin torn => u \in rooms[c].players

\* A live room whose creation has finished is in rooms:index, so it can be
\* listed; only a torn room can be live and unlisted.
LiveRoomIndexed ==
  \A c \in Code : Exists(c) /\ ~Creating(c) /\ c \notin torn => c \in index

=============================================================================
