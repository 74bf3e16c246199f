------------------------------ MODULE RoomStore ------------------------------
(***************************************************************************)
(* The Redis keys behind the lobby (backend/src/services/lobby.ts) and the *)
(* commands that change them.  Every command is one action: a plain SET,   *)
(* DEL, SADD or SREM, or one Lua script, which Redis runs to the end       *)
(* before the next command.                                                *)
(*                                                                         *)
(*   rooms[c]       the value of key room:<c>, or NoRoom                   *)
(*   playerRoom[u]  the value of key player:<u>:room, or NoCode            *)
(*   index          the set rooms:index                                    *)
(*                                                                         *)
(* This module has no next-state relation of its own: LobbyService runs    *)
(* the service functions over it, RoomSession the socket handlers.         *)
(*                                                                         *)
(* Abstractions: the players array is a set, so the host that follows one  *)
(* who leaves (newPlayers[1] in the script) is any remaining player; names *)
(* and the configuration are left out except the seat limit.               *)
(***************************************************************************)
EXTENDS Naturals, FiniteSets

CONSTANTS
  User,        \* the accounts
  Code,        \* the room codes that may be minted
  MaxPlayers,  \* config.maxPlayers
  NoRoom,      \* an absent room:<code> key
  NoCode       \* an absent player:<id>:room key

Status == {"waiting", "countdown", "playing", "finished"}

Room == [status : Status, host : User, players : SUBSET User, ready : SUBSET User]

ASSUME RoomStoreAssumption ==
  /\ IsFiniteSet(User)
  /\ MaxPlayers \in Nat \ {0}
  /\ NoRoom \notin Room
  /\ NoCode \notin Code

VARIABLES rooms, playerRoom, index

storeVars == <<rooms, playerRoom, index>>

StoreTypeOK ==
  /\ rooms \in [Code -> Room \cup {NoRoom}]
  /\ playerRoom \in [User -> Code \cup {NoCode}]
  /\ index \in SUBSET Code

StoreInit ==
  /\ rooms = [c \in Code |-> NoRoom]
  /\ playerRoom = [u \in User |-> NoCode]
  /\ index = {}

Exists(c) == rooms[c] # NoRoom

-----------------------------------------------------------------------------
(* Plain commands *)

\* The room object createRoom writes.
NewRoom(u) == [status |-> "waiting", host |-> u, players |-> {u}, ready |-> {}]

\* What room:restart and rematch:vote turn their copy of a finished room into.
Reset(r) == [r EXCEPT !.status = "waiting", !.ready = {}]

SetRoom(c, r) ==
  /\ rooms' = [rooms EXCEPT ![c] = r]
  /\ UNCHANGED <<playerRoom, index>>

SetPlayerRoom(u, c) ==
  /\ playerRoom' = [playerRoom EXCEPT ![u] = c]
  /\ UNCHANGED <<rooms, index>>

AddToIndex(c) ==
  /\ index' = index \cup {c}
  /\ UNCHANGED <<rooms, playerRoom>>

RemoveFromIndex(cs) ==
  /\ index' = index \ cs
  /\ UNCHANGED <<rooms, playerRoom>>

\* deleteRoom's one DEL: the room and the mapping of every player in the copy
\* it read, wherever that mapping points by now.
DeleteKeys(c, us) ==
  /\ rooms' = [rooms EXCEPT ![c] = NoRoom]
  /\ playerRoom' = [u \in User |-> IF u \in us THEN NoCode ELSE playerRoom[u]]
  /\ UNCHANGED index

-----------------------------------------------------------------------------
(* Lua scripts *)

CanJoin(c, u) ==
  /\ Exists(c)
  /\ rooms[c].status = "waiting"
  /\ Cardinality(rooms[c].players) < MaxPlayers
  /\ u \notin rooms[c].players

JoinScript(c, u) ==
  /\ CanJoin(c, u)
  /\ rooms' = [rooms EXCEPT ![c].players = @ \cup {u}]
  /\ playerRoom' = [playerRoom EXCEPT ![u] = c]
  /\ UNCHANGED index

\* One leave script, or several that a handler issues without awaiting in
\* between (us is who they remove).  A mapping is cleared only if it points at
\* this room.
ForgetPlayerRoom(us, c) ==
  playerRoom' = [u \in User |-> IF u \in us /\ playerRoom[u] = c THEN NoCode ELSE playerRoom[u]]

LeaveMissing(c, us) ==
  /\ ~Exists(c)
  /\ ForgetPlayerRoom(us, c)
  /\ UNCHANGED <<rooms, index>>

LeaveLast(c, us) ==
  /\ Exists(c)
  /\ rooms[c].players \ us = {}
  /\ ForgetPlayerRoom(us, c)
  /\ rooms' = [rooms EXCEPT ![c] = NoRoom]
  /\ index' = index \ {c}

\* Mutant: the host is not handed on.
LeaveOthersKeepHost(c, us) ==
  /\ Exists(c)
  /\ rooms[c].players \ us # {}
  /\ ForgetPlayerRoom(us, c)
  /\ rooms' = [rooms EXCEPT ![c].players = @ \ us, ![c].ready = @ \ us]
  /\ UNCHANGED index

\* Mutant: the mapping is kept when the room lives on.
LeaveOthersKeepMapping(c, us) ==
  LET rest == rooms[c].players \ us IN
  /\ Exists(c)
  /\ rest # {}
  /\ \E h \in IF rooms[c].host \in us THEN rest ELSE {rooms[c].host} :
       rooms' = [rooms EXCEPT ![c].players = rest,
                              ![c].ready = @ \ us,
                              ![c].host = h]
  /\ UNCHANGED <<playerRoom, index>>

LeaveOthers(c, us) ==
  LET rest == rooms[c].players \ us IN
  /\ Exists(c)
  /\ rest # {}
  /\ ForgetPlayerRoom(us, c)
  /\ \E h \in IF rooms[c].host \in us THEN rest ELSE {rooms[c].host} :
       rooms' = [rooms EXCEPT ![c].players = rest,
                              ![c].ready = @ \ us,
                              ![c].host = h]
  /\ UNCHANGED index

LeaveScript(c, us) == LeaveMissing(c, us) \/ LeaveLast(c, us) \/ LeaveOthers(c, us)

ReadyScript(c, u, ready) ==
  /\ Exists(c)
  /\ u \in rooms[c].players
  /\ rooms' = [rooms EXCEPT ![c].ready = IF ready THEN @ \cup {u} ELSE @ \ {u}]
  /\ UNCHANGED <<playerRoom, index>>

CanStart(c) == Exists(c) /\ rooms[c].status = "waiting"

\* Mutant: a SET instead of the compare-and-set.
StartScriptBlind(c) ==
  /\ Exists(c)
  /\ rooms' = [rooms EXCEPT ![c].status = "countdown"]
  /\ UNCHANGED <<playerRoom, index>>

StartScript(c) ==
  /\ CanStart(c)
  /\ rooms' = [rooms EXCEPT ![c].status = "countdown"]
  /\ UNCHANGED <<playerRoom, index>>

\* updateRoomStatus; `expected` is a set: all of Status when the caller names
\* no expected status.
StatusScript(c, status, expected) ==
  IF Exists(c) /\ rooms[c].status \in expected
  THEN /\ rooms' = [rooms EXCEPT ![c].status = status]
       /\ UNCHANGED <<playerRoom, index>>
  ELSE UNCHANGED storeVars

-----------------------------------------------------------------------------
(* Expiry.  Every write of a room renews its 3600 seconds; a mapping's run    *)
(* from the create or join that wrote it.  So a mapping may lapse under a     *)
(* room still in use, and a room only after the mappings that point at it.    *)

ExpirePlayerRoom(u) ==
  /\ playerRoom[u] # NoCode
  /\ SetPlayerRoom(u, NoCode)

ExpireRoom(c) ==
  /\ Exists(c)
  /\ \A u \in User : playerRoom[u] # c
  /\ SetRoom(c, NoRoom)

-----------------------------------------------------------------------------
\* What every stored room, and every copy of one a handler holds, must satisfy.
WellFormed(r) ==
  /\ r.host \in r.players
  /\ r.ready \subseteq r.players
  /\ Cardinality(r.players) <= MaxPlayers

=============================================================================
