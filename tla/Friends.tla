------------------------------- MODULE Friends -------------------------------
(***************************************************************************)
(* Friend requests, friendships and blocks: services/friends.ts, over the  *)
(* tables of migration 013.                                                *)
(*                                                                         *)
(*   row[p]    friendships: the row of the directed pair <<u, v>>          *)
(*   blocks    user_blocks                                                 *)
(*   tx[c]     a call under way: what it does, how far its transaction is, *)
(*             and the keys of uk_friendship that it has locked            *)
(*   slipped   auxiliary: pairs whose rows go back to a request that was   *)
(*             sent although a block had been made since it looked for one *)
(*   crossed   auxiliary: an acceptance was written after another had      *)
(*             changed what it had counted                                 *)
(*                                                                         *)
(* The database is external; this is what the code needs of InnoDB.  What  *)
(* a transaction writes is seen by nobody before it commits, and is put    *)
(* down here when it does.  A locking statement waits for whoever has the  *)
(* row locked; if there is no row it locks the gap, which others may lock  *)
(* too, but nobody can insert into before they are done.  Transactions     *)
(* that wait for each other lose one of them, others fail for any reason:  *)
(* a transaction may be rolled back at any time.                           *)
(*                                                                         *)
(* Left out: names, notifications, deactivated users and those who accept  *)
(* no requests (refusals that change nothing), and lists.                  *)
(***************************************************************************)
EXTENDS Naturals, FiniteSets

CONSTANTS
  User,
  Call,            \* calls under way at once
  MaxFriends       \* MAX_FRIENDS

ASSUME FriendsAssumption == MaxFriends \in Nat /\ IsFiniteSet(User)

VARIABLES row, blocks, tx, slipped, crossed

vars == <<row, blocks, tx, slipped, crossed>>

Pair == {p \in User \X User : p[1] # p[2]}

Reverse(p) == <<p[2], p[1]>>

\* The pair is <<who acts, the other>>.
Tx == [op : {"send", "accept", "remove", "block"}, at : {"checked", "first", "second", "counted"},
       pair : Pair, locks : SUBSET Pair, stale : BOOLEAN]

Idle == [op |-> "none", at |-> "idle", pair |-> <<>>, locks |-> {}, stale |-> FALSE]

TypeOK ==
  /\ row \in [Pair -> {"none", "pending", "accepted"}]
  /\ blocks \in SUBSET Pair
  /\ tx \in [Call -> Tx \cup {Idle}]
  /\ slipped \in SUBSET Pair
  /\ crossed \in BOOLEAN

Init ==
  /\ row = [p \in Pair |-> "none"]
  /\ blocks = {}
  /\ tx = [c \in Call |-> Idle]
  /\ slipped = {}
  /\ crossed = FALSE

-----------------------------------------------------------------------------
(* Locks *)

\* Nobody else has this key: an INSERT, a DELETE or an UPDATE may go through.
Free(c, p) == \A d \in Call \ {c} : p \notin tx[d].locks

\* SELECT ... FOR UPDATE, or the DELETE of a transaction.
Lockable(c, p) == row[p] = "none" \/ Free(c, p)

Begun(op, at, p, L) == [op |-> op, at |-> at, pair |-> p, locks |-> L, stale |-> FALSE]

Friend(u) == {v \in User : v # u /\ row[<<u, v>>] = "accepted"}

\* Mutant: only whoever accepts is counted.
HasRoomOne(op, p) == Cardinality(Friend(p[1])) < MaxFriends

\* assertFriendCapacity, of both sides for an acceptance.
HasRoom(op, p) ==
  /\ Cardinality(Friend(p[1])) < MaxFriends
  /\ op = "accept" => Cardinality(Friend(p[2])) < MaxFriends

\* Mutant: only the blocks that whoever asks has made are looked for.
BlockedByAsker(p) == p \in blocks

\* isBlockedEither
Blocked(p) == p \in blocks \/ Reverse(p) \in blocks

-----------------------------------------------------------------------------
(* Requests and acceptances *)

\* Blocks are looked for before the transaction begins.
Send(c, p) ==
  /\ tx[c] = Idle
  /\ ~Blocked(p)
  /\ tx' = [tx EXCEPT ![c] = Begun("send", "checked", p, {})]
  /\ UNCHANGED <<row, blocks, slipped, crossed>>

\* The row of the request itself must not exist.
LockOwn(c) ==
  /\ tx[c].op = "send" /\ tx[c].at = "checked"
  /\ Lockable(c, tx[c].pair)
  /\ tx' = [tx EXCEPT ![c] = IF row[tx[c].pair] = "none" THEN Begun("send", "first", tx[c].pair, {tx[c].pair}) ELSE Idle]
  /\ UNCHANGED <<row, blocks, slipped, crossed>>

Both(p) == {p, Reverse(p)}

\* Mutant: the row of the other is read without FOR UPDATE.
LockOtherNot(c) ==
  LET p == tx[c].pair IN
  /\ tx[c].op = "send" /\ tx[c].at = "first"
  /\ tx' = [tx EXCEPT ![c] = Begun(IF row[Reverse(p)] = "pending" THEN "accept" ELSE "send", "second", p, {p})]
  /\ UNCHANGED <<row, blocks, slipped, crossed>>

\* A request of the other is looked for: if there is one this call accepts it.
LockOther(c) ==
  LET p == tx[c].pair IN
  /\ tx[c].op = "send" /\ tx[c].at = "first"
  /\ Lockable(c, Reverse(p))
  /\ tx' = [tx EXCEPT ![c] = Begun(IF row[Reverse(p)] = "pending" THEN "accept" ELSE "send", "second", p, Both(p))]
  /\ UNCHANGED <<row, blocks, slipped, crossed>>

\* acceptFriendRequest: the request is found and locked.
Accept(c, p) ==
  /\ tx[c] = Idle
  /\ row[Reverse(p)] = "pending" /\ Lockable(c, Reverse(p))
  /\ tx' = [tx EXCEPT ![c] = Begun("accept", "second", p, {Reverse(p)})]
  /\ UNCHANGED <<row, blocks, slipped, crossed>>

\* The counts read what is committed, and lock nothing.
Count(c) ==
  LET t == tx[c] IN
  /\ t.op \in {"send", "accept"} /\ t.at = "second"
  /\ tx' = [tx EXCEPT ![c] = IF HasRoom(t.op, t.pair) THEN Begun(t.op, "counted", t.pair, t.locks) ELSE Idle]
  /\ UNCHANGED <<row, blocks, slipped, crossed>>

InsertRequest(c) ==
  LET p == tx[c].pair IN
  /\ tx[c].op = "send" /\ tx[c].at = "counted"
  /\ Free(c, p)
  /\ row' = [row EXCEPT ![p] = "pending"]
  /\ slipped' = IF Blocked(p) THEN slipped \cup Both(p) ELSE slipped
  /\ tx' = [tx EXCEPT ![c] = Idle]
  /\ UNCHANGED <<blocks, crossed>>

Shares(p, q) == {p[1], p[2]} \cap {q[1], q[2]} # {}

\* What another acceptance of one of these users has counted no longer holds.
Outdated(c) ==
  [d \in Call |-> IF d = c THEN Idle
                  ELSE IF tx[d].op = "accept" /\ tx[d].at = "counted" /\ Shares(tx[d].pair, tx[c].pair)
                       THEN [tx[d] EXCEPT !.stale = TRUE]
                       ELSE tx[d]]

\* The request becomes accepted, and the row of the other direction is
\* inserted, or made so if it is there.
InsertFriendship(c) ==
  LET p == tx[c].pair IN
  /\ tx[c].op = "accept" /\ tx[c].at = "counted"
  /\ Free(c, p)
  /\ row' = [q \in Pair |-> IF q \in Both(p) THEN "accepted" ELSE row[q]]
  /\ crossed' = (crossed \/ tx[c].stale)
  /\ tx' = Outdated(c)
  /\ UNCHANGED <<blocks, slipped>>

\* declineFriendRequest and cancelFriendRequest: one statement each.
Decline(p) ==
  /\ row[Reverse(p)] = "pending"
  /\ \A d \in Call : Reverse(p) \notin tx[d].locks
  /\ row' = [row EXCEPT ![Reverse(p)] = "none"]
  /\ slipped' = slipped \ Both(p)
  /\ UNCHANGED <<blocks, tx, crossed>>

Cancel(p) ==
  /\ row[p] = "pending"
  /\ \A d \in Call : p \notin tx[d].locks
  /\ row' = [row EXCEPT ![p] = "none"]
  /\ slipped' = slipped \ Both(p)
  /\ UNCHANGED <<blocks, tx, crossed>>

-----------------------------------------------------------------------------
(* Ends of friendships *)

\* removeFriend deletes this row and then the other; blockUser both in one
\* statement, which locks them in some order.
Leave(c, p) ==
  /\ tx[c] = Idle
  /\ \/ Lockable(c, p) /\ tx' = [tx EXCEPT ![c] = Begun("remove", "first", p, {p})]
     \/ \E q \in Both(p) : Lockable(c, q) /\ tx' = [tx EXCEPT ![c] = Begun("block", "first", p, {q})]
  /\ UNCHANGED <<row, blocks, slipped, crossed>>

\* Mutant: the other's row stays.
DeletedOwn(p) == [row EXCEPT ![p] = "none"]

Deleted(p) == [q \in Pair |-> IF q \in Both(p) THEN "none" ELSE row[q]]

\* The other row is locked, both are deleted, and it commits.
Delete(c) ==
  LET t == tx[c] IN
  /\ t.op \in {"remove", "block"} /\ t.at = "first"
  /\ \A q \in Both(t.pair) : Lockable(c, q)
  /\ row' = Deleted(t.pair)
  /\ blocks' = IF t.op = "block" THEN blocks \cup {t.pair} ELSE blocks
  /\ slipped' = slipped \ Both(t.pair)
  /\ tx' = [tx EXCEPT ![c] = Idle]
  /\ UNCHANGED crossed

Unblock(p) ==
  /\ p \in blocks
  /\ blocks' = blocks \ {p}
  /\ UNCHANGED <<row, tx, slipped, crossed>>

\* A deadlock is broken, or a statement fails: everything is rolled back.
Rollback(c) ==
  /\ tx[c] # Idle
  /\ tx' = [tx EXCEPT ![c] = Idle]
  /\ UNCHANGED <<row, blocks, slipped, crossed>>

-----------------------------------------------------------------------------
Next ==
  \/ \E c \in Call, p \in Pair : Send(c, p) \/ Accept(c, p) \/ Leave(c, p)
  \/ \E c \in Call : LockOwn(c) \/ LockOther(c) \/ Count(c) \/ InsertRequest(c) \/ InsertFriendship(c)
  \/ \E c \in Call : Delete(c) \/ Rollback(c)
  \/ \E p \in Pair : Decline(p) \/ Cancel(p) \/ Unblock(p)

Spec == Init /\ [][Next]_vars

-----------------------------------------------------------------------------
(* Properties *)

\* Whoever is a friend has a friend: getFriends and areFriends read the row
\* of one direction only, and must answer both users alike.
FriendshipIsMutual == \A p \in Pair : row[p] = "accepted" => row[Reverse(p)] = "accepted"

\* Two requests sent to each other at the same moment do not both stay: no
\* two pending rows that nothing would ever reconcile.
OneRequestPerPair == \A p \in Pair : row[p] = "pending" => row[Reverse(p)] = "none"

\* Nobody has more friends than MAX_FRIENDS, unless two acceptances of one
\* user's were counted before either was written.
CapHolds == ~crossed => \A u \in User : Cardinality(Friend(u)) <= MaxFriends

\* A block leaves neither friendship nor request, and none comes up as long
\* as it stands, unless a request had looked for blocks before.
BlockedAreApart == \A p \in Pair : Blocked(p) /\ p \notin slipped => row[p] = "none"
=============================================================================
