---------------------------- MODULE FriendsProofs ----------------------------
(***************************************************************************)
(* Proofs about friendships, for any number of users and of calls under    *)
(* way: friendship is mutual, two users never wait for each other's        *)
(* answer, and a block keeps them apart.  What they need is what the locks *)
(* are for: the row a transaction has found pending is still pending when  *)
(* it is changed, and the row it has found missing is still missing when   *)
(* it is inserted.  And nobody has more friends than MAX_FRIENDS, unless   *)
(* acceptances have crossed: what an acceptance has counted still holds as *)
(* long as no other has written a friendship of one of the two.            *)
(***************************************************************************)
EXTENDS Friends, FiniteSetTheorems, TLAPS

\* Two calls have the same key only where there is no row.
LocksExclude ==
  \A c, d \in Call : c # d => \A p \in tx[c].locks \cap tx[d].locks : row[p] = "none"

\* What a call under way has found is still so, and is locked.
Found(t) ==
  /\ t.op = "send" /\ t.at # "checked" => t.pair \in t.locks /\ row[t.pair] = "none"
  /\ t.op = "send" /\ t.at \in {"second", "counted"} => Reverse(t.pair) \in t.locks /\ row[Reverse(t.pair)] # "pending"
  /\ t.op = "accept" => Reverse(t.pair) \in t.locks /\ row[Reverse(t.pair)] = "pending"

SlippedBoth == \A p \in slipped : Reverse(p) \in slipped

Rows == FriendshipIsMutual /\ OneRequestPerPair /\ BlockedAreApart /\ SlippedBoth

Locking == LocksExclude /\ \A c \in Call : Found(tx[c])

IInv == TypeOK /\ Rows /\ Locking

-----------------------------------------------------------------------------
\* The two rows of a pair.
LEMMA PairFacts ==
  ASSUME NEW p \in Pair
  PROVE  Reverse(p) \in Pair /\ Reverse(Reverse(p)) = p /\ Reverse(p) # p /\ Both(p) = {p, Reverse(p)} /\ Both(p) \subseteq Pair
BY DEF Pair, Reverse, Both

\* An idle call is none of those that are under way.
LEMMA IdleFacts ==
  /\ Idle.op = "none" /\ Idle.locks = {} /\ Idle \notin Tx
  /\ \A t \in Tx : t # Idle /\ t.op # "none" /\ t.pair \in Pair /\ t.locks \in SUBSET Pair
BY DEF Idle, Tx

\* The call a step begins or carries on.
LEMMA BegunFacts ==
  ASSUME NEW op \in {"send", "accept", "remove", "block"}, NEW at \in {"checked", "first", "second", "counted"},
         NEW p \in Pair, NEW L \in SUBSET Pair
  PROVE  /\ Begun(op, at, p, L) \in Tx
         /\ Begun(op, at, p, L).op = op /\ Begun(op, at, p, L).at = at /\ Begun(op, at, p, L).pair = p
         /\ Begun(op, at, p, L).locks = L
BY DEF Begun, Tx

\* A step of call c that writes nothing: it takes keys nobody else has, or
\* those of rows that are not there.
LEMMA LockStep ==
  ASSUME IInv, NEW c \in Call, row' = row, blocks' = blocks, slipped' = slipped, crossed' = crossed,
         NEW t \in Tx \cup {Idle}, tx' = [tx EXCEPT ![c] = t],
         \A p \in t.locks : p \in tx[c].locks \/ Lockable(c, p),
         Found(t)
  PROVE  IInv'
<1>1. tx \in [Call -> Tx \cup {Idle}]
  BY DEF IInv, TypeOK
<1>2. tx' \in [Call -> Tx \cup {Idle}] /\ tx'[c] = t /\ \A d \in Call : d # c => tx'[d] = tx[d]
  BY <1>1
<1>3. TypeOK'
  BY <1>2 DEF IInv, TypeOK
<1>4. Rows'
  BY DEF IInv, Rows, FriendshipIsMutual, OneRequestPerPair, BlockedAreApart, SlippedBoth, Blocked
<1>5. LocksExclude'
  <2>. SUFFICES ASSUME NEW d \in Call, NEW e \in Call, d # e, NEW p \in tx'[d].locks \cap tx'[e].locks
                PROVE  row[p] = "none"
    BY DEF LocksExclude
  <2>1. \A f \in Call : f # c /\ p \in tx[f].locks /\ p \in t.locks => row[p] = "none"
    BY DEF Lockable, Free, IInv, Locking, LocksExclude
  <2>. QED
    BY <1>2, <2>1 DEF IInv, Locking, LocksExclude
<1>6. \A d \in Call : Found(tx[d])'
  BY <1>2 DEF IInv, Locking, Found
<1>. QED
  BY <1>3, <1>4, <1>5, <1>6 DEF IInv, Locking

\* A step that writes rows that no call has locked afterwards, and carries
\* no call on.
LEMMA WriteStep ==
  ASSUME IInv, row' \in [Pair -> {"none", "pending", "accepted"}],
         tx' \in [Call -> Tx \cup {Idle}],
         \A d \in Call : tx'[d] # Idle =>
           tx'[d].op = tx[d].op /\ tx'[d].at = tx[d].at /\ tx'[d].pair = tx[d].pair /\ tx'[d].locks = tx[d].locks,
         \A d \in Call : \A p \in tx'[d].locks : row'[p] = row[p]
  PROVE  Locking'
<1>1. LocksExclude'
  <2>. SUFFICES ASSUME NEW d \in Call, NEW e \in Call, d # e, NEW p \in tx'[d].locks \cap tx'[e].locks
                PROVE  row'[p] = "none"
    BY DEF LocksExclude
  <2>1. tx'[d] # Idle /\ tx'[e] # Idle
    BY IdleFacts
  <2>2. p \in tx[d].locks \cap tx[e].locks
    BY <2>1
  <2>. QED
    BY <2>2 DEF IInv, Locking, LocksExclude
<1>2. ASSUME NEW d \in Call
      PROVE  Found(tx[d])'
  <2>1. CASE tx'[d] = Idle
    BY <2>1, IdleFacts DEF Found
  <2>2. CASE tx'[d] # Idle
    <3>1. Found(tx[d])
      BY DEF IInv, Locking
    <3>. QED
      BY <2>2, <3>1 DEF Found
  <2>. QED
    BY <2>1, <2>2
<1>. QED
  BY <1>1, <1>2 DEF Locking

-----------------------------------------------------------------------------
\* Calls that begin, look, count and lock.
LEMMA LookSteps ==
  ASSUME IInv, NEW c \in Call,
         \/ \E p \in Pair : Send(c, p) \/ Accept(c, p) \/ Leave(c, p)
         \/ LockOwn(c) \/ LockOther(c) \/ Count(c) \/ Rollback(c)
  PROVE  IInv'
<1>0. /\ tx[c] \in Tx \cup {Idle} /\ Found(tx[c])
      /\ row' = row /\ blocks' = blocks /\ slipped' = slipped /\ crossed' = crossed
  BY DEF IInv, TypeOK, Locking, Send, Accept, Leave, LockOwn, LockOther, Count, Rollback
<1>1. Found(Idle) /\ Idle.locks = {}
  BY IdleFacts DEF Found
<1>2. ASSUME NEW p \in Pair, Send(c, p)
      PROVE  IInv'
  <2>1. tx' = [tx EXCEPT ![c] = Begun("send", "checked", p, {})]
    BY <1>2 DEF Send
  <2>2. Found(Begun("send", "checked", p, {}))
    BY BegunFacts DEF Found
  <2>3. Begun("send", "checked", p, {}) \in Tx /\ Begun("send", "checked", p, {}).locks = {}
    BY BegunFacts
  <2>. QED
    BY <1>0, <2>1, <2>2, <2>3, LockStep
<1>3. ASSUME NEW p \in Pair, Accept(c, p)
      PROVE  IInv'
  <2>1. tx' = [tx EXCEPT ![c] = Begun("accept", "second", p, {Reverse(p)})] /\ row[Reverse(p)] = "pending" /\ Lockable(c, Reverse(p))
    BY <1>3 DEF Accept
  <2>2. {Reverse(p)} \in SUBSET Pair
    BY PairFacts
  <2>3. Found(Begun("accept", "second", p, {Reverse(p)}))
    BY <2>1, <2>2, BegunFacts DEF Found
  <2>4. Begun("accept", "second", p, {Reverse(p)}) \in Tx /\ Begun("accept", "second", p, {Reverse(p)}).locks = {Reverse(p)}
    BY <2>2, BegunFacts
  <2>5. \A q \in Begun("accept", "second", p, {Reverse(p)}).locks : q \in tx[c].locks \/ Lockable(c, q)
    BY <2>1, <2>4
  <2>. QED
    BY <1>0, <2>1, <2>3, <2>4, <2>5, LockStep
<1>4. ASSUME NEW p \in Pair, Leave(c, p)
      PROVE  IInv'
  <2>1. PICK op \in {"remove", "block"}, q \in Both(p) : tx' = [tx EXCEPT ![c] = Begun(op, "first", p, {q})] /\ Lockable(c, q)
    BY <1>4 DEF Leave, Both
  <2>2. {q} \in SUBSET Pair
    BY <2>1, PairFacts
  <2>3. Found(Begun(op, "first", p, {q}))
    BY <2>2, BegunFacts DEF Found
  <2>4. Begun(op, "first", p, {q}) \in Tx /\ Begun(op, "first", p, {q}).locks = {q}
    BY <2>2, BegunFacts
  <2>. QED
    BY <1>0, <2>1, <2>3, <2>4, LockStep
<1>5. CASE LockOwn(c)
  <2>. DEFINE p == tx[c].pair
  <2>1. tx[c] \in Tx /\ p \in Pair /\ Lockable(c, p)
    BY <1>0, <1>5, IdleFacts DEF LockOwn
  <2>2. CASE row[p] = "none"
    <3>1. tx' = [tx EXCEPT ![c] = Begun("send", "first", p, {p})]
      BY <1>5, <2>2 DEF LockOwn
    <3>2. Found(Begun("send", "first", p, {p}))
      BY <2>1, <2>2, BegunFacts DEF Found
    <3>3. Begun("send", "first", p, {p}) \in Tx /\ Begun("send", "first", p, {p}).locks = {p}
      BY <2>1, BegunFacts
    <3>. QED
      BY <1>0, <2>1, <3>1, <3>2, <3>3, LockStep
  <2>3. CASE row[p] # "none"
    <3>1. tx' = [tx EXCEPT ![c] = Idle]
      BY <1>5, <2>3 DEF LockOwn
    <3>. QED
      BY <1>0, <1>1, <3>1, LockStep
  <2>. QED
    BY <2>2, <2>3
<1>6. CASE LockOther(c)
  <2>. DEFINE p == tx[c].pair
              op == IF row[Reverse(p)] = "pending" THEN "accept" ELSE "send"
  <2>1. /\ tx[c] \in Tx /\ p \in Pair /\ Lockable(c, Reverse(p)) /\ tx[c].op = "send" /\ tx[c].at = "first"
        /\ tx' = [tx EXCEPT ![c] = Begun(op, "second", p, Both(p))]
    BY <1>0, <1>6, IdleFacts DEF LockOther
  <2>2. p \in tx[c].locks /\ row[p] = "none" /\ Both(p) = {p, Reverse(p)} /\ Both(p) \in SUBSET Pair
    BY <1>0, <2>1, PairFacts DEF Found
  <2>3. Found(Begun(op, "second", p, Both(p)))
    BY <2>1, <2>2, BegunFacts DEF Found
  <2>4. Begun(op, "second", p, Both(p)) \in Tx /\ Begun(op, "second", p, Both(p)).locks = Both(p)
    BY <2>2, <2>1, BegunFacts
  <2>5. \A q \in Begun(op, "second", p, Both(p)).locks : q \in tx[c].locks \/ Lockable(c, q)
    BY <2>1, <2>2, <2>4
  <2>. QED
    BY <1>0, <2>1, <2>3, <2>4, <2>5, LockStep
<1>7. CASE Count(c)
  <2>1. tx[c] \in Tx /\ tx[c].at = "second" /\ tx[c].op \in {"send", "accept"} /\ tx[c].pair \in Pair /\ tx[c].locks \in SUBSET Pair
    BY <1>0, <1>7, IdleFacts DEF Count
  <2>2. CASE tx' = [tx EXCEPT ![c] = Begun(tx[c].op, "counted", tx[c].pair, tx[c].locks)]
    <3>1. Found(Begun(tx[c].op, "counted", tx[c].pair, tx[c].locks))
      BY <1>0, <2>1, BegunFacts DEF Found
    <3>2. /\ Begun(tx[c].op, "counted", tx[c].pair, tx[c].locks) \in Tx
          /\ Begun(tx[c].op, "counted", tx[c].pair, tx[c].locks).locks = tx[c].locks
      BY <2>1, BegunFacts
    <3>. QED
      BY <1>0, <2>2, <3>1, <3>2, LockStep
  <2>3. CASE tx' = [tx EXCEPT ![c] = Idle]
    BY <1>0, <1>1, <2>3, LockStep
  <2>. QED
    BY <1>7, <2>2, <2>3 DEF Count
<1>8. CASE Rollback(c)
  <2>1. tx' = [tx EXCEPT ![c] = Idle]
    BY <1>8 DEF Rollback
  <2>. QED
    BY <1>0, <1>1, <2>1, LockStep
<1>. QED
  BY <1>2, <1>3, <1>4, <1>5, <1>6, <1>7, <1>8
-----------------------------------------------------------------------------
\* A request is written.
LEMMA RequestStep ==
  ASSUME IInv, NEW c \in Call, InsertRequest(c)
  PROVE  IInv'
<1>. DEFINE p == tx[c].pair
<1>1. /\ tx[c] \in Tx /\ p \in Pair /\ tx[c].op = "send" /\ tx[c].at = "counted" /\ Free(c, p)
      /\ row' = [row EXCEPT ![p] = "pending"] /\ tx' = [tx EXCEPT ![c] = Idle]
      /\ blocks' = blocks /\ crossed' = crossed
      /\ slipped' = IF Blocked(p) THEN slipped \cup Both(p) ELSE slipped
  BY IdleFacts DEF IInv, TypeOK, InsertRequest
<1>2. /\ row \in [Pair -> {"none", "pending", "accepted"}] /\ tx \in [Call -> Tx \cup {Idle}]
      /\ slipped \in SUBSET Pair
  BY DEF IInv, TypeOK
<1>3. row[p] = "none" /\ row[Reverse(p)] # "pending"
  BY <1>1 DEF IInv, Locking, Found
<1>4. /\ Reverse(p) \in Pair /\ Reverse(p) # p /\ Reverse(Reverse(p)) = p /\ Both(p) = {p, Reverse(p)}
      /\ \A q \in Pair : Reverse(q) \in Pair /\ Reverse(Reverse(q)) = q
  BY <1>1, PairFacts
<1>5. row[Reverse(p)] = "none"
  BY <1>2, <1>3, <1>4 DEF IInv, Rows, FriendshipIsMutual
<1>6. TypeOK'
  BY <1>1, <1>2, <1>4 DEF IInv, TypeOK
<1>7. row'[p] = "pending" /\ \A q \in Pair : q # p => row'[q] = row[q]
  BY <1>1, <1>2
<1>8. Locking'
  <2>1. tx'[c] = Idle /\ \A d \in Call : d # c => tx'[d] = tx[d] /\ p \notin tx[d].locks /\ tx[d].locks \in SUBSET Pair
    BY <1>1, <1>2, IdleFacts DEF Free
  <2>2. \A d \in Call : \A q \in tx'[d].locks : row'[q] = row[q]
    BY <1>7, <2>1, IdleFacts
  <2>. QED
    BY <1>6, <2>1, <2>2, WriteStep DEF TypeOK
<1>9. FriendshipIsMutual' /\ OneRequestPerPair'
  BY <1>3, <1>4, <1>5, <1>7 DEF IInv, Rows, FriendshipIsMutual, OneRequestPerPair
<1>10. SlippedBoth'
  BY <1>1, <1>4 DEF IInv, Rows, SlippedBoth
<1>11. BlockedAreApart'
  BY <1>1, <1>4, <1>7 DEF IInv, Rows, BlockedAreApart, Blocked
<1>. QED
  BY <1>6, <1>8, <1>9, <1>10, <1>11 DEF IInv, Rows

\* A friendship is written.
LEMMA FriendshipStep ==
  ASSUME IInv, NEW c \in Call, InsertFriendship(c)
  PROVE  IInv'
<1>. DEFINE p == tx[c].pair
<1>1. /\ tx[c] \in Tx /\ p \in Pair /\ tx[c].op = "accept" /\ Free(c, p)
      /\ row' = [q \in Pair |-> IF q \in Both(p) THEN "accepted" ELSE row[q]]
      /\ tx' = Outdated(c) /\ crossed' = (crossed \/ tx[c].stale)
      /\ blocks' = blocks /\ slipped' = slipped
  BY IdleFacts DEF IInv, TypeOK, InsertFriendship
<1>2. /\ row \in [Pair -> {"none", "pending", "accepted"}] /\ tx \in [Call -> Tx \cup {Idle}]
      /\ crossed \in BOOLEAN
  BY DEF IInv, TypeOK
<1>3. Reverse(p) \in tx[c].locks /\ row[Reverse(p)] = "pending"
  BY <1>1 DEF IInv, Locking, Found
<1>4. /\ Reverse(p) \in Pair /\ Both(p) = {p, Reverse(p)} /\ Reverse(Reverse(p)) = p
      /\ \A q \in Pair : Reverse(q) \in Pair /\ Reverse(Reverse(q)) = q
  BY <1>1, PairFacts
<1>5. ASSUME NEW d \in Call, tx'[d] # Idle
      PROVE  /\ d # c /\ tx'[d] \in Tx /\ tx[d] \in Tx
             /\ tx'[d].op = tx[d].op /\ tx'[d].at = tx[d].at /\ tx'[d].pair = tx[d].pair /\ tx'[d].locks = tx[d].locks
  <2>1. d # c /\ tx'[d] \in {tx[d], [tx[d] EXCEPT !.stale = TRUE]} /\ (tx'[d] # tx[d] => tx[d].op = "accept")
    BY <1>1, <1>5 DEF Outdated
  <2>2. tx[d] \in Tx
    BY <1>2, <1>5, <2>1, IdleFacts
  <2>. QED
    BY <2>1, <2>2 DEF Tx
<1>6. TypeOK'
  <2>1. tx' \in [Call -> Tx \cup {Idle}]
    <3>1. tx' = [d \in Call |-> tx'[d]]
      BY <1>1 DEF Outdated
    <3>. QED
      BY <3>1, <1>5
  <2>2. crossed' \in BOOLEAN
    BY <1>1, <1>2 DEF Tx
  <2>3. row' \in [Pair -> {"none", "pending", "accepted"}]
    BY <1>1, <1>2
  <2>. QED
    BY <1>1, <2>1, <2>2, <2>3 DEF IInv, TypeOK
<1>7. row'[p] = "accepted" /\ row'[Reverse(p)] = "accepted" /\ \A q \in Pair : q # p /\ q # Reverse(p) => row'[q] = row[q]
  BY <1>1, <1>4
<1>8. Locking'
  <2>1. ASSUME NEW d \in Call, NEW q \in tx'[d].locks
        PROVE  row'[q] = row[q]
    <3>1. d # c /\ q \in tx[d].locks /\ q \in Pair
      BY <1>5, <2>1, IdleFacts
    <3>2. q # p
      BY <1>1, <3>1 DEF Free
    <3>3. q # Reverse(p)
      BY <1>3, <3>1 DEF IInv, Locking, LocksExclude
    <3>. QED
      BY <1>7, <3>1, <3>2, <3>3
  <2>. QED
    BY <1>5, <1>6, <2>1, WriteStep DEF TypeOK
<1>9. FriendshipIsMutual' /\ OneRequestPerPair'
  BY <1>4, <1>7 DEF IInv, Rows, FriendshipIsMutual, OneRequestPerPair
<1>10. BlockedAreApart' /\ SlippedBoth'
  <2>1. SlippedBoth'
    BY <1>1 DEF IInv, Rows, SlippedBoth
  <2>2. ~Blocked(Reverse(p)) \/ Reverse(p) \in slipped
    BY <1>3, <1>4 DEF IInv, Rows, BlockedAreApart
  <2>3. (~Blocked(p) /\ ~Blocked(Reverse(p))) \/ (p \in slipped /\ Reverse(p) \in slipped)
    BY <1>4, <2>2 DEF IInv, Rows, SlippedBoth, Blocked
  <2>4. \A q \in Pair : Blocked(q)' = Blocked(q)
    BY <1>1 DEF Blocked
  <2>. QED
    BY <1>1, <1>7, <2>1, <2>3, <2>4 DEF IInv, Rows, BlockedAreApart
<1>. QED
  BY <1>6, <1>8, <1>9, <1>10 DEF IInv, Rows

-----------------------------------------------------------------------------
\* A request is declined or cancelled: the row k goes.
LEMMA WithdrawStep ==
  ASSUME IInv, NEW k \in Pair, row[k] = "pending", \A d \in Call : k \notin tx[d].locks,
         row' = [row EXCEPT ![k] = "none"], slipped' = slipped \ {k, Reverse(k)},
         blocks' = blocks, tx' = tx, crossed' = crossed
  PROVE  IInv'
<1>1. row \in [Pair -> {"none", "pending", "accepted"}] /\ tx \in [Call -> Tx \cup {Idle}]
  BY DEF IInv, TypeOK
<1>2. /\ Reverse(k) \in Pair /\ Reverse(Reverse(k)) = k
      /\ \A q \in Pair : Reverse(q) \in Pair /\ Reverse(Reverse(q)) = q
  BY PairFacts
<1>3. TypeOK'
  BY <1>1 DEF IInv, TypeOK
<1>4. row'[k] = "none" /\ \A q \in Pair : q # k => row'[q] = row[q]
  BY <1>1
<1>5. row[Reverse(k)] = "none"
  BY DEF IInv, Rows, OneRequestPerPair
<1>6. Locking'
  <2>1. \A d \in Call : tx[d].locks \in SUBSET Pair
    BY <1>1, IdleFacts
  <2>2. \A d \in Call : \A q \in tx'[d].locks : row'[q] = row[q]
    BY <1>4, <2>1
  <2>. QED
    BY <1>3, <2>2, WriteStep DEF TypeOK
<1>7. FriendshipIsMutual' /\ OneRequestPerPair'
  BY <1>2, <1>4, <1>5 DEF IInv, Rows, FriendshipIsMutual, OneRequestPerPair
<1>8. SlippedBoth'
  BY <1>2 DEF IInv, TypeOK, Rows, SlippedBoth
<1>9. BlockedAreApart'
  <2>1. \A q \in Pair : Blocked(q)' = Blocked(q)
    BY DEF Blocked
  <2>. QED
    BY <1>2, <1>4, <1>5, <2>1 DEF IInv, Rows, BlockedAreApart
<1>. QED
  BY <1>3, <1>6, <1>7, <1>8, <1>9 DEF IInv, Rows

\* A friendship ends, or whatever there is of one when a block is made.
LEMMA DeleteStep ==
  ASSUME IInv, NEW c \in Call, Delete(c)
  PROVE  IInv'
<1>. DEFINE p == tx[c].pair
<1>1. /\ tx[c] \in Tx /\ p \in Pair
      /\ \A q \in Both(p) : Lockable(c, q)
      /\ row' = [q \in Pair |-> IF q \in Both(p) THEN "none" ELSE row[q]]
      /\ blocks' \in {blocks, blocks \cup {p}} /\ slipped' = slipped \ Both(p)
      /\ tx' = [tx EXCEPT ![c] = Idle] /\ crossed' = crossed
  BY IdleFacts DEF IInv, TypeOK, Delete, Deleted
<1>2. row \in [Pair -> {"none", "pending", "accepted"}] /\ tx \in [Call -> Tx \cup {Idle}]
  BY DEF IInv, TypeOK
<1>3. /\ Reverse(p) \in Pair /\ Both(p) = {p, Reverse(p)} /\ Reverse(Reverse(p)) = p
      /\ \A q \in Pair : Reverse(q) \in Pair /\ Reverse(Reverse(q)) = q
  BY <1>1, PairFacts
<1>4. TypeOK'
  BY <1>1, <1>2 DEF IInv, TypeOK
<1>5. row'[p] = "none" /\ row'[Reverse(p)] = "none" /\ \A q \in Pair : q # p /\ q # Reverse(p) => row'[q] = row[q]
  BY <1>1, <1>3
<1>6. Locking'
  <2>1. tx'[c] = Idle /\ \A d \in Call : d # c => tx'[d] = tx[d] /\ tx[d].locks \in SUBSET Pair
    BY <1>1, <1>2, IdleFacts
  <2>2. ASSUME NEW d \in Call, NEW q \in tx'[d].locks
        PROVE  row'[q] = row[q]
    <3>1. d # c /\ q \in tx[d].locks /\ q \in Pair
      BY <2>1, <2>2, IdleFacts
    <3>2. CASE q \in Both(p)
      BY <1>1, <3>1, <3>2 DEF Lockable, Free
    <3>3. CASE q \notin Both(p)
      BY <1>3, <1>5, <3>1, <3>3
    <3>. QED
      BY <3>2, <3>3
  <2>. QED
    BY <1>4, <2>1, <2>2, WriteStep DEF TypeOK
<1>7. FriendshipIsMutual' /\ OneRequestPerPair'
  BY <1>3, <1>5 DEF IInv, Rows, FriendshipIsMutual, OneRequestPerPair
<1>8. SlippedBoth'
  BY <1>1, <1>3 DEF IInv, TypeOK, Rows, SlippedBoth
<1>9. BlockedAreApart'
  BY <1>1, <1>3, <1>5 DEF IInv, Rows, BlockedAreApart, Blocked
<1>. QED
  BY <1>4, <1>6, <1>7, <1>8, <1>9 DEF IInv, Rows

\* A block is lifted.
LEMMA UnblockStep ==
  ASSUME IInv, NEW p \in Pair, Unblock(p)
  PROVE  IInv'
<1>1. blocks' = blocks \ {p} /\ row' = row /\ tx' = tx /\ slipped' = slipped /\ crossed' = crossed
  BY DEF Unblock
<1>2. TypeOK' /\ Locking'
  BY <1>1 DEF IInv, TypeOK, Locking, LocksExclude, Found
<1>3. Rows'
  BY <1>1 DEF IInv, Rows, FriendshipIsMutual, OneRequestPerPair, BlockedAreApart, SlippedBoth, Blocked
<1>. QED
  BY <1>2, <1>3 DEF IInv

-----------------------------------------------------------------------------
(* Init => IInv, IInv /\ [Next]_vars => IInv', IInv => the properties *)

\* Nothing is friends, requested, blocked or under way at the start.
LEMMA InvariantInit == Init => IInv
BY IdleFacts DEF Init, IInv, TypeOK, Rows, FriendshipIsMutual, OneRequestPerPair, BlockedAreApart, SlippedBoth,
   Locking, LocksExclude, Found

\* No step of any call breaks it.
LEMMA InvariantNext == IInv /\ [Next]_vars => IInv'
<1>. SUFFICES ASSUME IInv, [Next]_vars
              PROVE  IInv'
  OBVIOUS
<1>1. ASSUME NEW c \in Call, NEW p \in Pair, Send(c, p) \/ Accept(c, p) \/ Leave(c, p)
      PROVE  IInv'
  BY <1>1, LookSteps
<1>2. ASSUME NEW c \in Call, LockOwn(c) \/ LockOther(c) \/ Count(c) \/ Rollback(c)
      PROVE  IInv'
  BY <1>2, LookSteps
<1>3. ASSUME NEW c \in Call, InsertRequest(c) \/ InsertFriendship(c) \/ Delete(c)
      PROVE  IInv'
  BY <1>3, RequestStep, FriendshipStep, DeleteStep
<1>4. ASSUME NEW p \in Pair, Decline(p)
      PROVE  IInv'
  <2>1. Reverse(p) \in Pair /\ Reverse(Reverse(p)) = p /\ Both(p) = {Reverse(p), Reverse(Reverse(p))}
    BY PairFacts
  <2>. QED
    BY <1>4, <2>1, WithdrawStep DEF Decline
<1>5. ASSUME NEW p \in Pair, Cancel(p)
      PROVE  IInv'
  BY <1>5, PairFacts, WithdrawStep DEF Cancel
<1>6. ASSUME NEW p \in Pair, Unblock(p)
      PROVE  IInv'
  BY <1>6, UnblockStep
<1>7. CASE UNCHANGED vars
  BY <1>7 DEF vars, IInv, TypeOK, Rows, FriendshipIsMutual, OneRequestPerPair, BlockedAreApart, SlippedBoth, Blocked,
     Locking, LocksExclude, Found
<1>. QED
  BY <1>1, <1>2, <1>3, <1>4, <1>5, <1>6, <1>7 DEF Next

\* The inductive invariant: rows, blocks and locks agree at every moment.
THEOREM InvariantHolds == Spec => []IInv
BY InvariantInit, InvariantNext, PTL DEF Spec

\* Friendship is mutual at every moment, for any number of users and calls.
THEOREM FriendshipAlwaysMutual == Spec => []FriendshipIsMutual
<1>1. IInv => FriendshipIsMutual
  BY DEF IInv, Rows
<1>. QED
  BY <1>1, InvariantHolds, PTL

\* Two users are never both waiting for the other's answer.
THEOREM OneRequestAlways == Spec => []OneRequestPerPair
<1>1. IInv => OneRequestPerPair
  BY DEF IInv, Rows
<1>. QED
  BY <1>1, InvariantHolds, PTL

\* A block keeps two users apart, but for a request that was already on its
\* way.
THEOREM BlocksAlwaysApart == Spec => []BlockedAreApart
<1>1. IInv => BlockedAreApart
  BY DEF IInv, Rows
<1>. QED
  BY <1>1, InvariantHolds, PTL

-----------------------------------------------------------------------------
(* The cap on friends *)

\* An acceptance that has counted, and that nothing has outdated since: there
\* is still room on both sides.
Counted(t) ==
  t.op = "accept" /\ t.at = "counted" /\ ~t.stale =>
    Cardinality(Friend(t.pair[1])) < MaxFriends /\ Cardinality(Friend(t.pair[2])) < MaxFriends

CapInv == CapHolds /\ \A c \in Call : Counted(tx[c])

\* A list of friends can be counted.
LEMMA FriendsCount ==
  ASSUME NEW u \in User
  PROVE  IsFiniteSet(Friend(u)) /\ Cardinality(Friend(u)) \in Nat
<1>1. Friend(u) \in SUBSET User
  BY DEF Friend
<1>. QED
  BY <1>1, FriendsAssumption, FS_Subset, FS_CardinalityType

\* Who a call is about.
LEMMA PairUsers ==
  ASSUME NEW p \in Pair
  PROVE  p[1] \in User /\ p[2] \in User /\ p[1] # p[2] /\ p = <<p[1], p[2]>> /\ Reverse(p) = <<p[2], p[1]>>
BY DEF Pair, Reverse

\* Nobody's list grows when no row becomes accepted.
LEMMA NoMoreFriends ==
  ASSUME \A p \in Pair : row'[p] = "accepted" => row[p] = "accepted", NEW u \in User
  PROVE  Cardinality(Friend(u))' \in Nat /\ Cardinality(Friend(u))' <= Cardinality(Friend(u)) /\ Cardinality(Friend(u)) \in Nat
<1>1. Friend(u)' \in SUBSET Friend(u)
  BY DEF Friend, Pair
<1>2. IsFiniteSet(Friend(u)) /\ Cardinality(Friend(u)) \in Nat
  BY FriendsCount
<1>3. IsFiniteSet(Friend(u)') /\ Cardinality(Friend(u)') <= Cardinality(Friend(u))
  BY <1>1, <1>2, FS_Subset
<1>4. Cardinality(Friend(u)') \in Nat
  BY <1>3, FS_CardinalityType
<1>. QED
  BY <1>2, <1>3, <1>4

\* A step that makes no friends keeps the cap, if what it leaves under way
\* has room.
LEMMA CapKept ==
  ASSUME IInv, IInv', CapInv, crossed' = crossed,
         \A p \in Pair : row'[p] = "accepted" => row[p] = "accepted",
         \A d \in Call : tx'[d] = tx[d] \/ Counted(tx'[d])
  PROVE  CapInv'
<1>1. \A u \in User : Cardinality(Friend(u))' \in Nat /\ Cardinality(Friend(u))' <= Cardinality(Friend(u)) /\ Cardinality(Friend(u)) \in Nat
  BY NoMoreFriends
<1>2. CapHolds'
  BY <1>1, FriendsAssumption DEF CapInv, CapHolds
<1>3. ASSUME NEW d \in Call
      PROVE  Counted(tx[d])'
  <2>1. Counted(tx'[d])
    BY DEF CapInv
  <2>2. tx'[d] = Idle \/ (tx'[d] \in Tx /\ tx'[d].pair \in Pair)
    BY IdleFacts DEF IInv, TypeOK
  <2>3. CASE tx'[d] = Idle
    BY <2>3, IdleFacts DEF Counted
  <2>4. CASE tx'[d] \in Tx /\ tx'[d].pair \in Pair
    <3>1. tx'[d].pair[1] \in User /\ tx'[d].pair[2] \in User
      BY <2>4, PairUsers
    <3>2. \A u \in User : Cardinality(Friend(u)) < MaxFriends => Cardinality(Friend(u))' < MaxFriends
      BY <1>1, FriendsAssumption
    <3>. QED
      BY <2>1, <3>1, <3>2 DEF Counted
  <2>. QED
    BY <2>2, <2>3, <2>4
<1>. QED
  BY <1>2, <1>3 DEF CapInv

\* A friendship adds one friend to each of the two, and nobody to others.
LEMMA OneMoreFriend ==
  ASSUME NEW p \in Pair, row' = [q \in Pair |-> IF q \in Both(p) THEN "accepted" ELSE row[q]], NEW u \in User
  PROVE  /\ Cardinality(Friend(u)) \in Nat /\ Cardinality(Friend(u))' \in Nat
         /\ u \notin {p[1], p[2]} => Cardinality(Friend(u))' = Cardinality(Friend(u))
         /\ u \in {p[1], p[2]} => Cardinality(Friend(u))' <= Cardinality(Friend(u)) + 1
<1>0. IsFiniteSet(Friend(u)) /\ Cardinality(Friend(u)) \in Nat
  BY FriendsCount
<1>1. p[1] \in User /\ p[2] \in User /\ p[1] # p[2] /\ Both(p) = {<<p[1], p[2]>>, <<p[2], p[1]>>}
  BY PairUsers DEF Both
<1>2. \A v \in User : v # u => <<u, v>> \in Pair
  BY DEF Pair
<1>3. \A v \in User : v # u => (row'[<<u, v>>] = "accepted" <=> <<u, v>> \in Both(p) \/ row[<<u, v>>] = "accepted")
  BY <1>2
<1>4. Friend(u)' = {v \in User : v # u /\ row'[<<u, v>>] = "accepted"} /\ Friend(u) = {v \in User : v # u /\ row[<<u, v>>] = "accepted"}
  BY DEF Friend
<1>5. CASE u \notin {p[1], p[2]}
  <2>1. \A v \in User : <<u, v>> \notin Both(p)
    BY <1>1, <1>5
  <2>2. Friend(u)' = Friend(u)
    BY <1>3, <1>4, <2>1
  <2>. QED
    BY <1>0, <1>5, <2>2
<1>6. ASSUME NEW w \in User, \A v \in User : <<u, v>> \in Both(p) => v = w
      PROVE  Cardinality(Friend(u))' \in Nat /\ Cardinality(Friend(u))' <= Cardinality(Friend(u)) + 1
  <2>1. Friend(u)' \in SUBSET (Friend(u) \cup {w})
    BY <1>3, <1>4, <1>6
  <2>2. IsFiniteSet(Friend(u) \cup {w}) /\ Cardinality(Friend(u) \cup {w}) <= Cardinality(Friend(u)) + 1 /\ Cardinality(Friend(u) \cup {w}) \in Nat
    <3>1. /\ IsFiniteSet(Friend(u) \cup {w})
          /\ Cardinality(Friend(u) \cup {w}) = IF w \in Friend(u) THEN Cardinality(Friend(u)) ELSE Cardinality(Friend(u)) + 1
      BY <1>0, FS_AddElement
    <3>. QED
      BY <1>0, <3>1
  <2>3. IsFiniteSet(Friend(u)') /\ Cardinality(Friend(u)') <= Cardinality(Friend(u) \cup {w})
    BY <2>1, <2>2, FS_Subset
  <2>4. Cardinality(Friend(u)') \in Nat
    BY <2>3, FS_CardinalityType
  <2>. QED
    BY <1>0, <2>2, <2>3, <2>4
<1>7. CASE u = p[1]
  <2>1. \A v \in User : <<u, v>> \in Both(p) => v = p[2]
    BY <1>1, <1>7
  <2>. QED
    BY <1>0, <1>1, <1>6, <1>7, <2>1
<1>8. CASE u = p[2]
  <2>1. \A v \in User : <<u, v>> \in Both(p) => v = p[1]
    BY <1>1, <1>8
  <2>. QED
    BY <1>0, <1>1, <1>6, <1>8, <2>1
<1>. QED
  BY <1>5, <1>7, <1>8

\* A friendship is written: both lists had room when nobody had got in
\* between, and whoever else had counted one of them is outdated.
LEMMA CapFriendship ==
  ASSUME IInv, IInv', CapInv, NEW c \in Call, InsertFriendship(c)
  PROVE  CapInv'
<1>. DEFINE p == tx[c].pair
<1>1. /\ tx[c] \in Tx /\ p \in Pair /\ tx[c].op = "accept" /\ tx[c].at = "counted"
      /\ row' = [q \in Pair |-> IF q \in Both(p) THEN "accepted" ELSE row[q]]
      /\ tx' = Outdated(c) /\ crossed' = (crossed \/ tx[c].stale)
  BY IdleFacts DEF IInv, TypeOK, InsertFriendship
<1>2. p[1] \in User /\ p[2] \in User
  BY <1>1, PairUsers
<1>3. \A u \in User : /\ Cardinality(Friend(u)) \in Nat /\ Cardinality(Friend(u))' \in Nat
                      /\ u \notin {p[1], p[2]} => Cardinality(Friend(u))' = Cardinality(Friend(u))
                      /\ u \in {p[1], p[2]} => Cardinality(Friend(u))' <= Cardinality(Friend(u)) + 1
  <2>. HIDE DEF p
  <2>. SUFFICES ASSUME NEW u \in User
                PROVE  /\ Cardinality(Friend(u)) \in Nat /\ Cardinality(Friend(u))' \in Nat
                       /\ u \notin {p[1], p[2]} => Cardinality(Friend(u))' = Cardinality(Friend(u))
                       /\ u \in {p[1], p[2]} => Cardinality(Friend(u))' <= Cardinality(Friend(u)) + 1
    OBVIOUS
  <2>. QED
    BY <1>1, OneMoreFriend
<1>4. CapHolds'
  <2>. SUFFICES ASSUME ~crossed', NEW u \in User
                PROVE  Cardinality(Friend(u))' <= MaxFriends
    BY DEF CapHolds
  <2>1. Cardinality(Friend(u)) <= MaxFriends /\ ~tx[c].stale
    BY <1>1 DEF CapInv, CapHolds
  <2>2. Counted(tx[c])
    BY DEF CapInv
  <2>3. u \in {p[1], p[2]} => Cardinality(Friend(u)) < MaxFriends
    BY <1>1, <2>1, <2>2 DEF Counted
  <2>4. /\ Cardinality(Friend(u)) \in Nat /\ Cardinality(Friend(u))' \in Nat
        /\ u \notin {p[1], p[2]} => Cardinality(Friend(u))' = Cardinality(Friend(u))
        /\ u \in {p[1], p[2]} => Cardinality(Friend(u))' <= Cardinality(Friend(u)) + 1
    BY <1>3
  <2>. HIDE DEF p
  <2>. QED
    BY <2>1, <2>3, <2>4, FriendsAssumption
<1>5. ASSUME NEW d \in Call
      PROVE  Counted(tx[d])'
  <2>1. CASE tx'[d] = Idle
    BY <2>1, IdleFacts DEF Counted
  <2>2. CASE d # c /\ tx'[d] = tx[d] /\ tx[d] # Idle
    <3>1. tx[d] \in Tx /\ tx[d].pair \in Pair
      BY <2>2, IdleFacts DEF IInv, TypeOK
    <3>. PICK q \in Pair : q = tx[d].pair
      BY <3>1
    <3>2. SUFFICES ASSUME tx[d].op = "accept", tx[d].at = "counted", ~tx[d].stale
                   PROVE  Cardinality(Friend(q[1]))' < MaxFriends /\ Cardinality(Friend(q[2]))' < MaxFriends
      BY <2>2 DEF Counted
    <3>3. ~Shares(q, p)
      <4>1. Shares(q, p) => tx'[d] = [tx[d] EXCEPT !.stale = TRUE]
        BY <1>1, <2>2, <3>2 DEF Outdated
      <4>2. [tx[d] EXCEPT !.stale = TRUE] # tx[d]
        BY <1>1, <2>2, <3>2, IdleFacts DEF IInv, TypeOK, Tx
      <4>. QED
        BY <2>2, <4>1, <4>2
    <3>4. q[1] \notin {p[1], p[2]} /\ q[2] \notin {p[1], p[2]}
      BY <3>3 DEF Shares
    <3>5. Cardinality(Friend(q[1])) < MaxFriends /\ Cardinality(Friend(q[2])) < MaxFriends
      BY <3>2 DEF CapInv, Counted
    <3>6. q[1] \in User /\ q[2] \in User
      BY PairUsers
    <3>. HIDE DEF p
    <3>. QED
      BY <1>3, <3>4, <3>5, <3>6
  <2>3. CASE tx'[d].stale
    BY <2>3 DEF Counted
  <2>4. tx'[d] = Idle \/ (d # c /\ tx'[d] = tx[d] /\ tx[d] # Idle) \/ tx'[d].stale
    <3>1. d = c => tx'[d] = Idle
      BY <1>1 DEF Outdated
    <3>2. d # c => tx'[d] = tx[d] \/ (tx[d].op = "accept" /\ tx'[d] = [tx[d] EXCEPT !.stale = TRUE])
      BY <1>1 DEF Outdated
    <3>3. tx[d].op = "accept" => tx[d] \in Tx
      BY IdleFacts DEF IInv, TypeOK
    <3>4. tx[d] \in Tx => [tx[d] EXCEPT !.stale = TRUE].stale
      BY DEF Tx
    <3>. QED
      BY <3>1, <3>2, <3>3, <3>4
  <2>. QED
    BY <2>1, <2>2, <2>3, <2>4
<1>. QED
  BY <1>4, <1>5 DEF CapInv

\* What is idle, and what has just begun, has counted nothing yet.
LEMMA NothingCounted ==
  /\ Counted(Idle)
  /\ \A op, at, p, L : op # "accept" \/ at # "counted" => Counted(Begun(op, at, p, L))
BY IdleFacts DEF Counted, Begun

\* Calls that begin, look, count and lock: only Count goes on to write an
\* acceptance, and it has just found room on both sides.
LEMMA CapLook ==
  ASSUME IInv, IInv', CapInv, NEW c \in Call,
         \/ \E p \in Pair : Send(c, p) \/ Accept(c, p) \/ Leave(c, p)
         \/ LockOwn(c) \/ LockOther(c) \/ Count(c) \/ Rollback(c)
  PROVE  CapInv'
<1>1. row' = row /\ crossed' = crossed
  BY DEF Send, Accept, Leave, LockOwn, LockOther, Count, Rollback
<1>2. PICK t : tx' = [tx EXCEPT ![c] = t] /\ Counted(t)
  <2>1. CASE \E p \in Pair : Send(c, p) \/ Accept(c, p) \/ Leave(c, p)
    BY <2>1, NothingCounted DEF Send, Accept, Leave
  <2>2. CASE LockOwn(c) \/ LockOther(c) \/ Rollback(c)
    BY <2>2, NothingCounted DEF LockOwn, LockOther, Rollback
  <2>3. CASE Count(c)
    <3>1. HasRoom(tx[c].op, tx[c].pair) => Counted(Begun(tx[c].op, "counted", tx[c].pair, tx[c].locks))
      BY DEF HasRoom, Counted, Begun
    <3>. QED
      BY <2>3, <3>1, NothingCounted DEF Count
  <2>. QED
    BY <2>1, <2>2, <2>3
<1>3. \A d \in Call : tx'[d] = tx[d] \/ Counted(tx'[d])
  BY <1>2 DEF IInv, TypeOK
<1>. QED
  BY <1>1, <1>3, CapKept

\* Steps that write a request, or take rows away.
LEMMA CapWrite ==
  ASSUME IInv, IInv', CapInv,
         (\E c \in Call : InsertRequest(c) \/ Delete(c)) \/ (\E p \in Pair : Decline(p) \/ Cancel(p) \/ Unblock(p))
  PROVE  CapInv'
<1>1. row \in [Pair -> {"none", "pending", "accepted"}] /\ tx \in [Call -> Tx \cup {Idle}]
  BY DEF IInv, TypeOK
<1>2. crossed' = crossed
  BY DEF InsertRequest, Delete, Decline, Cancel, Unblock
<1>3. \A p \in Pair : row'[p] = "accepted" => row[p] = "accepted"
  BY <1>1 DEF InsertRequest, Delete, Deleted, Decline, Cancel, Unblock
<1>4. \A d \in Call : tx'[d] = tx[d] \/ Counted(tx'[d])
  BY <1>1, NothingCounted DEF InsertRequest, Delete, Decline, Cancel, Unblock
<1>. QED
  BY <1>2, <1>3, <1>4, CapKept

\* Nobody has a friend at the start.
LEMMA CapInit == Init => CapInv
<1>. SUFFICES ASSUME Init
              PROVE  CapInv
  OBVIOUS
<1>1. \A u \in User : Friend(u) = {}
  BY DEF Init, Friend, Pair
<1>2. CapHolds
  BY <1>1, FS_EmptySet, FriendsAssumption DEF CapHolds
<1>. QED
  BY <1>2, NothingCounted DEF CapInv, Init

\* No step of any call breaks the cap.
LEMMA CapNext == IInv /\ IInv' /\ CapInv /\ [Next]_vars => CapInv'
<1>. SUFFICES ASSUME IInv, IInv', CapInv, [Next]_vars
              PROVE  CapInv'
  OBVIOUS
<1>1. ASSUME NEW c \in Call, NEW p \in Pair, Send(c, p) \/ Accept(c, p) \/ Leave(c, p)
      PROVE  CapInv'
  BY <1>1, CapLook
<1>2. ASSUME NEW c \in Call, LockOwn(c) \/ LockOther(c) \/ Count(c) \/ Rollback(c)
      PROVE  CapInv'
  BY <1>2, CapLook
<1>3. ASSUME NEW c \in Call, InsertFriendship(c)
      PROVE  CapInv'
  BY <1>3, CapFriendship
<1>4. CASE (\E c \in Call : InsertRequest(c) \/ Delete(c)) \/ (\E p \in Pair : Decline(p) \/ Cancel(p) \/ Unblock(p))
  BY <1>4, CapWrite
<1>5. CASE UNCHANGED vars
  BY <1>5, CapKept DEF vars
<1>. QED
  BY <1>1, <1>2, <1>3, <1>4, <1>5 DEF Next

\* Nobody ever has more friends than MAX_FRIENDS, for any number of users and
\* calls, unless an acceptance was written after another had changed what it
\* had counted: assertFriendCapacity checks both sides, and locks neither.
THEOREM CapAlwaysHolds == Spec => []CapHolds
<1>1. CapInv => CapHolds
  BY DEF CapInv
<1>. QED
  BY <1>1, InvariantInit, InvariantNext, CapInit, CapNext, PTL DEF Spec

=============================================================================
